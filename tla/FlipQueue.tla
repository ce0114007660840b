----------------------------- MODULE FlipQueue -----------------------------
(***************************************************************************)
(* modules/pvr: the command queues of queue.c with the swap chains of      *)
(* deviceclass.c that own them.  A flip is a command that reads one or two *)
(* buffers; it waits for the renders into them that were ordered before    *)
(* it, and a render waits for the flips ordered before it, by counting     *)
(* operations pending and complete on each buffer.  Threads:               *)
(*   one ioctl at a time, under the bridge mutex: create and destroy a     *)
(*     chain, order a render, order a flip;                                *)
(*   Walkers, who go through the list of queues: the MISR, and the         *)
(*     watchdog after a recovery;                                          *)
(*   the display and the core, which complete what was started.            *)
(* The display driver, omaplfb, has one swap chain at a time: a second one *)
(* is refused after its queue was made.                                    *)
(* Flips have no destination syncs and one kind of command exists, with    *)
(* one COMMAND_COMPLETE_DATA, as in every call of PVRSRVInsertCommandKM.   *)
(* So CheckIfSyncIsQueued changes nothing: a command whose syncs it finds  *)
(* in the COMMAND_COMPLETE_DATA would wait for that to be free.  The walk  *)
(* after a recovery is as the MISR's: what its bFlush adds (SYNCOPS_STALE) *)
(* is for buffers with more complete than a command waits for, which the   *)
(* microkernel's dummy processing may leave; that is not modelled.         *)
(***************************************************************************)
EXTENDS Naturals, Sequences

CONSTANTS Chains, Buffers,      \* buffers of one chain, PVRSRV_DC_BUFFER
          Procs, Walkers, NONE,
          QUEUE,                \* commands a queue holds
          MaxOrders, MaxOpens   \* bounds: renders and flips, creations

ASSUME FlipAssumption == QUEUE \in Nat

VARIABLES list,                 \* psQueueList, newest first
          freed,                \* queues whose memory was given back
          queue,                \* chain -> commands
          alive,                \* chains the display driver knows
          refs,                 \* chain -> who holds references, a set
          last,                 \* psLastFlipBuffer
          wp, wc, rp, rc,       \* operations pending and complete
          renders,              \* renders the core has been given
          slot,                 \* COMMAND_COMPLETE_DATA: NONE or a command
          res,                  \* sQProcessResource: "free", or who took it
          misr,                 \* sMISRWork is queued
          op, at,               \* the ioctl: step, chain
          pc, cur,              \* each walker: step, queue (or NONE)
          owner,                \* the walker that took the lock last (history)
          robbed,               \* a walker gave back another's lock (history)
          late,                 \* a queue was left behind (history)
          orders, opens         \* counted for the bounds

syncs == <<wp, wc, rp, rc, renders, orders>>
chains == <<alive, refs, last, opens>>
walkers == <<pc, cur, owner, robbed>>
vars == <<list, freed, queue, alive, refs, last, opens, wp, wc, rp, rc, renders, orders, slot,
          res, misr, op, at, pc, cur, owner, robbed, late>>

Syncs == Chains \X Buffers
Command(c, src) == [chain |-> c, src |-> src, w |-> [s \in src |-> wp[s]], r |-> [s \in src |-> rp[s]]]

TypeOK ==
  /\ list \in Seq(Chains) /\ freed \subseteq Chains /\ alive \subseteq Chains
  /\ \A c \in Chains : Len(queue[c]) <= QUEUE /\ refs[c] \subseteq Procs
  /\ \A s \in Syncs : wc[s] <= wp[s] /\ rc[s] <= rp[s]
  /\ res \in {"free", "kernel", "isr"} /\ op \in {"idle", "link", "linked", "drain", "unlink", "unlinked", "close"}
  /\ op \in {"drain", "unlink"} => \E i \in 1 .. Len(list) : list[i] = at
  /\ pc \in [Walkers -> {"idle", "spin", "walk", "done"}] /\ misr \in BOOLEAN

Init ==
  /\ list = <<>> /\ freed = Chains /\ queue = [c \in Chains |-> <<>>]
  /\ alive = {} /\ refs = [c \in Chains |-> {}] /\ last = [c \in Chains |-> NONE] /\ opens = 0
  /\ wp = [s \in Syncs |-> 0] /\ wc = wp /\ rp = wp /\ rc = wp /\ renders = {}
  /\ orders = 0 /\ slot = NONE /\ res = "free" /\ misr = FALSE /\ op = "idle" /\ at = NONE
  /\ pc = [w \in Walkers |-> "idle"] /\ cur = [w \in Walkers |-> NONE]
  /\ owner = NONE /\ robbed = FALSE /\ late = {}
-----------------------------------------------------------------------------
(* PVRSRVCreateDCSwapChainKM and PVRSRVCreateCommandQueueKM.  The first    *)
(* queue of the list makes the lock anew.                                  *)
(* Chains are alike: which of those that are not in use is taken makes no  *)
(* difference.                                                             *)
Unused(c) == c \in freed /\ c \notin alive /\ refs[c] = {}
Create(p, c) ==
  /\ op = "idle" /\ Unused(c) /\ c = CHOOSE x \in Chains : Unused(x)
  /\ opens < MaxOpens
  /\ op' = "link" /\ at' = c /\ opens' = opens + 1 /\ refs' = [refs EXCEPT ![c] = {p}]
  /\ res' = IF list = <<>> THEN "free" ELSE res
  /\ UNCHANGED <<list, freed, queue, alive, last, syncs, slot, misr, walkers, late>>

(* One try: when a walker has the lock the chain is not created.           *)
LinkRefused ==
  /\ op = "link" /\ res # "free" /\ op' = "idle" /\ at' = NONE
  /\ refs' = [refs EXCEPT ![at] = {}]
  /\ UNCHANGED <<list, freed, queue, alive, last, opens, syncs, slot, res, misr, walkers, late>>

Link ==
  /\ op = "link" /\ res = "free" /\ res' = "kernel" /\ op' = "linked"
  /\ list' = <<at>> \o list /\ freed' = freed \ {at}
  /\ UNCHANGED <<queue, chains, syncs, slot, misr, at, walkers, late>>

Unlocked == IF res = "kernel" THEN "free" ELSE res

Created ==
  /\ op = "linked" /\ alive = {} /\ res' = Unlocked
  /\ op' = "idle" /\ at' = NONE
  /\ alive' = {at} /\ last' = [last EXCEPT ![at] = NONE]
  /\ UNCHANGED <<list, freed, queue, refs, opens, syncs, slot, misr, walkers, late>>

(* The display has a chain: the new queue is destroyed again.              *)
Refused ==
  /\ op = "linked" /\ alive # {} /\ res' = Unlocked
  /\ op' = "drain" /\ refs' = [refs EXCEPT ![at] = {}]
  /\ UNCHANGED <<list, freed, queue, alive, last, opens, syncs, slot, misr, at, walkers, late>>

(* A shared chain is found by its number and referred to.                  *)
Share(p, c) ==
  /\ op = "idle" /\ c \in alive /\ refs[c] # {} /\ p \notin refs[c]
  /\ refs' = [refs EXCEPT ![c] = @ \cup {p}]
  /\ UNCHANGED <<list, freed, queue, alive, last, opens, syncs, slot, res, misr, op, at, walkers, late>>

(* SGXDoKickKM with a buffer as its target.                                *)
Render(p, c, b) ==
  LET s == <<c, b>> IN
  /\ op = "idle" /\ p \in refs[c] /\ orders < MaxOrders /\ orders' = orders + 1
  /\ renders' = renders \cup {[sync |-> s, w |-> wp[s], r |-> rp[s]]}
  /\ wp' = [wp EXCEPT ![s] = @ + 1]
  /\ UNCHANGED <<list, freed, queue, chains, wc, rp, rc, slot, res, misr, op, at, walkers, late>>

(* PVRSRVSwapToDCBufferKM: PVRSRVInsertCommandKM counts the reads,         *)
(* PVRSRVSubmitCommandKM shows the command, the MISR is scheduled.  The    *)
(* buffer that was flipped to before is read too: it is on the screen      *)
(* until this flip is done.                                                *)
Sources(c, b) == {<<c, b>>} \cup (IF last[c] # NONE THEN {<<c, last[c]>>} ELSE {})

Flip(p, c, b) ==
  LET src == Sources(c, b) IN
  /\ op = "idle" /\ p \in refs[c] /\ Len(queue[c]) < QUEUE
  /\ orders < MaxOrders /\ orders' = orders + 1
  /\ queue' = [queue EXCEPT ![c] = Append(@, Command(c, src))]
  /\ rp' = [s \in Syncs |-> rp[s] + (IF s \in src THEN 1 ELSE 0)]
  /\ last' = [last EXCEPT ![c] = b] /\ misr' = TRUE
  /\ UNCHANGED <<list, freed, alive, refs, opens, wp, wc, rc, renders, slot, res, op, at, walkers, late>>

(* DestroyDCSwapChainRefCallBack: the last reference destroys the chain.   *)
Destroy(p, c) ==
  /\ op = "idle" /\ c \in alive /\ p \in refs[c] /\ refs' = [refs EXCEPT ![c] = @ \ {p}]
  /\ IF refs[c] = {p} THEN op' = "drain" /\ at' = c ELSE UNCHANGED <<op, at>>
  /\ UNCHANGED <<list, freed, queue, alive, last, opens, syncs, slot, res, misr, walkers, late>>

(* PVRSRVDestroyCommandQueueKM waits for the queue to run empty, gives up  *)
(* after a time, and takes the lock or gives up; DestroyDCSwapChain goes   *)
(* on in every case: the display driver's chain is destroyed.              *)
(* Seeded fault: it does not wait.                                         *)
Drained_at_once ==
  /\ op = "drain" /\ op' = "unlink"
  /\ UNCHANGED <<list, freed, queue, chains, syncs, slot, res, misr, at, walkers, late>>

Drained ==
  /\ op = "drain" /\ queue[at] = <<>> /\ op' = "unlink"
  /\ UNCHANGED <<list, freed, queue, chains, syncs, slot, res, misr, at, walkers, late>>

GiveUp ==
  /\ \/ op = "drain" /\ queue[at] # <<>>
     \/ op = "unlink" /\ res # "free"
  /\ late' = late \cup {at} /\ op' = "close"
  /\ UNCHANGED <<list, freed, queue, chains, syncs, slot, res, misr, at, walkers>>

(* The queue is in the list since it was linked.                           *)
At(i) == list[i] = at
Removed(i) == SubSeq(list, 1, i - 1) \o SubSeq(list, i + 1, Len(list))

(* Seeded fault: the list is changed without the lock.                     *)
Unlink_unlocked ==
  /\ op = "unlink" /\ op' = "unlinked"
  /\ \E i \in 1 .. Len(list) : At(i) /\ list' = Removed(i)
  /\ freed' = freed \cup {at}
  /\ UNCHANGED <<queue, chains, syncs, slot, res, misr, at, walkers, late>>

Unlink ==
  /\ op = "unlink" /\ res = "free" /\ res' = "kernel" /\ op' = "unlinked"
  /\ \E i \in 1 .. Len(list) : At(i) /\ list' = Removed(i)
  /\ freed' = freed \cup {at}
  /\ UNCHANGED <<queue, chains, syncs, slot, misr, at, walkers, late>>

Destroyed ==
  /\ op = "unlinked"
  /\ res' = IF list = <<>> THEN "free" ELSE Unlocked
  /\ op' = "close"
  /\ UNCHANGED <<list, freed, queue, chains, syncs, slot, misr, at, walkers, late>>

(* The display's chain goes when its work queue has flipped what it was    *)
(* given.  A chain that was refused never was the display's.               *)
Flipping(c) == slot # NONE /\ slot.chain = c
Closed ==
  /\ op = "close" /\ ~(at \in alive /\ Flipping(at))
  /\ alive' = alive \ {at} /\ op' = "idle" /\ at' = NONE
  /\ UNCHANGED <<list, freed, queue, refs, last, opens, syncs, slot, res, misr, walkers, late>>
-----------------------------------------------------------------------------
(* PVRSRVProcessQueues.                                                    *)
Enter(w) ==
  /\ pc[w] = "idle" /\ (w = "misr" => misr) /\ misr' = IF w = "misr" THEN FALSE ELSE misr
  /\ pc' = [pc EXCEPT ![w] = "spin"]
  /\ UNCHANGED <<list, freed, queue, chains, syncs, slot, res, op, at, cur, owner, robbed, late>>

Lock(w) ==
  /\ pc[w] = "spin" /\ res = "free" /\ res' = "isr" /\ owner' = w
  /\ pc' = [pc EXCEPT ![w] = IF list = <<>> THEN "done" ELSE "walk"]
  /\ cur' = [cur EXCEPT ![w] = IF list = <<>> THEN NONE ELSE Head(list)]
  /\ UNCHANGED <<list, freed, queue, chains, syncs, slot, misr, op, at, robbed, late>>

(* PVRSRVProcessCommand: every read waits for the writes and reads that    *)
(* were ordered before it, and for the display to take commands.           *)
(* Seeded fault: a dependency is forgotten.                                *)
Ready_reads(cmd) == \A s \in cmd.src : rc[s] = cmd.r[s]
Ready(cmd) == \A s \in cmd.src : wc[s] = cmd.w[s] /\ rc[s] = cmd.r[s]
Idle == slot = NONE

Startable(c) == queue[c] # <<>> /\ Ready(Head(queue[c])) /\ Idle

Start(w) ==
  LET c == cur[w] IN
  /\ pc[w] = "walk" /\ Startable(c)
  /\ slot' = Head(queue[c]) /\ queue' = [queue EXCEPT ![c] = Tail(@)]
  /\ UNCHANGED <<list, freed, chains, syncs, res, misr, op, at, walkers, late>>

(* psNextKM of the queue under the walker's hands.                         *)
After(c) ==
  IF \E i \in 1 .. Len(list) - 1 : list[i] = c
  THEN list[(CHOOSE i \in 1 .. Len(list) - 1 : list[i] = c) + 1] ELSE NONE

Move(w) ==
  /\ pc[w] = "walk" /\ ~Startable(cur[w])
  /\ cur' = [cur EXCEPT ![w] = After(cur[w])]
  /\ pc' = [pc EXCEPT ![w] = IF After(cur[w]) = NONE THEN "done" ELSE "walk"]
  /\ UNCHANGED <<list, freed, queue, chains, syncs, slot, res, misr, op, at, owner, robbed, late>>

(* OSUnlockResource gives the lock back if it bears ISR_ID, as the lock of *)
(* every walker does.                                                      *)
Leave(w) ==
  /\ pc[w] = "done" /\ res' = IF res = "isr" THEN "free" ELSE res
  /\ robbed' = (robbed \/ (res = "isr" /\ owner # w))
  /\ pc' = [pc EXCEPT ![w] = "idle"]
  /\ UNCHANGED <<list, freed, queue, chains, syncs, slot, misr, op, at, cur, owner, late>>

-----------------------------------------------------------------------------
(* The display is done with a flip: PVRSRVCommandCompleteKM.  A flip of a  *)
(* chain that was destroyed is accepted and forgotten (ProcessFlipV1), and *)
(* never done.                                                             *)
ReadsDone(cmd) == [s \in Syncs |-> rc[s] + (IF s \in cmd.src THEN 1 ELSE 0)]

FlipDone ==
  /\ slot # NONE /\ slot.chain \in alive /\ rc' = ReadsDone(slot) /\ slot' = NONE /\ misr' = TRUE
  /\ UNCHANGED <<list, freed, queue, chains, wp, wc, rp, renders, orders, res, op, at, walkers, late>>

(* The core does a render whose turn has come; its interrupt schedules the *)
(* MISR.                                                                   *)
RenderDone ==
  \E j \in renders :
    /\ wc[j.sync] = j.w /\ rc[j.sync] = j.r
    /\ wc' = [wc EXCEPT ![j.sync] = @ + 1] /\ renders' = renders \ {j} /\ misr' = TRUE
    /\ UNCHANGED <<list, freed, queue, chains, wp, rp, rc, orders, slot, res, op, at, walkers, late>>
-----------------------------------------------------------------------------
Ioctl == LinkRefused \/ Link \/ Created \/ Refused \/ Drained \/ GiveUp \/ Unlink \/ Destroyed \/ Closed
Walk(w) == Lock(w) \/ Start(w) \/ Move(w) \/ Leave(w)

Next ==
  \/ \E p \in Procs, c \in Chains :
       \/ Create(p, c) \/ Share(p, c) \/ Destroy(p, c)
       \/ \E b \in Buffers : Render(p, c, b) \/ Flip(p, c, b)
  \/ Ioctl \/ FlipDone \/ RenderDone
  \/ \E w \in Walkers : Enter(w) \/ Walk(w)

(* The work queue runs the MISR, the display and the core finish.          *)
Fair == /\ WF_vars(FlipDone) /\ WF_vars(RenderDone) /\ WF_vars(Ioctl)
        /\ WF_vars("misr" \in Walkers /\ Enter("misr")) /\ \A w \in Walkers : SF_vars(Walk(w))

Spec == Init /\ [][Next]_vars
FairSpec == Spec /\ Fair
-----------------------------------------------------------------------------
(* While the display shows a flip no render into its buffers is complete   *)
(* that was ordered after it (queue.c:951, 975; the counts of 1248, 1266). *)
ShowsWhatWasOrdered == slot # NONE => \A s \in slot.src : wc[s] = slot.w[s]

(* The queue a walker stands on is not freed ("Ensure we don't corrupt     *)
(* queue list, by blocking access", queue.c:442, 1129), until a walker has *)
(* given back the lock of another: the lock is made anew over the head of  *)
(* one who goes through an empty list.                                     *)
QueueKept == robbed \/ \A w \in Walkers : pc[w] = "walk" => cur[w] \notin freed

(* What every state of the list of queues keeps.                           *)
ListIsSafe == TypeOK /\ QueueKept

(* What was queued is flipped in the end, in any order of renders, flips   *)
(* and processes, unless a queue was given up on and the display has been  *)
(* handed its flip after the chain was gone, or a walker lost its lock.    *)
FlipsHappen ==
  \A c \in Chains :
    queue[c] # <<>> ~> (queue[c] = <<>> \/ robbed \/ \E d \in late \ alive : Flipping(d))
=============================================================================
