--------------------------- MODULE GraphicsProofs ---------------------------
(***************************************************************************)
(* Proofs about the graphics driver and the I/O scheduler.                 *)
(*                                                                         *)
(* First what the display shows, of FlipQueue for any number of chains,    *)
(* buffers, processes and walkers, and whether or not a queue is freed     *)
(* under one of them.  Then the parts beside it, of GfxSpec: the power     *)
(* management, the fifos, the mappings and what processes hold.  At the    *)
(* end the list of queues, of FlipQueue with one walker.                   *)
(***************************************************************************)
EXTENDS MCGraphics, FiniteSetTheorems, SequenceTheorems, TLAPS

-----------------------------------------------------------------------------
(* The inductive invariant.                                                *)

Counts == [Syncs -> Nat]
Jobs == [sync : Syncs, w : Nat, r : Nat]
Commands ==
  UNION {[chain : Chains, src : {A}, w : [A -> Nat], r : [A -> Nat]] : A \in SUBSET Syncs}

(* A flip and a render of one buffer are ordered one way or the other: the *)
(* render that does not come before the flip waits for the flip's read.    *)
Fine(cmd) ==
  \A s \in cmd.src :
    /\ cmd.r[s] < rp[s]
    /\ \A j \in renders : j.sync = s /\ cmd.w[s] <= j.w => cmd.r[s] < j.r
Ordered == {cmd \in Commands : Fine(cmd)}

OrderInv ==
  /\ wp \in Counts /\ wc \in Counts /\ rp \in Counts /\ rc \in Counts
  /\ last \in [Chains -> Buffers \cup {NONE}]
  /\ renders \subseteq Jobs /\ \A j \in renders : j.w < wp[j.sync]
  /\ queue \in [Chains -> Seq(Ordered)]

(* The flip on the display: all that it waited for is done, and no more.   *)
Turn(cmd) == \A s \in cmd.src : wc[s] = cmd.w[s] /\ rc[s] = cmd.r[s]
SlotInv == slot # NONE => slot \in Ordered /\ Turn(slot)

(* Where the walkers are.                                                  *)
WalkInv ==
  /\ list \in Seq(Chains) /\ (op = "link" => at \in Chains)
  /\ pc \in [Walkers -> {"idle", "spin", "walk", "done"}] /\ cur \in [Walkers -> Chains \cup {NONE}]
  /\ \A w \in Walkers : pc[w] = "walk" => cur[w] \in Chains

ShowInv == OrderInv /\ SlotInv /\ WalkInv

LEMMA ShowInvShows == ShowInv => ShowsWhatWasOrdered
BY DEF ShowInv, SlotInv, Turn, ShowsWhatWasOrdered

LEMMA ShowInvInit == Init => ShowInv
<1> SUFFICES ASSUME Init PROVE ShowInv
  OBVIOUS
<1>1. OrderInv
  <2>1. <<>> \in Seq(Ordered)
    OBVIOUS
  <2> QED
    BY <2>1 DEF Init, OrderInv, Counts
<1>2. SlotInv
  BY DEF Init, SlotInv
<1>3. WalkInv
  <2>1. /\ list = <<>> /\ op = "idle"
        /\ pc = [w \in Walkers |-> "idle"] /\ cur = [w \in Walkers |-> NONE]
    BY DEF Init
  <2>2. <<>> \in Seq(Chains)
    OBVIOUS
  <2> QED
    BY <2>1, <2>2 DEF WalkInv
<1> QED
  BY <1>1, <1>2, <1>3 DEF ShowInv

-----------------------------------------------------------------------------
(* Commands                                                                *)

LEMMA CommandType ==
  ASSUME NEW cmd \in Commands
  PROVE  /\ cmd.chain \in Chains /\ cmd.src \subseteq Syncs
         /\ cmd.w \in [cmd.src -> Nat] /\ cmd.r \in [cmd.src -> Nat]
BY DEF Commands

LEMMA SeqMonotone ==
  ASSUME NEW A, NEW B, A \subseteq B, NEW s \in Seq(A)
  PROVE  s \in Seq(B)
<1>1. Len(s) \in Nat /\ s \in [1 .. Len(s) -> A]
  BY LenProperties
<1>2. s \in [1 .. Len(s) -> B]
  BY <1>1
<1> QED
  BY <1>1, <1>2, SeqDef

(* More reads are ordered, and renders are done.                           *)
LEMMA OrderedKept ==
  ASSUME OrderInv, rp' \in Counts, \A s \in Syncs : rp[s] <= rp'[s], renders' \subseteq renders
  PROVE  Ordered \subseteq Ordered'
<1> SUFFICES ASSUME NEW cmd \in Ordered PROVE cmd \in Ordered'
  OBVIOUS
<1>1. cmd \in Commands /\ Fine(cmd)
  BY DEF Ordered
<1>2. ASSUME NEW s \in cmd.src
      PROVE  /\ cmd.r[s] < rp'[s]
             /\ \A j \in renders' : j.sync = s /\ cmd.w[s] <= j.w => cmd.r[s] < j.r
  <2>1. s \in Syncs /\ cmd.r[s] \in Nat
    BY <1>1, CommandType
  <2> QED
    BY <1>1, <2>1 DEF Fine, OrderInv, Counts
<1> QED
  BY <1>1, <1>2 DEF Ordered, Fine, Commands

-----------------------------------------------------------------------------
LEMMA RemovedIsSeq ==
  ASSUME list \in Seq(Chains), NEW i \in 1 .. Len(list)
  PROVE  Removed(i) \in Seq(Chains)
<1>1. Len(list) \in Nat /\ \A k \in 1 .. Len(list) : list[k] \in Chains
  BY LenProperties, ElementOfSeq
<1>2. SubSeq(list, 1, i - 1) \in Seq(Chains)
  BY <1>1, SubSeqProperties
<1>3. SubSeq(list, i + 1, Len(list)) \in Seq(Chains)
  BY <1>1, SubSeqProperties
<1> QED
  BY <1>2, <1>3, ConcatProperties DEF Removed

LEMMA AfterType ==
  ASSUME list \in Seq(Chains), NEW c
  PROVE  After(c) \in Chains \cup {NONE}
<1>1. Len(list) \in Nat /\ \A k \in 1 .. Len(list) : list[k] \in Chains
  BY LenProperties, ElementOfSeq
<1>2. CASE \E i \in 1 .. Len(list) - 1 : list[i] = c
  <2>1. PICK i \in 1 .. Len(list) - 1 : i = CHOOSE k \in 1 .. Len(list) - 1 : list[k] = c
    BY <1>2, Zenon
  <2>2. list[i + 1] \in Chains
    BY <1>1
  <2> QED
    BY <1>2, <2>1, <2>2 DEF After
<1> QED
  BY <1>2 DEF After

LEMMA WalkInvStep == WalkInv /\ [Next]_vars => WalkInv'
<1> SUFFICES ASSUME WalkInv, [Next]_vars PROVE WalkInv'
  OBVIOUS
<1> USE DEF WalkInv
<1>1. ASSUME UNCHANGED <<list, pc, cur>>, op' # "link" PROVE WalkInv'
  BY <1>1
<1>2. CASE UNCHANGED vars
  BY <1>2 DEF vars
<1>3. ASSUME NEW p \in Procs, NEW c \in Chains, Create(p, c) PROVE WalkInv'
  BY <1>3 DEF Create, walkers
<1>4. ASSUME NEW p \in Procs, NEW c \in Chains,
             Share(p, c) \/ Destroy(p, c) \/ \E b \in Buffers : Render(p, c, b) \/ Flip(p, c, b)
      PROVE  WalkInv'
  BY <1>4 DEF Share, Destroy, Render, Flip, walkers
<1>5. CASE LinkRefused \/ Created \/ Refused \/ Drained \/ GiveUp \/ Destroyed \/ Closed
  BY <1>1, <1>5 DEF LinkRefused, Created, Refused, Drained, GiveUp, Destroyed, Closed, walkers
<1>6. CASE Link
  <2>1. list' = <<at>> \o list /\ at \in Chains /\ op' = "linked" /\ UNCHANGED <<pc, cur>>
    BY <1>6 DEF Link, walkers
  <2>2. <<at>> \in Seq(Chains)
    BY <2>1
  <2>3. list' \in Seq(Chains)
    BY <2>1, <2>2, ConcatProperties
  <2> QED
    BY <2>1, <2>3
<1>7. CASE Unlink
  <2>1. list' \in Seq(Chains) /\ op' = "unlinked" /\ UNCHANGED <<pc, cur>>
    BY <1>7, RemovedIsSeq DEF Unlink, walkers
  <2> QED
    BY <2>1
<1>8. CASE FlipDone \/ RenderDone
  BY <1>8 DEF FlipDone, RenderDone, walkers
<1>9. ASSUME NEW w \in Walkers, Enter(w) \/ Leave(w) PROVE WalkInv'
  BY <1>9 DEF Enter, Leave
<1>10. ASSUME NEW w \in Walkers, Lock(w) PROVE WalkInv'
  <2>1. list # <<>> => Head(list) \in Chains
    BY HeadTailProperties
  <2> QED
    BY <1>10, <2>1 DEF Lock
<1>11. ASSUME NEW w \in Walkers, Start(w) PROVE WalkInv'
  BY <1>11 DEF Start, walkers
<1>12. ASSUME NEW w \in Walkers, Move(w) PROVE WalkInv'
  <2>1. PICK n : n = After(cur[w])
    OBVIOUS
  <2>2. n \in Chains \cup {NONE}
    BY <2>1, AfterType
  <2>3. /\ cur' = [cur EXCEPT ![w] = n] /\ pc' = [pc EXCEPT ![w] = IF n = NONE THEN "done" ELSE "walk"]
        /\ UNCHANGED <<list, op, at>>
    BY <1>12, <2>1 DEF Move
  <2> QED
    BY <2>2, <2>3
<1> QED
  BY <1>2, <1>3, <1>4, <1>5, <1>6, <1>7, <1>8, <1>9, <1>10, <1>11, <1>12 DEF Next, Ioctl, Walk

(* The ioctls that order nothing, and the walkers but for Start.           *)
Resting == <<queue, last, wp, wc, rp, rc, renders, slot>>

LEMMA RestingKeeps ==
  ASSUME OrderInv, SlotInv, UNCHANGED Resting
  PROVE  OrderInv' /\ SlotInv'
<1>1. Ordered' = Ordered
  BY DEF Ordered, Fine, Commands, Syncs, Resting
<1> QED
  BY <1>1 DEF OrderInv, SlotInv, Turn, Counts, Jobs, Syncs, Resting

LEMMA CreatedKeeps ==
  ASSUME OrderInv, SlotInv, Created
  PROVE  OrderInv' /\ SlotInv'
<1>1. /\ UNCHANGED <<queue, wp, wc, rp, rc, renders, slot>> /\ last' = [last EXCEPT ![at] = NONE]
  BY DEF Created, syncs
<1>2. Ordered' = Ordered
  BY <1>1 DEF Ordered, Fine, Commands, Syncs
<1>3. last' \in [Chains -> Buffers \cup {NONE}]
  BY <1>1 DEF OrderInv
<1> QED
  BY <1>1, <1>2, <1>3 DEF OrderInv, SlotInv, Turn, Counts, Jobs, Syncs

(* A render is ordered after every flip that was.                          *)
LEMMA RenderKeeps ==
  ASSUME OrderInv, SlotInv, NEW p \in Procs, NEW c \in Chains, NEW b \in Buffers, Render(p, c, b)
  PROVE  OrderInv' /\ SlotInv'
<1> DEFINE s == <<c, b>>
           new == [sync |-> s, w |-> wp[s], r |-> rp[s]]
<1>1. s \in Syncs
  BY DEF Syncs
<1>2. /\ renders' = renders \cup {new} /\ wp' = [wp EXCEPT ![s] = @ + 1]
      /\ UNCHANGED <<queue, last, wc, rp, rc, slot>>
  BY DEF Render, chains
<1> HIDE DEF s
<1>3. wp \in Counts /\ rp \in Counts /\ renders \subseteq Jobs
  BY DEF OrderInv
<1>4. wp' \in Counts /\ \A x \in Syncs : wp[x] <= wp'[x] /\ wp[s] < wp'[s]
  BY <1>1, <1>2, <1>3 DEF Counts
<1>5. new \in Jobs
  BY <1>1, <1>3 DEF Jobs, Counts
<1>6. renders' \subseteq Jobs /\ \A j \in renders' : j.w < wp'[j.sync]
  <2>1. ASSUME NEW j \in renders PROVE j.w < wp'[j.sync]
    BY <1>3, <1>4 DEF OrderInv, Jobs, Counts
  <2>2. new.w < wp'[new.sync]
    BY <1>1, <1>3, <1>4 DEF Counts
  <2> QED
    BY <1>2, <1>3, <1>5, <2>1, <2>2
<1>7. Ordered \subseteq Ordered'
  <2> SUFFICES ASSUME NEW cmd \in Ordered PROVE cmd \in Ordered'
    OBVIOUS
  <2>1. cmd \in Commands /\ Fine(cmd)
    BY DEF Ordered
  <2>2. ASSUME NEW x \in cmd.src, NEW j \in renders', j.sync = x, cmd.w[x] <= j.w
        PROVE  cmd.r[x] < j.r
    <3>1. CASE j \in renders
      BY <2>1, <2>2, <3>1 DEF Fine
    <3>2. CASE j = new
      BY <2>1, <2>2, <3>2 DEF Fine
    <3> QED
      BY <1>2, <3>1, <3>2
  <2> QED
    BY <1>2, <2>1, <2>2 DEF Ordered, Fine, Commands
<1>8. queue' \in [Chains -> Seq(Ordered')]
  BY <1>2, <1>7, SeqMonotone DEF OrderInv
<1> QED
  BY <1>2, <1>4, <1>6, <1>7, <1>8 DEF OrderInv, SlotInv, Turn, Counts

(* A flip is ordered after every render that was, and reads what is        *)
(* counted for it.                                                         *)
LEMMA CommandIs ==
  ASSUME OrderInv, NEW c \in Chains, NEW src \in SUBSET Syncs
  PROVE  /\ Command(c, src) \in Commands /\ Command(c, src).src = src
         /\ \A s \in src : Command(c, src).w[s] = wp[s] /\ Command(c, src).r[s] = rp[s]
<1> DEFINE w == [s \in src |-> wp[s]]
           r == [s \in src |-> rp[s]]
<1>1. w \in [src -> Nat] /\ r \in [src -> Nat]
  BY DEF OrderInv, Counts
<1>2. Command(c, src) = [chain |-> c, src |-> src, w |-> w, r |-> r]
  BY DEF Command
<1>3. Command(c, src) \in [chain : Chains, src : {src}, w : [src -> Nat], r : [src -> Nat]]
  BY <1>1, <1>2
<1> QED
  BY <1>2, <1>3 DEF Commands

LEMMA FlipKeeps ==
  ASSUME OrderInv, SlotInv, NEW p \in Procs, NEW c \in Chains, NEW b \in Buffers, Flip(p, c, b)
  PROVE  OrderInv' /\ SlotInv'
<1>0. Sources(c, b) \subseteq Syncs
  <2>1. last[c] # NONE => last[c] \in Buffers
    BY DEF OrderInv
  <2> QED
    BY <2>1 DEF Sources, Syncs
<1> PICK src \in SUBSET Syncs : src = Sources(c, b)
  BY <1>0
<1> PICK new \in Commands : /\ new = Command(c, src) /\ new.src = src
                           /\ \A s \in src : new.w[s] = wp[s] /\ new.r[s] = rp[s]
  BY CommandIs
<1>1. /\ queue' = [queue EXCEPT ![c] = Append(@, new)]
      /\ rp' = [s \in Syncs |-> rp[s] + (IF s \in src THEN 1 ELSE 0)]
      /\ last' = [last EXCEPT ![c] = b] /\ UNCHANGED <<wp, wc, rc, renders, slot>>
  BY DEF Flip
<1>2. wp \in Counts /\ rp \in Counts /\ renders \subseteq Jobs /\ \A j \in renders : j.w < wp[j.sync]
  BY DEF OrderInv
<1>3. /\ rp' \in Counts /\ \A s \in Syncs : rp[s] <= rp'[s]
      /\ \A s \in src : rp[s] < rp'[s]
  BY <1>1, <1>2 DEF Counts
<1>4. Ordered \subseteq Ordered'
  BY <1>1, <1>3, OrderedKept
<1>5. new \in Ordered'
  <2>1. ASSUME NEW s \in new.src, NEW j \in renders', j.sync = s PROVE ~(new.w[s] <= j.w)
    BY <1>1, <1>2, <2>1 DEF Jobs, Counts
  <2> QED
    BY <1>3, <2>1 DEF Ordered, Fine, Commands
<1>6. queue' \in [Chains -> Seq(Ordered')]
  <2>1. queue \in [Chains -> Seq(Ordered')]
    BY <1>4, SeqMonotone DEF OrderInv
  <2>2. Append(queue[c], new) \in Seq(Ordered')
    BY <1>5, <2>1, AppendProperties
  <2> QED
    BY <1>1, <2>1, <2>2
<1>7. last' \in [Chains -> Buffers \cup {NONE}]
  BY <1>1 DEF OrderInv
<1> QED
  BY <1>1, <1>3, <1>4, <1>6, <1>7 DEF OrderInv, SlotInv, Turn, Counts

(* The head of a queue starts when its turn has come.                      *)
LEMMA StartKeeps ==
  ASSUME OrderInv, SlotInv, WalkInv, NEW w \in Walkers, Start(w)
  PROVE  OrderInv' /\ SlotInv'
<1> PICK c \in Chains : c = cur[w]
  BY DEF Start, WalkInv
<1>1. /\ queue[c] # <<>> /\ Ready(Head(queue[c]))
      /\ slot' = Head(queue[c]) /\ queue' = [queue EXCEPT ![c] = Tail(@)]
      /\ UNCHANGED <<last, wp, wc, rp, rc, renders>>
  BY DEF Start, Startable, chains, syncs
<1>2. queue[c] \in Seq(Ordered)
  BY DEF OrderInv
<1>3. Head(queue[c]) \in Ordered /\ Tail(queue[c]) \in Seq(Ordered)
  BY <1>1, <1>2, HeadTailProperties
<1>4. Ordered' = Ordered
  BY <1>1 DEF Ordered, Fine, Commands, Syncs
<1>5. queue' \in [Chains -> Seq(Ordered')]
  BY <1>1, <1>3, <1>4 DEF OrderInv
<1>6. SlotInv'
  BY <1>1, <1>3, <1>4 DEF SlotInv, Turn, Ready
<1> QED
  BY <1>1, <1>5, <1>6 DEF OrderInv, Counts, Jobs, Syncs

(* The display is free again.                                              *)
LEMMA FlipDoneKeeps ==
  ASSUME OrderInv, SlotInv, FlipDone
  PROVE  OrderInv' /\ SlotInv'
<1>1. /\ slot' = NONE /\ rc' = [s \in Syncs |-> rc[s] + (IF s \in slot.src THEN 1 ELSE 0)]
      /\ UNCHANGED <<queue, last, wp, wc, rp, renders>>
  BY DEF FlipDone, ReadsDone, chains
<1>2. rc' \in Counts
  BY <1>1 DEF OrderInv, Counts
<1>3. Ordered' = Ordered
  BY <1>1 DEF Ordered, Fine, Commands, Syncs
<1> QED
  BY <1>1, <1>2, <1>3 DEF OrderInv, SlotInv, Counts, Jobs, Syncs

(* The render whose turn it is is not one into a buffer on the display:    *)
(* that one waits for the flip's read.                                     *)
LEMMA RenderDoneKeeps ==
  ASSUME OrderInv, SlotInv, RenderDone
  PROVE  OrderInv' /\ SlotInv'
<1> PICK j \in renders :
      /\ wc[j.sync] = j.w /\ rc[j.sync] = j.r
      /\ wc' = [wc EXCEPT ![j.sync] = @ + 1] /\ renders' = renders \ {j}
      /\ UNCHANGED <<queue, last, wp, rp, rc, slot>>
  BY DEF RenderDone, chains
<1>1. j \in Jobs /\ wc \in Counts /\ rp \in Counts /\ rc \in Counts
  BY DEF OrderInv
<1>2. wc' \in Counts /\ \A s \in Syncs : s # j.sync => wc'[s] = wc[s]
  BY <1>1 DEF Counts, Jobs
<1>3. Ordered \subseteq Ordered'
  BY <1>1, OrderedKept DEF Counts
<1>4. queue' \in [Chains -> Seq(Ordered')]
  BY <1>3, SeqMonotone DEF OrderInv
<1>5. SlotInv'
  <2> SUFFICES ASSUME slot # NONE PROVE slot \in Ordered' /\ Turn(slot)'
    BY DEF SlotInv
  <2>1. slot \in Commands /\ Fine(slot) /\ Turn(slot)
    BY DEF SlotInv, Ordered
  <2>2. ASSUME j.sync \in slot.src PROVE FALSE
    <3>1. slot.w[j.sync] = j.w /\ slot.r[j.sync] = j.r /\ j.w \in Nat /\ j.r \in Nat
      BY <1>1, <2>1, <2>2 DEF Turn, Jobs
    <3>2. slot.r[j.sync] < j.r
      BY <2>1, <2>2, <3>1 DEF Fine
    <3> QED
      BY <3>1, <3>2
  <2>3. Turn(slot)'
    BY <1>2, <2>1, <2>2, CommandType DEF Turn
  <2> QED
    BY <1>3, <2>3 DEF SlotInv
<1> QED
  BY <1>1, <1>2, <1>4, <1>5 DEF OrderInv, Counts

LEMMA ShowInvStep == ShowInv /\ [Next]_vars => ShowInv'
<1> SUFFICES ASSUME ShowInv, [Next]_vars PROVE ShowInv'
  OBVIOUS
<1>1. OrderInv /\ SlotInv /\ WalkInv /\ WalkInv'
  BY WalkInvStep DEF ShowInv
<1>2. ASSUME UNCHANGED Resting PROVE ShowInv'
  BY <1>1, <1>2, RestingKeeps DEF ShowInv
<1>3. CASE UNCHANGED vars
  BY <1>2, <1>3 DEF vars, Resting
<1>4. ASSUME NEW p \in Procs, NEW c \in Chains, Create(p, c) \/ Share(p, c) \/ Destroy(p, c)
      PROVE  ShowInv'
  BY <1>2, <1>4 DEF Create, Share, Destroy, Resting, chains, syncs
<1>5. ASSUME NEW p \in Procs, NEW c \in Chains, NEW b \in Buffers, Render(p, c, b) PROVE ShowInv'
  BY <1>1, <1>5, RenderKeeps DEF ShowInv
<1>6. ASSUME NEW p \in Procs, NEW c \in Chains, NEW b \in Buffers, Flip(p, c, b) PROVE ShowInv'
  BY <1>1, <1>6, FlipKeeps DEF ShowInv
<1>7. CASE LinkRefused \/ Link \/ Refused \/ Drained \/ GiveUp \/ Unlink \/ Destroyed \/ Closed
  BY <1>2, <1>7 DEF LinkRefused, Link, Refused, Drained, GiveUp, Unlink, Destroyed, Closed,
       Resting, chains, syncs
<1>8. CASE Created
  BY <1>1, <1>8, CreatedKeeps DEF ShowInv
<1>9. CASE FlipDone
  BY <1>1, <1>9, FlipDoneKeeps DEF ShowInv
<1>10. CASE RenderDone
  BY <1>1, <1>10, RenderDoneKeeps DEF ShowInv
<1>11. ASSUME NEW w \in Walkers, Enter(w) \/ Lock(w) \/ Move(w) \/ Leave(w) PROVE ShowInv'
  BY <1>2, <1>11 DEF Enter, Lock, Move, Leave, Resting, chains, syncs
<1>12. ASSUME NEW w \in Walkers, Start(w) PROVE ShowInv'
  BY <1>1, <1>12, StartKeeps DEF ShowInv
<1> QED
  BY <1>3, <1>4, <1>5, <1>6, <1>7, <1>8, <1>9, <1>10, <1>11, <1>12 DEF Next, Ioctl, Walk

(* While the display shows a flip, no render into its buffers is complete  *)
(* that was ordered after it.                                              *)
THEOREM ShownInOrder == Spec => []ShowsWhatWasOrdered
BY ShowInvShows, ShowInvInit, ShowInvStep, PTL DEF Spec
-----------------------------------------------------------------------------
(* The power management among the parts that MCGraphics composes.  P is    *)
(* SgxPower once more, with its theorems: its definitions and those of G   *)
(* stand for the same formulas.                                            *)
P == INSTANCE SgxPowerProofs WITH
       bridge <- gbridge, lock <- glock, misr <- gmisr, status <- gstatus, pc <- gpc,
       gaveup <- ggaveup, Budgets <- MCBudgets

LEMMA PowerSame == G!Next => P!Next
BY DEF G!Next, P!Next, G!host, P!host, G!watch, P!watch, G!uk, P!uk, G!ghost, P!ghost, G!FREE,
       P!FREE, G!Runners, P!Runners, G!Locked, P!Locked, G!Goto, P!Goto, G!Spend, P!Spend,
       G!PowerLock, P!PowerLock, G!PowerLockRefused, P!PowerLockRefused, G!Write, P!Write,
       G!AppKick, P!AppKick, G!AppLock, P!AppLock, G!ProcessQueuesKM, P!ProcessQueuesKM,
       G!PowerUp, P!PowerUp, G!PowerUpFails, P!PowerUpFails, G!WriteCommand, P!WriteCommand,
       G!Unlock, P!Unlock, G!Disable, P!Disable, G!TimerQuiet, P!TimerQuiet, G!Flush, P!Flush,
       G!Delete, P!Delete, G!FlushAgain, P!FlushAgain, G!SendOff, P!SendOff, G!SendOffFails,
       P!SendOffFails, G!AwaitOff, P!AwaitOff, G!CutPower, P!CutPower, G!MisrStart, P!MisrStart,
       G!Begin, P!Begin, G!TestActive, P!TestActive, G!TryActive, P!TryActive, G!StillIdle,
       P!StillIdle, G!Recheck, P!Recheck, G!Restarts, P!Restarts, G!PostActive, P!PostActive,
       G!AfterReset, P!AfterReset, G!ProcessQueues, P!ProcessQueues, G!TimerFires, P!TimerFires,
       G!TimerStart, P!TimerStart, G!TimerLook, P!TimerLook, G!TimerRead, P!TimerRead, G!Reset,
       P!Reset, G!Reinit, P!Reinit, G!TimerRearm, P!TimerRearm, G!Suspend, P!Suspend,
       G!SuspendLock, P!SuspendLock, G!Sleep, P!Sleep, G!Wake, P!Wake, G!Woken, P!Woken,
       G!Resumed, P!Resumed, G!Running, P!Running, G!UkRead, P!UkRead, G!UkFinish, P!UkFinish,
       G!UkIdle, P!UkIdle, G!UkClear, P!UkClear, G!UkReady, P!UkReady, G!UkHang, P!UkHang,
       G!PowerOff, P!PowerOff, G!Call, P!Call, G!App, P!App, G!Recover, P!Recover, G!Misr,
       P!Misr, G!Timer, P!Timer, G!Pm, P!Pm, G!Uk, P!Uk

(* Every behaviour of the composed parts is one of the power management,   *)
(* which rests while another part moves.                                   *)
LEMMA PowerPart == GfxSpec => P!Spec
<1>1. GfxInit => P!Init
  BY DEF GfxInit, G!Init, P!Init, G!FREE, P!FREE, G!Runners, P!Runners
<1>2. [GfxNext]_all => [P!Next]_(P!vars)
  BY PowerSame DEF GfxNext, all, power, P!vars, P!host
<1> QED
  BY <1>1, <1>2, PTL DEF GfxSpec, P!Spec

(* The watchdog touches the core only with its clocks on, the core is dark *)
(* while the system sleeps and the power lock is released: for any size of *)
(* the command buffer and any count that means a lockup.                   *)
THEOREM PowerSafe == GfxSpec => []PowerIsSafe
<1>1. P!PowerIsSafe => PowerIsSafe
  BY DEF PowerIsSafe, G!PowerIsSafe, P!PowerIsSafe, G!TypeOK, P!TypeOK, G!WatchedWithClocks,
         P!WatchedWithClocks, G!SleepsDark, P!SleepsDark, G!LockIsReleased, P!LockIsReleased,
         G!FREE, P!FREE, G!Runners, P!Runners, G!Locked, P!Locked
<1>2. P!Spec => []P!PowerIsSafe
  BY MCGraphicsAssumption, P!PowerSafe DEF G!SgxAssumption, P!SgxAssumption
<1> QED
  BY <1>1, <1>2, PowerPart, PTL

(* The core is switched off for being idle only on a word of the           *)
(* microkernel's that no kick has crossed.                                 *)
THEOREM IdleFresh == GfxSpec => IdleIsFresh
<1>1. P!Spec => P!IdleIsFresh
  BY MCGraphicsAssumption, P!IdleFresh DEF G!SgxAssumption, P!SgxAssumption
<1>2. P!IdleIsFresh => IdleIsFresh
  BY DEF IdleIsFresh, G!IdleIsFresh, P!IdleIsFresh, G!vars, P!vars, G!host, P!host
<1> QED
  BY <1>1, <1>2, PowerPart
-----------------------------------------------------------------------------
(* The I/O scheduler                                                       *)

OfClass(k) == {r \in Requests : Class[r] = k}

(* What a fifo holds is of its class.  Reads that pass a waiting write are *)
(* counted in starved; only the first dispatch of a batch may add one to   *)
(* those that exceed writes_starved, and the next dispatch is no expired   *)
(* request's.                                                              *)
SioInv ==
  /\ fifo \in [S!Classes -> Seq(Requests)] /\ \A k \in S!Classes : fifo[k] \in Seq(OfClass(k))
  /\ batched \in Nat /\ starved \in 0..HUGE /\ passed \in 0..starved
  /\ writes_starved \in Settings \cup {HUGE}
  /\ writes_starved # HUGE =>
       passed <= writes_starved + 2 /\ (passed = writes_starved + 2 => batched <= 1)

LEMMA SioAssumed == S!SioAssumption
BY MCGraphicsAssumption

LEMMA SioInvInit == S!Init => SioInv
<1> SUFFICES ASSUME S!Init PROVE SioInv
  OBVIOUS
<1>1. \A k \in S!Classes : fifo[k] = <<>> /\ fifo[k] \in Seq(OfClass(k)) /\ fifo[k] \in Seq(Requests)
  BY DEF S!Init
<1>2. fifo \in [S!Classes -> Seq(Requests)]
  BY <1>1 DEF S!Init
<1>3. HUGE \in Nat /\ \A n \in Settings : n \in 0..(HUGE - 1)
  BY SioAssumed DEF S!SioAssumption
<1> QED
  BY <1>1, <1>2, <1>3 DEF SioInv, S!Init

(* Taking a request out of a fifo leaves requests of the same kind.        *)
LEMMA WithoutType ==
  ASSUME NEW T, NEW s \in Seq(T), NEW r, \E j \in 1..Len(s) : s[j] = r
  PROVE  S!Without(s, r) \in Seq(T)
<1>1. PICK k : k = CHOOSE j \in 1..Len(s) : s[j] = r
  OBVIOUS
<1>2. k \in 1..Len(s)
  BY <1>1
<1>3. SubSeq(s, 1, k - 1) \in Seq(T) /\ SubSeq(s, k + 1, Len(s)) \in Seq(T)
  BY <1>2, SubSeqProperties
<1>4. S!Without(s, r) = SubSeq(s, 1, k - 1) \o SubSeq(s, k + 1, Len(s))
  BY <1>1 DEF S!Without
<1> QED
  BY <1>3, <1>4, ConcatProperties

LEMMA FifoSet ==
  ASSUME SioInv, NEW k \in S!Classes, NEW u \in Seq(OfClass(k)), fifo' = [fifo EXCEPT ![k] = u]
  PROVE  /\ fifo' \in [S!Classes -> Seq(Requests)]
         /\ \A j \in S!Classes : fifo'[j] \in Seq(OfClass(j))
<1>1. u \in Seq(Requests)
  BY SeqMonotone DEF OfClass
<1> QED
  BY <1>1 DEF SioInv

(* The head of a fifo.                                                     *)
LEMMA HeadOf ==
  ASSUME SioInv, NEW k \in S!Classes, fifo[k] # <<>>
  PROVE  /\ Head(fifo[k]) \in Requests /\ Class[Head(fifo[k])] = k
         /\ \E j \in 1..Len(fifo[k]) : fifo[k][j] = Head(fifo[k])
<1>1. PICK u \in Seq(OfClass(k)) : u = fifo[k]
  BY DEF SioInv
<1>2. Head(u) \in OfClass(k) /\ Head(u) = u[1] /\ Len(u) \in Nat \ {0}
  BY <1>1, HeadTailProperties, EmptySeq
<1> QED
  BY <1>1, <1>2 DEF OfClass

(* The request that FirstOf gives is the head of one of the fifos, and of  *)
(* the first two if one of them holds any.                                 *)
LEMMA FirstOfIs ==
  ASSUME SioInv, NEW a \in S!Classes, NEW b \in S!Classes, NEW d \in S!Classes, NEW e \in S!Classes,
         NEW r \in S!FirstOf(<<a, b, d, e>>)
  PROVE  /\ \E k \in {a, b, d, e} : fifo[k] # <<>> /\ r = Head(fifo[k])
         /\ fifo[a] # <<>> \/ fifo[b] # <<>> =>
              \E k \in {a, b} : fifo[k] # <<>> /\ r = Head(fifo[k])
<1> DEFINE cs == <<a, b, d, e>>
           full == {k \in 1..4 : fifo[cs[k]] # <<>>}
<1>1. /\ full # {} /\ r = Head(fifo[cs[CHOOSE k \in full : \A j \in full : k <= j]])
  <2>1. Len(cs) = 4
    OBVIOUS
  <2>2. S!FirstOf(cs) = IF full = {} THEN {}
                        ELSE {Head(fifo[cs[CHOOSE k \in full : \A j \in full : k <= j]])}
    BY <2>1, Zenon DEF S!FirstOf
  <2> QED
    BY <2>2
<1>2. PICK k : k = CHOOSE i \in full : \A j \in full : i <= j
  OBVIOUS
<1>3. \E i \in full : \A j \in full : i <= j
  <2>1. CASE 1 \in full
    BY <2>1
  <2>2. CASE 1 \notin full /\ 2 \in full
    BY <2>2
  <2>3. CASE 1 \notin full /\ 2 \notin full /\ 3 \in full
    BY <2>3
  <2>4. CASE 1 \notin full /\ 2 \notin full /\ 3 \notin full /\ 4 \in full
    BY <2>4
  <2>5. 1 \in full \/ 2 \in full \/ 3 \in full \/ 4 \in full
    <3>1. PICK i : i \in full
      BY <1>1
    <3>2. i = 1 \/ i = 2 \/ i = 3 \/ i = 4
      BY <3>1
    <3> QED
      BY <3>1, <3>2, Zenon
  <2> HIDE DEF full
  <2> QED
    BY <2>1, <2>2, <2>3, <2>4, <2>5, Zenon
<1>4. k \in full /\ \A j \in full : k <= j
  BY <1>2, <1>3
<1>5. r = Head(fifo[cs[k]])
  BY <1>1, <1>2
<1>6. cs[1] = a /\ cs[2] = b /\ cs[3] = d /\ cs[4] = e
  OBVIOUS
<1>7. k \in 1..4 /\ fifo[cs[k]] # <<>>
  BY <1>4
<1>8. fifo[a] # <<>> \/ fifo[b] # <<>> => k \in {1, 2}
  BY <1>4, <1>6
<1> QED
  BY <1>5, <1>6, <1>7, <1>8

(* Whatever is picked is at the head of the fifo of its class; outside the *)
(* beginning of a batch, a starving write that waits has its turn.         *)
LEMMA PickIs ==
  ASSUME SioInv, NEW r \in S!Pick
  PROVE  /\ r \in Requests /\ Class[r] \in S!Classes
         /\ \E j \in 1..Len(fifo[Class[r]]) : fifo[Class[r]][j] = r
         /\ ~S!BatchOver /\ S!Starving /\ S!WritesWait => Class[r][2] = "write"
<1>1. CASE S!BatchOver /\ S!ChosenExpired # {}
  <2>1. r \in S!ChosenExpired
    BY <1>1 DEF S!Pick
  <2>2. \E k \in S!Classes : r \in S!ExpiredHead(k)
    BY <2>1 DEF S!ChosenExpired, S!Classes
  <2>3. PICK k \in S!Classes : fifo[k] # <<>> /\ r = Head(fifo[k])
    BY <2>2 DEF S!ExpiredHead
  <2> QED
    BY <1>1, <2>3, HeadOf
<1>2. CASE ~(S!BatchOver /\ S!ChosenExpired # {})
  <2>1. PICK dir : dir = IF S!Starving THEN "write" ELSE "read"
    OBVIOUS
  <2>2. dir \in {"read", "write"} /\ S!Other(dir) \in {"read", "write"}
    BY <2>1 DEF S!Other
  <2>3. r \in S!Chosen(dir)
    BY <1>2, <2>1 DEF S!Pick
  <2>4. /\ <<"sync", dir>> \in S!Classes /\ <<"async", dir>> \in S!Classes
        /\ <<"sync", S!Other(dir)>> \in S!Classes /\ <<"async", S!Other(dir)>> \in S!Classes
    BY <2>2 DEF S!Classes
  <2>5. /\ \E k \in S!Classes : fifo[k] # <<>> /\ r = Head(fifo[k])
        /\ fifo[<<"sync", dir>>] # <<>> \/ fifo[<<"async", dir>>] # <<>> =>
             \E k \in {<<"sync", dir>>, <<"async", dir>>} : fifo[k] # <<>> /\ r = Head(fifo[k])
    BY <2>3, <2>4, FirstOfIs DEF S!Chosen
  <2>6. /\ r \in Requests /\ Class[r] \in S!Classes
        /\ \E j \in 1..Len(fifo[Class[r]]) : fifo[Class[r]][j] = r
    BY <2>5, HeadOf
  <2>7. ASSUME S!Starving, S!WritesWait PROVE Class[r][2] = "write"
    <3>1. dir = "write"
      BY <2>1, <2>7
    <3>2. PICK k \in {<<"sync", "write">>, <<"async", "write">>} : fifo[k] # <<>> /\ r = Head(fifo[k])
      BY <2>5, <2>7, <3>1 DEF S!WritesWait
    <3>3. Class[r] = k
      BY <2>4, <3>1, <3>2, HeadOf
    <3> QED
      BY <3>2, <3>3
  <2> QED
    BY <2>6, <2>7
<1> QED
  BY <1>1, <1>2

LEMMA DispatchKeeps == ASSUME SioInv, NEW r \in Requests, S!Dispatch(r) PROVE SioInv'
<1>1. /\ r \in S!Pick /\ writes_starved' = writes_starved
      /\ fifo' = [fifo EXCEPT ![Class[r]] = S!Without(fifo[Class[r]], r)]
      /\ batched' = (IF S!BatchOver THEN 0 ELSE batched) + 1
      /\ starved' = (IF Class[r][2] = "write" THEN 0 ELSE IF starved < HUGE THEN starved + 1 ELSE HUGE)
      /\ passed' = (IF Class[r][2] = "write" \/ ~S!WritesWait THEN 0
                    ELSE IF passed < HUGE THEN passed + 1 ELSE HUGE)
  BY DEF S!Dispatch, SioInv
<1>2. /\ Class[r] \in S!Classes
      /\ \E j \in 1..Len(fifo[Class[r]]) : fifo[Class[r]][j] = r
      /\ ~S!BatchOver /\ S!Starving /\ S!WritesWait => Class[r][2] = "write"
  BY <1>1, PickIs
<1>3. /\ fifo' \in [S!Classes -> Seq(Requests)]
      /\ \A j \in S!Classes : fifo'[j] \in Seq(OfClass(j))
  <2>1. fifo[Class[r]] \in Seq(OfClass(Class[r]))
    BY <1>2 DEF SioInv
  <2>2. S!Without(fifo[Class[r]], r) \in Seq(OfClass(Class[r]))
    BY <1>2, <2>1, WithoutType
  <2> QED
    BY <1>1, <1>2, <2>2, FifoSet
<1>4. /\ HUGE \in Nat /\ FIFO_BATCH \in Nat \ {0}
      /\ writes_starved \in Nat /\ (writes_starved # HUGE => writes_starved < HUGE)
      /\ batched \in Nat /\ starved \in 0..HUGE /\ passed \in 0..starved
  BY SioAssumed DEF S!SioAssumption, SioInv
<1>5. batched' \in Nat /\ starved' \in 0..HUGE /\ passed' \in 0..starved'
  BY <1>1, <1>4
<1>6. ASSUME writes_starved # HUGE
      PROVE  passed' <= writes_starved' + 2 /\ (passed' = writes_starved' + 2 => batched' <= 1)
  <2>1. passed <= writes_starved + 2 /\ (passed = writes_starved + 2 => batched <= 1)
    BY <1>6 DEF SioInv
  <2>2. CASE passed' = 0
    BY <1>1, <1>4, <2>2
  <2>3. CASE passed' # 0
    <3>1. ~S!BatchOver => ~S!Starving
      BY <1>1, <1>2, <2>3
    <3>2. CASE S!BatchOver
      BY <1>1, <1>4, <1>6, <2>1, <3>2 DEF S!BatchOver
    <3>3. CASE ~S!BatchOver
      <4>1. starved <= writes_starved
        BY <1>4, <3>1, <3>3 DEF S!Starving
      <4>2. passed' <= writes_starved + 1
        BY <1>1, <1>4, <1>6, <4>1
      <4> QED
        BY <1>1, <1>4, <1>5, <4>2
    <3> QED
      BY <3>2, <3>3
  <2> QED
    BY <2>2, <2>3
<1> QED
  BY <1>1, <1>3, <1>5, <1>6 DEF SioInv

LEMMA SioInvStep == SioInv /\ [S!Next]_(S!siovars) => SioInv'
<1> SUFFICES ASSUME SioInv, [S!Next]_(S!siovars) PROVE SioInv'
  OBVIOUS
<1>1. CASE UNCHANGED S!siovars
  BY <1>1 DEF S!siovars, SioInv
<1>2. ASSUME NEW r \in Requests, S!AddRequest(r) PROVE SioInv'
  <2>1. Class[r] \in S!Classes /\ r \in OfClass(Class[r])
    BY SioAssumed DEF S!SioAssumption, OfClass
  <2>2. /\ fifo' = [fifo EXCEPT ![Class[r]] = Append(fifo[Class[r]], r)]
        /\ UNCHANGED <<batched, starved, writes_starved, passed>>
    BY <1>2 DEF S!AddRequest
  <2>3. Append(fifo[Class[r]], r) \in Seq(OfClass(Class[r]))
    BY <2>1, AppendProperties DEF SioInv
  <2>4. /\ fifo' \in [S!Classes -> Seq(Requests)]
        /\ \A j \in S!Classes : fifo'[j] \in Seq(OfClass(j))
    BY <2>1, <2>2, <2>3, FifoSet
  <2> QED
    BY <2>2, <2>4 DEF SioInv
<1>3. ASSUME NEW r \in Requests, S!Expire(r) PROVE SioInv'
  BY <1>3 DEF S!Expire, SioInv
<1>4. ASSUME NEW r \in Requests, S!Dispatch(r) PROVE SioInv'
  BY <1>4, DispatchKeeps
<1>5. ASSUME NEW r \in Requests, NEW x \in Requests, S!Merge(r, x) PROVE SioInv'
  <2>1. Class[r] \in S!Classes
    BY SioAssumed DEF S!SioAssumption
  <2>2. /\ fifo' = [fifo EXCEPT ![Class[r]] = S!Without(fifo[Class[r]], x)]
        /\ UNCHANGED <<batched, starved, writes_starved, passed>> /\ S!Neighbours(r, x)
    BY <1>5 DEF S!Merge
  <2>3. PICK u \in Seq(OfClass(Class[r])) : u = fifo[Class[r]]
    BY <2>1 DEF SioInv
  <2>4. \E j \in 1..Len(u) : u[j] = x
    <3>1. PICK k \in 1..(Len(u) - 1) : u[k + 1] = x
      BY <2>2, <2>3 DEF S!Neighbours, S!Fifo
    <3>2. k + 1 \in 1..Len(u)
      BY <2>3, <3>1, LenProperties
    <3> QED
      BY <3>1, <3>2
  <2>5. S!Without(u, x) \in Seq(OfClass(Class[r]))
    BY <2>4, WithoutType
  <2>6. /\ fifo' \in [S!Classes -> Seq(Requests)]
        /\ \A j \in S!Classes : fifo'[j] \in Seq(OfClass(j))
    BY <2>1, <2>2, <2>3, <2>5, FifoSet
  <2> QED
    BY <2>2, <2>6 DEF SioInv
<1>6. CASE S!DispatchNone
  BY <1>6, SioAssumed DEF S!DispatchNone, SioInv, S!SioAssumption
<1>7. ASSUME NEW n \in Settings, S!Store(n) PROVE SioInv'
  BY <1>7, SioAssumed DEF S!Store, SioInv, S!SioAssumption
<1> QED
  BY <1>1, <1>2, <1>3, <1>4, <1>5, <1>6, <1>7 DEF S!Next

(* Once writes_starved has a value, no write that waits is passed by more  *)
(* than that many reads and two: for any requests, batches of any length   *)
(* and any stores of writes_starved.                                       *)
THEOREM ReadsAreBounded == GfxSpec => []ReadsBounded
<1>1. GfxInit => SioInv
  BY SioInvInit DEF GfxInit
<1>2. SioInv /\ [GfxNext]_all => SioInv'
  BY SioInvStep DEF GfxNext, all, fifos, S!siovars
<1>3. SioInv => ReadsBounded
  BY DEF SioInv, ReadsBounded, S!ReadsBounded
<1> QED
  BY <1>1, <1>2, <1>3, PTL DEF GfxSpec
-----------------------------------------------------------------------------
(* The mappings                                                            *)

MapSteps == {"idle", "ask", "mmap", "uses", "release", "munmap"}
Locking  == {"ask", "mmap", "release", "munmap"}

MapType ==
  /\ registered \subseteq Areas /\ structs \in [M!Keys -> M!Structs \cup {NONE}]
  /\ vmas \in [Procs -> [Addresses -> Areas \cup {NONE}]]
  /\ lock \in [M!Keys -> Threads \cup {NONE}] /\ mpc \in [Threads -> MapSteps]
  /\ want \in [Threads -> Areas \cup {NONE}] /\ addr \in [Threads -> Addresses \cup {NONE}]
  /\ \A t \in Threads : mpc[t] # "idle" => want[t] # NONE

(* A thread between two calls of the driver has the lock.                  *)
LockInv ==
  /\ \A t \in Threads : mpc[t] \in Locking => lock[M!Key(t)] = t
  /\ \A k \in M!Keys : lock[k] # NONE => M!Key(lock[k]) = k /\ mpc[lock[k]] \in Locking

(* A structure counts the threads that refer to it; it is on the list only *)
(* while the thread that made it has the lock and goes on to the mmap.     *)
Users(k) == {t \in Threads : M!Key(t) = k /\ mpc[t] \in {"mmap", "uses", "release"}}
KeyInv(k) ==
  structs[k] # NONE =>
    /\ k[1] \in registered /\ structs[k].refs = Cardinality(Users(k))
    /\ structs[k].onlist => lock[k] = structs[k].tid /\ mpc[structs[k].tid] = "mmap"
    /\ ~structs[k].onlist => vmas[k[2]][structs[k].va] = k[1]

(* A process has an area mapped only where its structure says.             *)
VmaInv ==
  \A p \in Procs, v \in Addresses : vmas[p][v] # NONE =>
    structs[<<vmas[p][v], p>>] # NONE /\ structs[<<vmas[p][v], p>>].va = v

ThreadInv(t) ==
  /\ mpc[t] \in {"uses", "release"} =>
       structs[M!Key(t)] # NONE /\ structs[M!Key(t)].va = addr[t] /\ addr[t] # NONE
  /\ mpc[t] = "munmap" =>
       structs[M!Key(t)] # NONE /\ ~structs[M!Key(t)].onlist /\ structs[M!Key(t)].refs = 0
  /\ mpc[t] = "mmap" /\ structs[M!Key(t)] # NONE =>
       structs[M!Key(t)].tid = t /\ structs[M!Key(t)].onlist
MapInv ==
  /\ MapType /\ LockInv /\ VmaInv
  /\ (\A k \in M!Keys : KeyInv(k)) /\ \A t \in Threads : ThreadInv(t)

LEMMA MapAssumed == M!MMapAssumption
BY MCGraphicsAssumption

(* The fields of a structure.                                              *)
LEMMA StructFields ==
  ASSUME NEW s \in M!Structs
  PROVE  /\ s.refs \in Nat /\ s.tid \in Threads /\ s.onlist \in BOOLEAN
         /\ s.onlist => s.va = NONE /\ s.mapped = 0
         /\ ~s.onlist => s.va \in Addresses /\ s.va # NONE /\ s.mapped = 1
         /\ s # NONE
BY MapAssumed DEF M!Structs, M!MMapAssumption

LEMMA KeyIs ==
  ASSUME MapInv, NEW t \in Threads, mpc[t] # "idle"
  PROVE  M!Key(t) \in M!Keys /\ M!Key(t)[1] = want[t] /\ M!Key(t)[2] = Proc[t]
BY MapAssumed DEF MapInv, MapType, M!Key, M!Keys, M!MMapAssumption

LEMMA UsersFinite == \A k : IsFiniteSet(Users(k)) /\ Cardinality(Users(k)) \in Nat
<1> TAKE k
<1>1. Users(k) \subseteq Threads
  BY DEF Users
<1>2. IsFiniteSet(Threads)
  BY MapAssumed DEF M!MMapAssumption, IsFiniteSet, M!IsFiniteSet
<1>3. IsFiniteSet(Users(k))
  BY <1>1, <1>2, FS_Subset
<1> QED
  BY <1>3, FS_CardinalityType

LEMMA MapInvInit == M!Init => MapInv
<1> SUFFICES ASSUME M!Init PROVE MapInv
  OBVIOUS
<1>1. /\ registered = Areas /\ structs = [k \in M!Keys |-> NONE]
      /\ vmas = [p \in Procs |-> [v \in Addresses |-> NONE]] /\ lock = [k \in M!Keys |-> NONE]
      /\ mpc = [t \in Threads |-> "idle"] /\ want = [t \in Threads |-> NONE]
      /\ addr = [t \in Threads |-> NONE]
  BY DEF M!Init
<1>2. MapType
  BY <1>1 DEF MapType, MapSteps
<1> QED
  BY <1>1, <1>2 DEF MapInv, LockInv, KeyInv, VmaInv, ThreadInv, Locking

-----------------------------------------------------------------------------
(* A thread t that has the lock of k or finds it free takes a step, and    *)
(* k's structure becomes s.  What this asks of s, of the mappings and of t *)
(* itself is enough for the other keys and threads.                        *)
MapStep(t, k, step, s, y) ==
  /\ k[2] = Proc[t] /\ (mpc[t] # "idle" => want[t] = k[1]) /\ lock[k] \in {t, NONE}
  /\ mpc' = [mpc EXCEPT ![t] = step] /\ addr' = [addr EXCEPT ![t] = y]
  /\ want' = [want EXCEPT ![t] = IF step = "idle" THEN NONE ELSE k[1]]
  /\ lock' = [lock EXCEPT ![k] = IF step \in Locking THEN t ELSE NONE]
  /\ structs' = [structs EXCEPT ![k] = s] /\ registered' = registered
MapsOnly(k) ==
  /\ vmas' \in [Procs -> [Addresses -> Areas \cup {NONE}]]
  /\ \A p \in Procs, v \in Addresses :
       vmas'[p][v] = vmas[p][v] \/ (p = k[2] /\ {vmas'[p][v], vmas[p][v]} \subseteq {k[1], NONE})
StructFits(t, k, step, s, y) ==
  /\ \A v \in Addresses : vmas'[k[2]][v] = k[1] => s # NONE /\ s.va = v
  /\ s # NONE => /\ k[1] \in registered /\ s.refs = Cardinality(Users(k)')
                 /\ s.onlist => s.tid = t /\ step = "mmap"
                 /\ ~s.onlist => vmas'[k[2]][s.va] = k[1]
  /\ \A u \in Threads : u # t /\ mpc[u] = "uses" /\ M!Key(u) = k => s # NONE /\ s.va = structs[k].va
  /\ step \in {"uses", "release"} => s # NONE /\ s.va = y /\ y # NONE
  /\ step = "munmap" => s # NONE /\ ~s.onlist /\ s.refs = 0
  /\ step = "mmap" /\ s # NONE => s.tid = t /\ s.onlist

LEMMA ThreadSteps ==
  ASSUME MapInv, NEW t \in Threads, NEW k \in M!Keys, NEW step \in MapSteps,
         NEW s \in M!Structs \cup {NONE}, NEW y \in Addresses \cup {NONE},
         MapStep(t, k, step, s, y), MapsOnly(k), StructFits(t, k, step, s, y)
  PROVE  MapInv'
<1> USE DEF MapStep, MapsOnly, StructFits
<1>a. /\ NONE \notin Areas /\ NONE \notin Addresses /\ NONE \notin Threads
      /\ Proc \in [Threads -> Procs]
  BY MapAssumed DEF M!MMapAssumption, IsFiniteSet, M!IsFiniteSet
<1>b. k = <<k[1], k[2]>> /\ k[1] \in Areas /\ k[2] \in Procs
  BY DEF M!Keys
<1>1. MapType'
  BY <1>a, <1>b DEF MapInv, MapType, MapSteps
<1>2. /\ mpc'[t] = step /\ addr'[t] = y
      /\ step # "idle" => M!Key(t)' = k
      /\ \A u \in Threads : u # t => mpc'[u] = mpc[u] /\ addr'[u] = addr[u] /\ M!Key(u)' = M!Key(u)
      /\ mpc[t] # "idle" => M!Key(t) = k
  BY <1>b DEF MapInv, MapType, M!Key
<1>3. /\ lock'[k] = (IF step \in Locking THEN t ELSE NONE) /\ structs'[k] = s
      /\ \A j \in M!Keys : j # k => lock'[j] = lock[j] /\ structs'[j] = structs[j]
  BY DEF MapInv, MapType
<1>4. \A u \in Threads : mpc[u] # "idle" => M!Key(u) \in M!Keys
  BY KeyIs
<1>5. \A u \in Threads : u # t /\ mpc[u] \in Locking => M!Key(u) # k
  BY <1>a DEF MapInv, LockInv
<1>6. LockInv'
  <2>1. \A u \in Threads : mpc'[u] \in Locking => lock'[M!Key(u)'] = u
    <3>1. CASE step \in Locking
      BY <1>2, <1>3, <1>4, <1>5, <3>1 DEF MapInv, LockInv, Locking
    <3>2. CASE step \notin Locking
      BY <1>2, <1>3, <1>4, <1>5, <3>2 DEF MapInv, LockInv, Locking
    <3> QED
      BY <3>1, <3>2
  <2>2. ASSUME NEW j \in M!Keys, lock'[j] # NONE
        PROVE  \E u \in Threads : u = lock'[j] /\ M!Key(u)' = j /\ mpc'[u] \in Locking
    <3>1. CASE j = k
      BY <1>2, <1>3, <2>2, <3>1 DEF Locking
    <3>2. CASE j # k
      <4>1. PICK u \in Threads : u = lock[j]
        BY <1>3, <2>2, <3>2 DEF MapInv, MapType
      <4>2. M!Key(u) = j /\ mpc[u] \in Locking /\ lock'[j] = u
        BY <1>a, <1>3, <3>2, <4>1 DEF MapInv, LockInv
      <4>3. u # t
        BY <1>2, <3>2, <4>2 DEF Locking
      <4> QED
        BY <1>2, <4>2, <4>3
    <3> QED
      BY <3>1, <3>2
  <2> HIDE DEF MapStep, MapsOnly, StructFits
  <2> QED
    BY <2>1, <2>2 DEF LockInv, M!Key
<1>7. VmaInv'
  <2> SUFFICES ASSUME NEW p \in Procs, NEW v \in Addresses, vmas'[p][v] # NONE
               PROVE  structs'[<<vmas'[p][v], p>>] # NONE /\ structs'[<<vmas'[p][v], p>>].va = v
    BY DEF VmaInv
  <2>1. vmas'[p][v] \in Areas /\ <<vmas'[p][v], p>> \in M!Keys
    BY DEF M!Keys
  <2>2. CASE <<vmas'[p][v], p>> = k
    BY <1>b, <1>3, <2>2
  <2>3. CASE <<vmas'[p][v], p>> # k
    <3>1. vmas'[p][v] = vmas[p][v]
      BY <1>b, <2>3
    <3> QED
      BY <1>3, <2>1, <2>3, <3>1 DEF MapInv, VmaInv
  <2> QED
    BY <2>2, <2>3
<1>8. ASSUME NEW j \in M!Keys PROVE KeyInv(j)'
  <2>1. CASE j = k
    <3> SUFFICES ASSUME s # NONE
                 PROVE  /\ j[1] \in registered' /\ structs'[j].refs = Cardinality(Users(j)')
                        /\ structs'[j].onlist => lock'[j] = structs'[j].tid /\ mpc'[structs'[j].tid] = "mmap"
                        /\ ~structs'[j].onlist => vmas'[j[2]][structs'[j].va] = j[1]
      BY <1>3, <2>1 DEF KeyInv
    <3> QED
      BY <1>2, <1>3, <2>1 DEF Locking
  <2>2. CASE j # k
    <3> SUFFICES ASSUME structs[j] # NONE
                 PROVE  /\ j[1] \in registered' /\ structs[j].refs = Cardinality(Users(j)')
                        /\ structs[j].onlist => lock[j] = structs[j].tid /\ mpc'[structs[j].tid] = "mmap"
                        /\ ~structs[j].onlist => vmas'[j[2]][structs[j].va] = j[1]
      BY <1>3, <2>2 DEF KeyInv
    <3>1. /\ j[1] \in registered /\ structs[j].refs = Cardinality(Users(j))
          /\ structs[j].onlist => lock[j] = structs[j].tid /\ mpc[structs[j].tid] = "mmap"
          /\ ~structs[j].onlist => vmas[j[2]][structs[j].va] = j[1]
      BY DEF MapInv, KeyInv
    <3>2. Users(j)' = Users(j)
      <4>1. ASSUME NEW u \in Threads
            PROVE  M!Key(u)' = j /\ mpc'[u] \in {"mmap", "uses", "release"} <=>
                   M!Key(u) = j /\ mpc[u] \in {"mmap", "uses", "release"}
        BY <1>2, <2>2
      <4> QED
        BY <4>1 DEF Users
    <3>3. structs[j] \in M!Structs
      BY DEF MapInv, MapType
    <3>4. structs[j].onlist => mpc'[structs[j].tid] = "mmap"
      <4> SUFFICES ASSUME structs[j].onlist PROVE mpc'[structs[j].tid] = "mmap"
        OBVIOUS
      <4>1. lock[j] = structs[j].tid /\ structs[j].tid \in Threads
        BY <3>1, <3>3, StructFields
      <4>2. M!Key(structs[j].tid) = j /\ mpc[structs[j].tid] = "mmap"
        BY <1>a, <3>1, <4>1 DEF MapInv, LockInv
      <4>3. structs[j].tid # t
        BY <1>2, <2>2, <4>2
      <4> QED
        BY <1>2, <4>1, <4>2, <4>3
    <3>5. ~structs[j].onlist => vmas'[j[2]][structs[j].va] = j[1]
      <4> SUFFICES ASSUME ~structs[j].onlist PROVE vmas'[j[2]][structs[j].va] = j[1]
        OBVIOUS
      <4>1. structs[j].va \in Addresses /\ j = <<j[1], j[2]>> /\ j[1] \in Areas /\ j[2] \in Procs
        BY <3>3, StructFields DEF M!Keys
      <4>2. vmas[j[2]][structs[j].va] = j[1]
        BY <3>1
      <4> QED
        BY <1>a, <1>b, <2>2, <4>1, <4>2
    <3> QED
      BY <3>1, <3>2, <3>4, <3>5
  <2> QED
    BY <2>1, <2>2
<1>9. ASSUME NEW u \in Threads PROVE ThreadInv(u)'
  <2>1. CASE u = t
    BY <1>2, <1>3, <2>1 DEF ThreadInv
  <2>2. CASE u # t
    <3>1. mpc'[u] = mpc[u] /\ addr'[u] = addr[u] /\ M!Key(u)' = M!Key(u)
      BY <1>2, <2>2
    <3>2. ThreadInv(u)
      BY DEF MapInv
    <3>3. CASE M!Key(u) = k
      <4>1. mpc[u] \notin Locking
        BY <1>5, <2>2, <3>3
      <4>2. mpc[u] = "uses" => s # NONE /\ s.va = structs[k].va
        BY <2>2, <3>3
      <4> QED
        BY <1>3, <3>1, <3>2, <3>3, <4>1, <4>2 DEF ThreadInv, Locking
    <3>4. CASE M!Key(u) # k
      BY <1>3, <1>4, <3>1, <3>2, <3>4 DEF ThreadInv
    <3> QED
      BY <3>3, <3>4
  <2> QED
    BY <2>1, <2>2
<1> QED
  BY <1>1, <1>6, <1>7, <1>8, <1>9 DEF MapInv

(* The threads that refer to k after the same step.                        *)
LEMMA UsersAfter ==
  ASSUME MapInv, NEW t \in Threads, NEW k \in M!Keys, NEW step \in MapSteps, NEW s, NEW y,
         MapStep(t, k, step, s, y)
  PROVE  Users(k)' = IF step \in {"mmap", "uses", "release"} THEN Users(k) \cup {t} ELSE Users(k) \ {t}
<1>1. k = <<k[1], k[2]>>
  BY DEF M!Keys
<1>2. /\ mpc'[t] = step /\ (step # "idle" => M!Key(t)' = k)
      /\ \A u \in Threads : u # t => mpc'[u] = mpc[u] /\ M!Key(u)' = M!Key(u)
  BY <1>1 DEF MapInv, MapType, M!Key, MapStep
<1>3. CASE step \in {"mmap", "uses", "release"}
  BY <1>2, <1>3 DEF Users
<1>4. CASE step \notin {"mmap", "uses", "release"}
  BY <1>2, <1>4 DEF Users
<1> QED
  BY <1>3, <1>4

(* A step that maps and unmaps nothing.                                    *)
LEMMA MapsNothing == ASSUME MapInv, NEW k, UNCHANGED vmas PROVE MapsOnly(k)
BY DEF MapInv, MapType, MapsOnly

(* What is known of a key that a thread finds free or has the lock of.     *)
LEMMA KeyFacts ==
  ASSUME MapInv, NEW t \in Threads, NEW k \in M!Keys, lock[k] \in {t, NONE}
  PROVE  /\ k[1] \in Areas /\ k[2] \in Procs
         /\ structs[k] \in M!Structs \cup {NONE}
         /\ \A v \in Addresses : vmas[k[2]][v] = k[1] => structs[k] # NONE /\ structs[k].va = v
         /\ structs[k] # NONE =>
              /\ k[1] \in registered /\ structs[k].refs = Cardinality(Users(k))
              /\ structs[k].onlist => structs[k].tid = t /\ mpc[t] = "mmap"
              /\ ~structs[k].onlist => vmas[k[2]][structs[k].va] = k[1]
<1>1. k = <<k[1], k[2]>> /\ k[1] \in Areas /\ k[2] \in Procs
  BY DEF M!Keys
<1>2. structs[k] \in M!Structs \cup {NONE}
  BY DEF MapInv, MapType
<1>3. NONE \notin Areas /\ NONE \notin Threads
  BY MapAssumed DEF M!MMapAssumption
<1>4. \A v \in Addresses : vmas[k[2]][v] = k[1] => structs[k] # NONE /\ structs[k].va = v
  BY <1>1, <1>3 DEF MapInv, VmaInv
<1>5. ASSUME structs[k] # NONE
      PROVE  /\ k[1] \in registered /\ structs[k].refs = Cardinality(Users(k))
             /\ structs[k].onlist => structs[k].tid = t /\ mpc[t] = "mmap"
             /\ ~structs[k].onlist => vmas[k[2]][structs[k].va] = k[1]
  <2>1. structs[k].tid \in Threads
    BY <1>2, <1>5, StructFields
  <2> QED
    BY <1>3, <1>5, <2>1 DEF MapInv, KeyInv
<1> QED
  BY <1>1, <1>2, <1>4, <1>5

(* Counting leaves the other fields as they are.                           *)
LEMMA RefsSet ==
  ASSUME NEW s \in M!Structs, ~s.onlist, NEW n \in Nat, NEW z, z = [s EXCEPT !.refs = n]
  PROVE  z \in M!Structs /\ z # NONE /\ z.refs = n /\ z.va = s.va /\ ~z.onlist
<1>1. s \in [refs : Nat, mapped : {1}, va : Addresses, tid : Threads, onlist : {FALSE}]
  BY DEF M!Structs
<1>2. z.refs = n /\ z.va = s.va
  BY <1>1
<1>3. z \in [refs : Nat, mapped : {1}, va : Addresses, tid : Threads, onlist : {FALSE}]
  BY <1>1
<1>4. z \in M!Structs /\ ~z.onlist
  BY <1>3 DEF M!Structs
<1> QED
  BY <1>2, <1>4, StructFields

(* A structure fits on as it is if nobody begins or ends to refer to it.   *)
LEMMA StaysFit ==
  ASSUME MapInv, NEW t \in Threads, NEW k \in M!Keys, lock[k] \in {t, NONE}, mpc[t] # "mmap",
         NEW step \in {"idle", "ask"}, NEW y, UNCHANGED vmas, Users(k)' = Users(k)
  PROVE  StructFits(t, k, step, structs[k], y)
<1>1. /\ \A v \in Addresses : vmas[k[2]][v] = k[1] => structs[k] # NONE /\ structs[k].va = v
      /\ structs[k] # NONE => k[1] \in registered /\ structs[k].refs = Cardinality(Users(k))
  BY KeyFacts
<1>2. structs[k] # NONE => ~structs[k].onlist /\ vmas[k[2]][structs[k].va] = k[1]
  BY KeyFacts
<1>3. \A u \in Threads : u # t /\ mpc[u] = "uses" /\ M!Key(u) = k => structs[k] # NONE
  BY DEF MapInv, ThreadInv
<1> QED
  BY <1>1, <1>2, <1>3 DEF StructFits

LEMMA LockToMapKeeps ==
  ASSUME MapInv, NEW t \in Threads, NEW a \in Areas, M!LockToMap(t, a) PROVE MapInv'
<1>1. PICK k \in M!Keys : k = <<a, Proc[t]>> /\ k[1] = a /\ k[2] = Proc[t]
  <2>1. Proc[t] \in Procs
    BY MapAssumed DEF M!MMapAssumption
  <2>2. <<a, Proc[t]>> \in M!Keys
    BY <2>1 DEF M!Keys
  <2> QED
    BY <2>2
<1>2. /\ mpc[t] = "idle" /\ lock[k] = NONE /\ mpc' = [mpc EXCEPT ![t] = "ask"]
      /\ want' = [want EXCEPT ![t] = k[1]] /\ lock' = [lock EXCEPT ![k] = t]
      /\ UNCHANGED <<registered, structs, vmas, addr>>
  BY <1>1 DEF M!LockToMap, M!Goto
<1>3. PICK s \in M!Structs \cup {NONE} : s = structs[k]
  BY <1>2, KeyFacts
<1>4. PICK y \in Addresses \cup {NONE} : y = addr[t]
  BY DEF MapInv, MapType
<1>5. structs' = [structs EXCEPT ![k] = s] /\ addr' = [addr EXCEPT ![t] = y]
  BY <1>2, <1>3, <1>4 DEF MapInv, MapType
<1>6. MapStep(t, k, "ask", s, y)
  BY <1>1, <1>2, <1>5 DEF MapStep, Locking
<1>7. Users(k)' = Users(k)
  <2>1. Users(k)' = Users(k) \ {t}
    BY <1>6, UsersAfter DEF MapSteps
  <2> QED
    BY <1>2, <2>1 DEF Users
<1>8. StructFits(t, k, "ask", s, y)
  BY <1>2, <1>3, <1>7, StaysFit
<1> QED
  BY <1>2, <1>6, <1>8, MapsNothing, ThreadSteps DEF MapSteps

LEMMA AskKeeps ==
  ASSUME MapInv, NEW t \in Threads, M!PVRMMapOSMemHandleToMMapData(t) \/ M!AskedTooLate(t) PROVE MapInv'
<1>1. mpc[t] = "ask"
  BY DEF M!PVRMMapOSMemHandleToMMapData, M!AskedTooLate
<1>2. PICK k \in M!Keys : k = M!Key(t) /\ k[1] = want[t] /\ k[2] = Proc[t] /\ lock[k] = t
  BY <1>1, KeyIs DEF MapInv, LockInv, Locking
<1>3. k[1] \in Areas /\ t \notin Users(k)
  BY <1>1, <1>2, KeyFacts DEF Users
<1>4. PICK y \in Addresses \cup {NONE} : y = addr[t]
  BY DEF MapInv, MapType
<1>5. MapsOnly(k) /\ vmas' = vmas /\ registered' = registered
  BY MapsNothing DEF M!PVRMMapOSMemHandleToMMapData, M!AskedTooLate
<1>6. PICK s \in M!Structs \cup {NONE} : s = structs[k]
  BY <1>2, KeyFacts
<1>7. CASE M!AskedTooLate(t)
  <2>1. /\ mpc' = [mpc EXCEPT ![t] = "idle"] /\ lock' = [lock EXCEPT ![k] = NONE]
        /\ want' = [want EXCEPT ![t] = NONE] /\ structs' = structs /\ addr' = addr
    BY <1>2, <1>7 DEF M!AskedTooLate, M!Goto
  <2>2. structs' = [structs EXCEPT ![k] = s] /\ addr' = [addr EXCEPT ![t] = y]
    BY <1>4, <1>6, <2>1 DEF MapInv, MapType
  <2>3. MapStep(t, k, "idle", s, y)
    BY <1>2, <1>5, <2>1, <2>2 DEF MapStep, Locking
  <2>4. Users(k)' = Users(k)
    BY <1>3, <2>3, UsersAfter DEF MapSteps
  <2>5. StructFits(t, k, "idle", s, y)
    BY <1>1, <1>2, <1>5, <1>6, <2>4, StaysFit
  <2> QED
    BY <1>5, <2>3, <2>5, ThreadSteps DEF MapSteps
<1>8. CASE M!PVRMMapOSMemHandleToMMapData(t) /\ s # NONE
  <2>1. s \in M!Structs /\ ~s.onlist /\ s.va \in Addresses /\ s.va # NONE /\ s.refs \in Nat
    BY <1>1, <1>2, <1>6, <1>8, KeyFacts, StructFields
  <2>2. PICK z : z = [s EXCEPT !.refs = s.refs + 1]
    OBVIOUS
  <2>3. z \in M!Structs /\ z # NONE /\ z.refs = s.refs + 1 /\ z.va = s.va /\ ~z.onlist
    BY <2>1, <2>2, RefsSet
  <2>4. /\ mpc' = [mpc EXCEPT ![t] = "uses"] /\ lock' = [lock EXCEPT ![k] = NONE] /\ want' = want
        /\ structs' = [structs EXCEPT ![k] = z] /\ addr' = [addr EXCEPT ![t] = s.va]
    BY <1>2, <1>6, <1>8, <2>1, <2>2 DEF M!PVRMMapOSMemHandleToMMapData, M!Goto
  <2>5. want' = [want EXCEPT ![t] = k[1]]
    BY <1>2, <2>4 DEF MapInv, MapType
  <2>6. MapStep(t, k, "uses", z, s.va)
    BY <1>2, <1>5, <2>4, <2>5 DEF MapStep, Locking
  <2>7. Users(k)' = Users(k) \cup {t}
    BY <2>6, UsersAfter DEF MapSteps
  <2>8. z.refs = Cardinality(Users(k)')
    <3>1. s.refs = Cardinality(Users(k))
      BY <1>2, <1>6, <1>8, KeyFacts
    <3>2. Cardinality(Users(k) \cup {t}) = Cardinality(Users(k)) + 1
      BY <1>3, UsersFinite, FS_AddElement
    <3> QED
      BY <2>3, <2>7, <3>1, <3>2
  <2>9. StructFits(t, k, "uses", z, s.va)
    BY <1>1, <1>2, <1>5, <1>6, <1>8, <2>1, <2>3, <2>8, KeyFacts DEF StructFits
  <2> QED
    BY <1>5, <2>1, <2>3, <2>6, <2>9, ThreadSteps DEF MapSteps
<1>9. CASE M!PVRMMapOSMemHandleToMMapData(t) /\ s = NONE
  <2>1. PICK z : z = M!Struct(t)
    OBVIOUS
  <2>2. z \in M!Structs /\ z.refs = 1 /\ z.tid = t /\ z.onlist
    BY <2>1 DEF M!Struct, M!Structs
  <2>3. /\ mpc' = [mpc EXCEPT ![t] = "mmap"] /\ lock' = lock /\ want' = want
        /\ structs' = [structs EXCEPT ![k] = z] /\ addr' = addr
    BY <1>2, <1>6, <1>9, <2>1 DEF M!PVRMMapOSMemHandleToMMapData, M!Goto
  <2>4. /\ want' = [want EXCEPT ![t] = k[1]] /\ lock' = [lock EXCEPT ![k] = t]
        /\ addr' = [addr EXCEPT ![t] = y]
    BY <1>2, <1>4, <2>3 DEF MapInv, MapType
  <2>5. MapStep(t, k, "mmap", z, y)
    BY <1>2, <1>5, <2>3, <2>4 DEF MapStep, Locking
  <2>6. \A u \in Threads : M!Key(u) = k => mpc[u] \notin {"mmap", "uses", "release"}
    <3> SUFFICES ASSUME NEW u \in Threads, M!Key(u) = k, mpc[u] \in {"mmap", "uses", "release"}
                 PROVE  FALSE
      OBVIOUS
    <3>1. ThreadInv(u) /\ (mpc[u] = "mmap" => lock[k] = u)
      BY DEF MapInv, LockInv, Locking
    <3> QED
      BY <1>1, <1>2, <1>6, <1>9, <3>1 DEF ThreadInv
  <2>7. Users(k)' = {t}
    <3>1. Users(k) = {}
      BY <2>6 DEF Users
    <3> QED
      BY <2>5, <3>1, UsersAfter DEF MapSteps
  <2>8. z.refs = Cardinality(Users(k)')
    BY <2>2, <2>7, FS_Singleton
  <2>9. k[1] \in registered
    BY <1>2, <1>9 DEF M!PVRMMapOSMemHandleToMMapData
  <2>10. StructFits(t, k, "mmap", z, y)
    <3>1. z # NONE /\ \A v \in Addresses : vmas[k[2]][v] # k[1]
      <4>1. \A v \in Addresses : vmas[k[2]][v] = k[1] => structs[k] # NONE
        BY <1>2, KeyFacts
      <4>2. z # NONE
        BY <2>2, StructFields
      <4> QED
        BY <1>6, <1>9, <4>1, <4>2
    <3> QED
      BY <1>5, <2>2, <2>6, <2>8, <2>9, <3>1 DEF StructFits
  <2> QED
    BY <1>5, <2>2, <2>5, <2>10, ThreadSteps DEF MapSteps
<1> QED
  BY <1>7, <1>8, <1>9

(* A thread's mmap finds its own structure, and that only.                 *)
LEMMA FoundIs ==
  ASSUME MapInv, NEW t \in Threads, NEW k \in M!Found(t), mpc[t] = "mmap"
  PROVE  k = M!Key(t) /\ k \in M!Keys /\ structs[k] \in M!Structs /\ structs[k].onlist
<1>1. /\ k \in M!Keys /\ structs[k] # NONE /\ structs[k].onlist /\ structs[k].tid = t
  BY DEF M!Found, M!Listed, M!Matches
<1>2. structs[k] \in M!Structs
  BY <1>1 DEF MapInv, MapType
<1>3. lock[k] = t
  BY <1>1 DEF MapInv, KeyInv
<1>4. t # NONE
  BY MapAssumed DEF M!MMapAssumption
<1> QED
  BY <1>1, <1>2, <1>3, <1>4 DEF MapInv, LockInv

(* Mapping turns a structure on the list into one that is not.             *)
LEMMA MappedSet ==
  ASSUME NEW s \in M!Structs, s.onlist, NEW v \in Addresses
  PROVE  \E z : /\ z = [s EXCEPT !.mapped = 1, !.va = v, !.onlist = FALSE]
                /\ z \in M!Structs /\ z # NONE /\ z.refs = s.refs /\ z.va = v /\ ~z.onlist
<1> PICK z : z = [s EXCEPT !.mapped = 1, !.va = v, !.onlist = FALSE]
  OBVIOUS
<1>1. s \in [refs : Nat, mapped : {0}, va : {NONE}, tid : Threads, onlist : {TRUE}]
  BY DEF M!Structs
<1>2. z.refs = s.refs /\ z.va = v
  BY <1>1
<1>3. z \in [refs : Nat, mapped : {1}, va : Addresses, tid : Threads, onlist : {FALSE}]
  BY <1>1
<1>4. z \in M!Structs /\ ~z.onlist
  BY <1>3 DEF M!Structs
<1> QED
  BY <1>2, <1>4, StructFields

LEMMA MMapKeeps == ASSUME MapInv, NEW t \in Threads, M!PVRMMap(t) PROVE MapInv'
<1>1. mpc[t] = "mmap" /\ registered' = registered
  BY DEF M!PVRMMap
<1>2. PICK k \in M!Keys : k = M!Key(t) /\ k[1] = want[t] /\ k[2] = Proc[t] /\ lock[k] = t
  BY <1>1, KeyIs DEF MapInv, LockInv, Locking
<1>3. k[1] \in Areas /\ k[2] \in Procs /\ t \in Users(k) /\ lock' = [lock EXCEPT ![k] = NONE]
  BY <1>1, <1>2, KeyFacts DEF Users, M!PVRMMap
<1>4. PICK y \in Addresses \cup {NONE} : y = addr[t]
  BY DEF MapInv, MapType
<1>5. NONE \notin Addresses /\ NONE \notin Areas
  BY MapAssumed DEF M!MMapAssumption
<1>6. ASSUME structs[k] = NONE \/ (structs[k] \in M!Structs /\ structs[k].onlist)
      PROVE  /\ \A v \in Addresses : vmas[k[2]][v] # k[1]
             /\ \A u \in Threads : mpc[u] = "uses" => M!Key(u) # k
  <2>1. structs[k] # NONE => structs[k].va = NONE
    BY <1>6, StructFields
  <2>2. \A v \in Addresses : vmas[k[2]][v] = k[1] => structs[k] # NONE /\ structs[k].va = v
    BY <1>2, KeyFacts
  <2> QED
    BY <1>5, <2>1, <2>2 DEF MapInv, ThreadInv
<1>7. CASE \E j \in M!Found(t), v \in Addresses :
        /\ vmas[Proc[t]][v] = NONE /\ vmas' = [vmas EXCEPT ![Proc[t]][v] = j[1]]
        /\ structs' = [structs EXCEPT ![j] = [@ EXCEPT !.mapped = 1, !.va = v, !.onlist = FALSE]]
        /\ addr' = [addr EXCEPT ![t] = v] /\ M!Goto(t, "uses") /\ want' = want
  <2>1. PICK v \in Addresses :
          /\ k \in M!Found(t) /\ vmas[k[2]][v] = NONE /\ vmas' = [vmas EXCEPT ![k[2]][v] = k[1]]
          /\ structs' = [structs EXCEPT ![k] = [structs[k] EXCEPT !.mapped = 1, !.va = v, !.onlist = FALSE]]
          /\ addr' = [addr EXCEPT ![t] = v] /\ mpc' = [mpc EXCEPT ![t] = "uses"] /\ want' = want
    BY <1>1, <1>2, <1>7, FoundIs DEF M!Goto, MapInv, MapType
  <2>2. PICK s : s = structs[k]
    OBVIOUS
  <2>3. s \in M!Structs /\ s.onlist
    BY <1>1, <2>1, <2>2, FoundIs
  <2>4. PICK z : /\ z = [s EXCEPT !.mapped = 1, !.va = v, !.onlist = FALSE]
                 /\ z \in M!Structs /\ z # NONE /\ z.refs = s.refs /\ z.va = v /\ ~z.onlist
    BY <2>3, MappedSet, Zenon
  <2>5. z \in M!Structs /\ z # NONE /\ z.refs = s.refs /\ z.va = v /\ ~z.onlist
    BY <2>4
  <2>6. structs' = [structs EXCEPT ![k] = z] /\ want' = [want EXCEPT ![t] = k[1]]
    BY <1>2, <2>1, <2>2, <2>4 DEF MapInv, MapType
  <2>7. MapStep(t, k, "uses", z, v)
    BY <1>1, <1>2, <1>3, <2>1, <2>6 DEF MapStep, Locking
  <2>8. MapsOnly(k)
    BY <1>3, <2>1 DEF MapsOnly, MapInv, MapType
  <2>9. z.refs = Cardinality(Users(k)') /\ k[1] \in registered
    <3>1. Users(k)' = Users(k)
      BY <1>3, <2>7, UsersAfter DEF MapSteps
    <3> QED
      BY <1>2, <2>2, <2>3, <2>5, <3>1, KeyFacts, StructFields
  <2>10. /\ \A w \in Addresses : vmas'[k[2]][w] = k[1] => w = v
         /\ vmas'[k[2]][v] = k[1] /\ \A u \in Threads : mpc[u] = "uses" => M!Key(u) # k
    BY <1>3, <1>6, <2>1, <2>2, <2>3 DEF MapInv, MapType
  <2>11. StructFits(t, k, "uses", z, v)
    BY <1>5, <2>5, <2>9, <2>10 DEF StructFits
  <2> QED
    BY <2>5, <2>7, <2>8, <2>11, ThreadSteps DEF MapSteps
<1>8. CASE
        /\ (\E j \in M!Found(t) : structs' = [structs EXCEPT ![j] = NONE]) \/ (M!Found(t) = {} /\ structs' = structs)
        /\ M!Goto(t, "idle") /\ want' = [want EXCEPT ![t] = NONE] /\ UNCHANGED <<vmas, addr>>
  <2>1. /\ mpc' = [mpc EXCEPT ![t] = "idle"] /\ want' = [want EXCEPT ![t] = NONE]
        /\ vmas' = vmas /\ addr' = [addr EXCEPT ![t] = y]
    BY <1>4, <1>8 DEF M!Goto, MapInv, MapType
  <2>2. /\ structs[k] = NONE \/ (structs[k] \in M!Structs /\ structs[k].onlist)
        /\ structs' = [structs EXCEPT ![k] = NONE]
    <3>1. CASE M!Found(t) = {} /\ structs' = structs
      <4>1. structs[k] # NONE => k \in M!Found(t)
        BY <1>1, <1>2 DEF MapInv, ThreadInv, M!Found, M!Listed, M!Matches
      <4> QED
        BY <3>1, <4>1 DEF MapInv, MapType
    <3>2. CASE \E j \in M!Found(t) : structs' = [structs EXCEPT ![j] = NONE]
      BY <1>1, <1>2, <3>2, FoundIs
    <3> QED
      BY <1>8, <3>1, <3>2
  <2>3. MapStep(t, k, "idle", NONE, y)
    BY <1>1, <1>2, <1>3, <2>1, <2>2 DEF MapStep, Locking
  <2>4. StructFits(t, k, "idle", NONE, y)
    BY <1>6, <2>1, <2>2 DEF StructFits
  <2> QED
    BY <1>5, <2>1, <2>3, <2>4, MapsNothing, ThreadSteps DEF MapSteps
<1> QED
  BY <1>7, <1>8 DEF M!PVRMMap

LEMMA LockToReleaseKeeps == ASSUME MapInv, NEW t \in Threads, M!LockToRelease(t) PROVE MapInv'
<1>1. mpc[t] = "uses"
  BY DEF M!LockToRelease
<1>2. PICK k \in M!Keys : k = M!Key(t) /\ k[1] = want[t] /\ k[2] = Proc[t] /\ t \in Users(k)
  BY <1>1, KeyIs DEF Users
<1>3. PICK y \in Addresses \cup {NONE} : y = addr[t]
  BY DEF MapInv, MapType
<1>4. /\ lock[k] = NONE /\ lock' = [lock EXCEPT ![k] = t] /\ mpc' = [mpc EXCEPT ![t] = "release"]
      /\ UNCHANGED <<registered, structs, vmas, want, addr>>
  BY <1>2 DEF M!LockToRelease, M!Goto
<1>5. PICK s \in M!Structs \cup {NONE} : s = structs[k]
  BY <1>4, KeyFacts
<1>6. MapStep(t, k, "release", s, y)
  BY <1>2, <1>3, <1>4, <1>5 DEF MapStep, MapInv, MapType, Locking
<1>7. Users(k)' = Users(k)
  BY <1>2, <1>6, UsersAfter DEF MapSteps
<1>8. /\ s # NONE /\ s.va = y /\ y # NONE
  BY <1>1, <1>2, <1>3, <1>5 DEF MapInv, ThreadInv
<1>9. /\ \A v \in Addresses : vmas[k[2]][v] = k[1] => s.va = v
      /\ k[1] \in registered /\ s.refs = Cardinality(Users(k)') /\ ~s.onlist /\ vmas[k[2]][s.va] = k[1]
  BY <1>1, <1>4, <1>5, <1>7, <1>8, KeyFacts
<1>10. StructFits(t, k, "release", s, y)
  BY <1>4, <1>5, <1>8, <1>9 DEF StructFits
<1> QED
  BY <1>4, <1>6, <1>10, MapsNothing, ThreadSteps DEF MapSteps

LEMMA ReleaseKeeps == ASSUME MapInv, NEW t \in Threads, M!PVRMMapReleaseMMapData(t) PROVE MapInv'
<1>1. mpc[t] = "release"
  BY DEF M!PVRMMapReleaseMMapData
<1>2. PICK k \in M!Keys : /\ k = M!Key(t) /\ k[1] = want[t] /\ k[2] = Proc[t]
                          /\ lock[k] = t /\ t \in Users(k)
  BY <1>1, KeyIs DEF MapInv, LockInv, Locking, Users
<1>3. PICK s : s = structs[k]
  OBVIOUS
<1>4. s \in M!Structs /\ s.va # NONE
  BY <1>1, <1>2, <1>3, KeyFacts DEF MapInv, ThreadInv
<1>5. s # NONE /\ ~s.onlist /\ s.refs \in Nat
  BY <1>4, StructFields
<1>6. /\ \A v \in Addresses : vmas[k[2]][v] = k[1] => s.va = v
      /\ k[1] \in registered /\ s.refs = Cardinality(Users(k)) /\ vmas[k[2]][s.va] = k[1]
  BY <1>2, <1>3, <1>5, KeyFacts
<1>7. Cardinality(Users(k) \ {t}) = s.refs - 1 /\ s.refs # 0
  <2>1. Cardinality(Users(k) \ {t}) = Cardinality(Users(k)) - 1 /\ Cardinality(Users(k) \ {t}) \in Nat
    <3>1. IsFiniteSet(Users(k) \ {t})
      BY <1>2, UsersFinite, FS_RemoveElement
    <3> QED
      BY <1>2, <3>1, UsersFinite, FS_RemoveElement, FS_CardinalityType
  <2> QED
    BY <1>5, <1>6, <2>1
<1>8. PICK z : z = [s EXCEPT !.refs = s.refs - 1]
  OBVIOUS
<1>9. z \in M!Structs /\ z # NONE /\ z.refs = s.refs - 1 /\ z.va = s.va /\ ~z.onlist
  BY <1>4, <1>5, <1>7, <1>8, RefsSet
<1>10. /\ UNCHANGED <<registered, vmas>> /\ addr' = [addr EXCEPT ![t] = NONE]
       /\ structs' = [structs EXCEPT ![k] = z]
       /\ M!ToUnmap(s) => M!Goto(t, "munmap") /\ UNCHANGED <<lock, want>>
       /\ ~M!ToUnmap(s) => M!Goto(t, "idle") /\ lock' = [lock EXCEPT ![k] = NONE]
                           /\ want' = [want EXCEPT ![t] = NONE]
  BY <1>2, <1>3, <1>5, <1>6, <1>7, <1>8 DEF M!PVRMMapReleaseMMapData
<1>11. PICK step \in {"munmap", "idle"} : step = IF M!ToUnmap(s) THEN "munmap" ELSE "idle"
  OBVIOUS
<1>12. MapStep(t, k, step, z, NONE)
  <2>1. CASE M!ToUnmap(s)
    BY <1>1, <1>2, <1>10, <1>11, <2>1 DEF MapStep, MapInv, MapType, Locking, M!Goto
  <2>2. CASE ~M!ToUnmap(s)
    BY <1>1, <1>2, <1>10, <1>11, <2>2 DEF MapStep, Locking, M!Goto
  <2> QED
    BY <2>1, <2>2
<1>13. z.refs = Cardinality(Users(k)')
  BY <1>7, <1>9, <1>12, UsersAfter DEF MapSteps
<1>14. step = "munmap" => z.refs = 0
  BY <1>9, <1>11 DEF M!ToUnmap
<1>15. StructFits(t, k, step, z, NONE)
  BY <1>3, <1>6, <1>9, <1>10, <1>13, <1>14 DEF StructFits
<1> QED
  BY <1>9, <1>10, <1>12, <1>15, MapsNothing, ThreadSteps DEF MapSteps

LEMMA MunmapKeeps == ASSUME MapInv, NEW t \in Threads, M!Munmap(t) PROVE MapInv'
<1>1. mpc[t] = "munmap"
  BY DEF M!Munmap
<1>2. PICK k \in M!Keys : k = M!Key(t) /\ k[1] = want[t] /\ k[2] = Proc[t] /\ lock[k] = t
  BY <1>1, KeyIs DEF MapInv, LockInv, Locking
<1>3. PICK y \in Addresses \cup {NONE} : y = addr[t]
  BY DEF MapInv, MapType
<1>4. /\ mpc' = [mpc EXCEPT ![t] = "idle"] /\ want' = [want EXCEPT ![t] = NONE]
      /\ lock' = [lock EXCEPT ![k] = NONE] /\ structs' = [structs EXCEPT ![k] = NONE]
      /\ addr' = [addr EXCEPT ![t] = y] /\ registered' = registered
  BY <1>2, <1>3 DEF M!Munmap, M!Goto, M!Closed, MapInv, MapType
<1>5. vmas' = [vmas EXCEPT ![k[2]] = [v \in Addresses |-> IF vmas[k[2]][v] = k[1] THEN NONE ELSE vmas[k[2]][v]]]
  BY <1>2 DEF M!Munmap, MapInv, MapType
<1>6. k[1] \in Areas /\ k[2] \in Procs /\ k[1] # NONE
  BY <1>2, KeyFacts, MapAssumed DEF M!MMapAssumption
<1>7. MapsOnly(k) /\ \A v \in Addresses : vmas'[k[2]][v] # k[1]
  BY <1>5, <1>6 DEF MapsOnly, MapInv, MapType
<1>8. Users(k) = {}
  <2>1. Cardinality(Users(k)) = 0
    BY <1>1, <1>2, KeyFacts DEF MapInv, ThreadInv
  <2> QED
    BY <2>1, UsersFinite, FS_EmptySet
<1>9. MapStep(t, k, "idle", NONE, y)
  BY <1>1, <1>2, <1>4 DEF MapStep, Locking
<1>10. StructFits(t, k, "idle", NONE, y)
  BY <1>7, <1>8 DEF StructFits, Users
<1> QED
  BY <1>7, <1>9, <1>10, ThreadSteps DEF MapSteps

LEMMA RemoveAreaKeeps == ASSUME MapInv, NEW a \in Areas, M!PVRMMapRemoveRegisteredArea(a) PROVE MapInv'
<1>1. PICK walked \in SUBSET M!Unmapped(a) :
        /\ structs' = [k \in M!Keys |-> IF k \in walked THEN NONE ELSE structs[k]]
        /\ \/ registered' = registered
           \/ ~M!StillMapped(a) /\ walked = M!Unmapped(a) /\ registered' = registered \ {a}
        /\ UNCHANGED <<vmas, lock, mpc, want, addr>>
  BY DEF M!PVRMMapRemoveRegisteredArea
<1>4. \A k \in M!Keys : /\ k = <<k[1], k[2]>> /\ k[1] \in Areas /\ k[2] \in Procs
                        /\ structs[k] \in M!Structs \cup {NONE}
                        /\ structs'[k] = (IF k \in walked THEN NONE ELSE structs[k])
  BY <1>1 DEF M!Keys, MapInv, MapType
<1>5. \A k \in walked : k \in M!Keys /\ structs[k] # NONE /\ structs[k].onlist
  <2> SUFFICES ASSUME NEW k \in walked PROVE k \in M!Keys /\ structs[k] # NONE /\ structs[k].onlist
    OBVIOUS
  <2>1. k \in M!Keys /\ structs[k] # NONE /\ structs[k].mapped = 0
    BY <1>1 DEF M!Unmapped
  <2> QED
    BY <1>4, <2>1, StructFields
<1>6. registered' # registered => \A k \in M!Keys : structs[k] # NONE /\ k[1] = a => k \in walked
  <2> SUFFICES ASSUME registered' # registered, NEW k \in M!Keys, structs[k] # NONE, k[1] = a
               PROVE  k \in walked
    OBVIOUS
  <2>1. structs[<<a, k[2]>>].mapped = 0
    BY <1>1, <1>4 DEF M!StillMapped
  <2> QED
    BY <1>1, <1>4, <2>1 DEF M!Unmapped
<1>2. MapType'
  <2>1. structs' \in [M!Keys -> M!Structs \cup {NONE}]
    BY <1>1, <1>4
  <2> QED
    BY <1>1, <2>1 DEF MapInv, MapType
<1>3. LockInv'
  BY <1>1 DEF MapInv, LockInv, M!Key
<1>7. VmaInv'
  <2> SUFFICES ASSUME NEW p \in Procs, NEW v \in Addresses, vmas[p][v] # NONE
               PROVE  structs'[<<vmas[p][v], p>>] # NONE /\ structs'[<<vmas[p][v], p>>].va = v
    BY <1>1 DEF VmaInv
  <2>1. <<vmas[p][v], p>> \in M!Keys
    BY DEF MapInv, MapType, M!Keys
  <2>2. structs[<<vmas[p][v], p>>] # NONE /\ structs[<<vmas[p][v], p>>].va = v /\ v # NONE
    BY MapAssumed DEF MapInv, VmaInv, M!MMapAssumption
  <2>3. <<vmas[p][v], p>> \notin walked
    BY <1>4, <1>5, <2>1, <2>2, StructFields
  <2> QED
    BY <1>4, <2>1, <2>2, <2>3
<1>8. ASSUME NEW k \in M!Keys PROVE KeyInv(k)'
  <2>1. structs'[k] # NONE => structs'[k] = structs[k] /\ k \notin walked
    BY <1>4
  <2>2. Users(k)' = Users(k)
    BY <1>1 DEF Users, M!Key
  <2>3. structs'[k] # NONE /\ k[1] \in registered => k[1] \in registered'
    BY <1>1, <1>6, <2>1
  <2> QED
    BY <1>1, <2>1, <2>2, <2>3 DEF MapInv, KeyInv
<1>9. ASSUME NEW t \in Threads PROVE ThreadInv(t)'
  <2>1. M!Key(t)' = M!Key(t)
    BY <1>1 DEF M!Key
  <2>2. CASE mpc[t] \in {"uses", "release", "munmap"}
    <3>1. M!Key(t) \in M!Keys /\ structs[M!Key(t)] # NONE /\ ~structs[M!Key(t)].onlist
      BY <1>4, <2>2, KeyIs, StructFields DEF MapInv, ThreadInv
    <3>2. structs'[M!Key(t)] = structs[M!Key(t)]
      BY <1>4, <1>5, <3>1
    <3> QED
      BY <1>1, <2>1, <3>2 DEF MapInv, ThreadInv
  <2>3. CASE mpc[t] \notin {"uses", "release", "munmap"}
    <3>1. mpc[t] = "mmap" => M!Key(t) \in M!Keys
      BY KeyIs
    <3> QED
      BY <1>1, <1>4, <2>1, <2>3, <3>1 DEF MapInv, ThreadInv
  <2> QED
    BY <2>2, <2>3
<1> QED
  BY <1>2, <1>3, <1>7, <1>8, <1>9 DEF MapInv

LEMMA ExitKeeps == ASSUME MapInv, NEW p \in Procs, M!Exit(p) PROVE MapInv'
<1>1. /\ registered' = registered
      /\ mpc' = [t \in Threads |-> IF Proc[t] = p THEN "idle" ELSE mpc[t]]
      /\ want' = [t \in Threads |-> IF Proc[t] = p THEN NONE ELSE want[t]]
      /\ addr' = [t \in Threads |-> IF Proc[t] = p THEN NONE ELSE addr[t]]
      /\ lock' = [k \in M!Keys |-> IF k[2] = p THEN NONE ELSE lock[k]]
      /\ vmas' = [vmas EXCEPT ![p] = [v \in Addresses |-> NONE]]
      /\ structs' = [k \in M!Keys |-> IF k[2] # p THEN structs[k] ELSE NONE]
  BY DEF M!Exit, M!Closed
<1>2. MapType'
  BY <1>1 DEF MapInv, MapType, MapSteps
<1>3. \A k \in M!Keys : /\ k = <<k[1], k[2]>> /\ k[1] \in Areas /\ k[2] \in Procs
                        /\ structs[k] \in M!Structs \cup {NONE}
                        /\ structs'[k] = (IF k[2] # p THEN structs[k] ELSE NONE)
                        /\ lock'[k] = (IF k[2] # p THEN lock[k] ELSE NONE)
  BY <1>1 DEF M!Keys, MapInv, MapType
<1>4. \A t \in Threads :
        /\ Proc[t] = p => mpc'[t] = "idle"
        /\ Proc[t] # p => mpc'[t] = mpc[t] /\ addr'[t] = addr[t] /\ M!Key(t)' = M!Key(t)
  BY <1>1 DEF MapInv, MapType, M!Key
<1>5. \A t \in Threads : M!Key(t)[2] = Proc[t] /\ (M!Key(t))'[2] = Proc[t]
  BY DEF M!Key
<1>6. \A t \in Threads : mpc[t] # "idle" => M!Key(t) \in M!Keys
  BY KeyIs
<1>7. NONE \notin Threads
  BY MapAssumed DEF M!MMapAssumption
<1>8. LockInv'
  <2>1. ASSUME NEW t \in Threads, mpc'[t] \in Locking PROVE (lock[M!Key(t)])' = t
    <3>1. Proc[t] # p /\ mpc[t] \in Locking /\ M!Key(t) \in M!Keys /\ lock[M!Key(t)] = t
      BY <1>4, <1>6, <2>1 DEF MapInv, LockInv, Locking
    <3> QED
      BY <1>3, <1>4, <1>5, <3>1
  <2>2. ASSUME NEW k \in M!Keys, lock'[k] # NONE
        PROVE  \E t \in Threads : t = lock'[k] /\ M!Key(t)' = k /\ mpc'[t] \in Locking
    <3>1. PICK t \in Threads : t = lock[k] /\ lock'[k] = t /\ k[2] # p
      BY <1>3, <2>2 DEF MapInv, MapType
    <3>2. M!Key(t) = k /\ mpc[t] \in Locking
      BY <1>7, <3>1 DEF MapInv, LockInv
    <3> QED
      BY <1>4, <1>5, <3>1, <3>2
  <2> QED
    BY <2>1, <2>2 DEF LockInv, M!Key
<1>9. VmaInv'
  <2> SUFFICES ASSUME NEW o \in Procs, NEW v \in Addresses, vmas'[o][v] # NONE
               PROVE  structs'[<<vmas'[o][v], o>>] # NONE /\ structs'[<<vmas'[o][v], o>>].va = v
    BY DEF VmaInv
  <2>1. o # p /\ vmas'[o][v] = vmas[o][v]
    BY <1>1 DEF MapInv, MapType
  <2>2. PICK k \in M!Keys : k = <<vmas[o][v], o>> /\ k[2] = o
    <3>1. <<vmas[o][v], o>> \in M!Keys
      BY <2>1 DEF MapInv, MapType, M!Keys
    <3> QED
      BY <3>1
  <2>3. structs[k] # NONE /\ structs[k].va = v
    BY <2>1, <2>2 DEF MapInv, VmaInv
  <2> QED
    BY <1>3, <2>1, <2>2, <2>3
<1>10. ASSUME NEW k \in M!Keys PROVE KeyInv(k)'
  <2> SUFFICES ASSUME structs'[k] # NONE PROVE KeyInv(k)'
    BY DEF KeyInv
  <2>1. k[2] # p /\ structs'[k] = structs[k] /\ lock'[k] = lock[k] /\ structs[k] \in M!Structs
    BY <1>3
  <2>2. Users(k)' = Users(k)
    <3>1. ASSUME NEW t \in Threads
          PROVE  M!Key(t)' = k /\ mpc'[t] \in {"mmap", "uses", "release"} <=>
                 M!Key(t) = k /\ mpc[t] \in {"mmap", "uses", "release"}
      BY <1>4, <1>5, <2>1
    <3> QED
      BY <3>1 DEF Users
  <2>3. structs[k].onlist => mpc'[structs[k].tid] = "mmap"
    <3> SUFFICES ASSUME structs[k].onlist PROVE mpc'[structs[k].tid] = "mmap"
      OBVIOUS
    <3>1. PICK t \in Threads : t = structs[k].tid
      BY <2>1, StructFields
    <3>2. lock[k] = t /\ mpc[t] = "mmap"
      BY <2>1, <3>1 DEF MapInv, KeyInv
    <3>3. Proc[t] # p
      BY <1>5, <1>7, <2>1, <3>2 DEF MapInv, LockInv
    <3> QED
      BY <1>4, <3>1, <3>2, <3>3
  <2>4. vmas'[k[2]] = vmas[k[2]]
    BY <1>1, <1>3, <2>1 DEF MapInv, MapType
  <2>5. KeyInv(k)
    BY DEF MapInv
  <2> QED
    BY <1>1, <2>1, <2>2, <2>3, <2>4, <2>5 DEF KeyInv
<1>11. ASSUME NEW t \in Threads PROVE ThreadInv(t)'
  <2>1. CASE mpc'[t] = "idle"
    BY <2>1 DEF ThreadInv
  <2>2. CASE mpc'[t] # "idle"
    <3>1. Proc[t] # p /\ mpc'[t] = mpc[t] /\ addr'[t] = addr[t] /\ M!Key(t)' = M!Key(t)
      BY <1>4, <2>2
    <3>2. M!Key(t) \in M!Keys /\ M!Key(t)[2] # p
      BY <1>5, <1>6, <2>2, <3>1
    <3>3. structs'[M!Key(t)] = structs[M!Key(t)]
      BY <1>3, <3>2
    <3>4. ThreadInv(t)
      BY DEF MapInv
    <3> QED
      BY <3>1, <3>3, <3>4 DEF ThreadInv
  <2> QED
    BY <2>1, <2>2
<1> QED
  BY <1>2, <1>8, <1>9, <1>10, <1>11 DEF MapInv

LEMMA MapInvStep == MapInv /\ [M!Next]_(M!vars) => MapInv'
<1> SUFFICES ASSUME MapInv, [M!Next]_(M!vars) PROVE MapInv'
  OBVIOUS
<1>1. CASE UNCHANGED M!vars
  BY <1>1 DEF M!vars, MapInv, MapType, LockInv, VmaInv, KeyInv, ThreadInv, Users, M!Key
<1>2. CASE M!Next
  BY <1>2, LockToMapKeeps, AskKeeps, MMapKeeps, LockToReleaseKeeps, ReleaseKeeps, MunmapKeeps,
     RemoveAreaKeeps, ExitKeeps DEF M!Next
<1> QED
  BY <1>1, <1>2

LEMMA MapInvHolds == MapInv => MappingsHold
<1> SUFFICES ASSUME MapInv PROVE MappingsHold
  OBVIOUS
<1>1. M!TypeOK
  BY DEF MapInv, MapType, MapSteps, M!TypeOK
<1>2. ASSUME NEW t \in Threads, mpc[t] = "uses" PROVE vmas[Proc[t]][addr[t]] = want[t]
  <2>1. PICK k \in M!Keys : k = M!Key(t) /\ k[1] = want[t] /\ k[2] = Proc[t]
    BY <1>2, KeyIs
  <2>2. structs[k] # NONE /\ structs[k].va = addr[t] /\ addr[t] # NONE
    BY <1>2, <2>1 DEF MapInv, ThreadInv
  <2>3. structs[k] \in M!Structs
    BY <2>2 DEF MapInv, MapType
  <2>4. vmas[k[2]][structs[k].va] = k[1]
    BY <2>2, <2>3, StructFields DEF MapInv, KeyInv
  <2> QED
    BY <2>1, <2>2, <2>4
<1>3. ASSUME NEW p \in Procs, NEW v \in Addresses, vmas[p][v] # NONE PROVE vmas[p][v] \in registered
  <2>1. PICK k \in M!Keys : k = <<vmas[p][v], p>> /\ k[1] = vmas[p][v]
    <3>1. <<vmas[p][v], p>> \in M!Keys
      BY <1>3 DEF MapInv, MapType, M!Keys
    <3> QED
      BY <3>1
  <2>2. structs[k] # NONE
    BY <1>3, <2>1 DEF MapInv, VmaInv
  <2> QED
    BY <2>1, <2>2 DEF MapInv, KeyInv
<1>4. ASSUME NEW k \in M!Keys, structs[k] # NONE
      PROVE  IF structs[k].va = NONE THEN structs[k].onlist ELSE vmas[k[2]][structs[k].va] = k[1]
  <2>1. structs[k] \in M!Structs
    BY <1>4 DEF MapInv, MapType
  <2>2. ~structs[k].onlist => structs[k].va # NONE /\ vmas[k[2]][structs[k].va] = k[1]
    BY <1>4, <2>1, StructFields DEF MapInv, KeyInv
  <2>3. structs[k].onlist => structs[k].va = NONE
    BY <2>1, StructFields
  <2> QED
    BY <2>2, <2>3, Zenon
<1>5. M!OnlyOne
  BY FoundIs DEF M!OnlyOne
<1> QED
  BY <1>1, <1>2, <1>3, <1>4, <1>5 DEF MappingsHold, M!MappingsHold, M!UsedIsThere,
     M!GivenBackIsUnmapped, M!StructsAreTrue

(* An area in use is where its thread was told, memory given back is       *)
(* mapped nowhere, structures tell the truth of their process, and an mmap *)
(* finds its own: for any threads, processes, areas and addresses, if user *)
(* space locks as mmap.c asks it to.                                       *)
THEOREM MappingsCorrect == GfxSpec => []MappingsHold
<1>1. GfxInit => MapInv
  BY MapInvInit DEF GfxInit
<1>2. MapInv /\ [GfxNext]_all => MapInv'
  BY MapInvStep DEF GfxNext, all, mappings, M!vars
<1> QED
  BY <1>1, <1>2, MapInvHolds, PTL DEF GfxSpec
-----------------------------------------------------------------------------
(* The resources                                                           *)

Inside == {"free", "ask", "poll", "read"}       \* steps under the bridge mutex

(* Who is connected, who has the mutex, who leaves and who was forced.     *)
PlaceInv ==
  /\ \A p \in Procs : p \in data <=> rpc[p] # "out"
  /\ \A p \in Procs : bridge = p <=> rpc[p] \in Inside
  /\ \A p \in exiting : rpc[p] \in Inside \cup {"sleep"}
  /\ \A p \in forced : p \notin exiting /\ rpc[p] \in {"free", "read"} /\ what[p] \in Contexts

(* What a thread frees is in its list.                                     *)
ItemInv ==
  \A p \in Procs :
    /\ rpc[p] \in {"ask", "poll", "read"} => what[p] \in Contexts \cup {PB}
    /\ rpc[p] = "sleep" => what[p] \in Contexts
    /\ rpc[p] = "free" /\ what[p] = PB => pbs[p] > 0
    /\ rpc[p] \in Inside \cup {"sleep"} /\ what[p] \in Contexts => what[p] \in R!Elements(rcs[p])

(* A context is in one list, once, until it is freed.                      *)
ListInv ==
  /\ \A p \in Procs : \A i, j \in DOMAIN rcs[p] : rcs[p][i] = rcs[p][j] => i = j
  /\ \A p, q \in Procs : p # q => R!Elements(rcs[p]) \cap R!Elements(rcs[q]) = {}
  /\ \A p \in Procs : R!Elements(rcs[p]) \cap gone = {}

(* While every request was answered in time: the microkernel's word is     *)
(* about the item that the one thread under the mutex asked for.           *)
Asks(p) == rpc[p] = "poll" \/ (rpc[p] = "read" /\ p \notin forced)
Answered(p) ==
  /\ requests = <<>>
  /\ \/ status = {"complete", "busy"}
     \/ status = {"complete", "done"} /\ what[p] \notin using
AnswerInv ==
  unheard = 0 =>
    /\ (\A p \in Procs : ~Asks(p)) => requests = <<>> /\ status = {}
    /\ \A p \in Procs : rpc[p] = "poll" => Answered(p) \/ (requests = <<what[p]>> /\ status = {})
    /\ \A p \in Procs : rpc[p] = "read" /\ p \notin forced => Answered(p)

ListsInv ==
  /\ R!TypeOK /\ unheard \in Nat /\ forced \subseteq Procs
  /\ PlaceInv /\ R!LockIsSomeones /\ ItemInv /\ ListInv /\ R!CountIsHeld
ResInv == ListsInv /\ AnswerInv /\ R!FreedWhenDone

LEMMA ResAssumed ==
  /\ IsFiniteSet(Procs) /\ NONE \notin Procs /\ R!FREE \notin Procs
  /\ PB \notin Contexts /\ NONE \notin Contexts \cup {PB} /\ MaxRefs \in Nat
BY MCGraphicsAssumption DEF R!ResManAssumption, R!IsFiniteSet, IsFiniteSet

(* An item is taken out of its list.                                       *)
LEMMA TakenOut ==
  ASSUME NEW A, NEW s \in Seq(A), NEW c, \A i, j \in DOMAIN s : s[i] = s[j] => i = j
  PROVE  LET f == R!Without(s, c) IN
         /\ f \in Seq(A) /\ R!Elements(f) = R!Elements(s) \ {c}
         /\ \A i, j \in DOMAIN f : f[i] = f[j] => i = j
<1>1. CASE c \notin R!Elements(s)
  BY <1>1 DEF R!Without
<1>2. CASE c \in R!Elements(s)
  <2>1. PICK n \in Nat : n = Len(s) /\ DOMAIN s = 1 .. n
    OBVIOUS
  <2>2. PICK k \in 1 .. n : k = CHOOSE j \in 1 .. Len(s) : s[j] = c
    BY <1>2, <2>1 DEF R!Elements
  <2>3. s[k] = c
    BY <1>2, <2>1, <2>2 DEF R!Elements
  <2>4. PICK a : a = SubSeq(s, 1, k - 1)
    OBVIOUS
  <2>5. PICK b : b = SubSeq(s, k + 1, n)
    OBVIOUS
  <2>6. a \in Seq(A) /\ Len(a) = k - 1 /\ \A i \in 1 .. k - 1 : a[i] = s[i]
    <3>1. k - 1 \in Int /\ 1 \in Int /\ \A i \in 1 .. k - 1 : s[i] \in A
      BY <2>1
    <3> QED
      BY <2>4, <3>1, SubSeqProperties
  <2>7. b \in Seq(A) /\ Len(b) = n - k /\ \A i \in 1 .. n - k : b[i] = s[k + i]
    <3>1. k + 1 \in Int /\ n \in Int /\ \A i \in k + 1 .. n : s[i] \in A
      BY <2>1
    <3>2. /\ b \in Seq(A) /\ Len(b) = IF k + 1 <= n THEN n - (k + 1) + 1 ELSE 0
          /\ \A i \in 1 .. n - (k + 1) + 1 : b[i] = s[(k + 1) + i - 1]
      BY <2>5, <3>1, SubSeqProperties
    <3> QED
      BY <3>2
  <2>8. PICK f : f = R!Without(s, c)
    OBVIOUS
  <2>9. f = a \o b
    BY <1>2, <2>1, <2>2, <2>4, <2>5, <2>8 DEF R!Without
  <2>10. /\ f \in Seq(A) /\ DOMAIN f = 1 .. n - 1
         /\ \A i \in 1 .. n - 1 : f[i] = s[IF i < k THEN i ELSE i + 1]
    <3>1. /\ Len(f) = Len(a) + Len(b) /\ f \in Seq(A)
          /\ \A i \in 1 .. Len(a) + Len(b) : f[i] = IF i <= Len(a) THEN a[i] ELSE b[i - Len(a)]
      BY <2>6, <2>7, <2>9, ConcatProperties
    <3>2. Len(a) + Len(b) = n - 1
      BY <2>6, <2>7
    <3>3. ASSUME NEW i \in 1 .. n - 1 PROVE f[i] = s[IF i < k THEN i ELSE i + 1]
      <4>1. f[i] = IF i <= k - 1 THEN a[i] ELSE b[i - (k - 1)]
        BY <2>6, <3>1, <3>2
      <4>2. CASE i < k
        BY <2>6, <4>1, <4>2
      <4>3. CASE ~(i < k)
        <5>1. i - (k - 1) \in 1 .. n - k /\ k + (i - (k - 1)) = i + 1 /\ ~(i <= k - 1)
          BY <4>3
        <5> QED
          BY <2>7, <4>1, <4>3, <5>1
      <4> QED
        BY <4>2, <4>3
    <3>4. DOMAIN f = 1 .. n - 1
      BY <3>1, <3>2
    <3> QED
      BY <3>1, <3>3, <3>4
  <2>11. R!Elements(f) = R!Elements(s) \ {c}
    <3>1. DOMAIN f = 1 .. Len(f)
      BY <2>10
    <3>2. ASSUME NEW i \in 1 .. n - 1 PROVE f[i] \in R!Elements(s) \ {c}
      <4>1. PICK j : j = IF i < k THEN i ELSE i + 1
        OBVIOUS
      <4>2. j \in 1 .. n /\ j # k
        BY <4>1
      <4>3. s[j] # c
        BY <2>1, <2>3, <4>2
      <4>4. f[i] = s[j]
        BY <2>10, <4>1
      <4> QED
        BY <2>1, <4>2, <4>3, <4>4 DEF R!Elements
    <3>3. ASSUME NEW j \in 1 .. n, s[j] # c PROVE \E i \in 1 .. n - 1 : f[i] = s[j]
      <4>1. PICK i : i = IF j < k THEN j ELSE j - 1
        OBVIOUS
      <4>2. j # k
        BY <2>3, <3>3
      <4>3. i \in 1 .. n - 1 /\ j = IF i < k THEN i ELSE i + 1
        BY <4>1, <4>2
      <4> QED
        BY <2>10, <4>3
    <3> QED
      BY <2>1, <2>10, <3>1, <3>2, <3>3 DEF R!Elements
  <2>12. \A i, j \in DOMAIN f : f[i] = f[j] => i = j
    <3>1. TAKE i, j \in DOMAIN f
    <3>2. HAVE f[i] = f[j]
    <3>3. i \in 1 .. n - 1 /\ j \in 1 .. n - 1
      BY <2>10
    <3>4. PICK x : x = IF i < k THEN i ELSE i + 1
      OBVIOUS
    <3>5. PICK y : y = IF j < k THEN j ELSE j + 1
      OBVIOUS
    <3>6. x \in 1 .. n /\ y \in 1 .. n /\ s[x] = s[y]
      BY <2>10, <3>2, <3>3, <3>4, <3>5
    <3>7. x = y
      BY <2>1, <3>6
    <3> QED
      BY <3>3, <3>4, <3>5, <3>7
  <2> QED
    BY <2>8, <2>10, <2>11, <2>12
<1> QED
  BY <1>1, <1>2

(* A reference to the shared buffer more, or one less.                     *)
Held == {h \in Procs \X (1 .. MaxRefs) : h[2] <= pbs[h[1]]}

LEMMA HeldFinite == IsFiniteSet(Held) /\ Cardinality(Held) \in Nat
<1>1. IsFiniteSet(1 .. MaxRefs)
  BY ResAssumed, FS_Interval
<1>2. IsFiniteSet(Procs \X (1 .. MaxRefs))
  BY <1>1, ResAssumed, FS_Product
<1>3. IsFiniteSet(Held)
  BY <1>2, FS_Subset DEF Held
<1> QED
  BY <1>3, FS_CardinalityType

LEMMA HeldIs ==
  /\ R!CountIsHeld <=> pb = Cardinality(Held)
  /\ R!CountIsHeld' <=> pb' = Cardinality(Held')
<1>1. \A X : R!Cardinality(X) = Cardinality(X)
  BY DEF R!Cardinality, Cardinality
<1> QED
  BY <1>1 DEF R!CountIsHeld, Held

LEMMA OneMore ==
  ASSUME pbs \in [Procs -> 0 .. MaxRefs], R!CountIsHeld, NEW p \in Procs, pbs[p] < MaxRefs,
         pbs' = [pbs EXCEPT ![p] = @ + 1], pb' = pb + 1
  PROVE  R!CountIsHeld' /\ pbs' \in [Procs -> 0 .. MaxRefs] /\ pb' \in Nat
<1>1. pbs'[p] = pbs[p] + 1 /\ \A q \in Procs \ {p} : pbs'[q] = pbs[q]
  OBVIOUS
<1>2. pbs[p] + 1 \in 1 .. MaxRefs /\ pbs' \in [Procs -> 0 .. MaxRefs]
  BY ResAssumed
<1>3. Held' = Held \cup {<<p, pbs[p] + 1>>} /\ <<p, pbs[p] + 1>> \notin Held
  BY <1>1, <1>2, ResAssumed DEF Held
<1>4. /\ Cardinality(Held \cup {<<p, pbs[p] + 1>>}) = Cardinality(Held) + 1
      /\ Cardinality(Held) \in Nat
  BY <1>3, HeldFinite, FS_AddElement
<1>5. pb = Cardinality(Held) /\ pb' = Cardinality(Held') /\ pb' \in Nat
  BY <1>3, <1>4, HeldIs
<1> QED
  BY <1>2, <1>5, HeldIs

LEMMA OneLess ==
  ASSUME pbs \in [Procs -> 0 .. MaxRefs], R!CountIsHeld, NEW p \in Procs, pbs[p] > 0,
         pbs' = [pbs EXCEPT ![p] = @ - 1], pb' = pb - 1
  PROVE  R!CountIsHeld' /\ pbs' \in [Procs -> 0 .. MaxRefs] /\ pb' \in Nat
<1>1. pbs'[p] = pbs[p] - 1 /\ \A q \in Procs \ {p} : pbs'[q] = pbs[q]
  OBVIOUS
<1>2. pbs[p] \in 1 .. MaxRefs /\ pbs' \in [Procs -> 0 .. MaxRefs]
  BY ResAssumed
<1>3. Held' = Held \ {<<p, pbs[p]>>} /\ <<p, pbs[p]>> \in Held
  BY <1>1, <1>2, ResAssumed DEF Held
<1>4. /\ Cardinality(Held \ {<<p, pbs[p]>>}) = Cardinality(Held) - 1
      /\ IsFiniteSet(Held \ {<<p, pbs[p]>>})
  BY <1>3, HeldFinite, FS_RemoveElement, FS_Subset
<1>5. pb = Cardinality(Held) /\ pb' = Cardinality(Held') /\ pb' \in Nat
  BY <1>3, <1>4, HeldIs, FS_CardinalityType
<1> QED
  BY <1>2, <1>5, HeldIs

-----------------------------------------------------------------------------
(* A thread goes a step, and the list of contexts rests.                   *)
LEMMA ThreadKeeps ==
  ASSUME ListsInv, NEW p \in Procs, NEW x \in Inside \cup {"user", "sleep"},
         NEW w \in Contexts \cup {PB, NONE}, rpc[p] # "out", bridge \in {p, R!FREE},
         UNCHANGED <<data, rcs, using, unheard, gone>>,
         creator' \in Procs \cup {NONE}, R!LockIsSomeones', R!CountIsHeld', pb' \in Nat,
         pbs' \in [Procs -> 0 .. MaxRefs], \A q \in Procs \ {p} : pbs'[q] = pbs[q],
         rpc' = [rpc EXCEPT ![p] = x], what' = [what EXCEPT ![p] = w],
         bridge' = IF x \in Inside THEN p ELSE R!FREE,
         exiting' \in {exiting, exiting \cup {p}}, forced' \in {forced, forced \cup {p}, forced \ {p}},
         p \in exiting' => x \in Inside \cup {"sleep"},
         p \in forced' => p \notin exiting' /\ x \in {"free", "read"} /\ w \in Contexts,
         x \in {"ask", "poll", "read"} => w \in Contexts \cup {PB},
         x = "sleep" => w \in Contexts, x = "free" /\ w = PB => pbs'[p] > 0,
         x \in Inside \cup {"sleep"} /\ w \in Contexts => w \in R!Elements(rcs[p]),
         requests' \in Seq(Contexts \cup {PB}), status' \subseteq {"complete", "busy", "done"}
  PROVE  ListsInv'
<1>1. /\ rpc'[p] = x /\ \A q \in Procs \ {p} : rpc'[q] = rpc[q]
      /\ what'[p] = w /\ \A q \in Procs \ {p} : what'[q] = what[q]
  BY DEF ListsInv, R!TypeOK
<1>2. R!TypeOK'
  BY DEF ListsInv, R!TypeOK, Inside
<1>3. unheard' \in Nat /\ forced' \subseteq Procs
  BY DEF ListsInv
<1>4. PlaceInv'
  <2>1. \A q \in Procs \ {p} : rpc[q] \notin Inside
    BY ResAssumed DEF ListsInv, PlaceInv
  <2>2. \A q \in Procs : bridge' = q <=> rpc'[q] \in Inside
    BY <1>1, <2>1, ResAssumed
  <2>3. \A q \in Procs : q \in data' <=> rpc'[q] # "out"
    BY <1>1 DEF ListsInv, PlaceInv, Inside
  <2>4. \A q \in exiting' : rpc'[q] \in Inside \cup {"sleep"}
    BY <1>1 DEF ListsInv, PlaceInv, R!TypeOK
  <2>5. \A q \in forced' : q \notin exiting' /\ rpc'[q] \in {"free", "read"} /\ what'[q] \in Contexts
    BY <1>1 DEF ListsInv, PlaceInv
  <2> QED
    BY <2>2, <2>3, <2>4, <2>5 DEF PlaceInv
<1>5. ListInv'
  BY DEF ListsInv, ListInv
<1>6. ItemInv'
  BY <1>1 DEF ListsInv, ItemInv
<1> QED
  BY <1>2, <1>3, <1>4, <1>5, <1>6 DEF ListsInv

(* So it does if what it has of the shared buffer rests too.               *)
LEMMA ThreadMoves ==
  ASSUME ListsInv, NEW p \in Procs, NEW x \in Inside \cup {"user", "sleep"},
         NEW w \in Contexts \cup {PB, NONE}, rpc[p] # "out", bridge \in {p, R!FREE},
         UNCHANGED <<data, rcs, pbs, creator, pb, using, unheard, gone>>,
         rpc' = [rpc EXCEPT ![p] = x], what' = [what EXCEPT ![p] = w],
         bridge' = IF x \in Inside THEN p ELSE R!FREE,
         exiting' \in {exiting, exiting \cup {p}}, forced' \in {forced, forced \cup {p}, forced \ {p}},
         p \in exiting' => x \in Inside \cup {"sleep"},
         p \in forced' => p \notin exiting' /\ x \in {"free", "read"} /\ w \in Contexts,
         x \in {"ask", "poll", "read"} => w \in Contexts \cup {PB},
         x = "sleep" => w \in Contexts, x = "free" /\ w = PB => pbs[p] > 0,
         x \in Inside \cup {"sleep"} /\ w \in Contexts => w \in R!Elements(rcs[p]),
         requests' \in Seq(Contexts \cup {PB}), status' \subseteq {"complete", "busy", "done"}
  PROVE  ListsInv'
<1>1. /\ R!LockIsSomeones' /\ R!CountIsHeld' /\ creator' \in Procs \cup {NONE} /\ pb' \in Nat
      /\ pbs' \in [Procs -> 0 .. MaxRefs]
  BY HeldIs DEF ListsInv, R!TypeOK, R!LockIsSomeones, Held
<1> QED
  BY <1>1, ThreadKeeps

(* The callback is over: the item is out of the list.                      *)
LEMMA OverKeeps ==
  ASSUME ListsInv, NEW p \in Procs, NEW ok \in BOOLEAN, R!Over(p, ok), rpc[p] \in {"poll", "read"},
         UNCHANGED <<data, pbs, pb, exiting, using>>, unheard' \in Nat,
         gone' = gone \cup ({what[p]} \cap Contexts),
         requests' \in Seq(Contexts \cup {PB}), status' \subseteq {"complete", "busy", "done"}
  PROVE  ListsInv' /\ \A q \in Procs : rpc'[q] \notin {"poll", "read"}
<1>1. PICK rest : rest = R!Without(rcs[p], what[p])
  OBVIOUS
<1>2. /\ rest \in Seq(Contexts) /\ R!Elements(rest) = R!Elements(rcs[p]) \ {what[p]}
      /\ \A i, j \in DOMAIN rest : rest[i] = rest[j] => i = j
  <2>1. rcs[p] \in Seq(Contexts) /\ \A i, j \in DOMAIN rcs[p] : rcs[p][i] = rcs[p][j] => i = j
    BY DEF ListsInv, R!TypeOK, ListInv
  <2> QED
    BY <1>1, <2>1, TakenOut
<1>3. PICK x : x = IF p \in exiting THEN "free" ELSE "user"
  OBVIOUS
<1>4. PICK w : w = IF p \notin exiting THEN NONE
                   ELSE IF what[p] \in Contexts /\ ~(rest = <<>> \/ ~ok) THEN Head(rest)
                   ELSE R!AfterContexts(p)
  OBVIOUS
<1>5. /\ rcs' = [rcs EXCEPT ![p] = rest] /\ rpc' = [rpc EXCEPT ![p] = x] /\ creator' = creator
      /\ what' = [what EXCEPT ![p] = w] /\ bridge' = (IF x \in Inside THEN p ELSE R!FREE)
      /\ forced' = forced \ {p}
  <2>1. bridge = p /\ (p \in exiting => p \notin forced)
    BY DEF ListsInv, PlaceInv, Inside
  <2> QED
    BY <1>1, <1>3, <1>4, <2>1 DEF R!Over, R!Goto, Inside
<1>6. w \in Contexts => w \in R!Elements(rest)
  <2>1. R!AfterContexts(p) \notin Contexts
    BY ResAssumed DEF R!AfterContexts
  <2>2. rest # <<>> => Head(rest) \in R!Elements(rest)
    BY <1>2 DEF R!Elements
  <2> QED
    BY <1>4, <2>1, <2>2, ResAssumed
<1>7. w \in Contexts \cup {PB, NONE} /\ (x = "free" /\ w = PB => pbs[p] > 0)
  <2>1. R!AfterContexts(p) \in {PB, NONE} /\ (R!AfterContexts(p) = PB => pbs[p] > 0)
    BY ResAssumed DEF R!AfterContexts
  <2>2. rest # <<>> => Head(rest) \in Contexts
    BY <1>2
  <2> QED
    BY <1>3, <1>4, <2>1, <2>2, ResAssumed
<1>8. /\ rpc'[p] = x /\ \A q \in Procs \ {p} : rpc'[q] = rpc[q]
      /\ what'[p] = w /\ \A q \in Procs \ {p} : what'[q] = what[q]
      /\ rcs'[p] = rest /\ \A q \in Procs \ {p} : rcs'[q] = rcs[q]
  BY <1>5 DEF ListsInv, R!TypeOK
<1>9. R!TypeOK'
  BY <1>2, <1>3, <1>5, <1>7 DEF ListsInv, R!TypeOK, Inside
<1>10. \A q \in Procs \ {p} : rpc[q] \notin Inside
  BY DEF ListsInv, PlaceInv, Inside
<1>11. PlaceInv'
  <2>1. \A q \in Procs : bridge' = q <=> rpc'[q] \in Inside
    BY <1>3, <1>5, <1>8, <1>10, ResAssumed DEF Inside
  <2>2. \A q \in Procs : q \in data' <=> rpc'[q] # "out"
    BY <1>3, <1>8 DEF ListsInv, PlaceInv
  <2>3. \A q \in exiting' : rpc'[q] \in Inside \cup {"sleep"}
    BY <1>3, <1>8 DEF ListsInv, PlaceInv, R!TypeOK, Inside
  <2>4. \A q \in forced' : q \notin exiting' /\ rpc'[q] \in {"free", "read"} /\ what'[q] \in Contexts
    BY <1>5, <1>8 DEF ListsInv, PlaceInv
  <2> QED
    BY <2>1, <2>2, <2>3, <2>4 DEF PlaceInv
<1>12. R!LockIsSomeones' /\ R!CountIsHeld'
  BY <1>5, HeldIs DEF ListsInv, R!LockIsSomeones, Held
<1>13. ItemInv'
  BY <1>3, <1>6, <1>7, <1>8 DEF ListsInv, ItemInv
<1>14. ListInv'
  <2>1. \A q \in Procs : \A i, j \in DOMAIN rcs'[q] : rcs'[q][i] = rcs'[q][j] => i = j
    BY <1>2, <1>8 DEF ListsInv, ListInv
  <2>2. \A q \in Procs : R!Elements(rcs'[q]) \subseteq R!Elements(rcs[q])
    BY <1>2, <1>8
  <2>3. \A q, y \in Procs : q # y => R!Elements(rcs'[q]) \cap R!Elements(rcs'[y]) = {}
    <3>1. \A q, y \in Procs : q # y => R!Elements(rcs[q]) \cap R!Elements(rcs[y]) = {}
      BY DEF ListsInv, ListInv
    <3> QED
      BY <2>2, <3>1
  <2>4. \A q \in Procs : R!Elements(rcs'[q]) \cap gone' = {}
    <3>1. TAKE q \in Procs
    <3>2. R!Elements(rcs[q]) \cap gone = {}
      BY DEF ListsInv, ListInv
    <3>3. what[p] \in Contexts => what[p] \notin R!Elements(rcs'[q])
      <4>1. CASE q = p
        BY <1>2, <1>8, <4>1
      <4>2. CASE q # p
        <5>1. what[p] \in Contexts => what[p] \in R!Elements(rcs[p])
          BY DEF ListsInv, ItemInv, Inside
        <5>2. R!Elements(rcs[p]) \cap R!Elements(rcs[q]) = {}
          BY <4>2 DEF ListsInv, ListInv
        <5> QED
          BY <2>2, <5>1, <5>2
      <4> QED
        BY <4>1, <4>2
    <3> QED
      BY <2>2, <3>2, <3>3
  <2> QED
    BY <2>1, <2>3, <2>4 DEF ListInv, R!Elements
<1>15. \A q \in Procs : rpc'[q] \notin {"poll", "read"}
  BY <1>3, <1>8, <1>10 DEF Inside
<1>16. forced' \subseteq Procs
  BY <1>5 DEF ListsInv
<1> QED
  BY <1>9, <1>11, <1>12, <1>13, <1>14, <1>15, <1>16 DEF ListsInv

(* No thread waits for an answer while the mutex is free.                  *)
LEMMA NoneAsks ==
  ASSUME ListsInv, AnswerInv, bridge = R!FREE \/ \E p \in Procs : bridge = p /\ ~Asks(p)
  PROVE  /\ \A q \in Procs : ~Asks(q)
         /\ unheard = 0 => requests = <<>> /\ status = {}
<1>1. \A q \in Procs : Asks(q) => bridge = q
  BY DEF ListsInv, PlaceInv, Asks, Inside
<1>2. \A q \in Procs : ~Asks(q)
  BY <1>1, ResAssumed
<1> QED
  BY <1>2 DEF AnswerInv

LEMMA NoneAsked ==
  ASSUME \A q \in Procs : ~(Asks(q)'), unheard' = 0 => requests' = <<>> /\ status' = {}
  PROVE  AnswerInv'
BY DEF AnswerInv, Asks

(* Nothing changes of what is freed and what the microkernel uses.         *)
LEMMA FreedRests ==
  ASSUME R!FreedWhenDone, UNCHANGED <<gone, using, gaveup, unheard>>
  PROVE  R!FreedWhenDone'
BY DEF R!FreedWhenDone

(* A process outside the mutex asks for something.                         *)
LEMMA IoctlKeeps ==
  ASSUME ResInv, NEW p \in Procs, R!InIoctl(p),
         \/ \E c \in Contexts, b \in BOOLEAN : R!SGXUnregisterHWRenderContextKM(p, c, b)
         \/ R!SGXUnrefSharedPBDescKM(p) \/ R!Release(p)
  PROVE  ResInv'
<1> USE DEF R!res, R!thread, R!timers, R!uk, R!history
<1>1. rpc[p] = "user" /\ bridge = R!FREE /\ p \notin exiting /\ p \notin forced
  BY DEF R!InIoctl, ResInv, ListsInv, PlaceInv, Inside
<1>2. /\ UNCHANGED <<data, rcs, pbs, creator, pb, using, unheard, gone, gaveup, requests, status>>
      /\ rpc' = [rpc EXCEPT ![p] = "free"] /\ bridge' = p
  BY DEF R!SGXUnregisterHWRenderContextKM, R!SGXUnrefSharedPBDescKM, R!Release, R!Goto
<1>3. PICK w : what'[p] = w
  OBVIOUS
<1>4. /\ w \in Contexts \cup {PB, NONE} /\ what' = [what EXCEPT ![p] = w]
      /\ w = PB => pbs[p] > 0
      /\ w \in Contexts => w \in R!Elements(rcs[p])
      /\ exiting' \in {exiting, exiting \cup {p}} /\ forced' \in {forced, forced \cup {p}}
      /\ p \in forced' => p \notin exiting' /\ w \in Contexts
  <2> USE DEF ResInv, ListsInv, R!TypeOK
  <2>1. CASE \E c \in Contexts, b \in BOOLEAN : R!SGXUnregisterHWRenderContextKM(p, c, b)
    BY <1>1, <1>3, <2>1, ResAssumed DEF R!SGXUnregisterHWRenderContextKM
  <2>2. CASE R!SGXUnrefSharedPBDescKM(p)
    BY <1>1, <1>3, <2>2, ResAssumed DEF R!SGXUnrefSharedPBDescKM
  <2>3. CASE R!Release(p)
    <3>1. PICK v : v = IF rcs[p] = <<>> THEN R!AfterContexts(p) ELSE Head(rcs[p])
      OBVIOUS
    <3>2. /\ v \in Contexts \cup {PB, NONE} /\ (v = PB => pbs[p] > 0)
          /\ v \in Contexts => v \in R!Elements(rcs[p])
      BY <3>1, ResAssumed DEF R!AfterContexts, R!Elements
    <3>3. what' = [what EXCEPT ![p] = v] /\ exiting' = exiting \cup {p} /\ forced' = forced
      BY <2>3, <3>1 DEF R!Release
    <3> QED
      BY <1>1, <1>3, <3>2, <3>3
  <2> QED
    BY <2>1, <2>2, <2>3
<1>5. ListsInv'
  <2>1. /\ requests' \in Seq(Contexts \cup {PB}) /\ status' \subseteq {"complete", "busy", "done"}
        /\ "free" \in Inside
    BY <1>2 DEF ResInv, ListsInv, R!TypeOK, Inside
  <2> QED
    BY <1>1, <1>2, <1>4, <2>1, ThreadMoves DEF ResInv
<1>6. AnswerInv'
  <2>1. /\ \A q \in Procs : ~Asks(q)
        /\ unheard = 0 => requests = <<>> /\ status = {}
    BY <1>1, NoneAsks DEF ResInv
  <2>2. \A q \in Procs : ~(Asks(q)')
    BY <1>2, <1>4, <2>1 DEF Asks, ResInv, ListsInv, R!TypeOK
  <2> QED
    BY <1>2, <2>1, <2>2, NoneAsked
<1>7. R!FreedWhenDone'
  BY <1>2, FreedRests DEF ResInv
<1> QED
  BY <1>5, <1>6, <1>7 DEF ResInv

LEMMA OpenKeeps == ASSUME ResInv, NEW p \in Procs, R!Open(p) PROVE ResInv'
<1> USE DEF R!res, R!thread, R!timers, R!uk, R!history
<1>1. /\ rpc[p] = "out" /\ bridge = R!FREE /\ rpc' = [rpc EXCEPT ![p] = "user"] /\ data' = data \cup {p}
      /\ UNCHANGED <<rcs, pbs, creator, pb, bridge, exiting, what, forced, requests, status, using,
                     gone, gaveup, unheard>>
  BY DEF R!Open, R!Goto
<1>2. /\ rpc'[p] = "user" /\ \A q \in Procs \ {p} : rpc'[q] = rpc[q]
      /\ p \notin exiting /\ p \notin forced
  BY <1>1 DEF ResInv, ListsInv, R!TypeOK, PlaceInv, Inside
<1>3. ListsInv'
  <2>1. R!TypeOK' /\ unheard' \in Nat /\ forced' \subseteq Procs
    BY <1>1 DEF ResInv, ListsInv, R!TypeOK
  <2>2. PlaceInv'
    BY <1>1, <1>2 DEF ResInv, ListsInv, PlaceInv, Inside
  <2>3. R!LockIsSomeones' /\ ListInv' /\ R!CountIsHeld'
    BY <1>1, HeldIs DEF ResInv, ListsInv, R!LockIsSomeones, ListInv, Held
  <2>4. ItemInv'
    BY <1>1, <1>2 DEF ResInv, ListsInv, ItemInv, Inside
  <2> QED
    BY <2>1, <2>2, <2>3, <2>4 DEF ListsInv
<1>4. AnswerInv'
  <2>1. /\ \A q \in Procs : ~Asks(q)
        /\ unheard = 0 => requests = <<>> /\ status = {}
    BY <1>1, NoneAsks DEF ResInv
  <2>2. \A q \in Procs : ~(Asks(q)')
    BY <1>1, <1>2, <2>1 DEF Asks
  <2> QED
    BY <1>1, <2>1, <2>2, NoneAsked
<1>5. R!FreedWhenDone'
  BY <1>1, FreedRests DEF ResInv
<1> QED
  BY <1>3, <1>4, <1>5 DEF ResInv

(* The threads rest, and none is under the mutex.                          *)
LEMMA ThreadsRest ==
  ASSUME ResInv, bridge = R!FREE, UNCHANGED <<data, bridge, rpc, exiting, what, forced>>,
         UNCHANGED <<requests, status, unheard, gone, gaveup>>
  PROVE  PlaceInv' /\ AnswerInv' /\ \A q \in Procs : rpc[q] \notin Inside
<1>1. PlaceInv'
  BY DEF ResInv, ListsInv, PlaceInv
<1>2. /\ \A q \in Procs : ~Asks(q)
      /\ unheard = 0 => requests = <<>> /\ status = {}
  BY NoneAsks DEF ResInv
<1>3. \A q \in Procs : ~(Asks(q)')
  BY <1>2 DEF Asks
<1>4. AnswerInv'
  BY <1>2, <1>3, NoneAsked
<1>5. \A q \in Procs : rpc[q] \notin Inside
  BY ResAssumed DEF ResInv, ListsInv, PlaceInv
<1> QED
  BY <1>1, <1>4, <1>5

LEMMA RegisterKeeps ==
  ASSUME ResInv, NEW p \in Procs, NEW c \in Contexts, R!SGXRegisterHWRenderContextKM(p, c)
  PROVE  ResInv'
<1> USE DEF R!res, R!thread, R!timers, R!uk, R!history
<1>1. /\ bridge = R!FREE /\ c \notin gone /\ \A q \in Procs : c \notin R!Elements(rcs[q])
      /\ rcs' = [rcs EXCEPT ![p] = <<c>> \o rcs[p]]
      /\ UNCHANGED <<data, bridge, rpc, exiting, what, forced, requests, status, unheard, gone, gaveup>>
      /\ UNCHANGED <<pbs, creator, pb, using>>
  BY DEF R!SGXRegisterHWRenderContextKM, R!InIoctl
<1>2. PICK s \in Seq(Contexts) : s = rcs[p]
  BY DEF ResInv, ListsInv, R!TypeOK
<1>3. PICK n \in Nat : n = Len(s) /\ DOMAIN s = 1 .. n
  BY <1>2
<1>4. PICK f \in Seq(Contexts) : f = <<c>> \o s
  <2>1. <<c>> \in Seq(Contexts)
    OBVIOUS
  <2> QED
    BY <1>2, <2>1, ConcatProperties
<1>5. DOMAIN f = 1 .. n + 1 /\ f[1] = c /\ \A i \in 2 .. n + 1 : f[i] = s[i - 1]
  BY <1>2, <1>3, <1>4
<1>6. R!Elements(f) = R!Elements(s) \cup {c}
  <2>1. Len(f) = n + 1 /\ Len(s) = n
    BY <1>3, <1>4
  <2>2. \A i \in 1 .. n + 1 : f[i] = c \/ \E j \in 1 .. n : f[i] = s[j]
    <3>1. TAKE i \in 1 .. n + 1
    <3>2. CASE i = 1
      BY <1>5, <3>2
    <3>3. CASE i # 1
      <4>1. i - 1 \in 1 .. n /\ i \in 2 .. n + 1
        BY <3>3
      <4> QED
        BY <1>5, <4>1
    <3> QED
      BY <3>2, <3>3
  <2>3. \A j \in 1 .. n : j + 1 \in 1 .. n + 1 /\ f[j + 1] = s[j]
    BY <1>5
  <2>4. 1 \in 1 .. n + 1 /\ f[1] = c
    BY <1>5
  <2> QED
    BY <2>1, <2>2, <2>3, <2>4 DEF R!Elements
<1>7. \A i, j \in DOMAIN f : f[i] = f[j] => i = j
  <2>1. \A i, j \in 1 .. n : s[i] = s[j] => i = j
    BY <1>2, <1>3 DEF ResInv, ListsInv, ListInv
  <2>2. \A i \in 1 .. n : s[i] # c
    BY <1>1, <1>2, <1>3 DEF R!Elements
  <2>3. \A i \in 1 .. n + 1 : i # 1 => i - 1 \in 1 .. n /\ f[i] = s[i - 1]
    BY <1>5
  <2>4. TAKE i, j \in DOMAIN f
  <2>5. HAVE f[i] = f[j]
  <2>6. i \in 1 .. n + 1 /\ j \in 1 .. n + 1
    BY <1>5
  <2> QED
    BY <1>5, <2>1, <2>2, <2>3, <2>5, <2>6
<1>8. rcs'[p] = f /\ \A q \in Procs \ {p} : rcs'[q] = rcs[q]
  BY <1>1, <1>2, <1>4 DEF ResInv, ListsInv, R!TypeOK
<1>9. PlaceInv' /\ AnswerInv' /\ \A q \in Procs : rpc[q] \notin Inside
  BY <1>1, ThreadsRest
<1>10. ListInv'
  <2>1. \A q \in Procs : \A i, j \in DOMAIN rcs'[q] : rcs'[q][i] = rcs'[q][j] => i = j
    BY <1>7, <1>8 DEF ResInv, ListsInv, ListInv
  <2>2. \A q, y \in Procs : q # y => R!Elements(rcs'[q]) \cap R!Elements(rcs'[y]) = {}
    <3>1. \A q, y \in Procs : q # y => R!Elements(rcs[q]) \cap R!Elements(rcs[y]) = {}
      BY DEF ResInv, ListsInv, ListInv
    <3>2. TAKE q, y \in Procs
    <3>3. HAVE q # y
    <3>4. \A z \in Procs : /\ c \notin R!Elements(rcs[z])
                           /\ z # p => R!Elements(rcs'[z]) = R!Elements(rcs[z])
      BY <1>1, <1>8
    <3>5. R!Elements(rcs'[p]) = R!Elements(rcs[p]) \cup {c}
      BY <1>2, <1>6, <1>8
    <3>6. CASE q = p
      BY <3>1, <3>3, <3>4, <3>5, <3>6
    <3>7. CASE y = p
      BY <3>1, <3>3, <3>4, <3>5, <3>7
    <3>8. CASE q # p /\ y # p
      BY <3>1, <3>3, <3>4, <3>8
    <3> QED
      BY <3>6, <3>7, <3>8
  <2>3. \A q \in Procs : R!Elements(rcs'[q]) \cap gone' = {}
    <3>1. \A q \in Procs : R!Elements(rcs[q]) \cap gone = {}
      BY DEF ResInv, ListsInv, ListInv
    <3> QED
      BY <1>1, <1>2, <1>6, <1>8, <3>1
  <2> QED
    BY <2>1, <2>2, <2>3 DEF ListInv, R!Elements
<1>11. ItemInv'
  <2>1. \A q \in Procs : R!Elements(rcs[q]) \subseteq R!Elements(rcs'[q])
    BY <1>2, <1>6, <1>8
  <2> QED
    BY <1>1, <2>1 DEF ResInv, ListsInv, ItemInv
<1>12. R!TypeOK'
  BY <1>1, <1>2, <1>4 DEF ResInv, ListsInv, R!TypeOK
<1>13. R!LockIsSomeones' /\ R!CountIsHeld'
  BY <1>1, HeldIs DEF ResInv, ListsInv, R!LockIsSomeones, Held
<1>14. unheard' \in Nat /\ forced' \subseteq Procs
  BY <1>1 DEF ResInv, ListsInv
<1>15. R!FreedWhenDone'
  BY <1>1, FreedRests DEF ResInv
<1> QED
  BY <1>9, <1>10, <1>11, <1>12, <1>13, <1>14, <1>15 DEF ResInv, ListsInv

LEMMA KickKeeps ==
  ASSUME ResInv, NEW p \in Procs, NEW c \in Contexts, R!Kick(p, c)
  PROVE  ResInv'
<1> USE DEF R!res, R!thread, R!timers, R!uk, R!history
<1>1. /\ bridge = R!FREE /\ c \in R!Elements(rcs[p]) /\ using' = using \cup {c}
      /\ UNCHANGED <<data, bridge, rpc, exiting, what, forced, requests, status, unheard, gone, gaveup>>
      /\ UNCHANGED <<rcs, pbs, creator, pb>>
  BY DEF R!Kick, R!InIoctl
<1>2. PlaceInv' /\ AnswerInv'
  BY <1>1, ThreadsRest
<1>3. R!TypeOK' /\ ListInv' /\ ItemInv' /\ R!LockIsSomeones' /\ R!CountIsHeld'
      /\ unheard' \in Nat /\ forced' \subseteq Procs
  BY <1>1, HeldIs
     DEF ResInv, ListsInv, R!TypeOK, ListInv, ItemInv, R!LockIsSomeones, Held
<1>4. R!FreedWhenDone'
  <2>1. c \notin gone
    BY <1>1 DEF ResInv, ListsInv, ListInv
  <2> QED
    BY <1>1, <2>1 DEF ResInv, R!FreedWhenDone
<1> QED
  BY <1>2, <1>3, <1>4 DEF ResInv, ListsInv

LEMMA BufferKeeps ==
  ASSUME ResInv, NEW p \in Procs,
         R!SGXAddSharedPBDescKM(p) \/ \E b \in BOOLEAN : R!SGXFindSharedPBDescKM(p, b)
  PROVE  ResInv'
<1> USE DEF R!res, R!thread, R!timers, R!uk, R!history
<1>1. /\ bridge = R!FREE /\ rpc[p] = "user"
      /\ UNCHANGED <<data, bridge, rpc, exiting, what, forced, requests, status, unheard, gone, gaveup>>
      /\ UNCHANGED <<rcs, using>>
  BY DEF R!SGXAddSharedPBDescKM, R!SGXFindSharedPBDescKM, R!InIoctl
<1>2. /\ PlaceInv' /\ AnswerInv' /\ \A q \in Procs : rpc[q] \notin Inside
      /\ R!FreedWhenDone'
  BY <1>1, ThreadsRest, FreedRests DEF ResInv
<1>3. \/ UNCHANGED <<pbs, pb>>
      \/ pbs[p] < MaxRefs /\ pbs' = [pbs EXCEPT ![p] = @ + 1] /\ pb' = pb + 1
  BY DEF R!SGXAddSharedPBDescKM, R!SGXFindSharedPBDescKM, R!Found
<1>4. R!CountIsHeld' /\ pbs' \in [Procs -> 0 .. MaxRefs] /\ pb' \in Nat
  BY <1>3, OneMore, HeldIs DEF ResInv, ListsInv, R!TypeOK, Held
<1>5. creator' \in {creator, NONE, p} /\ p \in data
  BY <1>1 DEF R!SGXAddSharedPBDescKM, R!SGXFindSharedPBDescKM, ResInv, ListsInv, PlaceInv
<1>6. R!LockIsSomeones'
  BY <1>1, <1>5 DEF ResInv, ListsInv, R!LockIsSomeones
<1>7. R!TypeOK'
  BY <1>1, <1>4, <1>5 DEF ResInv, ListsInv, R!TypeOK
<1>8. ListInv' /\ ItemInv' /\ unheard' \in Nat /\ forced' \subseteq Procs
  BY <1>1, <1>2 DEF ResInv, ListsInv, ListInv, ItemInv, Inside
<1> QED
  BY <1>2, <1>4, <1>6, <1>7, <1>8 DEF ResInv, ListsInv

-----------------------------------------------------------------------------
(* Steps under the mutex                                                   *)
LEMMA InsideIs ==
  ASSUME ResInv, NEW p \in Procs, rpc[p] \in Inside
  PROVE  /\ bridge = p /\ \A q \in Procs \ {p} : rpc[q] \notin Inside
         /\ p \in forced => p \notin exiting /\ what[p] \in Contexts /\ rpc[p] \in {"free", "read"}
         /\ rpc[p] \in {"ask", "poll", "read"} => what[p] \in Contexts \cup {PB}
         /\ rpc[p] = "free" /\ what[p] = PB => pbs[p] > 0
         /\ what[p] \in Contexts => what[p] \in R!Elements(rcs[p])
         /\ what[p] \in Contexts \cup {PB, NONE}
BY DEF ResInv, ListsInv, PlaceInv, ItemInv, Inside, R!TypeOK

LEMMA FreeContextKeeps == ASSUME ResInv, NEW p \in Procs, R!FreeContext(p) PROVE ResInv'
<1> USE DEF R!res, R!thread, R!timers, R!uk, R!history
<1>1. PICK x : x = IF p \in forced THEN "read" ELSE "ask"
  OBVIOUS
<1>2. PICK w : w = what[p]
  OBVIOUS
<1>3. /\ rpc[p] = "free" /\ w \in Contexts /\ rpc' = [rpc EXCEPT ![p] = x]
      /\ UNCHANGED <<data, rcs, pbs, creator, pb, bridge, exiting, what, forced, requests, status, using,
                     gone, gaveup, unheard>>
  BY <1>1, <1>2 DEF R!FreeContext, R!Goto
<1>4. /\ bridge = p /\ \A q \in Procs \ {p} : rpc[q] \notin Inside
      /\ p \in forced => p \notin exiting
      /\ w \in R!Elements(rcs[p])
  BY <1>2, <1>3, InsideIs DEF Inside
<1>5. ListsInv'
  <2>2. what' = [what EXCEPT ![p] = w]
    BY <1>2, <1>3 DEF ResInv, ListsInv, R!TypeOK
  <2>3. /\ x \in Inside \cup {"user", "sleep"} /\ x \in Inside /\ x # "free" /\ x # "sleep"
        /\ p \in forced' => x \in {"free", "read"}
    BY <1>1, <1>3 DEF Inside
  <2>4. requests' \in Seq(Contexts \cup {PB}) /\ status' \subseteq {"complete", "busy", "done"}
    BY <1>3 DEF ResInv, ListsInv, R!TypeOK
  <2> QED
    BY <1>3, <1>4, <2>2, <2>3, <2>4, ThreadMoves DEF ResInv
<1>6. AnswerInv'
  <2>1. /\ \A q \in Procs : ~Asks(q)
        /\ unheard = 0 => requests = <<>> /\ status = {}
    BY <1>3, <1>4, NoneAsks DEF ResInv, Asks
  <2>2. \A q \in Procs : ~(Asks(q)')
    BY <1>1, <1>3, <2>1 DEF Asks, ResInv, ListsInv, R!TypeOK
  <2> QED
    BY <1>3, <2>1, <2>2, NoneAsked
<1>7. R!FreedWhenDone'
  BY <1>3, FreedRests DEF ResInv
<1> QED
  BY <1>5, <1>6, <1>7 DEF ResInv


LEMMA AskedKeeps == ASSUME ResInv, NEW p \in Procs, R!Ask(p) PROVE ResInv'
<1> USE DEF R!res, R!thread, R!timers, R!uk, R!history
<1>1. PICK w : w = what[p]
  OBVIOUS
<1>2. /\ rpc[p] = "ask" /\ rpc' = [rpc EXCEPT ![p] = "poll"] /\ requests' = Append(requests, w)
      /\ UNCHANGED <<data, rcs, pbs, creator, pb, bridge, exiting, what, forced, status, using,
                     gone, gaveup, unheard>>
  BY <1>1 DEF R!Ask, R!Goto
<1>3. /\ bridge = p /\ p \notin forced /\ w \in Contexts \cup {PB}
      /\ w \in Contexts => w \in R!Elements(rcs[p])
      /\ \A q \in Procs \ {p} : rpc[q] \notin Inside
  BY <1>1, <1>2, InsideIs DEF Inside
<1>4. what' = [what EXCEPT ![p] = w] /\ rpc'[p] = "poll" /\ \A q \in Procs \ {p} : rpc'[q] = rpc[q]
  BY <1>1, <1>2 DEF ResInv, ListsInv, R!TypeOK
<1>5. ListsInv'
  <2>1. requests' \in Seq(Contexts \cup {PB}) /\ status' \subseteq {"complete", "busy", "done"}
    BY <1>2, <1>3 DEF ResInv, ListsInv, R!TypeOK
  <2>2. "poll" \in Inside
    BY DEF Inside
  <2> QED
    BY <1>2, <1>3, <1>4, <2>1, <2>2, ThreadMoves DEF ResInv
<1>6. AnswerInv'
  <2>1. unheard = 0 => requests = <<>> /\ status = {}
    BY <1>2, <1>3, NoneAsks DEF ResInv, Asks
  <2>2. unheard' = 0 => requests' = <<what'[p]>> /\ status' = {}
    BY <1>1, <1>2, <2>1
  <2>3. \A q \in Procs \ {p} : rpc'[q] \notin {"poll", "read"}
    BY <1>3, <1>4 DEF Inside
  <2> QED
    BY <1>4, <2>2, <2>3 DEF AnswerInv, Asks
<1>7. R!FreedWhenDone'
  BY <1>2, FreedRests DEF ResInv
<1> QED
  BY <1>5, <1>6, <1>7 DEF ResInv

LEMMA PollKeeps == ASSUME ResInv, NEW p \in Procs, R!Poll(p) PROVE ResInv'
<1> USE DEF R!res, R!thread, R!timers, R!uk, R!history
<1>1. PICK w : w = what[p]
  OBVIOUS
<1>2. /\ rpc[p] = "poll" /\ rpc' = [rpc EXCEPT ![p] = "read"] /\ "complete" \in status
      /\ UNCHANGED <<data, rcs, pbs, creator, pb, bridge, exiting, what, forced, requests, status, using,
                     gone, gaveup, unheard>>
  BY <1>1 DEF R!Poll, R!Goto
<1>3. /\ bridge = p /\ p \notin forced /\ w \in Contexts \cup {PB}
      /\ w \in Contexts => w \in R!Elements(rcs[p])
      /\ \A q \in Procs \ {p} : rpc[q] \notin Inside
  BY <1>1, <1>2, InsideIs DEF Inside
<1>4. what' = [what EXCEPT ![p] = w] /\ rpc'[p] = "read" /\ \A q \in Procs \ {p} : rpc'[q] = rpc[q]
  BY <1>1, <1>2 DEF ResInv, ListsInv, R!TypeOK
<1>5. ListsInv'
  <2>1. requests' \in Seq(Contexts \cup {PB}) /\ status' \subseteq {"complete", "busy", "done"}
    BY <1>2, <1>3 DEF ResInv, ListsInv, R!TypeOK
  <2>2. "read" \in Inside
    BY DEF Inside
  <2> QED
    BY <1>2, <1>3, <1>4, <2>1, <2>2, ThreadMoves DEF ResInv
<1>6. AnswerInv'
  <2>1. unheard = 0 => Answered(p)
    BY <1>2 DEF ResInv, AnswerInv
  <2>2. unheard' = 0 => Answered(p)'
    BY <1>2, <2>1 DEF Answered
  <2>3. \A q \in Procs \ {p} : rpc'[q] \notin {"poll", "read"}
    BY <1>3, <1>4 DEF Inside
  <2> QED
    BY <1>2, <1>3, <1>4, <2>2, <2>3 DEF AnswerInv, Asks, Answered
<1>7. R!FreedWhenDone'
  BY <1>2, FreedRests DEF ResInv
<1> QED
  BY <1>5, <1>6, <1>7 DEF ResInv

LEMMA WakeKeeps == ASSUME ResInv, NEW p \in Procs, R!Wake(p) PROVE ResInv'
<1> USE DEF R!res, R!thread, R!timers, R!uk, R!history
<1>1. PICK w : w = what[p]
  OBVIOUS
<1>2. /\ rpc[p] = "sleep" /\ rpc' = [rpc EXCEPT ![p] = "free"] /\ bridge = R!FREE /\ bridge' = p
      /\ UNCHANGED <<data, rcs, pbs, creator, pb, exiting, what, forced, requests, status, using,
                     gone, gaveup, unheard>>
  BY <1>1 DEF R!Wake, R!Goto
<1>3. p \notin forced /\ w \in Contexts /\ w \in R!Elements(rcs[p])
  BY <1>1, <1>2 DEF ResInv, ListsInv, PlaceInv, ItemInv
<1>4. what' = [what EXCEPT ![p] = w] /\ rpc'[p] = "free" /\ \A q \in Procs \ {p} : rpc'[q] = rpc[q]
  BY <1>1, <1>2 DEF ResInv, ListsInv, R!TypeOK
<1>5. ListsInv'
  <2>1. requests' \in Seq(Contexts \cup {PB}) /\ status' \subseteq {"complete", "busy", "done"}
    BY <1>2, <1>3 DEF ResInv, ListsInv, R!TypeOK
  <2>2. "free" \in Inside /\ w # PB
    BY <1>3, ResAssumed DEF Inside
  <2> QED
    BY <1>2, <1>3, <1>4, <2>1, <2>2, ThreadMoves DEF ResInv
<1>6. AnswerInv'
  <2>1. /\ \A q \in Procs : ~Asks(q)
        /\ unheard = 0 => requests = <<>> /\ status = {}
    BY <1>2, NoneAsks DEF ResInv
  <2>2. \A q \in Procs : ~(Asks(q)')
    BY <1>2, <1>4, <2>1 DEF Asks
  <2> QED
    BY <1>2, <2>1, <2>2, NoneAsked
<1>7. R!FreedWhenDone'
  BY <1>2, FreedRests DEF ResInv
<1> QED
  BY <1>5, <1>6, <1>7 DEF ResInv

LEMMA FreePBKeeps == ASSUME ResInv, NEW p \in Procs, R!FreePB(p) PROVE ResInv'
<1> USE DEF R!res, R!thread, R!timers, R!uk, R!history
<1>1. PICK x : x = rpc'[p]
  OBVIOUS
<1>2. PICK w : w = what'[p]
  OBVIOUS
<1>3. /\ rpc[p] = "free" /\ what[p] = PB /\ pb' = pb - 1 /\ pbs' = [pbs EXCEPT ![p] = @ - 1]
      /\ UNCHANGED <<data, rcs, creator, exiting, forced, requests, status, using, gone, gaveup, unheard>>
  BY DEF R!FreePB
<1>4. /\ bridge = p /\ p \notin forced /\ pbs[p] > 0 /\ \A q \in Procs \ {p} : rpc[q] \notin Inside
      /\ pbs \in [Procs -> 0 .. MaxRefs]
  BY <1>3, InsideIs, ResAssumed DEF Inside, ResInv, ListsInv, R!TypeOK
<1>5. /\ rpc' = [rpc EXCEPT ![p] = x] /\ what' = [what EXCEPT ![p] = w]
      /\ \/ x = "ask" /\ w = PB /\ bridge' = p
         \/ x = "free" /\ w = (IF pbs[p] = 1 THEN NONE ELSE PB) /\ bridge' = p /\ p \in exiting
         \/ x = "user" /\ w = NONE /\ bridge' = R!FREE /\ p \notin exiting
  <2>1. rpc \in [Procs -> {"out", "user", "free", "ask", "poll", "read", "sleep"}] /\ what \in [Procs -> Contexts \cup {PB, NONE}]
    BY DEF ResInv, ListsInv, R!TypeOK
  <2>2. CASE pb = 1
    BY <1>1, <1>2, <1>3, <1>4, <2>1, <2>2 DEF R!FreePB, R!Goto
  <2>3. CASE pb # 1 /\ p \in exiting
    BY <1>1, <1>2, <1>3, <1>4, <2>1, <2>3 DEF R!FreePB, R!Goto
  <2>4. CASE pb # 1 /\ p \notin exiting
    BY <1>1, <1>2, <1>3, <1>4, <2>1, <2>4 DEF R!FreePB, R!Goto
  <2> QED
    BY <2>2, <2>3, <2>4
<1>6. /\ R!CountIsHeld' /\ pbs' \in [Procs -> 0 .. MaxRefs] /\ pb' \in Nat
      /\ \A q \in Procs \ {p} : pbs'[q] = pbs[q]
      /\ pbs'[p] = pbs[p] - 1 /\ pbs[p] \in Nat
  <2>1. R!CountIsHeld
    BY DEF ResInv, ListsInv
  <2>2. /\ R!CountIsHeld' /\ pbs' \in [Procs -> 0 .. MaxRefs] /\ pb' \in Nat
    BY <1>3, <1>4, <2>1, OneLess
  <2>3. /\ \A q \in Procs \ {p} : pbs'[q] = pbs[q]
        /\ pbs'[p] = pbs[p] - 1 /\ pbs[p] \in Nat
    BY <1>3, <1>4, ResAssumed
  <2> QED
    BY <2>2, <2>3
<1>7. x = "free" /\ w = PB => pbs'[p] > 0
  BY <1>4, <1>5, <1>6, ResAssumed
<1>8. ListsInv'
  <2>1. requests' \in Seq(Contexts \cup {PB}) /\ status' \subseteq {"complete", "busy", "done"}
    BY <1>3 DEF ResInv, ListsInv, R!TypeOK
  <2>2. R!LockIsSomeones' /\ creator' \in Procs \cup {NONE}
    BY <1>3 DEF ResInv, ListsInv, R!TypeOK, R!LockIsSomeones
  <2>3. /\ x \in Inside \cup {"user", "sleep"} /\ x \notin {"poll", "read", "sleep"}
        /\ w \in {PB, NONE} /\ w \notin Contexts /\ (x = "ask" => w = PB)
    BY <1>3, <1>5, ResAssumed DEF Inside
  <2>4. bridge' = (IF x \in Inside THEN p ELSE R!FREE) /\ (p \in exiting' => x \in Inside)
    BY <1>3, <1>5, ResAssumed DEF Inside
  <2> QED
    BY <1>3, <1>4, <1>5, <1>6, <1>7, <2>1, <2>2, <2>3, <2>4, ThreadKeeps DEF ResInv
<1>9. AnswerInv'
  <2>1. /\ \A q \in Procs : ~Asks(q)
        /\ unheard = 0 => requests = <<>> /\ status = {}
    BY <1>3, <1>4, NoneAsks DEF ResInv, Asks
  <2>2. \A q \in Procs : ~(Asks(q)')
    BY <1>3, <1>4, <1>5, <2>1 DEF Asks, ResInv, ListsInv, R!TypeOK
  <2> QED
    BY <1>3, <2>1, <2>2, NoneAsked
<1>10. R!FreedWhenDone'
  BY <1>3, FreedRests DEF ResInv
<1> QED
  BY <1>8, <1>9, <1>10 DEF ResInv

LEMMA FreeLockKeeps == ASSUME ResInv, NEW p \in Procs, R!FreeLock(p) PROVE ResInv'
<1> USE DEF R!res, R!thread, R!timers, R!uk, R!history
<1>1. /\ creator' = NONE
      /\ UNCHANGED <<data, rcs, pbs, pb, bridge, rpc, exiting, what, forced, requests, status, using,
                     gone, gaveup, unheard>>
  BY DEF R!FreeLock
<1>2. R!TypeOK' /\ R!LockIsSomeones'
  BY <1>1 DEF ResInv, ListsInv, R!TypeOK, R!LockIsSomeones
<1>3. PlaceInv' /\ ItemInv' /\ ListInv' /\ R!CountIsHeld' /\ unheard' \in Nat /\ forced' \subseteq Procs
  BY <1>1, HeldIs DEF ResInv, ListsInv, PlaceInv, ItemInv, ListInv, Held
<1>4. AnswerInv' /\ R!FreedWhenDone'
  BY <1>1, FreedRests DEF ResInv, AnswerInv, Asks, Answered
<1> QED
  BY <1>2, <1>3, <1>4 DEF ResInv, ListsInv

LEMMA DisconnectedKeeps == ASSUME ResInv, NEW p \in Procs, R!Disconnected(p) PROVE ResInv'
<1> USE DEF R!res, R!thread, R!timers, R!uk, R!history
<1>1. /\ rpc[p] = "free" /\ p \in exiting /\ creator # p /\ what[p] = NONE
      /\ rcs' = [rcs EXCEPT ![p] = <<>>] /\ data' = data \ {p} /\ exiting' = exiting \ {p}
      /\ rpc' = [rpc EXCEPT ![p] = "out"] /\ bridge' = R!FREE
      /\ UNCHANGED <<pbs, creator, pb, what, forced, requests, status, using, gone, gaveup, unheard>>
  BY DEF R!Disconnected, R!Goto, R!LockGoesWith
<1>2. /\ bridge = p /\ p \notin forced /\ \A q \in Procs \ {p} : rpc[q] \notin Inside
  BY <1>1, InsideIs DEF Inside
<1>3. /\ rpc'[p] = "out" /\ \A q \in Procs \ {p} : rpc'[q] = rpc[q]
      /\ rcs'[p] = <<>> /\ \A q \in Procs \ {p} : rcs'[q] = rcs[q]
  BY <1>1 DEF ResInv, ListsInv, R!TypeOK
<1>4. R!TypeOK'
  <2>1. <<>> \in Seq(Contexts)
    OBVIOUS
  <2>2. rcs' \in [Procs -> Seq(Contexts)]
    BY <1>1, <2>1 DEF ResInv, ListsInv, R!TypeOK
  <2> QED
    BY <1>1, <2>2 DEF ResInv, ListsInv, R!TypeOK
<1>5. PlaceInv'
  <2>1. \A q \in Procs : q \in data' <=> rpc'[q] # "out"
    BY <1>1, <1>3 DEF ResInv, ListsInv, PlaceInv
  <2>2. \A q \in Procs : bridge' = q <=> rpc'[q] \in Inside
    BY <1>1, <1>2, <1>3, ResAssumed DEF Inside
  <2>3. \A q \in exiting' : rpc'[q] \in Inside \cup {"sleep"}
    BY <1>1, <1>3 DEF ResInv, ListsInv, PlaceInv, R!TypeOK
  <2>4. \A q \in forced' : q \notin exiting' /\ rpc'[q] \in {"free", "read"} /\ what'[q] \in Contexts
    BY <1>1, <1>2, <1>3 DEF ResInv, ListsInv, PlaceInv
  <2> QED
    BY <2>1, <2>2, <2>3, <2>4 DEF PlaceInv
<1>6. ItemInv'
  BY <1>1, <1>3 DEF ResInv, ListsInv, ItemInv, Inside
<1>7. ListInv'
  <2>1. R!Elements(rcs'[p]) = {} /\ \A q \in Procs \ {p} : R!Elements(rcs'[q]) = R!Elements(rcs[q])
    BY <1>3 DEF R!Elements
  <2>2. \A q \in Procs : \A i, j \in DOMAIN rcs'[q] : rcs'[q][i] = rcs'[q][j] => i = j
    BY <1>3 DEF ResInv, ListsInv, ListInv
  <2>3. /\ \A q, y \in Procs : q # y => R!Elements(rcs'[q]) \cap R!Elements(rcs'[y]) = {}
        /\ \A q \in Procs : R!Elements(rcs'[q]) \cap gone' = {}
    <3>1. /\ \A q, y \in Procs : q # y => R!Elements(rcs[q]) \cap R!Elements(rcs[y]) = {}
          /\ \A q \in Procs : R!Elements(rcs[q]) \cap gone = {}
      BY DEF ResInv, ListsInv, ListInv
    <3>2. \A q \in Procs : R!Elements(rcs'[q]) \subseteq R!Elements(rcs[q])
      BY <2>1
    <3> QED
      BY <1>1, <3>1, <3>2
  <2> QED
    BY <2>2, <2>3 DEF ListInv, R!Elements
<1>8. R!LockIsSomeones' /\ R!CountIsHeld' /\ unheard' \in Nat /\ forced' \subseteq Procs
  BY <1>1, HeldIs DEF ResInv, ListsInv, R!LockIsSomeones, Held
<1>9. AnswerInv'
  <2>1. /\ \A q \in Procs : ~Asks(q)
        /\ unheard = 0 => requests = <<>> /\ status = {}
    BY <1>1, <1>2, NoneAsks DEF ResInv, Asks
  <2>2. \A q \in Procs : ~(Asks(q)')
    BY <1>1, <1>3, <2>1 DEF Asks
  <2> QED
    BY <1>1, <2>1, <2>2, NoneAsked
<1>10. R!FreedWhenDone'
  BY <1>1, FreedRests DEF ResInv
<1> QED
  BY <1>4, <1>5, <1>6, <1>7, <1>8, <1>9, <1>10 DEF ResInv, ListsInv

(* Without an answer the rest is not promised.                             *)
LEMMA PollTimeoutKeeps == ASSUME ResInv, NEW p \in Procs, R!PollTimeout(p) PROVE ResInv'
<1> USE DEF R!res, R!thread, R!timers, R!uk, R!history
<1>1. /\ rpc[p] = "poll" /\ unheard' = unheard + 1 /\ R!Over(p, FALSE)
      /\ UNCHANGED <<data, pbs, pb, exiting, requests, status, using>>
      /\ gone' = IF what[p] \in Contexts THEN gone \cup {what[p]} ELSE gone
  BY DEF R!PollTimeout
<1>2. unheard' \in Nat /\ unheard' # 0
  BY <1>1 DEF ResInv, ListsInv
<1>3. gone' = gone \cup ({what[p]} \cap Contexts)
  BY <1>1
<1>4. requests' \in Seq(Contexts \cup {PB}) /\ status' \subseteq {"complete", "busy", "done"}
  BY <1>1 DEF ResInv, ListsInv, R!TypeOK
<1>5. ListsInv'
  BY <1>1, <1>2, <1>3, <1>4, OverKeeps DEF ResInv
<1> QED
  BY <1>2, <1>5 DEF ResInv, AnswerInv, R!FreedWhenDone

(* The answer is read: nothing is asked then, and nothing left to read.    *)
LEMMA ReadIs ==
  ASSUME ResInv, NEW p \in Procs, rpc[p] = "read"
  PROVE  /\ p \in forced => what[p] \in Contexts
         /\ what[p] \in Contexts \cup {PB} /\ bridge = p
         /\ unheard = 0 => /\ requests = <<>>
                           /\ p \in forced => status = {}
                           /\ p \notin forced => Answered(p)
<1>1. /\ p \in forced => what[p] \in Contexts
      /\ what[p] \in Contexts \cup {PB} /\ bridge = p
  BY InsideIs DEF Inside
<1>2. p \in forced => (unheard = 0 => requests = <<>> /\ status = {})
  BY <1>1, NoneAsks DEF ResInv, Asks
<1>3. p \notin forced => (unheard = 0 => Answered(p))
  BY DEF ResInv, AnswerInv
<1> QED
  BY <1>1, <1>2, <1>3 DEF Answered

LEMMA ReadDoneKeeps == ASSUME ResInv, NEW p \in Procs, R!ReadDone(p) PROVE ResInv'
<1> USE DEF R!res, R!thread, R!timers, R!uk, R!history
<1>1. /\ rpc[p] = "read" /\ "busy" \notin status /\ status' = status \ {"complete", "done"} /\ R!Over(p, TRUE)
      /\ UNCHANGED <<data, pbs, pb, exiting, requests, using, unheard>>
      /\ gone' = IF what[p] \in Contexts THEN gone \cup {what[p]} ELSE gone
      /\ gaveup' = IF what[p] \in Contexts /\ p \in forced THEN gaveup \cup {what[p]} ELSE gaveup
  BY DEF R!ReadDone, R!SaysBusy
<1>2. gone' = gone \cup ({what[p]} \cap Contexts)
  BY <1>1
<1>3. /\ requests' \in Seq(Contexts \cup {PB}) /\ status' \subseteq {"complete", "busy", "done"}
      /\ unheard' \in Nat
  BY <1>1 DEF ResInv, ListsInv, R!TypeOK
<1>4. ListsInv' /\ \A q \in Procs : rpc'[q] \notin {"poll", "read"}
  BY <1>1, <1>2, <1>3, OverKeeps DEF ResInv
<1>5. unheard = 0 => /\ requests = <<>> /\ (p \in forced => status = {})
                     /\ p \notin forced => Answered(p)
  BY <1>1, ReadIs
<1>6. AnswerInv'
  <2>1. unheard' = 0 => requests' = <<>> /\ status' = {}
    BY <1>1, <1>5 DEF Answered
  <2> QED
    BY <1>4, <2>1, NoneAsked DEF Asks
<1>7. R!FreedWhenDone'
  BY <1>1, <1>5 DEF Answered, ResInv, R!FreedWhenDone
<1> QED
  BY <1>4, <1>6, <1>7 DEF ResInv

(* Only of contexts the time runs.                                         *)
TimerInv == timing \subseteq Contexts /\ elapsed \subseteq Contexts

LEMMA ReadTooLateKeeps == ASSUME ResInv, TimerInv, NEW p \in Procs, R!ReadTooLate(p) PROVE ResInv'
<1> USE DEF R!res, R!thread, R!timers, R!uk, R!history
<1>1. /\ rpc[p] = "read" /\ "busy" \in status /\ status' = status \ {"complete", "busy"} /\ R!Over(p, FALSE)
      /\ UNCHANGED <<data, pbs, pb, exiting, requests, using, unheard>>
      /\ gone' = gone \cup {what[p]} /\ gaveup' = gaveup \cup {what[p]} /\ what[p] \in Contexts
  BY DEF R!ReadTooLate, R!SaysBusy, TimerInv
<1>2. gone' = gone \cup ({what[p]} \cap Contexts)
  BY <1>1
<1>3. /\ requests' \in Seq(Contexts \cup {PB}) /\ status' \subseteq {"complete", "busy", "done"}
      /\ unheard' \in Nat
  BY <1>1 DEF ResInv, ListsInv, R!TypeOK
<1>4. ListsInv' /\ \A q \in Procs : rpc'[q] \notin {"poll", "read"}
  BY <1>1, <1>2, <1>3, OverKeeps DEF ResInv
<1>5. unheard = 0 => /\ requests = <<>> /\ (p \in forced => status = {})
                     /\ p \notin forced => Answered(p)
  BY <1>1, ReadIs
<1>6. AnswerInv'
  <2>1. unheard' = 0 => requests' = <<>> /\ status' = {}
    BY <1>1, <1>5 DEF Answered
  <2> QED
    BY <1>4, <2>1, NoneAsked DEF Asks
<1>7. R!FreedWhenDone'
  BY <1>1 DEF ResInv, R!FreedWhenDone
<1> QED
  BY <1>4, <1>6, <1>7 DEF ResInv

LEMMA ReadBusyKeeps == ASSUME ResInv, NEW p \in Procs, R!ReadBusy(p) PROVE ResInv'
<1> USE DEF R!res, R!thread, R!timers, R!uk, R!history
<1>1. /\ rpc[p] = "read" /\ "busy" \in status /\ status' = status \ {"complete", "busy"}
      /\ UNCHANGED <<data, pbs, pb, exiting, requests, using, unheard, gone, gaveup>>
  BY DEF R!ReadBusy, R!SaysBusy
<1>2. /\ requests' \in Seq(Contexts \cup {PB}) /\ status' \subseteq {"complete", "busy", "done"}
      /\ unheard' \in Nat
  BY <1>1 DEF ResInv, ListsInv, R!TypeOK
<1>3. /\ what[p] \in Contexts \cup {PB} /\ bridge = p
      /\ unheard = 0 => /\ requests = <<>> /\ (p \in forced => status = {})
                        /\ p \notin forced => Answered(p)
  BY <1>1, ReadIs
<1>4. ListsInv' /\ \A q \in Procs : rpc'[q] \notin {"poll", "read"}
  <2>1. CASE what[p] = PB
    <3>1. R!Over(p, TRUE) /\ gone' = gone \cup ({what[p]} \cap Contexts)
      BY <1>1, <2>1, ResAssumed DEF R!ReadBusy
    <3> QED
      BY <1>1, <1>2, <3>1, OverKeeps DEF ResInv
  <2>2. CASE what[p] \in Contexts
    <3>1. PICK x : x = IF p \in exiting THEN "sleep" ELSE "user"
      OBVIOUS
    <3>2. PICK w : w = IF p \in exiting THEN what[p] ELSE NONE
      OBVIOUS
    <3>3. /\ rpc' = [rpc EXCEPT ![p] = x] /\ what' = [what EXCEPT ![p] = w] /\ bridge' = R!FREE
          /\ UNCHANGED <<rcs, creator>> /\ forced' = forced \ {p}
      <4>1. what[p] # PB /\ (p \in exiting => p \notin forced)
        BY <1>1, <2>2, ResAssumed, InsideIs DEF Inside
      <4>2. what \in [Procs -> Contexts \cup {PB, NONE}]
        BY DEF ResInv, ListsInv, R!TypeOK
      <4> QED
        BY <3>1, <3>2, <4>1, <4>2 DEF R!ReadBusy, R!Goto
    <3>4. what[p] \in R!Elements(rcs[p]) /\ \A q \in Procs \ {p} : rpc[q] \notin Inside
      BY <1>1, <2>2, InsideIs DEF Inside
    <3>5. /\ x \in Inside \cup {"user", "sleep"} /\ x \notin Inside
          /\ w \in Contexts \cup {PB, NONE} /\ (x = "sleep" => w = what[p])
          /\ p \in exiting' => x = "sleep"
      BY <1>1, <2>2, <3>1, <3>2 DEF Inside
    <3>6. ListsInv'
      BY <1>1, <1>2, <1>3, <2>2, <3>3, <3>4, <3>5, ThreadMoves DEF ResInv, Inside
    <3>7. \A q \in Procs : rpc'[q] \notin {"poll", "read"}
      BY <3>1, <3>3, <3>4 DEF ResInv, ListsInv, R!TypeOK, Inside
    <3> QED
      BY <3>6, <3>7
  <2> QED
    BY <1>3, <2>1, <2>2
<1>5. AnswerInv'
  <2>1. unheard' = 0 => requests' = <<>> /\ status' = {}
    BY <1>1, <1>3 DEF Answered
  <2> QED
    BY <1>4, <2>1, NoneAsked DEF Asks
<1>6. R!FreedWhenDone'
  BY <1>1, FreedRests DEF ResInv
<1> QED
  BY <1>4, <1>5, <1>6 DEF ResInv

-----------------------------------------------------------------------------
(* The microkernel, and time                                               *)
LEMMA UkAnswerKeeps == ASSUME ResInv, R!UkAnswer PROVE ResInv'
<1> USE DEF R!res, R!thread, R!timers, R!uk, R!history
<1>1. /\ requests # <<>> /\ requests' = Tail(requests)
      /\ status' = status \cup {"complete", IF Head(requests) \in using THEN "busy" ELSE "done"}
      /\ UNCHANGED <<data, rcs, pbs, creator, pb, bridge, rpc, exiting, what, forced, using,
                     gone, gaveup, unheard>>
  BY DEF R!UkAnswer
<1>2. R!TypeOK'
  <2>1. Tail(requests) \in Seq(Contexts \cup {PB})
    BY <1>1 DEF ResInv, ListsInv, R!TypeOK
  <2> QED
    BY <1>1, <2>1 DEF ResInv, ListsInv, R!TypeOK
<1>3. /\ PlaceInv' /\ ItemInv' /\ ListInv' /\ R!CountIsHeld' /\ unheard' \in Nat /\ forced' \subseteq Procs
      /\ R!LockIsSomeones' /\ R!FreedWhenDone'
  BY <1>1, HeldIs, FreedRests
     DEF ResInv, ListsInv, PlaceInv, ItemInv, ListInv, Held, R!LockIsSomeones
<1>4. AnswerInv'
  <2>1. SUFFICES ASSUME unheard = 0 PROVE AnswerInv'
    BY <1>1 DEF AnswerInv
  <2>2. PICK p \in Procs : Asks(p)
    BY <1>1, <2>1 DEF ResInv, AnswerInv
  <2>3. rpc[p] = "poll" /\ requests = <<what[p]>> /\ status = {}
    BY <1>1, <2>1, <2>2 DEF ResInv, AnswerInv, Asks, Answered
  <2>4. requests' = <<>>
    BY <1>1, <2>3
  <2>5. status' = {"complete", IF what[p] \in using THEN "busy" ELSE "done"}
    BY <1>1, <2>3
  <2>6. Answered(p)'
    BY <1>1, <2>4, <2>5 DEF Answered
  <2>7. \A q \in Procs \ {p} : rpc[q] \notin Inside
    BY <2>3, InsideIs DEF Inside
  <2> QED
    BY <1>1, <2>2, <2>3, <2>6, <2>7 DEF AnswerInv, Asks, Inside, Answered
<1> QED
  BY <1>2, <1>3, <1>4 DEF ResInv, ListsInv

LEMMA UkFinishKeeps == ASSUME ResInv, R!UkFinish PROVE ResInv'
<1> USE DEF R!res, R!thread, R!timers, R!uk, R!history
<1>1. /\ using' \subseteq using
      /\ UNCHANGED <<data, rcs, pbs, creator, pb, bridge, rpc, exiting, what, forced, requests, status,
                     gone, gaveup, unheard>>
  BY DEF R!UkFinish
<1>2. R!TypeOK'
  BY <1>1 DEF ResInv, ListsInv, R!TypeOK
<1>3. /\ PlaceInv' /\ ItemInv' /\ ListInv' /\ R!CountIsHeld' /\ unheard' \in Nat /\ forced' \subseteq Procs
      /\ R!LockIsSomeones'
  BY <1>1, HeldIs DEF ResInv, ListsInv, PlaceInv, ItemInv, ListInv, Held, R!LockIsSomeones
<1>4. R!FreedWhenDone'
  BY <1>1 DEF ResInv, R!FreedWhenDone
<1>5. AnswerInv'
  BY <1>1 DEF ResInv, AnswerInv, Asks, Answered
<1> QED
  BY <1>2, <1>3, <1>4, <1>5 DEF ResInv, ListsInv

LEMMA ResRests ==
  ASSUME ResInv, UNCHANGED <<data, rcs, pbs, creator, pb, bridge, rpc, exiting, what, forced,
                             requests, status, using, gone, gaveup, unheard>>
  PROVE  ResInv'
<1>1. R!TypeOK'
  BY DEF ResInv, ListsInv, R!TypeOK
<1>2. /\ PlaceInv' /\ ItemInv' /\ ListInv' /\ R!CountIsHeld' /\ unheard' \in Nat /\ forced' \subseteq Procs
      /\ R!LockIsSomeones' /\ R!FreedWhenDone'
  BY HeldIs, FreedRests
     DEF ResInv, ListsInv, PlaceInv, ItemInv, ListInv, Held, R!LockIsSomeones
<1>3. AnswerInv'
  BY DEF ResInv, AnswerInv, Asks, Answered
<1> QED
  BY <1>1, <1>2, <1>3 DEF ResInv, ListsInv

LEMMA ResInit == R!Init => ResInv /\ TimerInv
<1> SUFFICES ASSUME R!Init PROVE ResInv /\ TimerInv
  OBVIOUS
<1>1. R!TypeOK /\ TimerInv
  <2>1. <<>> \in Seq(Contexts) /\ <<>> \in Seq(Contexts \cup {PB})
    OBVIOUS
  <2> QED
    BY <2>1, ResAssumed DEF R!Init, R!TypeOK, TimerInv
<1>2. PlaceInv /\ ItemInv /\ AnswerInv
  BY ResAssumed DEF R!Init, PlaceInv, ItemInv, AnswerInv, Asks, Answered, Inside
<1>3. ListInv
  <2>1. \A p \in Procs : DOMAIN rcs[p] = {} /\ R!Elements(rcs[p]) = {}
    BY DEF R!Init, R!Elements
  <2> QED
    BY <2>1 DEF ListInv
<1>4. R!CountIsHeld
  <2>1. Held = {}
    BY ResAssumed DEF R!Init, Held
  <2>2. pb = Cardinality(Held)
    BY <2>1, FS_EmptySet DEF R!Init
  <2> QED
    BY <2>2, HeldIs
<1>5. R!LockIsSomeones /\ R!FreedWhenDone /\ unheard \in Nat /\ forced \subseteq Procs
  BY DEF R!Init, R!LockIsSomeones, R!FreedWhenDone
<1> QED
  BY <1>1, <1>2, <1>3, <1>4, <1>5 DEF ResInv, ListsInv

LEMMA TimerStep == ASSUME ResInv, TimerInv, R!Next PROVE TimerInv'
<1> USE DEF TimerInv, R!res, R!thread, R!timers, R!uk, R!history
<1>1. ASSUME NEW p \in Procs, R!Step(p) PROVE TimerInv'
  <2>1. CASE R!ReadBusy(p)
    <3>1. what[p] \in Contexts \cup {PB}
      BY <2>1, ReadIs DEF R!ReadBusy
    <3> QED
      BY <2>1, <3>1 DEF R!ReadBusy, R!TimingWith
  <2> QED
    BY <1>1, <2>1 DEF R!Step, R!FreeContext, R!FreePB, R!FreeLock, R!Ask, R!Poll, R!PollTimeout, R!ReadDone,
       R!ReadTooLate, R!Wake, R!Disconnected
<1>2. ASSUME NEW p \in Procs,
             \/ R!Open(p) \/ R!SGXAddSharedPBDescKM(p) \/ R!SGXUnrefSharedPBDescKM(p) \/ R!Release(p)
             \/ \E b \in BOOLEAN : R!SGXFindSharedPBDescKM(p, b)
             \/ \E c \in Contexts :
                  \/ R!SGXRegisterHWRenderContextKM(p, c) \/ R!Kick(p, c)
                  \/ \E b \in BOOLEAN : R!SGXUnregisterHWRenderContextKM(p, c, b)
      PROVE  TimerInv'
  BY <1>2 DEF R!Open, R!SGXAddSharedPBDescKM, R!SGXUnrefSharedPBDescKM, R!Release, R!SGXFindSharedPBDescKM,
     R!SGXRegisterHWRenderContextKM, R!Kick, R!SGXUnregisterHWRenderContextKM
<1>3. CASE R!UkAnswer \/ R!UkFinish \/ R!TimeIsUp
  BY <1>3 DEF R!UkAnswer, R!UkFinish, R!TimeIsUp
<1> QED
  BY <1>1, <1>2, <1>3 DEF R!Next

LEMMA ResStep == ResInv /\ TimerInv /\ [R!Next]_(R!vars) => ResInv' /\ TimerInv'
<1> SUFFICES ASSUME ResInv, TimerInv, [R!Next]_(R!vars) PROVE ResInv' /\ TimerInv'
  OBVIOUS
<1>1. CASE UNCHANGED R!vars
  BY <1>1, ResRests DEF R!vars, R!res, R!thread, R!timers, R!uk, R!history, TimerInv
<1>2. CASE R!Next
  <2>1. ASSUME NEW p \in Procs, R!Step(p) PROVE ResInv'
    BY <2>1, FreeContextKeeps, FreePBKeeps, FreeLockKeeps, AskedKeeps, PollKeeps, PollTimeoutKeeps,
       ReadDoneKeeps, ReadBusyKeeps, ReadTooLateKeeps, WakeKeeps, DisconnectedKeeps DEF R!Step
  <2>2. ASSUME NEW p \in Procs, R!Open(p) PROVE ResInv'
    BY <2>2, OpenKeeps
  <2>3. ASSUME NEW p \in Procs,
               R!SGXAddSharedPBDescKM(p) \/ \E b \in BOOLEAN : R!SGXFindSharedPBDescKM(p, b)
        PROVE  ResInv'
    BY <2>3, BufferKeeps
  <2>4. ASSUME NEW p \in Procs,
               \/ \E c \in Contexts, b \in BOOLEAN : R!SGXUnregisterHWRenderContextKM(p, c, b)
               \/ R!SGXUnrefSharedPBDescKM(p) \/ R!Release(p)
        PROVE  ResInv'
    <3>1. R!InIoctl(p)
      BY <2>4 DEF R!SGXUnregisterHWRenderContextKM, R!SGXUnrefSharedPBDescKM, R!Release
    <3> QED
      BY <2>4, <3>1, IoctlKeeps
  <2>5. ASSUME NEW p \in Procs, NEW c \in Contexts, R!SGXRegisterHWRenderContextKM(p, c) \/ R!Kick(p, c)
        PROVE  ResInv'
    BY <2>5, RegisterKeeps, KickKeeps
  <2>6. ASSUME R!UkAnswer \/ R!UkFinish PROVE ResInv'
    BY <2>6, UkAnswerKeeps, UkFinishKeeps
  <2>7. ASSUME R!TimeIsUp PROVE ResInv'
    BY <2>7, ResRests DEF R!TimeIsUp, R!res, R!thread, R!timers, R!uk, R!history
  <2>8. ResInv'
    BY <1>2, <2>1, <2>2, <2>3, <2>4, <2>5, <2>6, <2>7 DEF R!Next
  <2> QED
    BY <1>2, <2>8, TimerStep
<1> QED
  BY <1>1, <1>2

LEMMA ResourcesHold == GfxSpec => [](ResInv /\ TimerInv)
<1>1. GfxInit => ResInv /\ TimerInv
  BY ResInit DEF GfxInit
<1>2. ResInv /\ TimerInv /\ [GfxNext]_all => ResInv' /\ TimerInv'
  BY ResStep DEF GfxNext, all, resources, R!vars, R!res, R!thread, R!timers, R!uk, R!history
<1> QED
  BY <1>1, <1>2, PTL DEF GfxSpec

(* As long as the microkernel answered every request in time, it uses no   *)
(* context whose memory was freed, but those that the caller forced or the *)
(* driver gave up: for any processes and contexts, in any order of kicks,  *)
(* frees, retries, sleeps and deaths.                                      *)
THEOREM MemoryCorrect == GfxSpec => []FreedWhenDone
<1>1. ResInv /\ TimerInv => FreedWhenDone
  BY DEF ResInv, FreedWhenDone
<1> QED
  BY <1>1, ResourcesHold, PTL

(* The reference count of the shared buffer is what the processes' lists   *)
(* hold, and who has the right to make it is connected: for any finite set *)
(* of processes and any number of references.                              *)
THEOREM BufferCorrect == GfxSpec => []BufferIsOwned
<1>1. ResInv /\ TimerInv => BufferIsOwned
  BY DEF ResInv, ListsInv, BufferIsOwned, R!BufferIsOwned
<1> QED
  BY <1>1, ResourcesHold, PTL

-----------------------------------------------------------------------------
(* The list of queues.                                                     *)

Members == {list[k] : k \in 1 .. Len(list)}

(* A queue is in the list or its memory is free, and a chain the display   *)
(* knows has its queue in the list until it is being destroyed.            *)
PlacesInv ==
  /\ \A i, j \in 1 .. Len(list) : list[i] = list[j] => i = j
  /\ freed = Chains \ Members
  /\ alive \subseteq Chains
  /\ \A c \in alive : c \in Members \/ (c = at /\ op \in {"unlinked", "close"})
  /\ op \in {"linked", "drain", "unlink"} => at \in Members
  /\ op = "link" => at \in freed

(* A walker that stands on a queue has the lock, and the queue is in the   *)
(* list.  The lock is made anew only when the list is empty, over walkers  *)
(* who stand on no queue; one of them may then give back the lock that     *)
(* another has taken.                                                      *)
LockedInv ==
  /\ res \in {"free", "kernel", "isr"}
  /\ op \in {"idle", "link", "linked", "drain", "unlink", "unlinked", "close"}
  /\ misr \in BOOLEAN /\ refs \in [Chains -> SUBSET Procs]
  /\ \/ robbed
     \/ \A w \in Walkers : pc[w] = "walk" => res = "isr" /\ owner = w /\ cur[w] \in Members

(* No more is complete than was ordered.                                   *)
CountsInv ==
  /\ \A s \in Syncs : wc[s] <= wp[s] /\ rc[s] <= rp[s]
  /\ \A c \in Chains : Len(queue[c]) <= QUEUE

QueuesInv == ShowInv /\ PlacesInv /\ LockedInv /\ CountsInv

LEMMA QueuesShow == QueuesInv => ListIsSafe
<1> SUFFICES ASSUME QueuesInv PROVE ListIsSafe
  OBVIOUS
<1>1. list \in Seq(Chains)
  BY DEF QueuesInv, ShowInv, WalkInv
<1>2. TypeOK
  BY <1>1 DEF QueuesInv, ShowInv, WalkInv, PlacesInv, LockedInv, CountsInv, Members, TypeOK
<1>3. QueueKept
  BY DEF QueuesInv, PlacesInv, LockedInv, QueueKept
<1> QED
  BY <1>2, <1>3 DEF ListIsSafe

LEMMA QueuesInit == Init => QueuesInv
<1> SUFFICES ASSUME Init PROVE QueuesInv
  OBVIOUS
<1>1. list = <<>> /\ freed = Chains /\ alive = {} /\ op = "idle" /\ res = "free" /\ misr = FALSE
      /\ refs = [c \in Chains |-> {}] /\ queue = [c \in Chains |-> <<>>]
      /\ pc = [w \in Walkers |-> "idle"] /\ wp = [s \in Syncs |-> 0] /\ wc = wp /\ rp = wp /\ rc = wp
  BY DEF Init
<1>2. Len(list) = 0 /\ Members = {}
  BY <1>1 DEF Members
<1>3. PlacesInv
  BY <1>1, <1>2 DEF PlacesInv
<1>5. LockedInv
  BY <1>1 DEF LockedInv
<1>4. CountsInv
  BY <1>1, FlipAssumption DEF CountsInv
<1> QED
  BY <1>3, <1>4, <1>5, ShowInvInit DEF QueuesInv

LEMMA Linked ==
  ASSUME list \in Seq(Chains), PlacesInv, Link
  PROVE  /\ Members' = Members \cup {at}
         /\ \A i, j \in 1 .. Len(list') : list'[i] = list'[j] => i = j
<1>1. list' = <<at>> \o list /\ at \notin Members
  BY DEF Link, PlacesInv
<1>2. Len(list) \in Nat /\ Len(list') = Len(list) + 1 /\ list'[1] = at
      /\ \A k \in 1 .. Len(list) : list'[k + 1] = list[k]
  BY <1>1
<1>3. \A k \in 1 .. Len(list') : k # 1 => k - 1 \in 1 .. Len(list) /\ list'[k] = list[k - 1]
  BY <1>2
<1>4. 1 \in 1 .. Len(list') /\ \A k \in 1 .. Len(list) : k + 1 \in 1 .. Len(list')
  BY <1>2
<1>5. Members' = Members \cup {at}
  <2>1. ASSUME NEW k \in 1 .. Len(list') PROVE list'[k] \in Members \cup {at}
    BY <1>2, <1>3 DEF Members
  <2>2. ASSUME NEW k \in 1 .. Len(list) PROVE list[k] \in Members'
    <3>1. list'[k + 1] = list[k] /\ k + 1 \in 1 .. Len(list')
      BY <1>2, <1>4
    <3> QED
      BY <3>1 DEF Members
  <2>3. at \in Members'
    BY <1>2, <1>4 DEF Members
  <2> QED
    BY <2>1, <2>2, <2>3 DEF Members
<1>6. ASSUME NEW i \in 1 .. Len(list'), NEW j \in 1 .. Len(list'), list'[i] = list'[j]
      PROVE  i = j
  <2>1. CASE i = 1 \/ j = 1
    BY <2>1, <1>1, <1>2, <1>3, <1>6 DEF Members
  <2>2. CASE i # 1 /\ j # 1
    BY <2>2, <1>2, <1>3, <1>6 DEF PlacesInv
  <2> QED
    BY <2>1, <2>2
<1> QED
  BY <1>5, <1>6

LEMMA Unlinked ==
  ASSUME list \in Seq(Chains), PlacesInv, Unlink
  PROVE  /\ Members' = Members \ {at}
         /\ \A i, j \in 1 .. Len(list') : list'[i] = list'[j] => i = j
<1>1. PICK i \in 1 .. Len(list) : list[i] = at /\ list' = Removed(i)
  BY DEF Unlink, At
<1>2. DOMAIN list = 1 .. Len(list)
  OBVIOUS
<1>3. \A k \in 1 .. Len(list) : list[k] = at => k = i
  BY <1>1 DEF PlacesInv
<1>4. i = CHOOSE k \in 1 .. Len(list) : list[k] = at
  BY <1>1, <1>3
<1>5. at \in R!Elements(list)
  BY <1>1, <1>2 DEF R!Elements
<1>6. list' = R!Without(list, at)
  BY <1>1, <1>4, <1>5 DEF R!Without, Removed
<1>7. PICK f : f = R!Without(list, at) /\ f = list'
  BY <1>6
<1>8. /\ f \in Seq(Chains) /\ R!Elements(f) = R!Elements(list) \ {at}
      /\ \A j, k \in DOMAIN f : f[j] = f[k] => j = k
  <2>1. \A j, k \in DOMAIN list : list[j] = list[k] => j = k
    BY <1>2 DEF PlacesInv
  <2>2. /\ R!Without(list, at) \in Seq(Chains)
        /\ R!Elements(R!Without(list, at)) = R!Elements(list) \ {at}
        /\ \A j, k \in DOMAIN R!Without(list, at) :
             R!Without(list, at)[j] = R!Without(list, at)[k] => j = k
    BY <2>1, TakenOut
  <2> QED
    BY <1>7, <2>2
<1>9. DOMAIN f = 1 .. Len(f)
  BY <1>8
<1>10. Members' = R!Elements(f) /\ Members = R!Elements(list)
  BY <1>7 DEF Members, R!Elements
<1> QED
  BY <1>7, <1>8, <1>9, <1>10

(* What leaves the counters and the queues' commands alone.                *)
LEMMA CountsRest ==
  ASSUME CountsInv, UNCHANGED <<wp, wc, rp, rc, queue>>
  PROVE  CountsInv'
BY DEF CountsInv

LEMMA CountsStep ==
  ASSUME ShowInv, CountsInv, [Next]_vars
  PROVE  CountsInv'
<1>0. /\ OrderInv /\ SlotInv /\ WalkInv /\ wp \in Counts /\ wc \in Counts /\ rp \in Counts /\ rc \in Counts
  BY DEF ShowInv, OrderInv
<1>1. CASE UNCHANGED vars
  BY <1>1, CountsRest DEF vars
<1>2. ASSUME NEW p \in Procs, NEW c \in Chains, Create(p, c) \/ Share(p, c) \/ Destroy(p, c)
      PROVE  CountsInv'
  BY <1>2, CountsRest DEF Create, Share, Destroy, syncs
<1>3. ASSUME NEW p \in Procs, NEW c \in Chains, NEW b \in Buffers, Render(p, c, b)
      PROVE  CountsInv'
  <2>1. wp' = [wp EXCEPT ![<<c, b>>] = @ + 1] /\ UNCHANGED <<wc, rp, rc, queue>>
    BY <1>3 DEF Render
  <2>2. \A s \in Syncs : wp[s] <= wp'[s] /\ wp'[s] \in Nat
    BY <2>1, <1>0 DEF Counts
  <2>3. UNCHANGED <<wc, rp, rc, queue>>
    BY <2>1
  <2>4. \A s \in Syncs : wc[s] <= wp'[s] /\ rc[s] <= rp[s]
    BY <2>2, <1>0 DEF CountsInv, Counts
  <2> QED
    BY <2>3, <2>4 DEF CountsInv
<1>4. ASSUME NEW p \in Procs, NEW c \in Chains, NEW b \in Buffers, Flip(p, c, b)
      PROVE  CountsInv'
  <2>1. /\ rp' = [s \in Syncs |-> rp[s] + (IF s \in Sources(c, b) THEN 1 ELSE 0)]
        /\ UNCHANGED <<wp, wc, rc>> /\ Len(queue[c]) < QUEUE
        /\ queue' = [queue EXCEPT ![c] = Append(@, Command(c, Sources(c, b)))]
    BY <1>4 DEF Flip
  <2>2. \A s \in Syncs : rp[s] <= rp'[s] /\ rp'[s] \in Nat
    BY <2>1, <1>0 DEF Counts
  <2>3. queue \in [Chains -> Seq(Ordered)]
    BY <1>0 DEF OrderInv
  <2>4. Len(Append(queue[c], Command(c, Sources(c, b)))) = Len(queue[c]) + 1 /\ Len(queue[c]) \in Nat
    BY <2>3
  <2>5. \A d \in Chains : Len(queue'[d]) <= QUEUE
    BY <2>1, <2>3, <2>4, FlipAssumption DEF CountsInv
  <2>6. UNCHANGED <<wp, wc, rc>>
    BY <2>1
  <2>7. \A s \in Syncs : wc[s] <= wp[s] /\ rc[s] <= rp'[s]
    BY <2>2, <1>0 DEF CountsInv, Counts
  <2> QED
    BY <2>5, <2>6, <2>7 DEF CountsInv
<1>5. CASE LinkRefused \/ Link \/ Created \/ Refused \/ Drained \/ GiveUp \/ Unlink \/ Destroyed \/ Closed
  BY <1>5, CountsRest DEF LinkRefused, Link, Created, Refused, Drained, GiveUp, Unlink, Destroyed,
       Closed, syncs
<1>6. CASE FlipDone
  <2>1. /\ slot # NONE /\ rc' = [s \in Syncs |-> rc[s] + (IF s \in slot.src THEN 1 ELSE 0)]
        /\ UNCHANGED <<wp, wc, rp, queue>>
    BY <1>6 DEF FlipDone, ReadsDone
  <2>2. ASSUME NEW s \in Syncs, s \in slot.src PROVE rc[s] < rp[s]
    BY <2>1, <2>2, <1>0 DEF SlotInv, Turn, Ordered, Fine
  <2>3. \A s \in Syncs : rc'[s] <= rp[s]
    BY <2>1, <2>2, <1>0 DEF CountsInv, Counts
  <2> QED
    BY <2>1, <2>3 DEF CountsInv
<1>7. CASE RenderDone
  <2>1. PICK j \in renders : /\ wc[j.sync] = j.w /\ wc' = [wc EXCEPT ![j.sync] = @ + 1]
                             /\ UNCHANGED <<wp, rp, rc, queue>>
    BY <1>7 DEF RenderDone
  <2>2. j.w < wp[j.sync] /\ j.w \in Nat /\ j.sync \in Syncs
    BY <1>0 DEF OrderInv, Jobs
  <2>3. \A s \in Syncs : wc'[s] <= wp[s]
    BY <2>1, <2>2, <1>0 DEF CountsInv, Counts
  <2> QED
    BY <2>1, <2>3 DEF CountsInv
<1>8. ASSUME NEW w \in Walkers, Enter(w) \/ Lock(w) \/ Move(w) \/ Leave(w) PROVE CountsInv'
  BY <1>8, CountsRest DEF Enter, Lock, Move, Leave, syncs
<1>9. ASSUME NEW w \in Walkers, Start(w) PROVE CountsInv'
  <2>1. PICK c \in Chains : c = cur[w]
    BY <1>0, <1>9 DEF Start, WalkInv
  <2>2. /\ queue[c] # <<>> /\ queue' = [queue EXCEPT ![c] = Tail(@)] /\ UNCHANGED <<wp, wc, rp, rc>>
    BY <1>9, <2>1 DEF Start, Startable, syncs
  <2>3. queue \in [Chains -> Seq(Ordered)]
    BY <1>0 DEF OrderInv
  <2>4. Len(Tail(queue[c])) = Len(queue[c]) - 1 /\ Len(queue[c]) \in Nat
    BY <2>2, <2>3
  <2>5. \A d \in Chains : Len(queue'[d]) <= QUEUE
    BY <2>2, <2>3, <2>4, FlipAssumption DEF CountsInv
  <2> QED
    BY <2>2, <2>5 DEF CountsInv
<1> QED
  BY <1>1, <1>2, <1>3, <1>4, <1>5, <1>6, <1>7, <1>8, <1>9 DEF Next, Ioctl, Walk

LEMMA AfterIsThere ==
  ASSUME list \in Seq(Chains), NEW c
  PROVE  After(c) = NONE \/ After(c) \in Members
<1>1. CASE \E i \in 1 .. Len(list) - 1 : list[i] = c
  <2>1. PICK i \in 1 .. Len(list) - 1 : i = CHOOSE k \in 1 .. Len(list) - 1 : list[k] = c
    BY <1>1, Zenon
  <2>2. i + 1 \in 1 .. Len(list)
    OBVIOUS
  <2> QED
    BY <1>1, <2>1, <2>2 DEF After, Members
<1>2. CASE ~\E i \in 1 .. Len(list) - 1 : list[i] = c
  BY <1>2 DEF After
<1> QED
  BY <1>1, <1>2

LEMMA PlacesRest ==
  ASSUME PlacesInv, UNCHANGED <<list, freed, alive, op, at>>
  PROVE  PlacesInv'
BY DEF PlacesInv, Members

LEMMA LockedRest ==
  ASSUME LockedInv, UNCHANGED <<list, res, op, refs, pc, cur, owner, robbed>>, misr' \in BOOLEAN
  PROVE  LockedInv'
BY DEF LockedInv, Members

(* One step of an ioctl, of the display or the core, or of the walker.     *)
LEMMA PlacesStep ==
  ASSUME ShowInv, PlacesInv, LockedInv, [Next]_vars
  PROVE  PlacesInv'
<1>0. list \in Seq(Chains)
  BY DEF ShowInv, WalkInv
<1>1. CASE UNCHANGED vars
  BY <1>1 DEF vars, PlacesInv, Members
<1>2. ASSUME NEW p \in Procs, NEW c \in Chains, Create(p, c) PROVE PlacesInv'
  BY <1>2 DEF Create, Unused, PlacesInv, Members
<1>3. ASSUME NEW p \in Procs, NEW c \in Chains,
             Share(p, c) \/ \E b \in Buffers : Render(p, c, b) \/ Flip(p, c, b)
      PROVE  PlacesInv'
  BY <1>3, PlacesRest DEF Share, Render, Flip, chains
<1>4. ASSUME NEW p \in Procs, NEW c \in Chains, Destroy(p, c) PROVE PlacesInv'
  BY <1>4 DEF Destroy, PlacesInv, Members
<1>5. CASE LinkRefused
  BY <1>5 DEF LinkRefused, PlacesInv, Members
<1>6. CASE Link
  <2>1. /\ Members' = Members \cup {at}
        /\ \A i, j \in 1 .. Len(list') : list'[i] = list'[j] => i = j
    BY <1>0, <1>6, Linked
  <2>2. /\ freed' = freed \ {at} /\ op = "link" /\ op' = "linked" /\ UNCHANGED <<alive, at>>
    BY <1>6 DEF Link, chains
  <2> QED
    BY <2>1, <2>2 DEF PlacesInv
<1>7. CASE Created
  <2>1. at \in Chains /\ at \in Members
    BY <1>0, <1>7 DEF Created, PlacesInv, Members
  <2>2. alive' = {at} /\ op' = "idle" /\ UNCHANGED <<list, freed>>
    BY <1>7 DEF Created
  <2>3. Members' = Members
    BY <2>2 DEF Members
  <2> QED
    BY <2>1, <2>2, <2>3 DEF PlacesInv
<1>8. CASE Refused \/ Drained \/ GiveUp \/ Destroyed
  BY <1>8 DEF Refused, Drained, GiveUp, Destroyed, PlacesInv, Members, chains
<1>9. CASE Unlink
  <2>1. /\ Members' = Members \ {at}
        /\ \A i, j \in 1 .. Len(list') : list'[i] = list'[j] => i = j
    BY <1>0, <1>9, Unlinked
  <2>2. /\ freed' = freed \cup {at} /\ op = "unlink" /\ op' = "unlinked" /\ UNCHANGED <<alive, at>>
    BY <1>9 DEF Unlink, chains
  <2>3. at \in Chains
    BY <1>0, <2>2 DEF PlacesInv, Members
  <2> QED
    BY <2>1, <2>2, <2>3 DEF PlacesInv
<1>10. CASE Closed
  BY <1>10 DEF Closed, PlacesInv, Members
<1>11. CASE FlipDone \/ RenderDone
  BY <1>11, PlacesRest DEF FlipDone, RenderDone, chains
<1>12. ASSUME NEW w \in Walkers, Enter(w) \/ Walk(w) PROVE PlacesInv'
  BY <1>12, PlacesRest DEF Enter, Walk, Lock, Start, Move, Leave, chains
<1> QED
  BY <1>1, <1>2, <1>3, <1>4, <1>5, <1>6, <1>7, <1>8, <1>9, <1>10, <1>11, <1>12 DEF Next, Ioctl

LEMMA LockedStep ==
  ASSUME ShowInv, PlacesInv, LockedInv, [Next]_vars
  PROVE  LockedInv'
<1>0. list \in Seq(Chains) /\ pc \in [Walkers -> {"idle", "spin", "walk", "done"}]
      /\ cur \in [Walkers -> Chains \cup {NONE}]
  BY DEF ShowInv, WalkInv
<1>1. list = <<>> => robbed \/ \A w \in Walkers : pc[w] # "walk"
  BY DEF LockedInv, Members
<1>2. res # "isr" => robbed \/ \A w \in Walkers : pc[w] # "walk"
  BY DEF LockedInv
<1>3. CASE UNCHANGED vars
  BY <1>3 DEF vars, LockedInv, Members
<1>4. ASSUME NEW p \in Procs, NEW c \in Chains, Create(p, c) PROVE LockedInv'
  BY <1>1, <1>4 DEF Create, LockedInv, Members, walkers
<1>5. ASSUME NEW p \in Procs, NEW c \in Chains, Share(p, c) \/ Destroy(p, c) PROVE LockedInv'
  BY <1>5 DEF Share, Destroy, LockedInv, Members, walkers
<1>6. ASSUME NEW p \in Procs, NEW c \in Chains, NEW b \in Buffers, Render(p, c, b) \/ Flip(p, c, b)
      PROVE  LockedInv'
  BY <1>6, LockedRest DEF Render, Flip, LockedInv, walkers, chains
<1>7. CASE LinkRefused \/ Refused \/ Drained \/ GiveUp \/ Created \/ Closed
  BY <1>7 DEF LinkRefused, Refused, Drained, GiveUp, Created, Closed, Unlocked, LockedInv, Members,
       walkers, chains
<1>8. CASE Link \/ Unlink
  BY <1>2, <1>8 DEF Link, Unlink, LockedInv, walkers, chains
<1>9. CASE Destroyed
  BY <1>1, <1>9 DEF Destroyed, Unlocked, LockedInv, Members, walkers, chains
<1>10. CASE FlipDone \/ RenderDone
  BY <1>10, LockedRest DEF FlipDone, RenderDone, LockedInv, walkers, chains
<1>11. ASSUME NEW w \in Walkers, Enter(w) PROVE LockedInv'
  BY <1>0, <1>11 DEF Enter, LockedInv, Members, chains
<1>12. ASSUME NEW w \in Walkers, Lock(w) PROVE LockedInv'
  <2>1. list # <<>> => Head(list) \in Members
    BY <1>0 DEF Members
  <2>2. Members' = Members
    BY <1>12 DEF Lock, Members
  <2> QED
    BY <1>0, <1>2, <1>12, <2>1, <2>2 DEF Lock, LockedInv, chains
<1>13. ASSUME NEW w \in Walkers, Start(w) PROVE LockedInv'
  BY <1>13 DEF Start, LockedInv, Members, walkers, chains
<1>14. ASSUME NEW w \in Walkers, Move(w) PROVE LockedInv'
  <2>1. PICK n : n = After(cur[w])
    OBVIOUS
  <2>2. n = NONE \/ n \in Members
    BY <1>0, <2>1, AfterIsThere
  <2>3. /\ cur' = [cur EXCEPT ![w] = n] /\ pc' = [pc EXCEPT ![w] = IF n = NONE THEN "done" ELSE "walk"]
        /\ UNCHANGED <<list, res, op, misr, refs, owner, robbed>> /\ pc[w] = "walk"
    BY <1>14, <2>1 DEF Move, chains
  <2>4. Members' = Members
    BY <2>3 DEF Members
  <2> QED
    BY <1>0, <2>2, <2>3, <2>4 DEF LockedInv
<1>15. ASSUME NEW w \in Walkers, Leave(w) PROVE LockedInv'
  <2>1. /\ pc[w] = "done" /\ pc' = [pc EXCEPT ![w] = "idle"]
        /\ res' = (IF res = "isr" THEN "free" ELSE res)
        /\ UNCHANGED <<list, op, misr, refs, cur, owner>>
    BY <1>15 DEF Leave, chains
  <2>2. robbed' \/ (~robbed /\ (res = "isr" => owner = w))
    BY <1>15, Zenon DEF Leave
  <2>3. robbed' \/ \A v \in Walkers : pc'[v] # "walk"
    BY <1>0, <2>1, <2>2 DEF LockedInv
  <2> QED
    BY <2>1, <2>3 DEF LockedInv
<1> QED
  BY <1>3, <1>4, <1>5, <1>6, <1>7, <1>8, <1>9, <1>10, <1>11, <1>12, <1>13, <1>14, <1>15
     DEF Next, Ioctl, Walk

(* Whoever goes through the list, the MISR, the watchdog after a recovery  *)
(* or more: no queue is freed under a walker, in any order of creations,   *)
(* refusals, failures to drain and destructions, before a walker gives     *)
(* back a lock that another has taken; and a queue that is being destroyed *)
(* is in the list, and no buffer has more complete than pending, even      *)
(* then.                                                                   *)
THEOREM QueuesCorrect == Spec => []ListIsSafe
<1>1. QueuesInv /\ [Next]_vars => QueuesInv'
  BY ShowInvStep, CountsStep, PlacesStep, LockedStep DEF QueuesInv
<1> QED
  BY <1>1, QueuesInit, QueuesShow, PTL DEF Spec
=============================================================================
