-------------------------------- MODULE ResMan --------------------------------
(***************************************************************************)
(* modules/pvr: what a process holds of the driver and how it is taken     *)
(* back: resman.c's list of resources of a process, perproc.c, the render  *)
(* contexts of sgx/sgxutils.c, the parameter buffer shared by all          *)
(* processes and its creation lock (sgx/pb.c).  One ioctl runs at a time,  *)
(* under the bridge mutex.  A render context may be freed when the         *)
(* microkernel says that it is done with it: a request, a poll, an answer. *)
(* While it says "busy", an exiting process sleeps without the mutex.      *)
(* Transfer and 2D contexts are cleaned up by copies of the same function. *)
(***************************************************************************)
EXTENDS Integers, Sequences, FiniteSets

CONSTANTS Procs, Contexts, PB, NONE,
          MaxRefs, MaxTimeouts          \* bounds

VARIABLES data,                 \* processes with per-process data
          rcs,                  \* render contexts in the list, newest first
          pbs,                  \* references to the shared buffer in the list
          creator,              \* psPerProcCreateSharedPB and its item
          pb,                   \* ui32RefCount of the buffer, 0: there is none
          bridge,               \* gPVRSRVLock
          pc, exiting, what, forced,    \* the thread of each process
          timing, elapsed,      \* contexts whose bCleanupTimerRunning; time is up
          requests, status,     \* CLEANUP commands; ui32CleanupStatus
          using,                \* contexts the microkernel works with
          gone,                 \* contexts whose memory was freed
          gaveup,               \* those freed without the answer "done" (history)
          unheard,              \* requests whose poll timed out (history)
          leftover              \* what a disconnect left in its list (history)

res == <<data, rcs, pbs, creator, pb>>
thread == <<pc, exiting, what, forced>>
timers == <<timing, elapsed>>
uk == <<requests, status, using>>
history == <<gone, gaveup, unheard, leftover>>
vars == <<res, bridge, thread, timers, uk, history>>

FREE == "free"
ResManAssumption ==
  /\ IsFiniteSet(Procs) /\ NONE \notin Procs /\ FREE \notin Procs
  /\ PB \notin Contexts /\ NONE \notin Contexts \cup {PB} /\ MaxRefs \in Nat
Goto(p, at) == pc' = [pc EXCEPT ![p] = at]
Elements(s) == {s[i] : i \in 1 .. Len(s)}
Without(s, c) ==                 \* an item is once in a list
  IF c \notin Elements(s) THEN s
  ELSE LET k == CHOOSE j \in 1 .. Len(s) : s[j] = c
       IN  SubSeq(s, 1, k - 1) \o SubSeq(s, k + 1, Len(s))

TypeOK ==
  /\ data \subseteq Procs /\ rcs \in [Procs -> Seq(Contexts)] /\ pbs \in [Procs -> 0 .. MaxRefs]
  /\ creator \in Procs \cup {NONE} /\ pb \in Nat /\ bridge \in Procs \cup {FREE}
  /\ pc \in [Procs -> {"out", "user", "free", "ask", "poll", "read", "sleep"}]
  /\ exiting \subseteq Procs /\ what \in [Procs -> Contexts \cup {PB, NONE}]
  /\ status \subseteq {"complete", "busy", "done"} /\ using \subseteq Contexts
  /\ requests \in Seq(Contexts \cup {PB})

Init ==
  /\ data = {} /\ rcs = [p \in Procs |-> <<>>] /\ pbs = [p \in Procs |-> 0]
  /\ creator = NONE /\ pb = 0 /\ bridge = FREE
  /\ pc = [p \in Procs |-> "out"] /\ exiting = {} /\ what = [p \in Procs |-> NONE]
  /\ forced = {} /\ timing = {} /\ elapsed = {} /\ requests = <<>> /\ status = {} /\ using = {}
  /\ gone = {} /\ gaveup = {} /\ unheard = 0 /\ leftover = {}
-----------------------------------------------------------------------------
(* PVRSRVPerProcessDataConnect.                                            *)
Open(p) ==
  /\ pc[p] = "out" /\ bridge = FREE /\ Goto(p, "user") /\ data' = data \cup {p}
  /\ UNCHANGED <<rcs, pbs, creator, pb, bridge, exiting, what, forced, timers, uk, history>>

InIoctl(p) == pc[p] = "user" /\ bridge = FREE

SGXRegisterHWRenderContextKM(p, c) ==
  /\ InIoctl(p) /\ c \notin gone \cup leftover /\ \A q \in Procs : c \notin Elements(rcs[q])
  /\ rcs' = [rcs EXCEPT ![p] = <<c>> \o @]
  /\ UNCHANGED <<data, pbs, creator, pb, bridge, thread, timers, uk, history>>

(* A kick renders with the context.                                        *)
Kick(p, c) ==
  /\ InIoctl(p) /\ c \in Elements(rcs[p]) /\ c \notin using /\ using' = using \cup {c}
  /\ UNCHANGED <<res, bridge, thread, timers, requests, status, history>>

(* SGXFindSharedPBDescKM.  PROCESSING_BLOCKED changes nothing.             *)
(* Seeded fault: a reference that is not counted.                          *)
Found_uncounted == pb
Found == pb + 1

SGXFindSharedPBDescKM(p, bLockOnFailure) ==
  /\ InIoctl(p)
  /\ \/ /\ pb > 0 /\ pbs[p] < MaxRefs
        /\ pbs' = [pbs EXCEPT ![p] = @ + 1] /\ pb' = Found /\ UNCHANGED creator
     \/ pb = 0 /\ bLockOnFailure /\ creator = NONE /\ creator' = p /\ UNCHANGED <<pbs, pb>>
  /\ UNCHANGED <<data, rcs, bridge, thread, timers, uk, history>>

(* SGXAddSharedPBDescKM: the lock is given back; the buffer becomes the    *)
(* driver's, or the existing one is referred to, or there is no memory or  *)
(* a part of it is not the process's, and nothing is added.                *)
SGXAddSharedPBDescKM(p) ==
  /\ InIoctl(p) /\ creator = p /\ creator' = NONE
  /\ \/ pbs[p] < MaxRefs /\ pbs' = [pbs EXCEPT ![p] = @ + 1] /\ pb' = pb + 1
     \/ UNCHANGED <<pbs, pb>>
  /\ UNCHANGED <<data, rcs, bridge, thread, timers, uk, history>>
-----------------------------------------------------------------------------
(* Ioctls that free a resource through ResManFreeResByPtr.                 *)
SGXUnregisterHWRenderContextKM(p, c, bForceCleanup) ==
  /\ InIoctl(p) /\ c \in Elements(rcs[p]) /\ bridge' = p
  /\ what' = [what EXCEPT ![p] = c] /\ Goto(p, "free")
  /\ forced' = IF bForceCleanup THEN forced \cup {p} ELSE forced
  /\ UNCHANGED <<res, exiting, timers, uk, history>>

SGXUnrefSharedPBDescKM(p) ==
  /\ InIoctl(p) /\ pbs[p] > 0 /\ bridge' = p
  /\ what' = [what EXCEPT ![p] = PB] /\ Goto(p, "free")
  /\ UNCHANGED <<res, exiting, forced, timers, uk, history>>

(* What an exiting process frees when no context is left.                  *)
AfterContexts(p) == IF pbs[p] > 0 THEN PB ELSE NONE

(* The last descriptor is closed, by the process or by its death:          *)
(* PVRSRVResManDisconnect frees by type, in order.                         *)
Release(p) ==
  /\ InIoctl(p) /\ bridge' = p /\ exiting' = exiting \cup {p} /\ Goto(p, "free")
  /\ what' = [what EXCEPT ![p] = IF rcs[p] = <<>> THEN AfterContexts(p) ELSE Head(rcs[p])]
  /\ UNCHANGED <<res, forced, timers, uk, history>>

(* FreeResourceByPtr calls the callback: SGXCleanupHWRenderContextCallback *)
(* asks the microkernel unless it is forced, SGXCleanupSharedPBDescKM      *)
(* frees the buffer with its last reference and then asks.                 *)
FreeContext(p) ==
  /\ pc[p] = "free" /\ what[p] \in Contexts
  /\ Goto(p, IF p \in forced THEN "read" ELSE "ask")
  /\ UNCHANGED <<res, bridge, exiting, what, forced, timers, uk, history>>

(* The creation lock, if the process holds it, goes after the contexts.    *)
LockGoesWith(p) == p \in exiting /\ creator = p

FreePB(p) ==
  /\ pc[p] = "free" /\ what[p] = PB /\ ~LockGoesWith(p) /\ pb' = pb - 1
  /\ pbs' = [pbs EXCEPT ![p] = @ - 1]
  /\ IF pb = 1 THEN Goto(p, "ask") /\ UNCHANGED <<bridge, what>>
     ELSE IF p \in exiting THEN what' = [what EXCEPT ![p] = IF pbs[p] = 1 THEN NONE ELSE PB]
                               /\ UNCHANGED <<pc, bridge>>
     ELSE Goto(p, "user") /\ bridge' = FREE /\ what' = [what EXCEPT ![p] = NONE]
  /\ UNCHANGED <<data, rcs, creator, exiting, forced, timers, uk, history>>

(* SGXCleanupRequest.                                                      *)
Ask(p) ==
  /\ pc[p] = "ask" /\ Goto(p, "poll") /\ requests' = Append(requests, what[p])
  /\ UNCHANGED <<res, bridge, exiting, what, forced, timers, status, using, history>>

(* The callback is over: the list, and what comes next.  An error other    *)
(* than RETRY ends FreeResourceByCriteria: the rest of that type stays.    *)
Over(p, ok) ==
  LET rest == Without(rcs[p], what[p])
      last == rest = <<>> \/ ~ok IN
  /\ rcs' = [rcs EXCEPT ![p] = rest]
  /\ IF p \in exiting
     THEN /\ what' = [what EXCEPT ![p] = IF what[p] \in Contexts /\ ~last THEN Head(rest)
                                         ELSE AfterContexts(p)]
          /\ Goto(p, "free") /\ UNCHANGED <<bridge, forced, creator>>
     ELSE /\ Goto(p, "user") /\ bridge' = FREE /\ what' = [what EXCEPT ![p] = NONE]
          /\ forced' = forced \ {p} /\ UNCHANGED creator

(* Ten times MAX_HW_TIME_US went by without an answer.  The memory goes    *)
(* all the same.                                                           *)
PollTimeout(p) ==
  /\ pc[p] = "poll" /\ "complete" \notin status /\ unheard < MaxTimeouts
  /\ unheard' = unheard + 1 /\ Over(p, FALSE)
  /\ IF what[p] \in Contexts
     THEN gone' = gone \cup {what[p]} /\ gaveup' = gaveup \cup {what[p]}
     ELSE UNCHANGED <<gone, gaveup>>
  /\ timing' = timing \ {what[p]} /\ elapsed' = elapsed \ {what[p]}
  /\ UNCHANGED <<data, pbs, pb, exiting, uk, leftover>>

Poll(p) ==
  /\ pc[p] = "poll" /\ "complete" \in status /\ Goto(p, "read")
  /\ UNCHANGED <<res, bridge, exiting, what, forced, timers, uk, history>>

(* Seeded fault: a busy microkernel is taken for a done one.               *)
SaysBusy_never == FALSE
SaysBusy == "busy" \in status

ReadDone(p) ==
  /\ pc[p] = "read" /\ ~SaysBusy /\ status' = status \ {"complete", "done"} /\ Over(p, TRUE)
  /\ IF what[p] \in Contexts
     THEN gone' = gone \cup {what[p]}
          /\ gaveup' = IF p \in forced THEN gaveup \cup {what[p]} ELSE gaveup
     ELSE UNCHANGED <<gone, gaveup>>
  /\ timing' = timing \ {what[p]} /\ elapsed' = elapsed \ {what[p]}
  /\ UNCHANGED <<data, pbs, pb, exiting, requests, using, unheard, leftover>>

(* The first RETRY starts the time MAX_CLEANUP_TIME_US.                    *)
(* Seeded fault: it never starts.                                          *)
TimingWith_not(c) == timing
TimingWith(c) == timing \cup {c}

ReadBusy(p) ==
  /\ pc[p] = "read" /\ SaysBusy /\ status' = status \ {"complete", "busy"}
  /\ what[p] = PB \/ what[p] \notin elapsed
  /\ IF what[p] = PB THEN Over(p, TRUE) /\ UNCHANGED timing
     ELSE /\ timing' = TimingWith(what[p]) /\ bridge' = FREE /\ UNCHANGED <<rcs, creator>>
          /\ IF p \in exiting THEN Goto(p, "sleep") /\ UNCHANGED <<what, forced>>
             ELSE Goto(p, "user") /\ what' = [what EXCEPT ![p] = NONE] /\ forced' = forced \ {p}
  /\ UNCHANGED <<data, pbs, pb, exiting, elapsed, requests, using, history>>

ReadTooLate(p) ==
  /\ pc[p] = "read" /\ SaysBusy /\ status' = status \ {"complete", "busy"}
  /\ what[p] \in elapsed /\ Over(p, FALSE)
  /\ gone' = gone \cup {what[p]} /\ gaveup' = gaveup \cup {what[p]}
  /\ timing' = timing \ {what[p]} /\ elapsed' = elapsed \ {what[p]}
  /\ UNCHANGED <<data, pbs, pb, exiting, requests, using, unheard, leftover>>

(* The sleeper takes the mutex again and goes on with the same item.       *)
Wake(p) ==
  /\ pc[p] = "sleep" /\ bridge = FREE /\ bridge' = p /\ Goto(p, "free")
  /\ UNCHANGED <<res, exiting, what, forced, timers, uk, history>>

(* RESMAN_TYPE_SHARED_PB_DESC_CREATE_LOCK, then the buffers.               *)
FreeLock(p) ==
  /\ pc[p] = "free" /\ what[p] \notin Contexts /\ LockGoesWith(p) /\ creator' = NONE
  /\ UNCHANGED <<data, rcs, pbs, pb, bridge, thread, timers, uk, history>>

Disconnected(p) ==
  /\ pc[p] = "free" /\ what[p] = NONE /\ p \in exiting /\ ~LockGoesWith(p)
  /\ leftover' = leftover \cup Elements(rcs[p]) /\ rcs' = [rcs EXCEPT ![p] = <<>>]
  /\ data' = data \ {p} /\ exiting' = exiting \ {p} /\ Goto(p, "out") /\ bridge' = FREE
  /\ UNCHANGED <<pbs, creator, pb, what, forced, timers, uk, gone, gaveup, unheard>>
-----------------------------------------------------------------------------
(* The microkernel answers the requests in turn and finishes renders.      *)
UkAnswer ==
  /\ requests # <<>> /\ requests' = Tail(requests)
  /\ status' = status \cup {"complete", IF Head(requests) \in using THEN "busy" ELSE "done"}
  /\ UNCHANGED <<res, bridge, thread, timers, using, history>>

UkFinish ==
  /\ \E c \in using : using' = using \ {c}
  /\ UNCHANGED <<res, bridge, thread, timers, requests, status, history>>

TimeIsUp ==
  /\ timing \ elapsed # {} /\ elapsed' = timing
  /\ UNCHANGED <<res, bridge, thread, timing, uk, history>>
-----------------------------------------------------------------------------
Step(p) ==
  \/ FreeContext(p) \/ FreePB(p) \/ FreeLock(p) \/ Ask(p) \/ Poll(p) \/ PollTimeout(p)
  \/ ReadDone(p) \/ ReadBusy(p) \/ ReadTooLate(p) \/ Wake(p) \/ Disconnected(p)

Next ==
  \/ \E p \in Procs :
       \/ Open(p) \/ SGXAddSharedPBDescKM(p) \/ SGXUnrefSharedPBDescKM(p) \/ Release(p) \/ Step(p)
       \/ \E b \in BOOLEAN : SGXFindSharedPBDescKM(p, b)
       \/ \E c \in Contexts :
            \/ SGXRegisterHWRenderContextKM(p, c) \/ Kick(p, c)
            \/ \E b \in BOOLEAN : SGXUnregisterHWRenderContextKM(p, c, b)
  \/ UkAnswer \/ UkFinish \/ TimeIsUp

(* Threads run, the microkernel answers, time passes; renders may hang.    *)
Fair == /\ \A p \in Procs : SF_vars(Step(p))
        /\ WF_vars(UkAnswer) /\ WF_vars(TimeIsUp)

Spec == Init /\ [][Next]_vars
FairSpec == Spec /\ Fair
-----------------------------------------------------------------------------
(* The memory of a context is not freed under the microkernel, unless the  *)
(* caller said so or the driver gave up waiting, or an answer to an older  *)
(* request was still to come (sgxutils.c:862-914, 953-990).                *)
FreedWhenDone == unheard = 0 => gone \cap using \subseteq gaveup

(* The buffer lives as long as the processes that refer to it: its count   *)
(* is what their lists hold (pb.c:153, 200, 352, 412).                     *)
CountIsHeld ==
  LET held == {h \in Procs \X (1 .. MaxRefs) : h[2] <= pbs[h[1]]} IN pb = Cardinality(held)

(* The creation lock belongs to a process that can give it back: a process *)
(* that dies does not keep it (pb.c:161-177, 251-267).                     *)
LockIsSomeones == creator # NONE => creator \in data

(* The shared buffer and the right to make it stay in living hands.        *)
BufferIsOwned == TypeOK /\ CountIsHeld /\ LockIsSomeones

(* A process gets away in the end, even if its render never ends           *)
(* (sgxutils.c:953-976; resman.c:891-903).                                 *)
Leaves(p) == p \in exiting ~> p \notin data
EveryoneLeaves == \A p \in Procs : Leaves(p)

(* "Ensure that there are no resources left" (resman.c:376-377).           *)
NoneLeft == leftover = {}
=============================================================================
