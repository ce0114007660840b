--------------------------------- MODULE MMap ---------------------------------
(***************************************************************************)
(* modules/pvr/mmap.c: memory areas mapped into processes.  A thread asks  *)
(* for the mmap data of an area (PVRMMapOSMemHandleToMMapData), mmaps the  *)
(* offset it was told (PVRMMap) unless another thread of its process has   *)
(* done so, and in the end releases the data (PVRMMapReleaseMMapData) and  *)
(* unmaps if it is told to.  What links these calls is a KV_OFFSET_STRUCT  *)
(* of an area and a process.  The areas of this model are contiguous and   *)
(* start in the same page frame, as parts of one allocation do, so they    *)
(* have one offset.  "User mode locking is required" (mmap.c:453): a       *)
(* thread holds its process's lock of the area from the call of the        *)
(* driver to the mmap or munmap.                                           *)
(***************************************************************************)
EXTENDS Naturals, FiniteSets

CONSTANTS Threads, Procs, Proc,     \* Proc: the process of a thread
          Areas, Addresses, NONE

(* One on the list is not mapped yet, any other is.                        *)
Structs ==
  [refs : Nat, mapped : {0}, va : {NONE}, tid : Threads, onlist : {TRUE}]
    \cup [refs : Nat, mapped : {1}, va : Addresses, tid : Threads, onlist : {FALSE}]
MMapAssumption ==
  /\ IsFiniteSet(Threads) /\ Proc \in [Threads -> Procs]
  /\ NONE \notin Areas \cup Addresses \cup Threads /\ NONE \notin Structs

VARIABLES registered,               \* g_sMMapAreaList
          structs,                  \* area, process -> offset structure or NONE
          vmas,                     \* process -> [address -> area or NONE]
          lock,                     \* area, process -> the thread with the lock
          pc, want, addr            \* thread: step; area; address it believes in
vars == <<registered, structs, vmas, lock, pc, want, addr>>

Keys == Areas \X Procs
Struct(tid) == [refs |-> 1, mapped |-> 0, va |-> NONE, tid |-> tid, onlist |-> TRUE]
Key(t) == <<want[t], Proc[t]>>
Goto(t, at) == pc' = [pc EXCEPT ![t] = at]
(* Who is on g_sMMapOffsetStructList: asked for and not yet mapped.        *)
Listed(k) == structs[k] # NONE /\ structs[k].onlist

TypeOK ==
  /\ registered \subseteq Areas /\ structs \in [Keys -> Structs \cup {NONE}]
  /\ vmas \in [Procs -> [Addresses -> Areas \cup {NONE}]]
  /\ pc \in [Threads -> {"idle", "ask", "mmap", "uses", "release", "munmap"}]

Init ==
  /\ registered = Areas /\ structs = [k \in Keys |-> NONE]
  /\ vmas = [p \in Procs |-> [v \in Addresses |-> NONE]] /\ lock = [k \in Keys |-> NONE]
  /\ pc = [t \in Threads |-> "idle"] /\ want = [t \in Threads |-> NONE]
  /\ addr = [t \in Threads |-> NONE]
-----------------------------------------------------------------------------
LockToMap(t, a) ==
  /\ pc[t] = "idle" /\ lock[<<a, Proc[t]>>] = NONE /\ a \in registered
  /\ lock' = [lock EXCEPT ![<<a, Proc[t]>>] = t] /\ want' = [want EXCEPT ![t] = a] /\ Goto(t, "ask")
  /\ UNCHANGED <<registered, structs, vmas, addr>>

(* The structure of this process, or a new one.                            *)
PVRMMapOSMemHandleToMMapData(t) ==
  LET k == Key(t) IN
  /\ pc[t] = "ask" /\ want[t] \in registered
  /\ IF structs[k] # NONE
     THEN /\ structs' = [structs EXCEPT ![k].refs = structs[k].refs + 1]
          /\ addr' = [addr EXCEPT ![t] = structs[k].va]
          /\ IF structs[k].va = NONE THEN Goto(t, "mmap") /\ UNCHANGED lock
             ELSE Goto(t, "uses") /\ lock' = [lock EXCEPT ![k] = NONE]
     ELSE /\ structs' = [structs EXCEPT ![k] = Struct(t)]
          /\ Goto(t, "mmap") /\ UNCHANGED <<lock, addr>>
  /\ UNCHANGED <<registered, vmas, want>>

(* The handle is no longer known.                                          *)
AskedTooLate(t) ==
  /\ pc[t] = "ask" /\ want[t] \notin registered /\ Goto(t, "idle")
  /\ lock' = [lock EXCEPT ![Key(t)] = NONE] /\ want' = [want EXCEPT ![t] = NONE]
  /\ UNCHANGED <<registered, structs, vmas, addr>>

(* FindOffsetStructByOffset: one on the list with this offset, of this     *)
(* process and, since the offset is physical, of this thread.  The code    *)
(* takes the first; there is never another (OnlyOne), so the order of the  *)
(* list is left out.                                                       *)
(* Seeded fault: of any thread.                                            *)
Matches_anyone(k, t) == k[2] = Proc[t]
Matches(k, t) == k[2] = Proc[t] /\ structs[k].tid = t

Found(t) == {k \in Keys : Listed(k) /\ Matches(k, t)}

(* The page table may refuse (-EAGAIN): the structure is destroyed.        *)
PVRMMap(t) ==
  /\ pc[t] = "mmap" /\ lock' = [lock EXCEPT ![Key(t)] = NONE]
  /\ \/ /\ \E k \in Found(t), v \in Addresses :
             /\ vmas[Proc[t]][v] = NONE /\ vmas' = [vmas EXCEPT ![Proc[t]][v] = k[1]]
             /\ structs' = [structs EXCEPT ![k] = [@ EXCEPT !.mapped = 1, !.va = v, !.onlist = FALSE]]
             /\ addr' = [addr EXCEPT ![t] = v]
        /\ Goto(t, "uses") /\ UNCHANGED want
     \/ /\ \/ \E k \in Found(t) : structs' = [structs EXCEPT ![k] = NONE]
           \/ Found(t) = {} /\ structs' = structs
        /\ Goto(t, "idle") /\ want' = [want EXCEPT ![t] = NONE]
        /\ UNCHANGED <<vmas, addr>>
  /\ UNCHANGED registered
-----------------------------------------------------------------------------
LockToRelease(t) ==
  /\ pc[t] = "uses" /\ lock[Key(t)] = NONE /\ lock' = [lock EXCEPT ![Key(t)] = t] /\ Goto(t, "release")
  /\ UNCHANGED <<registered, structs, vmas, want, addr>>

ToUnmap(s) == s.refs = 1 /\ s.va # NONE

PVRMMapReleaseMMapData(t) ==
  LET k == Key(t)
      s == structs[k] IN
  /\ pc[t] = "release" /\ addr' = [addr EXCEPT ![t] = NONE]
  /\ IF s = NONE \/ want[t] \notin registered
     THEN /\ UNCHANGED structs /\ Goto(t, "idle")
          /\ lock' = [lock EXCEPT ![k] = NONE] /\ want' = [want EXCEPT ![t] = NONE]
     ELSE IF s.refs = 0 THEN /\ UNCHANGED structs /\ Goto(t, "idle")
                             /\ lock' = [lock EXCEPT ![k] = NONE] /\ want' = [want EXCEPT ![t] = NONE]
     ELSE /\ structs' = [structs EXCEPT ![k].refs = s.refs - 1]
          /\ IF ToUnmap(s) THEN Goto(t, "munmap") /\ UNCHANGED <<lock, want>>
             ELSE /\ Goto(t, "idle") /\ lock' = [lock EXCEPT ![k] = NONE]
                  /\ want' = [want EXCEPT ![t] = NONE]
  /\ UNCHANGED <<registered, vmas>>

(* MMapVClose: with the last mapping the structure goes, referred to or    *)
(* not.                                                                    *)
Closed(s) == NONE

Munmap(t) ==
  LET k == Key(t) IN
  /\ pc[t] = "munmap" /\ Goto(t, "idle") /\ lock' = [lock EXCEPT ![k] = NONE]
  /\ want' = [want EXCEPT ![t] = NONE]
  /\ vmas' = [vmas EXCEPT ![Proc[t]] = [v \in Addresses |-> IF @[v] = k[1] THEN NONE ELSE @[v]]]
  /\ structs' = [structs EXCEPT ![k] = Closed(structs[k])]
  /\ UNCHANGED <<registered, addr>>
-----------------------------------------------------------------------------
(* PVRMMapRemoveRegisteredArea, when the memory is given back: not while a *)
(* process has it mapped.  It finds that out on its way through the area's *)
(* structures; those it came past are gone, which may be any.              *)
Unmapped(a) == {k \in Keys : k[1] = a /\ structs[k] # NONE /\ structs[k].mapped = 0}
StillMapped(a) == \E p \in Procs : structs[<<a, p>>] # NONE /\ structs[<<a, p>>].mapped # 0

PVRMMapRemoveRegisteredArea(a) ==
  /\ a \in registered
  /\ \E walked \in SUBSET Unmapped(a) :
       /\ structs' = [k \in Keys |-> IF k \in walked THEN NONE ELSE structs[k]]
       /\ \/ StillMapped(a) /\ UNCHANGED registered
          \/ ~StillMapped(a) /\ walked = Unmapped(a) /\ registered' = registered \ {a}
  /\ UNCHANGED <<vmas, lock, pc, want, addr>>

(* A process dies: its mappings are closed, then its descriptor, and with  *)
(* it what it asked for and never mapped (LinuxMMapPerProcessDisconnect).  *)
(* Its number is used again.                                               *)
Exit(p) ==
  /\ \E t \in Threads : Proc[t] = p /\ pc[t] # "idle"
  /\ pc' = [t \in Threads |-> IF Proc[t] = p THEN "idle" ELSE pc[t]]
  /\ want' = [t \in Threads |-> IF Proc[t] = p THEN NONE ELSE want[t]]
  /\ addr' = [t \in Threads |-> IF Proc[t] = p THEN NONE ELSE addr[t]]
  /\ lock' = [k \in Keys |-> IF k[2] = p THEN NONE ELSE lock[k]]
  /\ vmas' = [vmas EXCEPT ![p] = [v \in Addresses |-> NONE]]
  /\ structs' = [k \in Keys |->
       IF k[2] # p \/ structs[k] = NONE THEN structs[k]
       ELSE IF structs[k].onlist THEN NONE
       ELSE Closed(structs[k])]
  /\ UNCHANGED registered
-----------------------------------------------------------------------------
Next ==
  \/ \E t \in Threads :
       \/ \E a \in Areas : LockToMap(t, a)
       \/ PVRMMapOSMemHandleToMMapData(t) \/ AskedTooLate(t) \/ PVRMMap(t)
       \/ LockToRelease(t) \/ PVRMMapReleaseMMapData(t) \/ Munmap(t)
  \/ \E a \in Areas : PVRMMapRemoveRegisteredArea(a)
  \/ \E p \in Procs : Exit(p)

Spec == Init /\ [][Next]_vars
-----------------------------------------------------------------------------
(* The area a thread uses is at the address it was told: nobody unmaps it  *)
(* before, and no other area with the same offset is there (mmap.c:460,    *)
(* 588-592, 626-638).                                                      *)
UsedIsThere ==
  \A t \in Threads : pc[t] = "uses" => vmas[Proc[t]][addr[t]] = want[t]

(* Memory that is given back is mapped nowhere (mmap.c:1393-1400).         *)
GivenBackIsUnmapped ==
  \A p \in Procs, v \in Addresses : vmas[p][v] # NONE => vmas[p][v] \in registered

(* A structure says of its process what is true: it is mapped at its       *)
(* address or waits on the list, and an exited process leaves none behind  *)
(* for the next owner of its number (mmap.c:886-894, 1466-1486).           *)
StructsAreTrue ==
  \A k \in Keys : structs[k] # NONE =>
    IF structs[k].va = NONE THEN structs[k].onlist
    ELSE vmas[k[2]][structs[k].va] = k[1]

(* A thread's mmap finds its own structure if any, though the areas of its *)
(* process have one offset (mmap.c:628-632).                               *)
OnlyOne ==
  \A t \in Threads : pc[t] = "mmap" => \A k \in Found(t) : k = Key(t)

(* What every state of the areas, their structures and mappings keeps.     *)
MappingsHold == TypeOK /\ UsedIsThere /\ GivenBackIsUnmapped /\ StructsAreTrue /\ OnlyOne
=============================================================================
