---------------------------- MODULE QtaguidFiles ----------------------------
(* The count of every socket's file, and upon it the refinement of         *)
(* SockTags, proved of Qtaguid for any processes, uids, tags, sockets and  *)
(* max_sock_tags.                                                          *)
EXTENDS QtaguidSafety

(* What process p itself holds of the references to s.                     *)
Own(p, s) ==
    Bool(s \in fds[p]) + Bool(p \in Callers(s)) + Bool(p \in Untaggers(s))
  + Bool(s \in tofree[p]) + Bool(s \in relfree[p])

(* Only a delete has sock_tags to free, and a sock_tag that is on a list   *)
(* is in the tree.                                                         *)
FreesOfDelete == \A p \in Procs : op[p] # "del_put" => tofree[p] = {}
ListedTagged  == \A s \in Socks : link[s] # NONE => stag[s] # NONE

PinInv == FilePinned /\ FreesOfDelete /\ ListedTagged

-----------------------------------------------------------------------------
(* A set of processes that changes only at p                               *)
LEMMA CardAt ==
  ASSUME NEW A \in SUBSET Procs, NEW B \in SUBSET Procs, NEW p \in Procs,
         \A q \in Procs \ {p} : q \in A <=> q \in B
  PROVE  /\ Cardinality(A) \in Nat /\ Cardinality(B) \in Nat
         /\ Cardinality(B) = Cardinality(A) + Bool(p \in B) - Bool(p \in A)
<1>0. /\ IsFiniteSet(A) /\ Cardinality(A) \in Nat
      /\ IsFiniteSet(B) /\ Cardinality(B) \in Nat
  BY QtaguidAssumption, FS_Subset, FS_CardinalityType
<1>1. CASE p \in A <=> p \in B
  <2>1. A = B
    BY <1>1
  <2> QED
    BY <1>0, <1>1, <2>1 DEF Bool
<1>2. CASE p \in B /\ p \notin A
  <2>1. B = A \cup {p}
    BY <1>2
  <2>2. Cardinality(A \cup {p}) = Cardinality(A) + 1
    BY <1>0, <1>2, FS_AddElement
  <2> QED
    BY <1>0, <1>2, <2>1, <2>2 DEF Bool
<1>3. CASE p \in A /\ p \notin B
  <2>1. B = A \ {p}
    BY <1>3
  <2>2. Cardinality(A \ {p}) = Cardinality(A) - 1
    BY <1>0, <1>3, FS_RemoveElement
  <2> QED
    BY <1>0, <1>3, <2>1, <2>2 DEF Bool
<1> QED
  BY <1>1, <1>2, <1>3

(* The references to s change by what p does and by its sock_tag.          *)
LEMMA PinsAt ==
  ASSUME NEW p \in Procs, NEW s \in Socks,
         \A q \in Procs \ {p} : /\ fds'[q] = fds[q] /\ op'[q] = op[q] /\ sk'[q] = sk[q]
                                /\ tofree'[q] = tofree[q] /\ relfree'[q] = relfree[q]
  PROVE  /\ Pins(s) \in Nat
         /\ Pins(s)' = Pins(s) + Bool(stag[s] # NONE)' - Bool(stag[s] # NONE)
                               + Own(p, s)' - Own(p, s)
<1>1. /\ Cardinality(Holders(s)) \in Nat /\ Cardinality(Holders(s)') \in Nat
      /\ Cardinality(Holders(s)')
           = Cardinality(Holders(s)) + Bool(s \in fds'[p]) - Bool(s \in fds[p])
  <2>1. \A q \in Procs \ {p} : q \in Holders(s) <=> q \in Holders(s)'
    BY DEF Holders
  <2>2. /\ Holders(s) \in SUBSET Procs /\ Holders(s)' \in SUBSET Procs
        /\ (p \in Holders(s) <=> s \in fds[p]) /\ (p \in Holders(s)' <=> s \in fds'[p])
    BY DEF Holders
  <2> QED
    BY <2>1, <2>2, CardAt DEF Bool
<1>2. /\ Cardinality(Callers(s)) \in Nat /\ Cardinality(Callers(s)') \in Nat
      /\ Cardinality(Callers(s)')
           = Cardinality(Callers(s)) + Bool(p \in Callers(s)') - Bool(p \in Callers(s))
  <2>1. \A q \in Procs \ {p} : q \in Callers(s) <=> q \in Callers(s)'
    BY DEF Callers
  <2>2. Callers(s) \in SUBSET Procs /\ Callers(s)' \in SUBSET Procs
    BY DEF Callers
  <2> QED
    BY <2>1, <2>2, CardAt
<1>3. /\ Cardinality(Untaggers(s)) \in Nat /\ Cardinality(Untaggers(s)') \in Nat
      /\ Cardinality(Untaggers(s)')
           = Cardinality(Untaggers(s)) + Bool(p \in Untaggers(s)') - Bool(p \in Untaggers(s))
  <2>1. \A q \in Procs \ {p} : q \in Untaggers(s) <=> q \in Untaggers(s)'
    BY DEF Untaggers
  <2>2. Untaggers(s) \in SUBSET Procs /\ Untaggers(s)' \in SUBSET Procs
    BY DEF Untaggers
  <2> QED
    BY <2>1, <2>2, CardAt
<1>4. /\ Cardinality(Deleters(s)) \in Nat /\ Cardinality(Deleters(s)') \in Nat
      /\ Cardinality(Deleters(s)')
           = Cardinality(Deleters(s)) + Bool(s \in tofree'[p]) - Bool(s \in tofree[p])
  <2>1. \A q \in Procs \ {p} : q \in Deleters(s) <=> q \in Deleters(s)'
    BY DEF Deleters
  <2>2. /\ Deleters(s) \in SUBSET Procs /\ Deleters(s)' \in SUBSET Procs
        /\ (p \in Deleters(s) <=> s \in tofree[p]) /\ (p \in Deleters(s)' <=> s \in tofree'[p])
    BY DEF Deleters
  <2> QED
    BY <2>1, <2>2, CardAt DEF Bool
<1>5. /\ Cardinality(Releasers(s)) \in Nat /\ Cardinality(Releasers(s)') \in Nat
      /\ Cardinality(Releasers(s)')
           = Cardinality(Releasers(s)) + Bool(s \in relfree'[p]) - Bool(s \in relfree[p])
  <2>1. \A q \in Procs \ {p} : q \in Releasers(s) <=> q \in Releasers(s)'
    BY DEF Releasers
  <2>2. /\ Releasers(s) \in SUBSET Procs /\ Releasers(s)' \in SUBSET Procs
        /\ (p \in Releasers(s) <=> s \in relfree[p]) /\ (p \in Releasers(s)' <=> s \in relfree'[p])
    BY DEF Releasers
  <2> QED
    BY <2>1, <2>2, CardAt DEF Bool
<1>6. \A b : Bool(b) \in Nat
  BY DEF Bool
<1> QED
  BY <1>1, <1>2, <1>3, <1>4, <1>5, <1>6 DEF Pins, Own

(* The reference to the file of a socket that a process has a descriptor   *)
(* of, or a call on, and that of its sock_tag are two.                     *)
LEMMA PinsLeast ==
  ASSUME NEW p \in Procs, NEW s \in Socks
  PROVE  /\ Pins(s) \in Nat
         /\ Pins(s) >= Bool(stag[s] # NONE)
         /\ s \in fds[p] \/ p \in Callers(s) => Pins(s) >= Bool(stag[s] # NONE) + 1
<1>1. \A A \in SUBSET Procs : /\ Cardinality(A) \in Nat /\ (p \in A => Cardinality(A) >= 1)
  <2> SUFFICES ASSUME NEW A \in SUBSET Procs
               PROVE  Cardinality(A) \in Nat /\ (p \in A => Cardinality(A) >= 1)
    OBVIOUS
  <2>1. IsFiniteSet(A) /\ Cardinality(A) \in Nat
    BY QtaguidAssumption, FS_Subset, FS_CardinalityType
  <2> QED
    BY <2>1, FS_EmptySet
<1>2. /\ Holders(s) \in SUBSET Procs /\ Callers(s) \in SUBSET Procs /\ Untaggers(s) \in SUBSET Procs
      /\ Deleters(s) \in SUBSET Procs /\ Releasers(s) \in SUBSET Procs
      /\ (p \in Holders(s) <=> s \in fds[p])
  BY DEF Holders, Callers, Untaggers, Deleters, Releasers
<1>3. Bool(stag[s] # NONE) \in Nat
  BY DEF Bool
<1> QED
  BY <1>1, <1>2, <1>3 DEF Pins

(* A step of p, and nobody else, that counts what it does.                 *)
LEMMA PinnedBy ==
  ASSUME TypeOK, FilePinned, ~oops, NEW p \in Procs,
         \A q \in Procs \ {p} : /\ fds'[q] = fds[q] /\ op'[q] = op[q] /\ sk'[q] = sk[q]
                                /\ tofree'[q] = tofree[q] /\ relfree'[q] = relfree[q],
         \A s \in Socks : fref'[s] = fref[s] + Bool(stag[s] # NONE)' - Bool(stag[s] # NONE)
                                             + Own(p, s)' - Own(p, s)
  PROVE  FilePinned'
<1>1. ASSUME NEW s \in Socks PROVE fref'[s] = Pins(s)'
  <2>1. fref[s] = Pins(s)
    BY DEF FilePinned
  <2> QED
    BY <2>1, PinsAt
<1> QED
  BY <1>1 DEF FilePinned

-----------------------------------------------------------------------------
(* What the other two parts of the invariant come from                     *)
LEMMA FreesStep == TypeOK /\ FreesOfDelete /\ [Next]_vars => FreesOfDelete'
<1> SUFFICES ASSUME TypeOK, FreesOfDelete, [Next]_vars PROVE FreesOfDelete'
  OBVIOUS
<1> USE DEF tagvars, opvars, At, InTag, Goto, Return, Excuse, Crash, TypeOK, FreesOfDelete
<1>1. CASE UNCHANGED vars \/ Halted
  BY <1>1 DEF Halted, vars
<1>2. ASSUME NEW p \in Procs, Command(p) \/ Sockets(p) \/ ReleasePut(p) \/ Device(p)
      PROVE  FreesOfDelete'
  BY <1>2 DEF Command, TagRefused, UntagLookup, TagLookup, DeleteCall, Sockets, NewSocket, CloseSocket,
              PassSocket, ReleasePut, Device, QtudevOpen, QtudevOpenFails, QtudevRelease
<1>3. ASSUME NEW p \in Procs,
             \/ TagUtdAllocFails(p) \/ TagRefFails(p) \/ Retag(p) \/ TagNew(p) \/ TagAllocFails(p)
             \/ UnrefLoad(p) \/ UnrefStore(p) \/ UnrefFree(p) \/ ErrPut(p)
      PROVE  FreesOfDelete'
  BY <1>3 DEF TagUtdAllocFails, TagRefFails, Retag, TagNew, TagAllocFails, UnrefLoad, UnrefStore,
              UnrefFree, ErrPut
<1>4. ASSUME NEW p \in Procs,
             \/ UntagNothing(p) \/ Untag(p) \/ UntagPut(p)
             \/ DeleteSockTags(p) \/ DeletePut(p) \/ DeleteTagRefs(p) \/ DeleteNoUtd(p)
      PROVE  FreesOfDelete'
  BY <1>4 DEF UntagNothing, Untag, UntagPut, DeleteSockTags, DeletePut, DeleteTagRefs, DeleteNoUtd
<1> QED
  BY <1>1, <1>2, <1>3, <1>4 DEF Next, KernelStep

LEMMA ListedStep == TypeOK /\ ListedTagged /\ [Next]_vars => ListedTagged'
<1> SUFFICES ASSUME TypeOK, ListedTagged, [Next]_vars PROVE ListedTagged'
  OBVIOUS
<1> USE QtaguidAssumption DEF tagvars, At, InTag, ListedTagged
<1>1. CASE UNCHANGED vars \/ Halted
  BY <1>1 DEF Halted, vars
<1>2. ASSUME NEW p \in Procs, Command(p) \/ Sockets(p) \/ ReleasePut(p) PROVE ListedTagged'
  BY <1>2 DEF Command, TagRefused, UntagLookup, TagLookup, DeleteCall, Sockets, NewSocket, CloseSocket,
              PassSocket, ReleasePut
<1>3. ASSUME NEW p \in Procs,
             \/ TagUtdAllocFails(p) \/ TagRefFails(p) \/ TagAllocFails(p)
             \/ UnrefLoad(p) \/ UnrefStore(p) \/ UnrefFree(p) \/ ErrPut(p)
             \/ UntagNothing(p) \/ UntagPut(p) \/ DeletePut(p) \/ DeleteTagRefs(p) \/ DeleteNoUtd(p)
             \/ QtudevOpen(p) \/ QtudevOpenFails(p)
      PROVE  ListedTagged'
  <2>1. UNCHANGED <<stag, link>>
    BY <1>3 DEF TagUtdAllocFails, TagRefFails, TagAllocFails, UnrefLoad, UnrefStore, UnrefFree, ErrPut,
                UntagNothing, UntagPut, DeletePut, DeleteTagRefs, DeleteNoUtd, QtudevOpen,
                QtudevOpenFails
  <2> QED
    BY <2>1
<1>4. ASSUME NEW p \in Procs, Retag(p) \/ TagNew(p) PROVE ListedTagged'
  <2>1. /\ stag' = [stag EXCEPT ![sk[p]] = tg[p]] /\ tg[p] # NONE /\ sk[p] \in Socks
        /\ link' \in {link, [link EXCEPT ![sk[p]] = p]}
    BY <1>4 DEF Retag, TagNew, TypeOK, Tags
  <2> QED
    BY <2>1 DEF TypeOK
<1>5. ASSUME NEW p \in Procs, Untag(p) \/ DeleteSockTags(p) \/ QtudevRelease(p) PROVE ListedTagged'
  <2>1. \E M \in SUBSET Socks : /\ stag' = [s \in Socks |-> IF s \in M THEN NONE ELSE stag[s]]
                               /\ link' = [s \in Socks |-> IF s \in M THEN NONE ELSE link[s]]
    <3>1. CASE Untag(p)
      <4>1. /\ sk[p] \in Socks /\ stag' = [stag EXCEPT ![sk[p]] = NONE]
            /\ link' = [link EXCEPT ![sk[p]] = NONE]
        BY <3>1 DEF Untag, TypeOK
      <4>2. {sk[p]} \in SUBSET Socks
        BY <4>1
      <4>3. /\ stag' = [s \in Socks |-> IF s \in {sk[p]} THEN NONE ELSE stag[s]]
            /\ link' = [s \in Socks |-> IF s \in {sk[p]} THEN NONE ELSE link[s]]
        BY <4>1 DEF TypeOK
      <4> QED
        BY <4>2, <4>3
    <3>2. CASE DeleteSockTags(p)
      BY <3>2 DEF DeleteSockTags
    <3>3. CASE QtudevRelease(p)
      BY <3>3 DEF QtudevRelease
    <3> QED
      BY <1>5, <3>1, <3>2, <3>3
  <2> QED
    BY <2>1
<1> QED
  BY <1>1, <1>2, <1>3, <1>4, <1>5 DEF Next, KernelStep, Device

-----------------------------------------------------------------------------
(* f_count                                                                 *)

(* A step that touches neither a reference nor what is counted as one.     *)
LEMMA PinnedKept ==
  ASSUME TypeOK, PinInv, ~oops, NEW p \in Procs,
         UNCHANGED <<stag, fds, fref, sk, relfree>>, tofree' = tofree,
         \A q \in Procs \ {p} : op'[q] = op[q],
         \/ op[p] \in {"tag", "unref_load", "unref_store", "unref_free", "untag"}
            /\ op'[p] \in {"unref_load", "unref_store", "unref_free", "put"}
         \/ op[p] \in {"idle", "del"} /\ op'[p] \in {"idle", "del"}
  PROVE  FilePinned'
<1>1. ASSUME NEW s \in Socks PROVE Own(p, s)' = Own(p, s)
  BY DEF Own, Callers, Untaggers, Bool
<1>2. ASSUME NEW s \in Socks
      PROVE  fref'[s] = fref[s] + Bool(stag[s] # NONE)' - Bool(stag[s] # NONE) + Own(p, s)' - Own(p, s)
  <2>1. Own(p, s) \in Int /\ fref[s] \in Int /\ Bool(stag[s] # NONE) \in Int
    BY DEF Own, Bool, TypeOK
  <2>2. Bool(stag[s] # NONE)' = Bool(stag[s] # NONE)
    OBVIOUS
  <2> QED
    BY <1>1, <2>1, <2>2
<1> QED
  BY <1>2, PinnedBy DEF PinInv

LEMMA PinStep ==
  ASSUME TypeOK, PinInv, ~oops, ~oops', NEW p \in Procs,
         Command(p) \/ KernelStep(p) \/ ReleasePut(p) \/ Device(p) \/ Sockets(p)
  PROVE  FilePinned'
<1> USE DEF tagvars, opvars, At, InTag, Goto, Return, Crash
<1>p. /\ FilePinned
      /\ op[p] # "del_put" => tofree[p] = {}
      /\ \A s \in Socks : link[s] # NONE => stag[s] # NONE
  BY DEF PinInv, FreesOfDelete, ListedTagged
<1>1. ASSUME NEW s \in Socks, NewSocket(p, s) PROVE FilePinned'
  <2>1. s \notin fds[p]
    <3>1. fref[s] = 0 /\ fref[s] = Pins(s)
      BY <1>1, <1>p DEF NewSocket, FilePinned
    <3> QED
      BY <3>1, PinsLeast DEF Bool
  <2>2. \A x \in Socks : fref'[x] = fref[x] + Bool(stag[x] # NONE)' - Bool(stag[x] # NONE)
                                            + Own(p, x)' - Own(p, x)
    BY <1>1, <2>1 DEF NewSocket, Own, Callers, Untaggers, Bool, TypeOK
  <2> QED
    BY <1>1, <1>p, <2>2, PinnedBy DEF NewSocket, TypeOK
<1>2. ASSUME NEW s \in Socks, CloseSocket(p, s) PROVE FilePinned'
  <2>2. \A x \in Socks : fref'[x] = fref[x] + Bool(stag[x] # NONE)' - Bool(stag[x] # NONE)
                                            + Own(p, x)' - Own(p, x)
    BY <1>2 DEF CloseSocket, Own, Callers, Untaggers, Bool, TypeOK
  <2> QED
    BY <1>2, <1>p, <2>2, PinnedBy DEF CloseSocket, TypeOK
<1>3. ASSUME NEW q \in Procs, NEW s \in Socks, PassSocket(p, q, s) PROVE FilePinned'
  <2>2. \A x \in Socks : fref'[x] = fref[x] + Bool(stag[x] # NONE)' - Bool(stag[x] # NONE)
                                            + Own(q, x)' - Own(q, x)
    BY <1>3 DEF PassSocket, Own, Callers, Untaggers, Bool, TypeOK
  <2> QED
    BY <1>3, <1>p, <2>2, PinnedBy DEF PassSocket, TypeOK
<1>4. ASSUME Command(p) PROVE FilePinned'
  <2>1. \/ \E t \in Tags : DeleteCall(p, t)
        \/ \E s \in Socks : TagRefused(p, s) \/ UntagLookup(p, s) \/ \E t \in Tags : TagLookup(p, s, t)
    BY <1>4 DEF Command
  <2>2. CASE \E t \in Tags : DeleteCall(p, t)
    BY <2>2, PinnedKept DEF DeleteCall, TypeOK
  <2>3. ASSUME NEW s \in Socks, TagRefused(p, s) \/ UntagLookup(p, s) \/ \E t \in Tags : TagLookup(p, s, t)
        PROVE  FilePinned'
    <3>1. /\ op[p] = "idle" /\ sk' = [sk EXCEPT ![p] = s]
          /\ \E step \in {"tag", "untag", "put"} : op' = [op EXCEPT ![p] = step]
          /\ fref' = [fref EXCEPT ![s] = @ + 1] /\ UNCHANGED <<stag, fds, tofree, relfree>>
      BY <2>3 DEF TagRefused, UntagLookup, TagLookup
    <3>2. \A x \in Socks : fref'[x] = fref[x] + Bool(stag[x] # NONE)' - Bool(stag[x] # NONE)
                                              + Own(p, x)' - Own(p, x)
      BY <3>1 DEF Own, Callers, Untaggers, Bool, TypeOK
    <3> QED
      BY <1>p, <3>1, <3>2, PinnedBy DEF TypeOK
  <2> QED
    BY <2>1, <2>2, <2>3
<1>5. ASSUME \/ TagRefFails(p) \/ TagAllocFails(p) \/ UnrefLoad(p) \/ UnrefStore(p) \/ UnrefFree(p)
             \/ UntagNothing(p)
      PROVE  FilePinned'
  <2>1. /\ UNCHANGED <<stag, fds, fref, sk, relfree, tofree>>
        /\ op[p] \in {"tag", "unref_load", "unref_store", "unref_free", "untag"}
        /\ \E step \in {"unref_load", "unref_store", "unref_free", "put"} :
              op' = [op EXCEPT ![p] = step]
    BY <1>5 DEF TagRefFails, TagAllocFails, UnrefLoad, UnrefStore, UnrefFree, UntagNothing
  <2>2. /\ \A q \in Procs \ {p} : op'[q] = op[q]
        /\ op'[p] \in {"unref_load", "unref_store", "unref_free", "put"}
    BY <2>1 DEF TypeOK
  <2> QED
    BY <2>1, <2>2, PinnedKept
<1>6. ASSUME Retag(p) \/ TagNew(p) PROVE FilePinned'
  <2>1. /\ op[p] = "tag" /\ op' = [op EXCEPT ![p] = "idle"] /\ sk' = [sk EXCEPT ![p] = NONE]
        /\ tofree' = [tofree EXCEPT ![p] = {}] /\ tofree[p] = {}
        /\ stag' = [stag EXCEPT ![sk[p]] = tg[p]] /\ UNCHANGED <<fds, relfree>>
    BY <1>6, <1>p DEF Retag, TagNew
  <2>2. sk[p] \in Socks /\ tg[p] # NONE /\ NONE \notin Socks
    BY <2>1, QtaguidAssumption DEF TypeOK, Tags
  <2>3. \/ stag[sk[p]] # NONE /\ fref' = [fref EXCEPT ![sk[p]] = @ - 1]
        \/ stag[sk[p]] = NONE /\ fref' = fref
    BY <1>6 DEF Retag, TagNew
  <2>4. \A x \in Socks : fref'[x] = fref[x] + Bool(stag[x] # NONE)' - Bool(stag[x] # NONE)
                                            + Own(p, x)' - Own(p, x)
    BY <2>1, <2>2, <2>3 DEF Own, Callers, Untaggers, Bool, TypeOK
  <2> QED
    BY <1>p, <2>1, <2>4, PinnedBy DEF TypeOK
<1>7. ASSUME ErrPut(p) PROVE FilePinned'
  <2>1. /\ op[p] = "put" /\ op' = [op EXCEPT ![p] = "idle"] /\ sk' = [sk EXCEPT ![p] = NONE]
        /\ tofree' = [tofree EXCEPT ![p] = {}] /\ tofree[p] = {}
        /\ fref' = [fref EXCEPT ![sk[p]] = @ - 1] /\ UNCHANGED <<stag, fds, relfree>>
    BY <1>7, <1>p DEF ErrPut
  <2>2. sk[p] \in Socks /\ NONE \notin Socks
    BY <2>1, QtaguidAssumption DEF TypeOK
  <2>4. \A x \in Socks : fref'[x] = fref[x] + Bool(stag[x] # NONE)' - Bool(stag[x] # NONE)
                                            + Own(p, x)' - Own(p, x)
    BY <2>1, <2>2 DEF Own, Callers, Untaggers, Bool, TypeOK
  <2> QED
    BY <1>p, <2>1, <2>4, PinnedBy DEF TypeOK
<1>8. ASSUME Untag(p) PROVE FilePinned'
  <2>1. /\ op[p] = "untag" /\ op' = [op EXCEPT ![p] = "untag_put"]
        /\ stag[sk[p]] # NONE /\ stag' = [stag EXCEPT ![sk[p]] = NONE]
        /\ UNCHANGED <<fref, fds, sk, tofree, relfree>>
    BY <1>8 DEF Untag
  <2>2. sk[p] \in Socks
    BY <2>1 DEF TypeOK
  <2>4. \A x \in Socks : fref'[x] = fref[x] + Bool(stag[x] # NONE)' - Bool(stag[x] # NONE)
                                            + Own(p, x)' - Own(p, x)
    <3> SUFFICES ASSUME NEW x \in Socks
                 PROVE  fref'[x] = fref[x] + Bool(stag[x] # NONE)' - Bool(stag[x] # NONE)
                                           + Own(p, x)' - Own(p, x)
      OBVIOUS
    <3>1. CASE x = sk[p]
      BY <2>1, <2>2, <3>1 DEF Own, Callers, Untaggers, Bool, TypeOK
    <3>2. CASE x # sk[p]
      BY <2>1, <2>2, <3>2 DEF Own, Callers, Untaggers, Bool, TypeOK
    <3> QED
      BY <3>1, <3>2
  <2> QED
    BY <1>p, <2>1, <2>4, PinnedBy DEF TypeOK
<1>9. ASSUME UntagPut(p) PROVE FilePinned'
  <2>1. /\ op[p] = "untag_put" /\ op' = [op EXCEPT ![p] = "idle"] /\ sk' = [sk EXCEPT ![p] = NONE]
        /\ tofree' = [tofree EXCEPT ![p] = {}] /\ tofree[p] = {}
        /\ fref' = [fref EXCEPT ![sk[p]] = @ - 2] /\ UNCHANGED <<stag, fds, relfree>>
    BY <1>9, <1>p DEF UntagPut
  <2>2. sk[p] \in Socks /\ NONE \notin Socks
    BY <2>1, QtaguidAssumption DEF TypeOK
  <2>4. \A x \in Socks : fref'[x] = fref[x] + Bool(stag[x] # NONE)' - Bool(stag[x] # NONE)
                                            + Own(p, x)' - Own(p, x)
    BY <2>1, <2>2 DEF Own, Callers, Untaggers, Bool, TypeOK
  <2> QED
    BY <1>p, <2>1, <2>4, PinnedBy DEF TypeOK
<1>10. ASSUME DeleteSockTags(p) PROVE FilePinned'
  <2> DEFINE M == {s \in Socks : stag[s] # NONE /\ Covers(tg[p], stag[s])}
  <2>1. /\ op[p] = "del" /\ op' = [op EXCEPT ![p] = "del_put"]
        /\ stag' = [s \in Socks |-> IF s \in M THEN NONE ELSE stag[s]]
        /\ tofree' = [tofree EXCEPT ![p] = M] /\ tofree[p] = {}
        /\ UNCHANGED <<fref, fds, sk, relfree>>
    BY <1>10, <1>p DEF DeleteSockTags
  <2>2. M \in SUBSET Socks /\ \A s \in M : stag[s] # NONE
    OBVIOUS
  <2> HIDE DEF M
  <2>4. \A x \in Socks : fref'[x] = fref[x] + Bool(stag[x] # NONE)' - Bool(stag[x] # NONE)
                                            + Own(p, x)' - Own(p, x)
    BY <2>1, <2>2 DEF Own, Callers, Untaggers, Bool, TypeOK
  <2> QED
    BY <1>p, <2>1, <2>4, PinnedBy DEF TypeOK
<1>11. ASSUME DeletePut(p) PROVE FilePinned'
  <2>1. /\ op[p] = "del_put" /\ op' = [op EXCEPT ![p] = "del_utd"]
        /\ tofree' = [tofree EXCEPT ![p] = {}]
        /\ fref' = [s \in Socks |-> fref[s] - Bool(s \in tofree[p])]
        /\ UNCHANGED <<stag, fds, sk, relfree>>
    BY <1>11 DEF DeletePut
  <2>4. \A x \in Socks : fref'[x] = fref[x] + Bool(stag[x] # NONE)' - Bool(stag[x] # NONE)
                                            + Own(p, x)' - Own(p, x)
    BY <2>1 DEF Own, Callers, Untaggers, Bool, TypeOK
  <2> QED
    BY <1>p, <2>1, <2>4, PinnedBy DEF TypeOK
<1>12. ASSUME DeleteTagRefs(p) \/ DeleteNoUtd(p) PROVE FilePinned'
  <2>1. /\ op[p] = "del_utd" /\ op' = [op EXCEPT ![p] = "idle"] /\ sk' = [sk EXCEPT ![p] = NONE]
        /\ tofree' = [tofree EXCEPT ![p] = {}] /\ tofree[p] = {}
        /\ UNCHANGED <<stag, fref, fds, relfree>>
    BY <1>12, <1>p DEF DeleteTagRefs, DeleteNoUtd
  <2>4. \A x \in Socks : fref'[x] = fref[x] + Bool(stag[x] # NONE)' - Bool(stag[x] # NONE)
                                            + Own(p, x)' - Own(p, x)
    BY <2>1 DEF Own, Callers, Untaggers, Bool, TypeOK
  <2> QED
    BY <1>p, <2>1, <2>4, PinnedBy DEF TypeOK
<1>13. ASSUME QtudevOpen(p) \/ QtudevOpenFails(p) PROVE FilePinned'
  <2>1. UNCHANGED <<stag, fds, fref, op, sk, tofree, relfree>>
    BY <1>13 DEF QtudevOpen, QtudevOpenFails
  <2>2. \A s \in Socks : Pins(s)' = Pins(s)
    BY <2>1 DEF Pins, Holders, Callers, Untaggers, Deleters, Releasers
  <2> QED
    BY <1>p, <2>1, <2>2 DEF FilePinned
<1>14. ASSUME QtudevRelease(p) PROVE FilePinned'
  <2> DEFINE L == {s \in Socks : link[s] = p}
  <2>1. /\ stag' = [s \in Socks |-> IF s \in L THEN NONE ELSE stag[s]]
        /\ relfree[p] = {} /\ relfree' = [relfree EXCEPT ![p] = L]
        /\ UNCHANGED <<fref, fds, op, sk, tofree>>
    BY <1>14 DEF QtudevRelease
  <2>2. L \in SUBSET Socks /\ \A s \in L : stag[s] # NONE
    BY <1>p, QtaguidAssumption
  <2> HIDE DEF L
  <2>4. \A x \in Socks : fref'[x] = fref[x] + Bool(stag[x] # NONE)' - Bool(stag[x] # NONE)
                                            + Own(p, x)' - Own(p, x)
    BY <2>1, <2>2 DEF Own, Callers, Untaggers, Bool, TypeOK
  <2> QED
    BY <1>p, <2>1, <2>4, PinnedBy DEF TypeOK
<1>15. ASSUME ReleasePut(p) PROVE FilePinned'
  <2>1. /\ relfree' = [relfree EXCEPT ![p] = {}]
        /\ fref' = [s \in Socks |-> fref[s] - Bool(s \in relfree[p])]
        /\ UNCHANGED <<stag, fds, op, sk, tofree>>
    BY <1>15 DEF ReleasePut
  <2>4. \A x \in Socks : fref'[x] = fref[x] + Bool(stag[x] # NONE)' - Bool(stag[x] # NONE)
                                            + Own(p, x)' - Own(p, x)
    BY <2>1 DEF Own, Callers, Untaggers, Bool, TypeOK
  <2> QED
    BY <1>p, <2>1, <2>4, PinnedBy DEF TypeOK
<1>16. ASSUME TagUtdAllocFails(p) PROVE FilePinned'
  BY <1>16 DEF TagUtdAllocFails
<1> QED
  BY <1>1, <1>2, <1>3, <1>4, <1>5, <1>6, <1>7, <1>8, <1>9, <1>10, <1>11, <1>12, <1>13, <1>14, <1>15,
     <1>16 DEF KernelStep, Device, Sockets

LEMMA PinInvStep == TypeOK /\ PinInv /\ [Next]_vars => PinInv'
<1> SUFFICES ASSUME TypeOK, PinInv, [Next]_vars PROVE PinInv'
  OBVIOUS
<1>1. FreesOfDelete' /\ ListedTagged'
  BY FreesStep, ListedStep DEF PinInv
<1>2. FilePinned'
  <2>1. CASE UNCHANGED vars \/ Halted
    BY <2>1 DEF Halted, vars, tagvars, opvars, PinInv, FilePinned, Pins, Holders, Callers, Untaggers,
                Deleters, Releasers
  <2>2. CASE oops'
    BY <2>2 DEF FilePinned
  <2>3. ASSUME NEW p \in Procs, ~oops, ~oops',
               Command(p) \/ KernelStep(p) \/ ReleasePut(p) \/ Device(p) \/ Sockets(p)
        PROVE  FilePinned'
    BY <2>3, PinStep
  <2>4. CASE oops
    BY <2>1, <2>4, ExcuseGrows
  <2> QED
    BY <2>1, <2>2, <2>3, <2>4 DEF Next
<1> QED
  BY <1>1, <1>2 DEF PinInv

LEMMA PinInvAlways == Spec => []PinInv
<1>1. Init => PinInv
  <2> SUFFICES ASSUME Init PROVE PinInv
    OBVIOUS
  <2>1. FreesOfDelete /\ ListedTagged
    BY DEF Init, FreesOfDelete, ListedTagged
  <2>2. ASSUME NEW s \in Socks PROVE fref[s] = Pins(s)
    <3>1. /\ Holders(s) = {} /\ Callers(s) = {} /\ Untaggers(s) = {} /\ Deleters(s) = {}
          /\ Releasers(s) = {}
      BY DEF Init, Holders, Callers, Untaggers, Deleters, Releasers
    <3>2. Bool(stag[s] # NONE) = 0 /\ fref[s] = 0
      BY DEF Init, Bool
    <3> QED
      BY <3>1, <3>2, FS_EmptySet DEF Pins
  <2> QED
    BY <2>1, <2>2 DEF PinInv, FilePinned
<1> QED
  BY <1>1, PinInvStep, TypeCorrect, PTL DEF Spec

(* "We keep the ref to the socket (file) until it is untagged": f_count is *)
(* the number of descriptors, sock_tags and calls that refer to the file,  *)
(* whatever closes, retags, untags, deletes, dies or fails.                *)
THEOREM FilesCorrect == Spec => []FilePinned
<1>1. PinInv => FilePinned
  BY DEF PinInv
<1> QED
  BY <1>1, PinInvAlways, PTL

-----------------------------------------------------------------------------
(* Qtaguid implements SockTags.                                            *)
Live == {s \in Socks : fref[s] > 0}

(* A command that is about to give or delete a tag may use its uid.        *)
Authorised == \A p \in Procs : op[p] \in {"tag", "del"} => MayUse(p, UidOf(tg[p]))

LEMMA AuthorisedStep == TypeOK /\ Authorised /\ [Next]_vars => Authorised'
<1> SUFFICES ASSUME TypeOK, Authorised, [Next]_vars PROVE Authorised'
  OBVIOUS
<1> USE DEF tagvars, opvars, At, InTag, Goto, Return, TypeOK, Authorised, MayUse
<1>1. CASE UNCHANGED vars \/ Halted
  BY <1>1 DEF Halted, vars
<1>2. ASSUME NEW p \in Procs, Command(p) \/ Sockets(p) \/ ReleasePut(p) \/ Device(p)
      PROVE  Authorised'
  <2>1. CASE Command(p)
    BY <2>1 DEF Command, TagRefused, UntagLookup, TagLookup, DeleteCall
  <2>2. CASE Sockets(p)
    BY <2>2 DEF Sockets, NewSocket, CloseSocket, PassSocket
  <2>3. CASE ReleasePut(p)
    BY <2>3 DEF ReleasePut
  <2>4. CASE Device(p)
    BY <2>4 DEF Device, QtudevOpen, QtudevOpenFails, QtudevRelease
  <2> QED
    BY <1>2, <2>1, <2>2, <2>3, <2>4, Zenon
<1>3. ASSUME NEW p \in Procs,
             \/ TagUtdAllocFails(p) \/ TagRefFails(p) \/ Retag(p) \/ TagNew(p) \/ TagAllocFails(p)
             \/ UnrefLoad(p) \/ UnrefStore(p) \/ UnrefFree(p) \/ ErrPut(p)
      PROVE  Authorised'
  BY <1>3 DEF TagUtdAllocFails, TagRefFails, Retag, TagNew, TagAllocFails, UnrefLoad, UnrefStore,
              UnrefFree, ErrPut
<1>4. ASSUME NEW p \in Procs,
             \/ UntagNothing(p) \/ Untag(p) \/ UntagPut(p)
             \/ DeleteSockTags(p) \/ DeletePut(p) \/ DeleteTagRefs(p) \/ DeleteNoUtd(p)
      PROVE  Authorised'
  BY <1>4 DEF UntagNothing, Untag, UntagPut, DeleteSockTags, DeletePut, DeleteTagRefs, DeleteNoUtd
<1> QED
  BY <1>1, <1>2, <1>3, <1>4 DEF Next, KernelStep

-----------------------------------------------------------------------------
(* Steps that leave the map from sockets to tags alone                     *)

LEMMA MapStutters ==
  ASSUME UNCHANGED <<stag, link, fref>> PROVE UNCHANGED Map!mapvars
BY DEF Map!mapvars

(* A tagged socket has its file.                                           *)
TaggedLive == ~oops => \A s \in Socks : stag[s] # NONE => fref[s] > 0

LEMMA TaggedLiveFromPins == FilePinned => TaggedLive
<1> SUFFICES ASSUME FilePinned, ~oops, NEW s \in Socks, stag[s] # NONE PROVE fref[s] > 0
  BY DEF TaggedLive
<1>1. fref[s] = Pins(s)
  BY DEF FilePinned
<1>2. Bool(stag[s] # NONE) = 1
  BY DEF Bool
<1>3. ASSUME NEW p \in Procs PROVE fref[s] > 0
  BY <1>1, <1>2, PinsLeast
<1>4. CASE Procs = {}
  <2>1. /\ Holders(s) = {} /\ Callers(s) = {} /\ Untaggers(s) = {} /\ Deleters(s) = {}
        /\ Releasers(s) = {}
    BY <1>4 DEF Holders, Callers, Untaggers, Deleters, Releasers
  <2> QED
    BY <1>1, <1>2, <2>1, FS_EmptySet DEF Pins
<1> QED
  BY <1>3, <1>4

(* References only go: a socket whose last reference goes carries no tag.  *)
LEMMA SocketsGo ==
  ASSUME TypeOK, TaggedLive', ~oops', UNCHANGED <<stag, link>>,
         \A s \in Socks : fref'[s] <= fref[s] /\ fref'[s] \in Int
  PROVE  [Map!MapNext]_(Map!mapvars)
<1>0. PICK S \in SUBSET Socks : S = {s \in Socks : fref[s] > 0 /\ ~(fref'[s] > 0)}
  OBVIOUS
<1>1. S \subseteq Live /\ \A s \in S : stag[s] = NONE
  BY <1>0 DEF TaggedLive, Live
<1>2. Live' = Live \ S
  BY <1>0 DEF Live, TypeOK
<1>3. Map!SocksGone(S)
  BY <1>1, <1>2 DEF Map!SocksGone, Live
<1> QED
  BY <1>3 DEF Map!MapNext

-----------------------------------------------------------------------------
LEMMA MapStep ==
  ASSUME TypeOK, PinInv, Authorised, TaggedLive', NEW p \in Procs, ~oops,
         Command(p) \/ KernelStep(p) \/ ReleasePut(p) \/ Device(p) \/ Sockets(p)
  PROVE  [Map!MapNext]_(Map!mapvars)
<1> USE DEF tagvars, opvars, At, InTag, Goto, Return, Crash
<1>p. ASSUME NEW s \in Socks, NEW q \in Procs, s \in fds[q] \/ q \in Callers(s)
      PROVE  fref[s] \in Int /\ fref[s] >= 1 /\ (stag[s] # NONE => fref[s] >= 2)
  <2>1. fref[s] = Pins(s) /\ Pins(s) \in Nat /\ Pins(s) >= Bool(stag[s] # NONE) + 1
    BY <1>p, PinsLeast DEF PinInv, FilePinned
  <2> QED
    BY <2>1 DEF Bool
<1>1. ASSUME NEW s \in Socks, NewSocket(p, s) PROVE Map!NewSock(s)
  <2>1. fref[s] = 0 /\ fref' = [fref EXCEPT ![s] = 1] /\ UNCHANGED <<stag, link>>
    BY <1>1 DEF NewSocket
  <2> QED
    BY <2>1 DEF Map!NewSock, TypeOK
<1>2. ASSUME NEW s \in Socks,
             \/ \E q \in Procs : PassSocket(p, q, s)
             \/ TagRefused(p, s) \/ UntagLookup(p, s)
             \/ \E t \in Tags : TagLookup(p, s, t)
      PROVE  UNCHANGED Map!mapvars
  <2>1. s \in fds[p] /\ fref' = [fref EXCEPT ![s] = @ + 1] /\ UNCHANGED <<stag, link>>
    BY <1>2 DEF PassSocket, TagRefused, UntagLookup, TagLookup
  <2>2. fref[s] > 0
    BY <2>1, <1>p
  <2>3. Live' = Live
    BY <2>1, <2>2 DEF Live, TypeOK
  <2> QED
    BY <2>1, <2>3 DEF Map!mapvars, Live
<1>3. ASSUME \/ \E s \in Socks : CloseSocket(p, s)
             \/ ErrPut(p) \/ UntagPut(p) \/ DeletePut(p) \/ ReleasePut(p)
      PROVE  [Map!MapNext]_(Map!mapvars)
  <2>1. ~oops' /\ UNCHANGED <<stag, link>>
    BY <1>3 DEF CloseSocket, ErrPut, UntagPut, DeletePut, ReleasePut
  <2>2. \A s \in Socks : fref'[s] <= fref[s] /\ fref'[s] \in Int
    BY <1>3 DEF CloseSocket, ErrPut, UntagPut, DeletePut, ReleasePut, Bool, TypeOK
  <2> QED
    BY <2>1, <2>2, SocketsGo
<1>4. ASSUME \/ TagUtdAllocFails(p) \/ TagRefFails(p) \/ TagAllocFails(p)
             \/ UnrefLoad(p) \/ UnrefStore(p) \/ UnrefFree(p) \/ UntagNothing(p)
             \/ DeleteTagRefs(p) \/ DeleteNoUtd(p) \/ QtudevOpen(p) \/ QtudevOpenFails(p)
             \/ \E t \in Tags : DeleteCall(p, t)
      PROVE  UNCHANGED Map!mapvars
  <2>1. UNCHANGED <<stag, link, fref>>
    BY <1>4 DEF TagUtdAllocFails, TagRefFails, TagAllocFails, UnrefLoad, UnrefStore, UnrefFree,
                UntagNothing, DeleteTagRefs, DeleteNoUtd, QtudevOpen, QtudevOpenFails, DeleteCall
  <2> QED
    BY <2>1, MapStutters
<1>5. ASSUME Retag(p) \/ TagNew(p) PROVE Map!SetTag(p, sk[p], tg[p]) /\ sk[p] \in Socks /\ tg[p] \in Tags
  <2>1. /\ op[p] = "tag" /\ sk[p] \in Socks /\ tg[p] \in Tags /\ p \in Callers(sk[p])
        /\ stag' = [stag EXCEPT ![sk[p]] = tg[p]] /\ MayUse(p, UidOf(tg[p]))
    BY <1>5 DEF Retag, TagNew, TypeOK, Callers, Authorised
  <2>2. \/ /\ stag[sk[p]] # NONE /\ UNCHANGED link /\ fref' = [fref EXCEPT ![sk[p]] = @ - 1]
        \/ /\ stag[sk[p]] = NONE /\ link' \in {link, [link EXCEPT ![sk[p]] = p]} /\ UNCHANGED fref
    BY <1>5 DEF Retag, TagNew
  <2>3. fref[sk[p]] > 0 /\ (stag[sk[p]] # NONE => fref[sk[p]] - 1 > 0) /\ fref[sk[p]] \in Int
    BY <1>p, <2>1
  <2>4. Live' = Live /\ sk[p] \in Live
    BY <2>1, <2>2, <2>3 DEF Live, TypeOK
  <2> QED
    BY <2>1, <2>2, <2>4 DEF Map!SetTag, Map!May, Map!Owner, MayUse, UidOf, Live
<1>6. ASSUME Untag(p) PROVE Map!TakeTag(sk[p]) /\ sk[p] \in Socks
  <2>1. /\ op[p] = "untag" /\ sk[p] \in Socks /\ p \in Callers(sk[p]) /\ stag[sk[p]] # NONE
        /\ stag' = [stag EXCEPT ![sk[p]] = NONE] /\ link' = [link EXCEPT ![sk[p]] = NONE]
        /\ UNCHANGED fref
    BY <1>6 DEF Untag, TypeOK, Callers
  <2>2. sk[p] \in Live /\ Live' = Live
    BY <1>p, <2>1 DEF Live
  <2> QED
    BY <2>1, <2>2 DEF Map!TakeTag, Map!Clear, Live, TypeOK
<1>7. ASSUME DeleteSockTags(p) PROVE Map!DropTags(p, tg[p]) /\ tg[p] \in Tags
  <2>1. op[p] = "del" /\ tg[p] \in Tags /\ MayUse(p, UidOf(tg[p])) /\ UNCHANGED fref
    BY <1>7 DEF DeleteSockTags, TypeOK, Authorised
  <2>2. {s \in Socks : stag[s] # NONE /\ Covers(tg[p], stag[s])}
          = {s \in Socks : Map!Concerns(tg[p], stag[s])}
    BY DEF Covers, Map!Concerns, Map!Owner, Map!Acct, UidOf, ATag
  <2>3. Map!Clear({s \in Socks : Map!Concerns(tg[p], stag[s])})
    BY <1>7, <2>2 DEF DeleteSockTags, Map!Clear
  <2> QED
    BY <2>1, <2>3 DEF Map!DropTags, Map!May, Map!Owner, MayUse, UidOf
<1>8. ASSUME QtudevRelease(p) PROVE Map!GiverDies(p)
  BY <1>8 DEF QtudevRelease, Map!GiverDies, Map!Clear
<1> QED
  BY <1>1, <1>2, <1>3, <1>4, <1>5, <1>6, <1>7, <1>8
     DEF Command, KernelStep, Device, Sockets, Map!MapNext, Map!FullTags, Tags

(* The trees, lists and counts, with every command cut where it drops a    *)
(* lock, amount to a map from sockets to tags: a tag is given with         *)
(* authority, goes only by an untag, a delete that concerns it or the      *)
(* death of its giver, and no tagged socket disappears.                    *)
THEOREM ImplementsMap == Spec => ImplementsSockTags
<1>1. Init => Map!MapInit /\ Authorised
  BY DEF Init, Map!MapInit, Authorised
<1>2. TypeOK /\ PinInv /\ Authorised /\ TaggedLive' /\ [Next]_vars => [Map!MapNext]_(Map!mapvars)
  <2> SUFFICES ASSUME TypeOK, PinInv, Authorised, TaggedLive', [Next]_vars
               PROVE  [Map!MapNext]_(Map!mapvars)
    OBVIOUS
  <2>1. CASE UNCHANGED vars \/ Halted \/ oops
    <3>1. UNCHANGED vars
      BY <2>1, ExcuseGrows DEF Halted
    <3> QED
      BY <3>1, MapStutters DEF vars, tagvars
  <2>2. CASE ~oops /\ \E p \in Procs :
               Command(p) \/ KernelStep(p) \/ ReleasePut(p) \/ Device(p) \/ Sockets(p)
    BY <2>2, MapStep
  <2> QED
    BY <2>1, <2>2 DEF Next
<1>3. PinInv => TaggedLive
  BY TaggedLiveFromPins DEF PinInv
<1> QED
  BY <1>1, <1>2, <1>3, AuthorisedStep, TypeCorrect, PinInvAlways, PTL
     DEF Spec, ImplementsSockTags, Map!MapSpec
=============================================================================
