--------------------------- MODULE QtaguidSafety ---------------------------
(* The lists, the reference counts and the absence of a crash, proved of   *)
(* Qtaguid for any processes, uids, tags, sockets and max_sock_tags.       *)
EXTENDS Qtaguid, FiniteSetTheorems, TLAPS

-----------------------------------------------------------------------------
(* The types                                                               *)

(* A subset of a finite set selected by a condition can be counted.        *)
LEMMA CountType ==
  /\ \A M, x : IsFiniteSet(M) => CountIn(M, x) \in Nat
  /\ \A R, u : IsFiniteSet(R) => IsFiniteSet(TagsOf(R, u)) /\ Cardinality(TagsOf(R, u)) \in Nat
  /\ IsFiniteSet(Tags)
<1>1. ASSUME NEW M, NEW x, IsFiniteSet(M) PROVE CountIn(M, x) \in Nat
  <2>1. IsFiniteSet({s \in M : stag[s] = x})
    BY <1>1, FS_Subset
  <2> QED
    BY <2>1, FS_CardinalityType DEF CountIn
<1>2. ASSUME NEW R, NEW u, IsFiniteSet(R)
      PROVE IsFiniteSet(TagsOf(R, u)) /\ Cardinality(TagsOf(R, u)) \in Nat
  <2>1. IsFiniteSet(TagsOf(R, u))
    BY <1>2, FS_Subset DEF TagsOf
  <2> QED
    BY <2>1, FS_CardinalityType
<1>3. IsFiniteSet(Tags)
  BY QtaguidAssumption, FS_Product DEF Tags
<1> QED
  BY <1>1, <1>2, <1>3

LEMMA DangleType ==
  ASSUME dangling \subseteq Procs, NEW p, NEW freed, Dangle(p, freed) PROVE dangling' \subseteq Procs
BY DEF Dangle

LEMMA TypeStep == TypeOK /\ [Next]_vars => TypeOK'
<1> SUFFICES ASSUME TypeOK, [Next]_vars PROVE TypeOK'
  OBVIOUS
<1> USE QtaguidAssumption DEF TypeOK, Steps, Excuses, Goto, At, Return, Excuse, Crash, Tags, UidOf,
        vars, tagvars, opvars
<1>1. CASE UNCHANGED vars
  BY <1>1
<1>2. CASE Halted
  BY <1>2 DEF Halted
<1>3. ASSUME NEW p \in Procs, NEW s \in Socks, NewSocket(p, s) PROVE TypeOK'
  BY <1>3 DEF NewSocket
<1>4. ASSUME NEW p \in Procs, NEW s \in Socks, CloseSocket(p, s) PROVE TypeOK'
  BY <1>4 DEF CloseSocket
<1>5. ASSUME NEW p \in Procs, NEW s \in Socks, UntagLookup(p, s) PROVE TypeOK'
  BY <1>5 DEF UntagLookup
<1>6. ASSUME NEW p \in Procs, NEW q \in Procs, NEW s \in Socks, PassSocket(p, q, s) PROVE TypeOK'
  BY <1>6 DEF PassSocket
<1>7. ASSUME NEW p \in Procs, NEW s \in Socks, NEW t \in Tags, TagLookup(p, s, t) PROVE TypeOK'
  BY <1>7 DEF TagLookup
<1>29. ASSUME NEW p \in Procs, NEW s \in Socks, TagRefused(p, s) PROVE TypeOK'
  BY <1>29 DEF TagRefused
<1>8. ASSUME NEW p \in Procs, NEW t \in Tags, DeleteCall(p, t) PROVE TypeOK'
  BY <1>8 DEF DeleteCall
<1>9. ASSUME NEW p \in Procs, TagUtdAllocFails(p) PROVE TypeOK'
  BY <1>9 DEF TagUtdAllocFails, InTag
<1>10. ASSUME NEW p \in Procs, TagRefFails(p) PROVE TypeOK'
  BY <1>10 DEF TagRefFails, InTag
<1>11. ASSUME NEW p \in Procs, Retag(p) PROVE TypeOK'
  BY <1>11 DEF Retag, GetTagRef, Bool, InTag
<1>12. ASSUME NEW p \in Procs, TagNew(p) PROVE TypeOK'
  <2>1. link' \in [Socks -> Procs \cup {NONE}] /\ excuse' \subseteq Excuses
    <3>1. CASE p \in pqd
      BY <1>12, <3>1 DEF TagNew, InTag
    <3>2. CASE p \notin pqd
      BY <1>12, <3>2 DEF TagNew, InTag
    <3> QED
      BY <3>1, <3>2
  <2>2. num' \in [Tags -> Int] /\ active' \in [Uids -> Int] /\ refs' \subseteq Tags /\ utd' \subseteq Uids
    BY <1>12 DEF TagNew, GetTagRef, Bool, InTag
  <2>3. stag' \in [Socks -> Tags \cup {NONE}]
    BY <1>12 DEF TagNew, InTag
  <2> QED
    BY <1>12, <2>1, <2>2, <2>3 DEF TagNew, InTag
<1>13. ASSUME NEW p \in Procs, TagAllocFails(p) PROVE TypeOK'
  BY <1>13 DEF TagAllocFails, GetTagRef, Bool, InTag
<1>14. ASSUME NEW p \in Procs, UnrefLoad(p) PROVE TypeOK'
  BY <1>14 DEF UnrefLoad
<1>15. ASSUME NEW p \in Procs, UnrefStore(p) PROVE TypeOK'
  BY <1>15 DEF UnrefStore
<1>16. ASSUME NEW p \in Procs, UnrefFree(p) PROVE TypeOK'
  <2>1. CASE tg[p] \notin refs \/ p \in dangling
    <3>1. oops' = TRUE /\ excuse' = excuse \cup {"unlocked"} /\ UNCHANGED <<refs, active, dangling>>
      BY <1>16, <2>1 DEF UnrefFree
    <3> QED
      BY <1>16, <3>1 DEF UnrefFree
  <2>2. CASE tg[p] \in refs /\ p \notin dangling
    <3>1. /\ refs' \subseteq Tags /\ active' \in [Uids -> Int] /\ dangling' \subseteq Procs
          /\ UNCHANGED <<oops, excuse>>
      BY <1>16, <2>2 DEF UnrefFree, Bool, Dangle
    <3> QED
      BY <1>16, <3>1 DEF UnrefFree
  <2> QED
    BY <2>1, <2>2
<1>17. ASSUME NEW p \in Procs, ErrPut(p) PROVE TypeOK'
  BY <1>17 DEF ErrPut
<1>18. ASSUME NEW p \in Procs, UntagNothing(p) PROVE TypeOK'
  BY <1>18 DEF UntagNothing
<1>19. ASSUME NEW p \in Procs, Untag(p) PROVE TypeOK'
  BY <1>19 DEF Untag
<1>20. ASSUME NEW p \in Procs, UntagPut(p) PROVE TypeOK'
  BY <1>20 DEF UntagPut
<1>21. ASSUME NEW p \in Procs, DeleteSockTags(p) PROVE TypeOK'
  <2>1. oops' \in BOOLEAN
    BY <1>21, Zenon DEF DeleteSockTags
  <2>2. \A x : CountIn({s \in Socks : stag[s] # NONE /\ Covers(tg[p], stag[s])}, x) \in Nat
    BY CountType, FS_Subset
  <2>3. num' \in [Tags -> Int]
    BY <1>21, <2>2 DEF DeleteSockTags
  <2> QED
    BY <1>21, <2>1, <2>3 DEF DeleteSockTags
<1>22. ASSUME NEW p \in Procs, DeletePut(p) PROVE TypeOK'
  BY <1>22 DEF DeletePut, Bool
<1>23. ASSUME NEW p \in Procs, DeleteTagRefs(p) PROVE TypeOK'
  <2> DEFINE freed == {x \in refs : Covers(tg[p], x) /\ num[x] = 0}
  <2>1. oops' \in BOOLEAN
    BY <1>23, Zenon DEF DeleteTagRefs
  <2>2. Cardinality(freed) \in Nat
    BY CountType, FS_Subset, FS_CardinalityType
  <2>3. active' \in [Uids -> Int]
    BY <1>23, <2>2 DEF DeleteTagRefs
  <2>4. Dangle(p, freed)
    BY <1>23, Zenon DEF DeleteTagRefs
  <2>5. dangling' \subseteq Procs
    BY <2>4, DangleType
  <2> QED
    BY <1>23, <2>1, <2>3, <2>5 DEF DeleteTagRefs
<1>24. ASSUME NEW p \in Procs, DeleteNoUtd(p) PROVE TypeOK'
  BY <1>24 DEF DeleteNoUtd
<1>25. ASSUME NEW p \in Procs, ReleasePut(p) PROVE TypeOK'
  BY <1>25 DEF ReleasePut, Bool
<1>26. ASSUME NEW p \in Procs, QtudevOpen(p) PROVE TypeOK'
  BY <1>26 DEF QtudevOpen
<1>27. ASSUME NEW p \in Procs, QtudevOpenFails(p) PROVE TypeOK'
  BY <1>27 DEF QtudevOpenFails
<1>28. ASSUME NEW p \in Procs, QtudevRelease(p) PROVE TypeOK'
  <2> DEFINE L     == {s \in Socks : link[s] = p}
             after == [x \in Tags |-> num[x] - CountIn(L, x)]
             freed == {x \in refs : after[x] = 0 /\ \E s \in L : stag[s] = x}
  <2>1. oops' \in BOOLEAN
    BY <1>28, Zenon DEF QtudevRelease
  <2>2. after \in [Tags -> Int]
    BY CountType, FS_Subset
  <2>3. \A u : Cardinality(TagsOf(freed, u)) \in Nat
    <3>1. IsFiniteSet(freed)
      BY CountType, FS_Subset
    <3> HIDE DEF freed
    <3> QED
      BY <3>1, CountType
  <2>4. active' \in [Uids -> Int]
    <3>1. active' = [u \in Uids |-> active[u] - Cardinality(TagsOf(freed, u))]
      BY <1>28 DEF QtudevRelease
    <3> HIDE DEF freed
    <3>2. ASSUME NEW u \in Uids PROVE active[u] - Cardinality(TagsOf(freed, u)) \in Int
      BY <2>3
    <3> QED
      BY <3>1, <3>2, Zenon
  <2>5. stag' \in [Socks -> Tags \cup {NONE}] /\ link' \in [Socks -> Procs \cup {NONE}]
    BY <1>28 DEF QtudevRelease
  <2>6. /\ num' \in [Tags -> Int] /\ refs' \subseteq Tags /\ utd' \subseteq Uids
        /\ npqd' \in [Uids -> Int] /\ pqd' \subseteq Procs
    <3>1. num' = after
      BY <1>28 DEF QtudevRelease
    <3>2. refs' = refs \ freed
      BY <1>28 DEF QtudevRelease
    <3>3. npqd' = [npqd EXCEPT ![Uid[p]] = @ - 1] /\ pqd' = pqd \ {p}
      BY <1>28 DEF QtudevRelease
    <3>4. \E S : utd' = utd \ S
      BY <1>28, Zenon DEF QtudevRelease
    <3>5. utd' \subseteq Uids
      BY <3>4
    <3> HIDE DEF after, freed
    <3> QED
      BY <2>2, <3>1, <3>2, <3>3, <3>5
  <2>7. /\ relfree' \in [Procs -> SUBSET Socks]
        /\ UNCHANGED <<stale, fds, fref, opvars, leaked, excuse>>
    BY <1>28 DEF QtudevRelease
  <2>8. /\ op' \in [Procs -> Steps] /\ sk' \in [Procs -> Socks \cup {NONE}]
        /\ tg' \in [Procs -> Tags \cup {NONE}] /\ reg' \in [Procs -> Int]
        /\ tofree' \in [Procs -> SUBSET Socks]
    BY <2>7
  <2>9. dangling' \subseteq Procs
    <3>1. Dangle(NONE, freed)
      BY <1>28, Zenon DEF QtudevRelease
    <3> QED
      BY <3>1, DangleType
  <2> HIDE DEF L, after, freed
  <2> QED
    BY <2>1, <2>4, <2>5, <2>6, <2>7, <2>8, <2>9
<1> QED
  BY <1>1, <1>2, <1>3, <1>4, <1>5, <1>6, <1>7, <1>8, <1>9, <1>10, <1>11, <1>12, <1>13, <1>14, <1>15, <1>16, <1>17, <1>18, <1>19, <1>20, <1>21, <1>22, <1>23, <1>24, <1>25, <1>26, <1>27, <1>28, <1>29 DEF Next, Command, KernelStep, Device, Sockets

(* Every variable keeps its type, and a command under way its socket or    *)
(* tag, whatever the constants.                                            *)
THEOREM TypeCorrect == Spec => []TypeOK
<1>1. ASSUME Init PROVE TypeOK
  <2> USE <1>1, QtaguidAssumption DEF Init
  <2>1. /\ stag \in [Socks -> Tags \cup {NONE}] /\ link \in [Socks -> Procs \cup {NONE}]
        /\ refs \subseteq Tags /\ num \in [Tags -> Int] /\ utd \subseteq Uids
        /\ active \in [Uids -> Int] /\ npqd \in [Uids -> Int] /\ pqd \subseteq Procs
    OBVIOUS
  <2>2. /\ fds \in [Procs -> SUBSET Socks] /\ fref \in [Socks -> Int]
        /\ tofree \in [Procs -> SUBSET Socks] /\ relfree \in [Procs -> SUBSET Socks]
    OBVIOUS
  <2>3. /\ op \in [Procs -> Steps] /\ sk \in [Procs -> Socks \cup {NONE}]
        /\ tg \in [Procs -> Tags \cup {NONE}] /\ reg \in [Procs -> Int]
        /\ \A p \in Procs : op[p] = "idle"
    BY DEF Steps
  <2> QED
    BY <2>1, <2>2, <2>3 DEF TypeOK, Excuses
<1> QED
  BY <1>1, TypeStep, PTL DEF Spec
-----------------------------------------------------------------------------
(* The lists of sock_tags                                                  *)

LEMMA ListsStep == TypeOK /\ ListsTrackTags /\ [Next]_vars => ListsTrackTags'
<1> SUFFICES ASSUME TypeOK, ListsTrackTags, [Next]_vars PROVE ListsTrackTags'
  OBVIOUS
<1> USE QtaguidAssumption DEF vars, tagvars, opvars, At, Excuse
<1>1. ASSUME UNCHANGED <<stag, link, pqd, stale>>, excuse \subseteq excuse', ~oops
      PROVE  ListsTrackTags'
  BY <1>1 DEF ListsTrackTags
<1>2. CASE UNCHANGED vars \/ Halted
  BY <1>2 DEF Halted, ListsTrackTags
<1>3. ASSUME NEW p \in Procs, Command(p) \/ Sockets(p) \/ ReleasePut(p) PROVE ListsTrackTags'
  BY <1>1, <1>3 DEF Command, TagRefused, UntagLookup, TagLookup, DeleteCall, Sockets, NewSocket, CloseSocket,
                    PassSocket, ReleasePut
<1>4. ASSUME NEW p \in Procs,
             \/ TagUtdAllocFails(p) \/ TagRefFails(p) \/ TagAllocFails(p) \/ UnrefLoad(p)
             \/ UnrefStore(p) \/ UnrefFree(p) \/ ErrPut(p) \/ QtudevOpenFails(p)
      PROVE  ListsTrackTags'
  <2>1. UNCHANGED <<stag, link, pqd, stale>> /\ excuse \subseteq excuse' /\ ~oops
    BY <1>4 DEF TagUtdAllocFails, TagRefFails, TagAllocFails, InTag, GetTagRef,
                UnrefLoad, UnrefStore, UnrefFree, ErrPut, QtudevOpenFails
  <2> QED
    BY <1>1, <2>1
<1>5. ASSUME NEW p \in Procs,
             \/ UntagNothing(p) \/ UntagPut(p) \/ DeletePut(p) \/ DeleteTagRefs(p) \/ DeleteNoUtd(p)
      PROVE  ListsTrackTags'
  BY <1>1, <1>5 DEF UntagNothing, UntagPut, DeletePut, DeleteTagRefs, DeleteNoUtd
<1>6. ASSUME NEW p \in Procs, Retag(p) PROVE ListsTrackTags'
  <2>1. stag' = [stag EXCEPT ![sk[p]] = tg[p]] /\ tg[p] # NONE /\ stag[sk[p]] # NONE /\ ~oops
    BY <1>6 DEF Retag, InTag, TypeOK, Tags
  <2> QED
    BY <1>6, <2>1 DEF Retag, ListsTrackTags, TypeOK
<1>7. ASSUME NEW p \in Procs, TagNew(p) PROVE ListsTrackTags'
  <2>1. stag' = [stag EXCEPT ![sk[p]] = tg[p]] /\ tg[p] # NONE /\ ~oops
    BY <1>7 DEF TagNew, InTag, TypeOK, Tags
  <2>2. CASE p \in pqd
    <3>1. link' = [link EXCEPT ![sk[p]] = p] /\ UNCHANGED <<excuse, pqd, stale>>
      BY <1>7, <2>2 DEF TagNew
    <3> QED
      BY <2>1, <2>2, <3>1 DEF ListsTrackTags, TypeOK
  <2>3. CASE p \notin pqd
    BY <1>7, <2>3 DEF TagNew, ListsTrackTags
  <2> QED
    BY <2>2, <2>3
<1>8. ASSUME NEW p \in Procs, Untag(p) PROVE ListsTrackTags'
  BY <1>8 DEF Untag, ListsTrackTags, TypeOK
<1>9. ASSUME NEW p \in Procs, DeleteSockTags(p) PROVE ListsTrackTags'
  BY <1>9 DEF DeleteSockTags, ListsTrackTags, TypeOK
<1>10. ASSUME NEW p \in Procs, QtudevOpen(p) PROVE ListsTrackTags'
  BY <1>10 DEF QtudevOpen, ListsTrackTags
<1>11. ASSUME NEW p \in Procs, QtudevRelease(p) PROVE ListsTrackTags'
  <2>1. /\ stag' = [s \in Socks |-> IF link[s] = p THEN NONE ELSE stag[s]]
        /\ link' = [s \in Socks |-> IF link[s] = p THEN NONE ELSE link[s]]
        /\ pqd' = pqd \ {p} /\ ~oops /\ UNCHANGED <<stale, excuse>>
    BY <1>11 DEF QtudevRelease
  <2> QED
    BY <2>1 DEF ListsTrackTags, TypeOK
<1> QED
  BY <1>2, <1>3, <1>4, <1>5, <1>6, <1>7, <1>8, <1>9, <1>10, <1>11 DEF Next, KernelStep, Device

(* "Tracks the sock_tags that need freeing upon this proc's death": if     *)
(* user space opens the device first, each sock_tag is on the list of one  *)
(* live proc_qtu_data, whatever is retagged, untagged, deleted or closed.  *)
THEOREM ListsCorrect == Spec => []ListsTrackTags
<1>1. Init => ListsTrackTags
  BY DEF Init, ListsTrackTags
<1> QED
  BY <1>1, ListsStep, TypeCorrect, PTL DEF Spec

-----------------------------------------------------------------------------
(* The reference counts: how the sets that are counted change              *)

LEMMA TaggedFinite ==
  \A t : IsFiniteSet(Tagged(t)) /\ Cardinality(Tagged(t)) \in Nat
<1>1. ASSUME NEW t PROVE IsFiniteSet(Tagged(t))
  BY QtaguidAssumption, FS_Subset DEF Tagged
<1> QED
  BY <1>1, FS_CardinalityType

LEMMA UnrefingFinite ==
  \A t : IsFiniteSet(Unrefing(t)) /\ Cardinality(Unrefing(t)) \in Nat
<1>1. ASSUME NEW t PROVE IsFiniteSet(Unrefing(t))
  BY QtaguidAssumption, FS_Subset DEF Unrefing
<1> QED
  BY <1>1, FS_CardinalityType

(* One sock_tag gets a tag, changes it or loses it.                        *)
LEMMA TagMoves ==
  ASSUME TypeOK, NEW s \in Socks, NEW v, stag' = [stag EXCEPT ![s] = v], NEW t
  PROVE  Cardinality(Tagged(t)') = Cardinality(Tagged(t)) + Bool(v = t) - Bool(stag[s] = t)
<1>0. IsFiniteSet(Tagged(t)) /\ Cardinality(Tagged(t)) \in Nat
  BY TaggedFinite
<1>1. CASE v = t /\ stag[s] # t
  <2>1. Tagged(t)' = Tagged(t) \cup {s} /\ s \notin Tagged(t)
    BY <1>1 DEF Tagged, TypeOK
  <2>2. Cardinality(Tagged(t) \cup {s}) = Cardinality(Tagged(t)) + 1
    BY <1>0, <2>1, FS_AddElement
  <2> QED
    BY <1>0, <1>1, <2>1, <2>2 DEF Bool
<1>2. CASE v # t /\ stag[s] = t
  <2>1. Tagged(t)' = Tagged(t) \ {s} /\ s \in Tagged(t)
    BY <1>2 DEF Tagged, TypeOK
  <2>2. Cardinality(Tagged(t) \ {s}) = Cardinality(Tagged(t)) - 1
    BY <1>0, <2>1, FS_RemoveElement
  <2> QED
    BY <1>0, <1>2, <2>1, <2>2 DEF Bool
<1>3. CASE (v = t) <=> (stag[s] = t)
  <2>1. Tagged(t)' = Tagged(t)
    BY <1>3 DEF Tagged, TypeOK
  <2> QED
    BY <1>0, <1>3, <2>1 DEF Bool
<1> QED
  BY <1>1, <1>2, <1>3

(* Several sock_tags are freed.                                            *)
LEMMA TagsCleared ==
  ASSUME TypeOK, NEW M \in SUBSET Socks, NEW t \in Tags,
         stag' = [s \in Socks |-> IF s \in M THEN NONE ELSE stag[s]]
  PROVE  /\ Cardinality(Tagged(t)') = Cardinality(Tagged(t)) - CountIn(M, t)
         /\ CountIn(M, t) \in Nat /\ CountIn(M, t) <= Cardinality(Tagged(t))
<1> DEFINE A == Tagged(t)
           B == {s \in M : stag[s] = t}
<1>0. IsFiniteSet(A) /\ Cardinality(A) \in Nat
  BY TaggedFinite
<1>1. B \subseteq A /\ Tagged(t)' = A \ B
  BY QtaguidAssumption DEF Tagged, Tags
<1>2. CountIn(M, t) = Cardinality(B)
  BY DEF CountIn
<1> HIDE DEF A, B
<1>3. A \cap B = B
  BY <1>1
<1>4. Cardinality(A \ B) = Cardinality(A) - Cardinality(A \cap B)
  BY <1>0, FS_Difference
<1>5. Cardinality(B) \in Nat /\ Cardinality(B) <= Cardinality(A)
  BY <1>0, <1>1, FS_Subset, FS_CardinalityType
<1> QED
  BY <1>0, <1>1, <1>2, <1>3, <1>4, <1>5 DEF A

(* A step of a call that is not at err_tag_unref_put, before or after.     *)
LEMMA UnrefingKept ==
  ASSUME NEW p \in Procs, \A q \in Procs \ {p} : op'[q] = op[q] /\ tg'[q] = tg[q],
         \/ op[p] \notin {"unref_load", "unref_store"} /\ op'[p] \notin {"unref_load", "unref_store"}
         \/ /\ op[p] \in {"unref_load", "unref_store"} /\ op'[p] \in {"unref_load", "unref_store"}
            /\ tg'[p] = tg[p],
         NEW t
  PROVE  Cardinality(Unrefing(t)') = Cardinality(Unrefing(t))
<1>1. Unrefing(t)' = Unrefing(t)
  BY DEF Unrefing
<1> QED
  BY <1>1

(* A call gets to err_tag_unref_put.                                       *)
LEMMA UnrefingBegins ==
  ASSUME TypeOK, NEW p \in Procs, op' = [op EXCEPT ![p] = "unref_load"], UNCHANGED tg,
         op[p] \notin {"unref_load", "unref_store"}, NEW t
  PROVE  Cardinality(Unrefing(t)') = Cardinality(Unrefing(t)) + Bool(tg[p] = t)
<1>0. IsFiniteSet(Unrefing(t)) /\ Cardinality(Unrefing(t)) \in Nat
  BY UnrefingFinite
<1>1. CASE tg[p] = t
  <2>1. Unrefing(t)' = Unrefing(t) \cup {p} /\ p \notin Unrefing(t)
    BY <1>1 DEF Unrefing, TypeOK
  <2>2. Cardinality(Unrefing(t) \cup {p}) = Cardinality(Unrefing(t)) + 1
    BY <1>0, <2>1, FS_AddElement
  <2> QED
    BY <1>1, <2>1, <2>2 DEF Bool
<1>2. CASE tg[p] # t
  <2>1. Unrefing(t)' = Unrefing(t)
    BY <1>2 DEF Unrefing, TypeOK
  <2> QED
    BY <1>0, <1>2, <2>1 DEF Bool
<1> QED
  BY <1>1, <1>2

(* A call has taken its count back.                                        *)
LEMMA UnrefingEnds ==
  ASSUME TypeOK, NEW p \in Procs, op' = [op EXCEPT ![p] = "unref_free"], UNCHANGED tg,
         op[p] = "unref_store", NEW t
  PROVE  Cardinality(Unrefing(t)') = Cardinality(Unrefing(t)) - Bool(tg[p] = t)
<1>0. IsFiniteSet(Unrefing(t)) /\ Cardinality(Unrefing(t)) \in Nat
  BY UnrefingFinite
<1>1. CASE tg[p] = t
  <2>1. Unrefing(t)' = Unrefing(t) \ {p} /\ p \in Unrefing(t)
    BY <1>1 DEF Unrefing, TypeOK
  <2>2. Cardinality(Unrefing(t) \ {p}) = Cardinality(Unrefing(t)) - 1
    BY <1>0, <2>1, FS_RemoveElement
  <2> QED
    BY <1>1, <2>1, <2>2 DEF Bool
<1>2. CASE tg[p] # t
  <2>1. Unrefing(t)' = Unrefing(t)
    BY <1>2 DEF Unrefing, TypeOK
  <2> QED
    BY <1>0, <1>2, <2>1 DEF Bool
<1> QED
  BY <1>1, <1>2

(* A tag_ref is made, if there is none.                                    *)
LEMMA TagRefMade ==
  ASSUME TypeOK, NEW t \in Tags, NEW u
  PROVE  Cardinality(TagsOf(refs \cup {t}, u))
           = Cardinality(TagsOf(refs, u)) + Bool(t \notin refs /\ UidOf(t) = u)
<1>0. IsFiniteSet(TagsOf(refs, u)) /\ Cardinality(TagsOf(refs, u)) \in Nat
  BY CountType, FS_Subset DEF TypeOK
<1>1. CASE t \notin refs /\ UidOf(t) = u
  <2>1. TagsOf(refs \cup {t}, u) = TagsOf(refs, u) \cup {t} /\ t \notin TagsOf(refs, u)
    BY <1>1 DEF TagsOf
  <2>2. Cardinality(TagsOf(refs, u) \cup {t}) = Cardinality(TagsOf(refs, u)) + 1
    BY <1>0, <2>1, FS_AddElement
  <2> QED
    BY <1>1, <2>1, <2>2 DEF Bool
<1>2. CASE ~(t \notin refs /\ UidOf(t) = u)
  <2>1. TagsOf(refs \cup {t}, u) = TagsOf(refs, u)
    BY <1>2 DEF TagsOf
  <2> QED
    BY <1>0, <1>2, <2>1 DEF Bool
<1> QED
  BY <1>1, <1>2

(* tag_refs are freed.                                                     *)
LEMMA TagRefsFreed ==
  ASSUME TypeOK, NEW R \in SUBSET refs, NEW u
  PROVE  /\ Cardinality(TagsOf(refs \ R, u)) = Cardinality(TagsOf(refs, u)) - Cardinality(TagsOf(R, u))
         /\ Cardinality(TagsOf(R, u)) \in Nat
         /\ Cardinality(TagsOf(R, u)) <= Cardinality(TagsOf(refs, u))
<1> DEFINE A == TagsOf(refs, u)
           B == TagsOf(R, u)
<1>0. IsFiniteSet(A) /\ Cardinality(A) \in Nat
  BY CountType, FS_Subset DEF TypeOK
<1>1. B \subseteq A /\ A \cap B = B /\ TagsOf(refs \ R, u) = A \ B
  BY DEF TagsOf
<1> HIDE DEF A, B
<1>2. Cardinality(A \ B) = Cardinality(A) - Cardinality(A \cap B)
  BY <1>0, FS_Difference
<1>3. Cardinality(B) \in Nat /\ Cardinality(B) <= Cardinality(A)
  BY <1>0, <1>1, FS_Subset, FS_CardinalityType
<1> QED
  BY <1>0, <1>1, <1>2, <1>3 DEF A, B

-----------------------------------------------------------------------------
(* num_sock_tags                                                           *)

(* A step that leaves the tags, their counts and the tag_refs alone.       *)
LEMMA RefCountedKept ==
  ASSUME TypeOK, RefCounted, UNCHANGED <<num, refs, stag>>,
         \A t : Cardinality(Unrefing(t)') = Cardinality(Unrefing(t))
  PROVE  RefCounted'
<1>1. \A t : Tagged(t)' = Tagged(t)
  BY DEF Tagged
<1> QED
  BY <1>1 DEF RefCounted

LEMMA RefStep ==
  ASSUME TypeOK, RefCounted, UtdCounted, ~oops, "unlocked" \notin excuse', NEW p \in Procs,
         Command(p) \/ KernelStep(p) \/ ReleasePut(p) \/ Device(p) \/ Sockets(p)
  PROVE  RefCounted'
<1> USE QtaguidAssumption DEF tagvars, opvars, At, Goto, Return, InTag, Excuse
<1>t. \A t \in Tags : /\ num[t] \in Int /\ num[t] = Cardinality(Tagged(t)) + Cardinality(Unrefing(t))
                      /\ num[t] > 0 => t \in refs
                      /\ Cardinality(Tagged(t)) \in Nat /\ Cardinality(Unrefing(t)) \in Nat
  BY TaggedFinite, UnrefingFinite DEF RefCounted, TypeOK
<1>1. ASSUME UNCHANGED <<num, refs, stag, op, tg>> PROVE RefCounted'
  <2>1. \A t : Unrefing(t)' = Unrefing(t)
    BY <1>1 DEF Unrefing
  <2> QED
    BY <1>1, <2>1, RefCountedKept
<1>2. ASSUME Sockets(p) \/ ReleasePut(p) \/ QtudevOpen(p) \/ QtudevOpenFails(p) \/ TagUtdAllocFails(p)
      PROVE  RefCounted'
  BY <1>1, <1>2 DEF Sockets, NewSocket, CloseSocket, PassSocket, ReleasePut, QtudevOpen,
                    QtudevOpenFails, TagUtdAllocFails
<1>3. ASSUME UNCHANGED <<num, refs, stag>>, \A q \in Procs \ {p} : op'[q] = op[q] /\ tg'[q] = tg[q],
             op[p] \notin {"unref_load", "unref_store"}, op'[p] \notin {"unref_load", "unref_store"}
      PROVE  RefCounted'
  <2>1. \A t : Cardinality(Unrefing(t)') = Cardinality(Unrefing(t))
    BY <1>3, UnrefingKept
  <2> QED
    BY <1>3, <2>1, RefCountedKept
<1>4. ASSUME Command(p) \/ TagRefFails(p) \/ ErrPut(p) PROVE RefCounted'
  BY <1>3, <1>4 DEF Command, TagRefused, UntagLookup, TagLookup, DeleteCall, TagRefFails, ErrPut, TypeOK
<1>5. ASSUME UntagNothing(p) \/ UntagPut(p) \/ DeletePut(p) \/ DeleteNoUtd(p) PROVE RefCounted'
  BY <1>3, <1>5 DEF UntagNothing, UntagPut, DeletePut, DeleteNoUtd, TypeOK
<1>6. ASSUME UnrefLoad(p) PROVE RefCounted'
  <2>1. \A t : Cardinality(Unrefing(t)') = Cardinality(Unrefing(t))
    BY <1>6, UnrefingKept DEF UnrefLoad, TypeOK
  <2> QED
    BY <1>6, <2>1, RefCountedKept DEF UnrefLoad
<1>7. ASSUME UnrefStore(p) PROVE RefCounted'
  <2>1. num' = [num EXCEPT ![tg[p]] = @ - 1] /\ UNCHANGED <<refs, stag, tg>>
    BY <1>7 DEF UnrefStore, TypeOK
  <2>2. op[p] = "unref_store" /\ op' = [op EXCEPT ![p] = "unref_free"] /\ tg[p] \in Tags
    BY <1>7 DEF UnrefStore, TypeOK
  <2>3. \A t : Cardinality(Unrefing(t)') = Cardinality(Unrefing(t)) - Bool(tg[p] = t)
    BY <2>1, <2>2, UnrefingEnds
  <2>4. \A t : Tagged(t)' = Tagged(t)
    BY <2>1 DEF Tagged
  <2> QED
    BY <1>t, <2>1, <2>2, <2>3, <2>4 DEF RefCounted, Bool, TypeOK
<1>8. ASSUME UnrefFree(p) PROVE RefCounted'
  <2>1. UNCHANGED <<num, stag>> /\ \A t \in Tags : t \in refs /\ num[t] > 0 => t \in refs'
    BY <1>8, <1>t DEF UnrefFree
  <2>2. \A t : Cardinality(Unrefing(t)') = Cardinality(Unrefing(t))
    <3>1. op[p] = "unref_free" /\ op' = [op EXCEPT ![p] = "put"] /\ UNCHANGED tg
      BY <1>8 DEF UnrefFree
    <3> QED
      BY <3>1, UnrefingKept DEF TypeOK
  <2>3. \A t : Tagged(t)' = Tagged(t)
    BY <2>1 DEF Tagged
  <2> QED
    BY <1>t, <2>1, <2>2, <2>3 DEF RefCounted
<1>9. ASSUME Retag(p) PROVE RefCounted'
  <2> DEFINE t == tg[p]
             old == stag[sk[p]]
  <2>1. /\ num' = [x \in Tags |-> num[x] + (Bool(x = t) - Bool(x = old))]
        /\ refs' = refs \cup {t} /\ stag' = [stag EXCEPT ![sk[p]] = t]
    BY <1>9 DEF Retag, GetTagRef
  <2>2. sk[p] \in Socks /\ t \in Tags
    BY <1>9 DEF Retag, TypeOK
  <2>3. \A x : Cardinality(Unrefing(x)') = Cardinality(Unrefing(x))
    <3>1. op[p] = "tag" /\ op' = [op EXCEPT ![p] = "idle"] /\ tg' = [tg EXCEPT ![p] = NONE]
      BY <1>9 DEF Retag
    <3>2. \A q \in Procs \ {p} : op'[q] = op[q] /\ tg'[q] = tg[q]
      BY <3>1 DEF TypeOK
    <3>3. /\ op[p] \notin {"unref_load", "unref_store"}
          /\ op'[p] \notin {"unref_load", "unref_store"}
      BY <3>1 DEF TypeOK
    <3> QED
      BY <3>2, <3>3, UnrefingKept
  <2>4. \A x : Cardinality(Tagged(x)') = Cardinality(Tagged(x)) + Bool(t = x) - Bool(old = x)
    BY <2>1, <2>2, TagMoves DEF Bool
  <2> HIDE DEF t, old
  <2>5. ASSUME NEW x \in Tags
        PROVE  /\ num'[x] = Cardinality(Tagged(x)') + Cardinality(Unrefing(x)')
               /\ num'[x] > 0 => x \in refs'
    BY <1>t, <2>1, <2>3, <2>4 DEF Bool
  <2> QED
    BY <2>5 DEF RefCounted
<1>10. ASSUME TagNew(p) PROVE RefCounted'
  <2> DEFINE t == tg[p]
  <2>1. /\ num' = [x \in Tags |-> num[x] + Bool(x = t)]
        /\ refs' = refs \cup {t} /\ stag' = [stag EXCEPT ![sk[p]] = t]
    BY <1>10 DEF TagNew, GetTagRef
  <2>2. sk[p] \in Socks /\ t \in Tags /\ \A x \in Tags : stag[sk[p]] # x
    BY <1>10 DEF TagNew, TypeOK, Tags
  <2>3. \A x : Cardinality(Unrefing(x)') = Cardinality(Unrefing(x))
    <3>1. op[p] = "tag" /\ op' = [op EXCEPT ![p] = "idle"] /\ tg' = [tg EXCEPT ![p] = NONE]
      BY <1>10 DEF TagNew
    <3>2. \A q \in Procs \ {p} : op'[q] = op[q] /\ tg'[q] = tg[q]
      BY <3>1 DEF TypeOK
    <3>3. /\ op[p] \notin {"unref_load", "unref_store"}
          /\ op'[p] \notin {"unref_load", "unref_store"}
      BY <3>1 DEF TypeOK
    <3> QED
      BY <3>2, <3>3, UnrefingKept
  <2>4. \A x : Cardinality(Tagged(x)') = Cardinality(Tagged(x)) + Bool(t = x) - Bool(stag[sk[p]] = x)
    BY <2>1, <2>2, TagMoves DEF Bool
  <2> HIDE DEF t
  <2>5. ASSUME NEW x \in Tags
        PROVE  /\ num'[x] = Cardinality(Tagged(x)') + Cardinality(Unrefing(x)')
               /\ num'[x] > 0 => x \in refs'
    BY <1>t, <2>1, <2>2, <2>3, <2>4 DEF Bool
  <2> QED
    BY <2>5 DEF RefCounted
<1>11. ASSUME TagAllocFails(p) PROVE RefCounted'
  <2> DEFINE t == tg[p]
  <2>1. /\ num' = [x \in Tags |-> num[x] + Bool(x = t)]
        /\ refs' = refs \cup {t} /\ UNCHANGED <<stag, tg>>
        /\ op[p] = "tag" /\ op' = [op EXCEPT ![p] = "unref_load"]
    BY <1>11 DEF TagAllocFails, GetTagRef
  <2>2. \A x : Cardinality(Unrefing(x)') = Cardinality(Unrefing(x)) + Bool(t = x)
    BY <2>1, UnrefingBegins
  <2>3. \A x : Tagged(x)' = Tagged(x)
    BY <2>1 DEF Tagged
  <2> HIDE DEF t
  <2>4. ASSUME NEW x \in Tags
        PROVE  /\ num'[x] = Cardinality(Tagged(x)') + Cardinality(Unrefing(x)')
               /\ num'[x] > 0 => x \in refs'
    BY <1>t, <2>1, <2>2, <2>3 DEF Bool
  <2> QED
    BY <2>4 DEF RefCounted
<1>12. ASSUME Untag(p) PROVE RefCounted'
  <2> DEFINE s == sk[p]
             t == stag[s]
  <2>1. /\ num' = [num EXCEPT ![t] = @ - 1] /\ stag' = [stag EXCEPT ![s] = NONE]
        /\ t # NONE /\ UNCHANGED <<refs, tg>>
        /\ op[p] = "untag" /\ op' = [op EXCEPT ![p] = "untag_put"]
    BY <1>12 DEF Untag
  <2>2. s \in Socks /\ t \in Tags /\ NONE \notin Tags /\ num \in [Tags -> Int]
    BY <1>12, <2>1 DEF Untag, TypeOK, Tags
  <2>3. \A x : Cardinality(Unrefing(x)') = Cardinality(Unrefing(x))
    <3>1. op[p] = "untag" /\ op' = [op EXCEPT ![p] = "untag_put"] /\ UNCHANGED tg
      BY <2>1
    <3>2. \A q \in Procs \ {p} : op'[q] = op[q] /\ tg'[q] = tg[q]
      BY <3>1 DEF TypeOK
    <3>3. /\ op[p] \notin {"unref_load", "unref_store"}
          /\ op'[p] \notin {"unref_load", "unref_store"}
      BY <3>1 DEF TypeOK
    <3> QED
      BY <3>2, <3>3, UnrefingKept
  <2>4. \A x : Cardinality(Tagged(x)') = Cardinality(Tagged(x)) + Bool(NONE = x) - Bool(t = x)
    BY <2>1, <2>2, TagMoves DEF Bool
  <2> HIDE DEF s, t
  <2>5. ASSUME NEW x \in Tags
        PROVE  /\ num'[x] = Cardinality(Tagged(x)') + Cardinality(Unrefing(x)')
               /\ num'[x] > 0 => x \in refs'
    BY <1>t, <2>1, <2>2, <2>3, <2>4 DEF Bool
  <2> QED
    BY <2>5 DEF RefCounted
<1>13. ASSUME DeleteSockTags(p) PROVE RefCounted'
  <2> DEFINE M == {s \in Socks : stag[s] # NONE /\ Covers(tg[p], stag[s])}
  <2>1. /\ stag' = [s \in Socks |-> IF s \in M THEN NONE ELSE stag[s]]
        /\ num' = [x \in Tags |-> num[x] - CountIn(M, x)] /\ UNCHANGED <<refs, tg>>
        /\ op[p] = "del" /\ op' = [op EXCEPT ![p] = "del_put"]
    BY <1>13 DEF DeleteSockTags
  <2>2. \A x : Cardinality(Unrefing(x)') = Cardinality(Unrefing(x))
    BY <2>1, UnrefingKept DEF TypeOK
  <2>3. M \in SUBSET Socks
    OBVIOUS
  <2> HIDE DEF M
  <2>4. ASSUME NEW x \in Tags
        PROVE  /\ num'[x] = Cardinality(Tagged(x)') + Cardinality(Unrefing(x)')
               /\ num'[x] > 0 => x \in refs'
    <3>1. /\ Cardinality(Tagged(x)') = Cardinality(Tagged(x)) - CountIn(M, x)
          /\ CountIn(M, x) \in Nat
      BY <2>1, <2>3, TagsCleared
    <3> QED
      BY <1>t, <2>1, <2>2, <3>1
  <2> QED
    BY <2>4 DEF RefCounted
<1>14. ASSUME DeleteTagRefs(p) PROVE RefCounted'
  <2>1. UNCHANGED <<num, stag>> /\ \A t \in Tags : t \in refs /\ num[t] > 0 => t \in refs'
    BY <1>14, <1>t DEF DeleteTagRefs
  <2>2. \A t : Cardinality(Unrefing(t)') = Cardinality(Unrefing(t))
    <3>1. op[p] = "del_utd" /\ op' = [op EXCEPT ![p] = "idle"] /\ tg' = [tg EXCEPT ![p] = NONE]
      BY <1>14 DEF DeleteTagRefs
    <3> QED
      BY <3>1, UnrefingKept DEF TypeOK
  <2>3. \A t : Tagged(t)' = Tagged(t)
    BY <2>1 DEF Tagged
  <2> QED
    BY <1>t, <2>1, <2>2, <2>3 DEF RefCounted
<1>15. ASSUME QtudevRelease(p) PROVE RefCounted'
  <2> DEFINE L     == {s \in Socks : link[s] = p}
             after == [x \in Tags |-> num[x] - CountIn(L, x)]
             freed == {x \in refs : after[x] = 0 /\ \E s \in L : stag[s] = x}
  <2>1. /\ stag' = [s \in Socks |-> IF s \in L THEN NONE ELSE stag[s]]
        /\ num' = after /\ refs' = refs \ freed /\ UNCHANGED <<op, tg>>
    BY <1>15 DEF QtudevRelease
  <2>2. \A t : Unrefing(t)' = Unrefing(t)
    BY <2>1 DEF Unrefing
  <2>3. L \in SUBSET Socks
    OBVIOUS
  <2>4. \A x \in refs : after[x] > 0 => x \in refs'
    BY <2>1
  <2> HIDE DEF L, freed
  <2>5. ASSUME NEW x \in Tags
        PROVE  /\ num'[x] = Cardinality(Tagged(x)') + Cardinality(Unrefing(x)')
               /\ num'[x] > 0 => x \in refs'
    <3>1. /\ Cardinality(Tagged(x)') = Cardinality(Tagged(x)) - CountIn(L, x)
          /\ CountIn(L, x) \in Nat
      BY <2>1, <2>3, TagsCleared
    <3> QED
      BY <1>t, <2>1, <2>2, <2>4, <3>1
  <2> QED
    BY <2>5 DEF RefCounted
<1> QED
  BY <1>2, <1>4, <1>5, <1>6, <1>7, <1>8, <1>9, <1>10, <1>11, <1>12, <1>13, <1>14, <1>15
     DEF KernelStep, Device

-----------------------------------------------------------------------------
(* num_active_tags and num_pqd                                             *)

LEMMA UtdStep ==
  ASSUME TypeOK, RefCounted, UtdCounted, ~oops, "unlocked" \notin excuse', NEW p \in Procs,
         Command(p) \/ KernelStep(p) \/ ReleasePut(p) \/ Device(p) \/ Sockets(p)
  PROVE  UtdCounted'
<1> USE QtaguidAssumption DEF tagvars, opvars, At, Goto, Return, InTag, Excuse
<1>u. ASSUME NEW u \in Uids
      PROVE  /\ active[u] \in Nat /\ active[u] = Cardinality(TagsOf(refs, u)) /\ active[u] <= MaxTags
             /\ npqd[u] \in Nat /\ npqd[u] = Cardinality(PqdsOf(pqd, u))
             /\ active[u] > 0 \/ npqd[u] > 0 => u \in utd
             /\ IsFiniteSet(PqdsOf(pqd, u))
  <2>1. IsFiniteSet(PqdsOf(pqd, u))
    BY FS_Subset DEF TypeOK, PqdsOf
  <2>2. Cardinality(PqdsOf(pqd, u)) \in Nat
    BY <2>1, FS_CardinalityType
  <2>3. Cardinality(TagsOf(refs, u)) \in Nat
    BY CountType, FS_Subset DEF TypeOK
  <2> QED
    BY <2>1, <2>2, <2>3 DEF UtdCounted
<1>1. ASSUME UNCHANGED <<refs, active, npqd, pqd>>, utd \subseteq utd' PROVE UtdCounted'
  BY <1>1 DEF UtdCounted
<1>2. ASSUME Command(p) \/ Sockets(p) \/ ReleasePut(p) \/ QtudevOpenFails(p) PROVE UtdCounted'
  BY <1>1, <1>2 DEF Command, TagRefused, UntagLookup, TagLookup, DeleteCall, Sockets, NewSocket, CloseSocket,
                    PassSocket, ReleasePut, QtudevOpenFails
<1>3. ASSUME TagUtdAllocFails(p) \/ TagRefFails(p) \/ UnrefLoad(p) \/ UnrefStore(p) \/ ErrPut(p)
      PROVE  UtdCounted'
  BY <1>1, <1>3 DEF TagUtdAllocFails, TagRefFails, UnrefLoad, UnrefStore, ErrPut
<1>4. ASSUME \/ UntagNothing(p) \/ Untag(p) \/ UntagPut(p) \/ DeleteSockTags(p) \/ DeletePut(p)
             \/ DeleteNoUtd(p)
      PROVE  UtdCounted'
  BY <1>1, <1>4 DEF UntagNothing, Untag, UntagPut, DeleteSockTags, DeletePut, DeleteNoUtd
<1>5. ASSUME Retag(p) \/ TagNew(p) \/ TagAllocFails(p) PROVE UtdCounted'
  <2> DEFINE t == tg[p]
  <2>1. /\ utd' = utd \cup {UidOf(t)} /\ refs' = refs \cup {t}
        /\ active' = [active EXCEPT ![UidOf(t)] = @ + Bool(t \notin refs)]
        /\ UNCHANGED <<npqd, pqd>> /\ HaveTagRef(t)
    BY <1>5 DEF Retag, TagNew, TagAllocFails, GetTagRef
  <2>2. t \in Tags /\ UidOf(t) \in Uids
    BY <1>5 DEF Retag, TagNew, TagAllocFails, TypeOK, Tags, UidOf
  <2>3. active \in [Uids -> Int] /\ (t \in refs \/ active[UidOf(t)] + 1 <= MaxTags)
    BY <2>1 DEF HaveTagRef, TypeOK
  <2> HIDE DEF t
  <2>4. ASSUME NEW u \in Uids
        PROVE  /\ active'[u] = Cardinality(TagsOf(refs', u)) /\ active'[u] <= MaxTags
               /\ active'[u] > 0 \/ npqd'[u] > 0 => u \in utd'
    <3>1. Cardinality(TagsOf(refs', u))
            = Cardinality(TagsOf(refs, u)) + Bool(t \notin refs /\ UidOf(t) = u)
      BY <2>1, <2>2, TagRefMade
    <3>2. active'[u] = active[u] + Bool(t \notin refs /\ UidOf(t) = u)
      BY <1>u, <2>1, <2>2 DEF Bool, TypeOK
    <3>3. active'[u] <= MaxTags
      BY <1>u, <2>1, <2>3, <3>2 DEF Bool, HaveTagRef
    <3>4. u # UidOf(t) => active'[u] = active[u]
      BY <1>u, <3>2 DEF Bool
    <3> QED
      BY <1>u, <2>1, <3>1, <3>2, <3>3, <3>4
  <2> QED
    BY <1>u, <2>1, <2>4 DEF UtdCounted
<1>6. ASSUME UnrefFree(p) PROVE UtdCounted'
  <2> DEFINE t == tg[p]
  <2>1. t \in refs /\ t \in Tags /\ UidOf(t) \in Uids
    BY <1>6 DEF UnrefFree, TypeOK, Tags, UidOf
  <2>2. CASE num[t] # 0
    <3>1. refs' = refs /\ UNCHANGED <<npqd, pqd, utd>> /\ active' = [active EXCEPT ![UidOf(t)] = @ - 0]
      BY <1>6, <2>1, <2>2 DEF UnrefFree, Bool
    <3>2. active' = active
      BY <2>1, <3>1 DEF TypeOK
    <3> QED
      BY <1>1, <3>1, <3>2
  <2>3. CASE num[t] = 0
    <3>1. /\ refs' = refs \ {t} /\ active' = [active EXCEPT ![UidOf(t)] = @ - 1]
          /\ UNCHANGED <<npqd, pqd, utd>>
      BY <1>6, <2>1, <2>3 DEF UnrefFree, Bool
    <3> HIDE DEF t
    <3>2. ASSUME NEW u \in Uids
          PROVE  /\ active'[u] = Cardinality(TagsOf(refs', u)) /\ active'[u] <= active[u]
                 /\ active'[u] \in Int
      <4>1. Cardinality(TagsOf(refs \ {t}, u))
              = Cardinality(TagsOf(refs, u)) - Cardinality(TagsOf({t}, u))
        BY <2>1, TagRefsFreed
      <4>2. Cardinality(TagsOf({t}, u)) = Bool(UidOf(t) = u)
        <5>1. TagsOf({t}, u) = IF UidOf(t) = u THEN {t} ELSE {}
          BY DEF TagsOf
        <5> QED
          BY <5>1, FS_Singleton, FS_EmptySet DEF Bool
      <4> QED
        BY <1>u, <2>1, <3>1, <4>1, <4>2 DEF Bool, TypeOK
    <3>3. ASSUME NEW u \in Uids
          PROVE  active'[u] <= MaxTags /\ (active'[u] > 0 \/ npqd'[u] > 0 => u \in utd')
      BY <1>u, <3>1, <3>2
    <3>4. ASSUME NEW u \in Uids PROVE npqd'[u] = Cardinality(PqdsOf(pqd', u))
      BY <1>u, <3>1
    <3> QED
      BY <3>2, <3>3, <3>4 DEF UtdCounted
  <2> QED
    BY <2>2, <2>3
<1>7. ASSUME DeleteTagRefs(p) PROVE UtdCounted'
  <2> DEFINE v     == UidOf(tg[p])
             freed == {x \in refs : Covers(tg[p], x) /\ num[x] = 0}
  <2>1. /\ refs' = refs \ freed /\ active' = [active EXCEPT ![v] = @ - Cardinality(freed)]
        /\ UNCHANGED <<npqd, pqd>> /\ v \in utd
        /\ utd' = IF TagsOf(refs', v) = {} /\ npqd[v] = 0 THEN utd \ {v} ELSE utd
    BY <1>7 DEF DeleteTagRefs
  <2>2. /\ freed \in SUBSET refs /\ TagsOf(freed, v) = freed
        /\ \A u \in Uids \ {v} : TagsOf(freed, u) = {}
    BY DEF TagsOf, Covers
  <2>3. v \in Uids
    BY <2>1 DEF TypeOK
  <2> HIDE DEF v, freed
  <2>4. ASSUME NEW u \in Uids
        PROVE  /\ active'[u] = Cardinality(TagsOf(refs', u)) /\ active'[u] <= active[u]
               /\ active'[u] \in Int
               /\ active'[u] > 0 \/ npqd'[u] > 0 => u \in utd'
    <3>1. /\ Cardinality(TagsOf(refs', u)) = Cardinality(TagsOf(refs, u)) - Cardinality(TagsOf(freed, u))
          /\ Cardinality(TagsOf(freed, u)) \in Nat
      BY <2>1, <2>2, TagRefsFreed
    <3>2. active'[u] = active[u] - Cardinality(TagsOf(freed, u))
      <4>1. active \in [Uids -> Int]
        BY DEF TypeOK
      <4>2. CASE u = v
        BY <2>1, <2>2, <2>3, <4>1, <4>2
      <4>3. CASE u # v
        <5>1. TagsOf(freed, u) = {} /\ active'[u] = active[u]
          BY <2>1, <2>2, <4>1, <4>3
        <5> QED
          BY <1>u, <5>1, FS_EmptySet
      <4> QED
        BY <4>2, <4>3
    <3>3. active'[u] = Cardinality(TagsOf(refs', u)) /\ active'[u] <= active[u] /\ active'[u] \in Int
      BY <1>u, <3>1, <3>2
    <3>4. TagsOf(refs', u) = {} => active'[u] = 0
      BY <3>3, FS_EmptySet
    <3>5. u \in utd /\ u \notin utd' => TagsOf(refs', u) = {} /\ npqd'[u] = 0
      BY <2>1
    <3>6. npqd'[u] = npqd[u]
      BY <2>1
    <3> QED
      BY <1>u, <3>3, <3>4, <3>5, <3>6
  <2>5. ASSUME NEW u \in Uids PROVE active'[u] <= MaxTags /\ npqd'[u] = Cardinality(PqdsOf(pqd', u))
    BY <1>u, <2>1, <2>4
  <2> QED
    BY <2>4, <2>5 DEF UtdCounted
<1>8. ASSUME QtudevOpen(p) PROVE UtdCounted'
  <2>1. /\ p \notin pqd /\ pqd' = pqd \cup {p} /\ utd' = utd \cup {Uid[p]}
        /\ npqd' = [npqd EXCEPT ![Uid[p]] = @ + 1] /\ UNCHANGED <<refs, active>>
    BY <1>8 DEF QtudevOpen
  <2>2. ASSUME NEW u \in Uids
        PROVE  npqd'[u] = Cardinality(PqdsOf(pqd', u)) /\ (npqd'[u] > 0 => u \in utd')
    <3>1. CASE u = Uid[p]
      <4>1. PqdsOf(pqd', u) = PqdsOf(pqd, u) \cup {p} /\ p \notin PqdsOf(pqd, u)
        BY <2>1, <3>1 DEF PqdsOf
      <4>2. Cardinality(PqdsOf(pqd, u) \cup {p}) = Cardinality(PqdsOf(pqd, u)) + 1
        BY <1>u, <4>1, FS_AddElement
      <4> QED
        BY <1>u, <2>1, <3>1, <4>1, <4>2 DEF TypeOK
    <3>2. CASE u # Uid[p]
      <4>1. PqdsOf(pqd', u) = PqdsOf(pqd, u)
        BY <2>1, <3>2 DEF PqdsOf
      <4> QED
        BY <1>u, <2>1, <3>2, <4>1 DEF TypeOK
    <3> QED
      BY <3>1, <3>2
  <2> QED
    BY <1>u, <2>1, <2>2 DEF UtdCounted
<1>9. ASSUME QtudevRelease(p) PROVE UtdCounted'
  <2> DEFINE L       == {s \in Socks : link[s] = p}
             after   == [x \in Tags |-> num[x] - CountIn(L, x)]
             freed   == {x \in refs : after[x] = 0 /\ \E s \in L : stag[s] = x}
             left    == [npqd EXCEPT ![Uid[p]] = @ - 1]
             touched == {UidOf(stag[s]) : s \in L} \cup {Uid[p]}
  <2>1. /\ p \in pqd /\ pqd' = pqd \ {p} /\ npqd' = left /\ refs' = refs \ freed
        /\ active' = [u \in Uids |-> active[u] - Cardinality(TagsOf(freed, u))]
        /\ utd' = utd \ {u \in touched : TagsOf(refs', u) = {} /\ left[u] = 0}
    BY <1>9 DEF QtudevRelease
  <2>2. freed \in SUBSET refs
    OBVIOUS
  <2> HIDE DEF L, after, freed, left, touched
  <2>3. ASSUME NEW u \in Uids
        PROVE  /\ npqd'[u] = Cardinality(PqdsOf(pqd', u)) /\ npqd'[u] <= npqd[u]
               /\ npqd'[u] \in Int
    <3>0. npqd'[u] = IF u = Uid[p] THEN npqd[u] - 1 ELSE npqd[u]
      BY <2>1 DEF TypeOK, left
    <3>1. CASE u = Uid[p]
      <4>1. PqdsOf(pqd', u) = PqdsOf(pqd, u) \ {p} /\ p \in PqdsOf(pqd, u)
        BY <2>1, <3>1 DEF PqdsOf
      <4>2. Cardinality(PqdsOf(pqd, u) \ {p}) = Cardinality(PqdsOf(pqd, u)) - 1
        BY <1>u, <4>1, FS_RemoveElement
      <4> QED
        BY <1>u, <3>0, <3>1, <4>1, <4>2
    <3>2. CASE u # Uid[p]
      <4>1. PqdsOf(pqd', u) = PqdsOf(pqd, u)
        BY <2>1, <3>2 DEF PqdsOf
      <4> QED
        BY <1>u, <3>0, <3>2, <4>1
    <3> QED
      BY <3>1, <3>2
  <2>4. ASSUME NEW u \in Uids
        PROVE  /\ active'[u] = Cardinality(TagsOf(refs', u)) /\ active'[u] <= active[u]
               /\ active'[u] \in Int
    <3>1. /\ Cardinality(TagsOf(refs', u)) = Cardinality(TagsOf(refs, u)) - Cardinality(TagsOf(freed, u))
          /\ Cardinality(TagsOf(freed, u)) \in Nat
      BY <2>1, <2>2, TagRefsFreed
    <3>2. active'[u] = active[u] - Cardinality(TagsOf(freed, u))
      BY <2>1
    <3>3. refs' = refs \ freed
      BY <2>1
    <3> QED
      BY <1>u, <3>1, <3>2, <3>3
  <2>5. ASSUME NEW u \in Uids, active'[u] > 0 \/ npqd'[u] > 0 PROVE u \in utd'
    <3>1. u \in utd
      BY <1>u, <2>3, <2>4, <2>5
    <3>2. ~(TagsOf(refs', u) = {} /\ left[u] = 0)
      <4>1. TagsOf(refs', u) = {} => active'[u] = 0
        BY <2>4, FS_EmptySet
      <4>2. npqd' = left
        BY <2>1
      <4> QED
        BY <2>5, <4>1, <4>2
    <3>3. utd' = utd \ {w \in touched : TagsOf(refs', w) = {} /\ left[w] = 0}
      BY <2>1
    <3> QED
      BY <3>1, <3>2, <3>3
  <2>6. ASSUME NEW u \in Uids PROVE active'[u] <= MaxTags
    BY <1>u, <2>4
  <2> QED
    BY <2>3, <2>4, <2>5, <2>6 DEF UtdCounted
<1> QED
  BY <1>2, <1>3, <1>4, <1>5, <1>6, <1>7, <1>8, <1>9 DEF KernelStep, Device

-----------------------------------------------------------------------------
(* No crash                                                                *)

LEMMA CrashStep ==
  ASSUME TypeOK, RefCounted, UtdCounted, ListsTrackTags, ~oops, excuse = {}, excuse' = {},
         NEW p \in Procs,
         Command(p) \/ KernelStep(p) \/ ReleasePut(p) \/ Device(p) \/ Sockets(p)
  PROVE  ~oops'
<1> USE QtaguidAssumption DEF tagvars, opvars, At, Goto, Return, InTag
<1>t. \A t \in Tags : /\ num[t] \in Int /\ num[t] = Cardinality(Tagged(t)) + Cardinality(Unrefing(t))
                      /\ num[t] > 0 => t \in refs
                      /\ Cardinality(Tagged(t)) \in Nat /\ Cardinality(Unrefing(t)) \in Nat
  BY TaggedFinite, UnrefingFinite DEF RefCounted, TypeOK
<1>s. ASSUME NEW s \in Socks, stag[s] # NONE
      PROVE  stag[s] \in Tags /\ num[stag[s]] >= 1 /\ stag[s] \in refs /\ link[s] \in pqd
  <2>1. s \in Tagged(stag[s]) /\ stag[s] \in Tags
    BY <1>s DEF Tagged, TypeOK
  <2>2. Cardinality(Tagged(stag[s])) # 0
    BY <2>1, TaggedFinite, FS_EmptySet
  <2>3. link[s] \in pqd
    BY <1>s DEF ListsTrackTags
  <2> QED
    BY <1>t, <2>1, <2>2, <2>3
<1>b. UtdCounted'
  BY UtdStep
<1>d. ASSUME NEW u \in Uids
      PROVE  /\ Cardinality(TagsOf(refs, u)) \in Nat /\ Cardinality(TagsOf(refs', u)) \in Nat
             /\ TagsOf(refs', u) = {} <=> active'[u] = 0
  <2>1. refs \subseteq Tags /\ refs' \subseteq Tags
    BY TypeStep DEF TypeOK, Next
  <2>2. IsFiniteSet(refs) /\ IsFiniteSet(refs')
    BY <2>1, CountType, FS_Subset
  <2>3. active'[u] = Cardinality(TagsOf(refs', u))
    BY <1>b DEF UtdCounted
  <2> QED
    BY <2>2, <2>3, CountType, FS_EmptySet
<1>1. ASSUME Command(p) \/ Sockets(p) \/ ReleasePut(p) \/ QtudevOpenFails(p) \/ QtudevOpen(p)
      PROVE  ~oops'
  BY <1>1 DEF Command, TagRefused, UntagLookup, TagLookup, DeleteCall, Sockets, NewSocket, CloseSocket,
              PassSocket, ReleasePut, QtudevOpenFails, QtudevOpen
<1>2. ASSUME TagUtdAllocFails(p) \/ UnrefFree(p) PROVE ~oops'
  BY <1>2 DEF TagUtdAllocFails, UnrefFree, Excuse
<1>3. ASSUME \/ TagRefFails(p) \/ TagNew(p) \/ TagAllocFails(p) \/ UnrefStore(p) \/ ErrPut(p)
             \/ UntagNothing(p) \/ UntagPut(p) \/ DeletePut(p) \/ DeleteNoUtd(p)
      PROVE  ~oops'
  BY <1>3 DEF TagRefFails, TagNew, TagAllocFails, UnrefStore, ErrPut, UntagNothing, UntagPut,
              DeletePut, DeleteNoUtd
<1>4. ASSUME UnrefLoad(p) PROVE ~oops'
  <2>0. oops' => num[tg[p]] <= 0
    BY <1>4, Zenon DEF UnrefLoad
  <2>1. tg[p] \in Tags /\ p \in Unrefing(tg[p])
    BY <1>4 DEF UnrefLoad, TypeOK, Unrefing
  <2>2. Cardinality(Unrefing(tg[p])) # 0
    BY <2>1, UnrefingFinite, FS_EmptySet
  <2> QED
    BY <1>t, <2>0, <2>1, <2>2
<1>5. ASSUME Retag(p) PROVE ~oops'
  <2> DEFINE old == stag[sk[p]]
  <2>0. oops' => old \notin refs \/ num[old] + Bool(old = tg[p]) <= 0
    BY <1>5, Zenon DEF Retag
  <2>1. sk[p] \in Socks /\ old # NONE
    BY <1>5 DEF Retag, TypeOK
  <2>2. old \in Tags /\ num[old] >= 1 /\ old \in refs
    BY <1>s, <2>1
  <2> QED
    BY <1>t, <2>0, <2>2 DEF Bool
<1>6. ASSUME Untag(p) PROVE ~oops'
  <2> DEFINE s == sk[p]
             t == stag[s]
  <2>0. oops' => t \notin refs \/ num[t] <= 0 \/ (p \in pqd /\ link[s] = NONE)
    BY <1>6, Zenon DEF Untag
  <2>1. s \in Socks /\ t # NONE
    BY <1>6 DEF Untag, TypeOK
  <2>2. NONE \notin pqd
    BY DEF TypeOK
  <2>3. t \in Tags /\ num[t] >= 1 /\ t \in refs /\ link[s] \in pqd
    BY <1>s, <2>1
  <2> QED
    BY <1>t, <2>0, <2>2, <2>3
<1>7. ASSUME DeleteSockTags(p) PROVE ~oops'
  <2> DEFINE M == {s \in Socks : stag[s] # NONE /\ Covers(tg[p], stag[s])}
  <2>1. /\ stag' = [s \in Socks |-> IF s \in M THEN NONE ELSE stag[s]]
        /\ oops' = \E s \in M : stag[s] \notin refs \/ num[stag[s]] < CountIn(M, stag[s])
    BY <1>7 DEF DeleteSockTags
  <2>2. M \in SUBSET Socks /\ \A s \in M : stag[s] # NONE
    OBVIOUS
  <2> HIDE DEF M
  <2>3. ASSUME NEW s \in M PROVE stag[s] \in refs /\ ~(num[stag[s]] < CountIn(M, stag[s]))
    <3>1. stag[s] \in Tags /\ stag[s] \in refs
      BY <1>s, <2>2
    <3>2. CountIn(M, stag[s]) \in Nat /\ CountIn(M, stag[s]) <= Cardinality(Tagged(stag[s]))
      BY <2>1, <2>2, <3>1, TagsCleared
    <3> QED
      BY <1>t, <3>1, <3>2
  <2> QED
    BY <2>1, <2>3
<1>8. ASSUME DeleteTagRefs(p) PROVE ~oops'
  <2> DEFINE u     == UidOf(tg[p])
             freed == {x \in refs : Covers(tg[p], x) /\ num[x] = 0}
  <2>1. /\ u \in utd /\ UNCHANGED npqd
    BY <1>8 DEF DeleteTagRefs
  <2>0. oops' => active[u] < Cardinality(freed) \/ UtdBug(u, refs', active'[u], npqd[u])
    BY <1>8, Zenon DEF DeleteTagRefs
  <2>2. u \in Uids
    BY <2>1 DEF TypeOK
  <2>3. /\ TagsOf(freed, u) = freed
        /\ Cardinality(TagsOf(freed, u)) <= Cardinality(TagsOf(refs, u))
        /\ Cardinality(TagsOf(freed, u)) \in Nat
    <3>1. freed \in SUBSET refs /\ TagsOf(freed, u) = freed
      BY DEF TagsOf, Covers
    <3> HIDE DEF freed, u
    <3> QED
      BY <3>1, TagRefsFreed
  <2>4. active[u] = Cardinality(TagsOf(refs, u))
    BY <2>2 DEF UtdCounted
  <2> HIDE DEF u, freed
  <2> QED
    BY <1>d, <2>0, <2>1, <2>2, <2>3, <2>4 DEF UtdBug
<1>9. ASSUME QtudevRelease(p) PROVE ~oops'
  <2> DEFINE L       == {s \in Socks : link[s] = p}
             after   == [x \in Tags |-> num[x] - CountIn(L, x)]
             left    == [npqd EXCEPT ![Uid[p]] = @ - 1]
             touched == {UidOf(stag[s]) : s \in L} \cup {Uid[p]}
  <2>1. /\ stag' = [s \in Socks |-> IF s \in L THEN NONE ELSE stag[s]]
        /\ p \in pqd /\ npqd' = left
    BY <1>9 DEF QtudevRelease
  <2>2. oops' = (\/ p \in stale
                 \/ \E s \in L : stag[s] \notin refs \/ after[stag[s]] < 0
                 \/ npqd[Uid[p]] < 1
                 \/ \E u \in touched : UtdBug(u, refs', active'[u], left[u]))
    BY <1>9 DEF QtudevRelease
  <2>3. p \notin stale
    BY DEF ListsTrackTags
  <2>4. ASSUME NEW s \in L PROVE stag[s] \in refs /\ stag[s] \in Tags /\ ~(after[stag[s]] < 0)
    <3>1. s \in Socks /\ stag[s] # NONE
      BY <2>4 DEF ListsTrackTags
    <3>2. stag[s] \in Tags /\ stag[s] \in refs
      BY <1>s, <3>1
    <3>3. L \in SUBSET Socks
      OBVIOUS
    <3> HIDE DEF L
    <3>4. CountIn(L, stag[s]) \in Nat /\ CountIn(L, stag[s]) <= Cardinality(Tagged(stag[s]))
      BY <2>1, <3>2, <3>3, TagsCleared
    <3> QED
      BY <1>t, <3>2, <3>4
  <2>5. npqd[Uid[p]] >= 1
    <3>1. p \in PqdsOf(pqd, Uid[p]) /\ Uid[p] \in Uids /\ IsFiniteSet(PqdsOf(pqd, Uid[p]))
      BY <2>1, FS_Subset DEF PqdsOf, TypeOK
    <3>2. npqd[Uid[p]] = Cardinality(PqdsOf(pqd, Uid[p])) /\ npqd[Uid[p]] \in Int
      BY <3>1 DEF UtdCounted, TypeOK
    <3> QED
      BY <3>1, <3>2, FS_CardinalityType, FS_EmptySet
  <2>6. ASSUME NEW u \in touched PROVE ~UtdBug(u, refs', active'[u], left[u])
    <3>1. u \in Uids
      BY <2>4 DEF Tags, UidOf
    <3> HIDE DEF left, touched
    <3> QED
      BY <1>d, <3>1 DEF UtdBug
  <2> HIDE DEF L, after, left, touched
  <2>7. npqd[Uid[p]] \in Int
    BY DEF TypeOK
  <2> QED
    BY <2>2, <2>3, <2>4, <2>5, <2>6, <2>7
<1> QED
  BY <1>1, <1>2, <1>3, <1>4, <1>5, <1>6, <1>7, <1>8, <1>9 DEF KernelStep, Device

-----------------------------------------------------------------------------
(* The history only grows, and nothing happens after a crash.              *)
LEMMA ExcuseGrows == [Next]_vars => excuse \subseteq excuse' /\ (oops => UNCHANGED vars)
<1> SUFFICES ASSUME [Next]_vars PROVE excuse \subseteq excuse' /\ (oops => UNCHANGED vars)
  OBVIOUS
<1> USE DEF vars, tagvars, opvars, At, InTag, Excuse
<1>1. CASE UNCHANGED vars \/ Halted
  BY <1>1 DEF Halted
<1>2. ASSUME NEW p \in Procs, Command(p) \/ Sockets(p) \/ ReleasePut(p)
      PROVE  excuse \subseteq excuse' /\ ~oops
  BY <1>2 DEF Command, TagRefused, UntagLookup, TagLookup, DeleteCall, Sockets, NewSocket, CloseSocket,
              PassSocket, ReleasePut
<1>3. ASSUME NEW p \in Procs,
             \/ TagUtdAllocFails(p) \/ TagRefFails(p) \/ Retag(p) \/ TagNew(p) \/ TagAllocFails(p)
             \/ UnrefLoad(p) \/ UnrefStore(p) \/ UnrefFree(p) \/ ErrPut(p)
      PROVE  excuse \subseteq excuse' /\ ~oops
  BY <1>3 DEF TagUtdAllocFails, TagRefFails, Retag, TagNew, TagAllocFails, UnrefLoad, UnrefStore,
              UnrefFree, ErrPut
<1>4. ASSUME NEW p \in Procs,
             \/ UntagNothing(p) \/ Untag(p) \/ UntagPut(p)
             \/ DeleteSockTags(p) \/ DeletePut(p) \/ DeleteTagRefs(p) \/ DeleteNoUtd(p)
      PROVE  excuse \subseteq excuse' /\ ~oops
  BY <1>4 DEF UntagNothing, Untag, UntagPut, DeleteSockTags, DeletePut, DeleteTagRefs, DeleteNoUtd
<1>5. ASSUME NEW p \in Procs, Device(p) PROVE excuse \subseteq excuse' /\ ~oops
  BY <1>5 DEF Device, QtudevOpen, QtudevOpenFails, QtudevRelease
<1> QED
  BY <1>1, <1>2, <1>3, <1>4, <1>5 DEF Next, KernelStep

(* Only an open of the device that finds no memory leaves the lock held.   *)
LEMMA LeakStep == [Next]_vars => (leaked' => leaked \/ "utd_alloc" \in excuse')
<1> SUFFICES ASSUME [Next]_vars, leaked', ~leaked PROVE "utd_alloc" \in excuse'
  OBVIOUS
<1> USE DEF tagvars
<1>1. CASE UNCHANGED vars \/ Halted
  BY <1>1 DEF vars, Halted
<1>2. ASSUME NEW p \in Procs, Command(p) \/ Sockets(p) \/ ReleasePut(p) PROVE leaked' = leaked
  BY <1>2 DEF Command, TagRefused, UntagLookup, TagLookup, DeleteCall, Sockets, NewSocket, CloseSocket,
              PassSocket, ReleasePut
<1>3. ASSUME NEW p \in Procs, KernelStep(p) PROVE leaked' = leaked
  BY <1>3 DEF KernelStep, TagUtdAllocFails, TagRefFails, Retag, TagNew, TagAllocFails, UnrefLoad,
              UnrefStore, UnrefFree, ErrPut, UntagNothing, Untag, UntagPut, DeleteSockTags, DeletePut,
              DeleteTagRefs, DeleteNoUtd
<1>4. ASSUME NEW p \in Procs, Device(p) PROVE leaked' = leaked \/ "utd_alloc" \in excuse'
  BY <1>4 DEF Device, QtudevOpen, QtudevOpenFails, QtudevRelease, Excuse
<1> QED
  BY <1>1, <1>2, <1>3, <1>4 DEF Next

LEMMA CountsStep == TypeOK /\ CountsExact /\ [Next]_vars => CountsExact'
<1> SUFFICES ASSUME TypeOK, CountsExact, [Next]_vars, "unlocked" \notin excuse', ~oops'
             PROVE  RefCounted' /\ UtdCounted'
  BY DEF CountsExact
<1>1. "unlocked" \notin excuse /\ ~oops
  BY ExcuseGrows DEF vars
<1>2. RefCounted /\ UtdCounted
  BY <1>1 DEF CountsExact
<1>3. CASE UNCHANGED vars \/ Halted
  BY <1>2, <1>3 DEF Halted, vars, tagvars, opvars, RefCounted, UtdCounted, Tagged, Unrefing
<1>4. CASE \E p \in Procs : Command(p) \/ KernelStep(p) \/ ReleasePut(p) \/ Device(p) \/ Sockets(p)
  BY <1>1, <1>2, <1>4, RefStep, UtdStep
<1> QED
  BY <1>3, <1>4 DEF Next

(* The reference counts of tag_ref and uid_tag_data are exact, and no      *)
(* counted tag or uid is without its entry, as long as the unlocked part   *)
(* of ctrl_cmd_tag has not been cut into.                                  *)
THEOREM CountsCorrect == Spec => []CountsExact
<1>1. Init => CountsExact
  <2> SUFFICES ASSUME Init PROVE RefCounted /\ UtdCounted
    BY DEF CountsExact
  <2>1. \A t \in Tags : Tagged(t) = {} /\ Unrefing(t) = {}
    BY QtaguidAssumption DEF Init, Tagged, Unrefing, Tags
  <2>2. \A u \in Uids : TagsOf(refs, u) = {} /\ PqdsOf(pqd, u) = {}
    BY DEF Init, TagsOf, PqdsOf
  <2>3. RefCounted
    BY <2>1, FS_EmptySet, SMTT(30) DEF Init, RefCounted
  <2>4. UtdCounted
    <3>1. \A u \in Uids : active[u] = 0 /\ npqd[u] = 0
      BY DEF Init
    <3>2. MaxTags >= 0 /\ Cardinality({}) = 0
      BY FS_EmptySet, QtaguidAssumption
    <3> QED
      BY <2>2, <3>1, <3>2 DEF UtdCounted
  <2> QED
    BY <2>3, <2>4
<1> QED
  BY <1>1, CountsStep, TypeCorrect, PTL DEF Spec

(* No BUG_ON fires, no bad pointer is followed and no call returns with    *)
(* the lock held, if user space opens the device first, memory for a       *)
(* uid_tag_data is found and nothing cuts into the unlocked part of        *)
(* ctrl_cmd_tag: each BUG_ON of the delete and release paths is refuted by *)
(* the counts, each list_del by the lists.                                 *)
THEOREM NeverOops == Spec => []NoOops
<1>1. Init => NoOops
  BY DEF Init, NoOops
<1>2. TypeOK /\ CountsExact /\ ListsTrackTags /\ NoOops /\ [Next]_vars => NoOops'
  <2> SUFFICES ASSUME TypeOK, CountsExact, ListsTrackTags, NoOops, [Next]_vars, excuse' = {}
               PROVE  ~oops' /\ ~leaked'
    BY DEF NoOops
  <2>1. excuse = {} /\ ~oops /\ ~leaked
    BY ExcuseGrows DEF NoOops
  <2>5. ~leaked'
    BY <2>1, LeakStep
  <2>2. RefCounted /\ UtdCounted
    BY <2>1 DEF CountsExact
  <2>3. CASE UNCHANGED vars \/ Halted
    BY <2>1, <2>3, <2>5 DEF Halted, vars
  <2>4. CASE \E p \in Procs : Command(p) \/ KernelStep(p) \/ ReleasePut(p) \/ Device(p) \/ Sockets(p)
    BY <2>1, <2>2, <2>4, <2>5, CrashStep
  <2> QED
    BY <2>3, <2>4 DEF Next
<1> QED
  BY <1>1, <1>2, TypeCorrect, CountsCorrect, ListsCorrect, PTL DEF Spec
=============================================================================
