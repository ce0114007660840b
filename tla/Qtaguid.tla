------------------------------ MODULE Qtaguid ------------------------------
(***************************************************************************)
(* Socket tags of src/modules/netfilter/xt_qtaguid.c: the commands t, u    *)
(* and d of /proc/net/xt_qtaguid/ctrl, open and release of                 *)
(* /dev/xt_qtaguid, and the reference counts that tie sock_tag, tag_ref,   *)
(* uid_tag_data, proc_qtu_data and the file of a socket together.          *)
(*                                                                         *)
(* The target has one processor, so what the code does under               *)
(* spin_lock_bh is one step; what it does outside is a step of its own.    *)
(* A BUG_ON that fires or a bad pointer followed stops the system (oops).  *)
(* The counters of tag_stat and the counter sets are not in this module.   *)
(***************************************************************************)
EXTENDS Integers, FiniteSets

CONSTANTS
  Procs,    \* processes (tgids)
  Uids,
  Uid,      \* current_fsuid() of a process
  Priv,     \* processes for which can_manipulate_uids() holds
  ATags,    \* accounting tags
  ZERO,     \* the accounting tag 0
  Socks,    \* sockets, which are also their files
  MaxTags,  \* max_sock_tags
  NONE

ASSUME QtaguidAssumption ==
  /\ IsFiniteSet(Procs) /\ IsFiniteSet(Uids) /\ IsFiniteSet(ATags) /\ IsFiniteSet(Socks)
  /\ Uid \in [Procs -> Uids] /\ Priv \subseteq Procs /\ ZERO \in ATags
  /\ MaxTags \in Nat
  /\ NONE \notin Procs /\ NONE \notin Socks /\ NONE \notin ATags \X Uids

Tags   == ATags \X Uids         \* combine_atag_with_uid()
ATag(t)  == t[1]
UidOf(t) == t[2]

VARIABLES
  stag,    \* sock_tag_tree: the tag of each socket, NONE if it has no sock_tag
  link,    \* the process on whose sock_tag_list the sock_tag is, NONE if on none
  refs,    \* tag_refs that exist, over all uid_tag_data
  num,     \* num_sock_tags of each tag_ref
  utd,     \* uids with a uid_tag_data
  active,  \* num_active_tags of each uid
  npqd,    \* num_pqd of each uid
  pqd,     \* processes with a proc_qtu_data, i.e. with /dev/xt_qtaguid open
  fds,     \* sockets that a process has a descriptor of
  fref,    \* f_count of each socket's file
  op, sk, tg, reg, tofree,  \* the command a process has under way: step, socket,
                            \* tag, num_sock_tags as loaded, sock_tags to free
  relfree, \* sock_tags a release has taken off and not yet put
  stale,   \* processes whose sock_tag_list holds a freed sock_tag
  dangling, \* processes whose tag_ref_entry in ctrl_cmd_tag has been freed
  leaked,  \* a call has returned with uid_tag_data_tree_lock held
  oops,    \* the system has stopped
  excuse   \* history: what the system was put through, see Excuses

tagvars == <<stag, link, refs, num, utd, active, npqd, pqd, stale, dangling>>
opvars  == <<op, sk, tg, reg, tofree>>
vars    == <<tagvars, fds, fref, opvars, relfree, leaked, oops, excuse>>

Excuses == {"forgot_open",  \* a tag or untag by a process without proc_qtu_data
            "utd_alloc",    \* kzalloc of a uid_tag_data failed
            "unlocked"}     \* the unlocked part of ctrl_cmd_tag was interrupted

Bool(b) == IF b THEN 1 ELSE 0
Excuse(e) == excuse' = excuse \cup {e}
At(p, step)   == ~oops /\ op[p] = step
Goto(p, step) == op' = [op EXCEPT ![p] = step]
Return(p) ==
  /\ Goto(p, "idle") /\ sk' = [sk EXCEPT ![p] = NONE] /\ tg' = [tg EXCEPT ![p] = NONE]
  /\ reg' = [reg EXCEPT ![p] = 0] /\ tofree' = [tofree EXCEPT ![p] = {}]
Crash == oops' = TRUE

TagsOf(R, u) == {t \in R : UidOf(t) = u}
PqdsOf(P, u) == {p \in P : Uid[p] = u}
Tagged(t)    == {s \in Socks : stag[s] = t}
MayUse(p, u) == u = Uid[p] \/ p \in Priv          \* can_impersonate_uid()

-----------------------------------------------------------------------------
(* Sockets and their descriptors, as user space makes and closes them.     *)

NewSocket(p, s) ==
  /\ ~oops /\ fref[s] = 0
  /\ fds' = [fds EXCEPT ![p] = @ \cup {s}] /\ fref' = [fref EXCEPT ![s] = 1]
  /\ UNCHANGED <<tagvars, opvars, relfree, leaked, oops, excuse>>

PassSocket(p, q, s) ==
  /\ ~oops /\ s \in fds[p] /\ s \notin fds[q]
  /\ fds' = [fds EXCEPT ![q] = @ \cup {s}] /\ fref' = [fref EXCEPT ![s] = @ + 1]
  /\ UNCHANGED <<tagvars, opvars, relfree, leaked, oops, excuse>>

CloseSocket(p, s) ==
  /\ ~oops /\ s \in fds[p]
  /\ fds' = [fds EXCEPT ![p] = @ \ {s}] /\ fref' = [fref EXCEPT ![s] = @ - 1]
  /\ UNCHANGED <<tagvars, opvars, relfree, leaked, oops, excuse>>

-----------------------------------------------------------------------------
(* ctrl_cmd_tag.  sockfd_lookup pins the file, then everything up to the   *)
(* unlock of sock_tag_list_lock is one step.                               *)

TagLookup(p, s, t) ==
  /\ At(p, "idle") /\ s \in fds[p] /\ MayUse(p, UidOf(t))
  /\ fref' = [fref EXCEPT ![s] = @ + 1]
  /\ Goto(p, "tag") /\ sk' = [sk EXCEPT ![p] = s] /\ tg' = [tg EXCEPT ![p] = t]
  /\ UNCHANGED <<tagvars, fds, reg, tofree, relfree, leaked, oops, excuse>>

(* An invalid tag, or a uid the caller may not tag for.                    *)
TagRefused(p, s) ==
  /\ At(p, "idle") /\ s \in fds[p]
  /\ fref' = [fref EXCEPT ![s] = @ + 1]
  /\ Goto(p, "put") /\ sk' = [sk EXCEPT ![p] = s]
  /\ UNCHANGED <<tagvars, fds, tg, reg, tofree, relfree, leaked, oops, excuse>>

InTag(p) == At(p, "tag")

(* get_tag_ref: BUG_ON(IS_ERR_OR_NULL(utd_entry)) if there is no memory,   *)
(* although its caller is ready for a PTR_ERR.                             *)
TagUtdAllocFails(p) ==
  /\ InTag(p) /\ UidOf(tg[p]) \notin utd
  /\ Crash /\ Excuse("utd_alloc")
  /\ UNCHANGED <<tagvars, fds, fref, opvars, relfree, leaked>>

(* new_tag_ref fails: -EMFILE, or -ENOMEM.  The uid_tag_data that          *)
(* get_uid_data may have made stays.                                       *)
TagRefFails(p) ==
  /\ InTag(p) /\ tg[p] \notin refs
  /\ utd' = utd \cup {UidOf(tg[p])} /\ Goto(p, "put")
  /\ UNCHANGED <<stag, link, refs, num, active, npqd, pqd, stale, dangling, fds, fref, sk, tg, reg,
                 tofree, relfree, leaked, oops, excuse>>

(* get_tag_ref returns the tag_ref, found or new, and it is counted: k is  *)
(* the change of num_sock_tags of each tag.                                *)
HaveTagRef(t) == t \in refs \/ active[UidOf(t)] + 1 <= MaxTags
GetTagRef(t, k) ==
  /\ HaveTagRef(t)
  /\ utd' = utd \cup {UidOf(t)} /\ refs' = refs \cup {t}
  /\ active' = [active EXCEPT ![UidOf(t)] = @ + Bool(t \notin refs)]
  /\ num' = [x \in Tags |-> num[x] + k[x]]

(* Seeded fault: a retag leaves the count of the tag it replaces.          *)
Retag_keep(p) ==
  LET s == sk[p]  t == tg[p]  old == stag[s] IN
  /\ InTag(p) /\ old # NONE
  /\ GetTagRef(t, [x \in Tags |-> Bool(x = t)])
  /\ oops' = (old \notin refs \/ num[old] + Bool(old = t) <= 0)
  /\ stag' = [stag EXCEPT ![s] = t]
  /\ fref' = [fref EXCEPT ![s] = @ - 1]
  /\ Return(p)
  /\ UNCHANGED <<link, npqd, pqd, stale, dangling, fds, relfree, leaked, excuse>>

(* The socket has a tag: the reference of the first tagging is put, the    *)
(* list and pid of the sock_tag are left as they are.                      *)
Retag(p) ==
  LET s == sk[p]  t == tg[p]  old == stag[s] IN
  /\ InTag(p) /\ old # NONE
  /\ GetTagRef(t, [x \in Tags |-> Bool(x = t) - Bool(x = old)])
  /\ oops' = (old \notin refs \/ num[old] + Bool(old = t) <= 0)
  /\ stag' = [stag EXCEPT ![s] = t]
  /\ fref' = [fref EXCEPT ![s] = @ - 1]
  /\ Return(p)
  /\ UNCHANGED <<link, npqd, pqd, stale, dangling, fds, relfree, leaked, excuse>>

(* Seeded fault: the list a sock_tag is put on is found by uid, not by pid. *)
TagNew_by_uid(p) ==
  LET s == sk[p]  t == tg[p] IN
  /\ InTag(p) /\ stag[s] = NONE
  /\ GetTagRef(t, [x \in Tags |-> Bool(x = t)])
  /\ stag' = [stag EXCEPT ![s] = t]
  /\ IF p \in pqd THEN link' = [link EXCEPT ![s] = UidOf(t)] /\ UNCHANGED excuse
                  ELSE link' = link /\ Excuse("forgot_open")
  /\ Return(p)
  /\ UNCHANGED <<npqd, pqd, stale, dangling, fds, fref, relfree, leaked, oops>>

TagNew(p) ==
  LET s == sk[p]  t == tg[p] IN
  /\ InTag(p) /\ stag[s] = NONE
  /\ GetTagRef(t, [x \in Tags |-> Bool(x = t)])
  /\ stag' = [stag EXCEPT ![s] = t]
  /\ IF p \in pqd THEN link' = [link EXCEPT ![s] = p] /\ UNCHANGED excuse
                  ELSE link' = link /\ Excuse("forgot_open")
  /\ Return(p)
  /\ UNCHANGED <<npqd, pqd, stale, dangling, fds, fref, relfree, leaked, oops>>

(* Freeing a tag_ref leaves those at err_tag_unref_put with a bad pointer. *)
Dangle(p, freed) ==
  dangling' = dangling \cup
    {q \in Procs \ {p} : op[q] \in {"unref_load", "unref_store", "unref_free"} /\ tg[q] \in freed}

(* kzalloc of the sock_tag fails: on to err_tag_unref_put, without a lock. *)
TagAllocFails(p) ==
  /\ InTag(p) /\ stag[sk[p]] = NONE
  /\ GetTagRef(tg[p], [x \in Tags |-> Bool(x = tg[p])])
  /\ Goto(p, "unref_load")
  /\ UNCHANGED <<stag, link, npqd, pqd, stale, dangling, fds, fref, sk, tg, reg, tofree, relfree,
                 leaked, oops, excuse>>

UnrefLoad(p) ==
  /\ At(p, "unref_load")
  /\ reg' = [reg EXCEPT ![p] = num[tg[p]]] /\ oops' = (num[tg[p]] <= 0)
  /\ Goto(p, "unref_store")
  /\ UNCHANGED <<tagvars, fds, fref, sk, tg, tofree, relfree, leaked, excuse>>

(* The count is overwritten, whatever happened to it since it was loaded.  *)
UnrefStore(p) ==
  /\ At(p, "unref_store")
  /\ num' = [num EXCEPT ![tg[p]] = reg[p] - 1]
  /\ IF num[tg[p]] = reg[p] THEN UNCHANGED excuse ELSE Excuse("unlocked")
  /\ Goto(p, "unref_free")
  /\ UNCHANGED <<stag, link, refs, utd, active, npqd, pqd, stale, dangling, fds, fref, sk, tg, reg,
                 tofree, relfree, leaked, oops>>

(* free_tag_ref_from_utd_entry through the pointer of the lookup: a delete *)
(* or a release may have freed that tag_ref in between, also if another of *)
(* its name has been made since.                                           *)
UnrefFree(p) ==
  LET t     == tg[p]
      freed == IF num[t] = 0 THEN {t} ELSE {}
  IN
  /\ At(p, "unref_free")
  /\ IF t \notin refs \/ p \in dangling
     THEN Crash /\ Excuse("unlocked") /\ UNCHANGED <<refs, active, dangling>>
     ELSE /\ refs' = refs \ freed
          /\ active' = [active EXCEPT ![UidOf(t)] = @ - Bool(num[t] = 0)]
          /\ Dangle(p, freed) /\ UNCHANGED <<oops, excuse>>
  /\ Goto(p, "put")
  /\ UNCHANGED <<stag, link, num, utd, npqd, pqd, stale, fds, fref, sk, tg, reg, tofree, relfree,
                 leaked>>

(* Seeded fault: an error leaves the file pinned.                          *)
ErrPut_leak(p) ==
  /\ At(p, "put") /\ Return(p)
  /\ UNCHANGED <<tagvars, fds, fref, relfree, leaked, oops, excuse>>

(* err_put, of tag and of untag                                            *)
ErrPut(p) ==
  /\ At(p, "put") /\ Return(p)
  /\ fref' = [fref EXCEPT ![sk[p]] = @ - 1]
  /\ UNCHANGED <<tagvars, fds, relfree, leaked, oops, excuse>>

-----------------------------------------------------------------------------
(* ctrl_cmd_untag                                                          *)

UntagLookup(p, s) ==
  /\ At(p, "idle") /\ s \in fds[p]
  /\ fref' = [fref EXCEPT ![s] = @ + 1]
  /\ Goto(p, "untag") /\ sk' = [sk EXCEPT ![p] = s]
  /\ UNCHANGED <<tagvars, fds, tg, reg, tofree, relfree, leaked, oops, excuse>>

UntagNothing(p) ==
  /\ At(p, "untag") /\ stag[sk[p]] = NONE /\ Goto(p, "put")
  /\ UNCHANGED <<tagvars, fds, fref, sk, tg, reg, tofree, relfree, leaked, oops, excuse>>

(* Seeded fault: the sock_tag is taken out of the tree, not off its list.  *)
Untag_listed(p) ==
  LET s == sk[p]  t == stag[s] IN
  /\ At(p, "untag") /\ t # NONE
  /\ stag' = [stag EXCEPT ![s] = NONE]
  /\ num' = [num EXCEPT ![t] = @ - 1]
  /\ oops' = (t \notin refs \/ num[t] <= 0)
  /\ Goto(p, "untag_put")
  /\ UNCHANGED <<link, refs, utd, active, npqd, pqd, stale, dangling, fds, fref, sk, tg, reg, tofree,
                 relfree, leaked, excuse>>

(* list_del only if the CALLER has a proc_qtu_data: of an entry that was   *)
(* never on a list it follows a null pointer; without it the entry is      *)
(* freed while its owner's list still holds it.                            *)
Untag(p) ==
  LET s == sk[p]  t == stag[s] IN
  /\ At(p, "untag") /\ t # NONE
  /\ stag' = [stag EXCEPT ![s] = NONE] /\ link' = [link EXCEPT ![s] = NONE]
  /\ num' = [num EXCEPT ![t] = @ - 1]
  /\ oops' = (t \notin refs \/ num[t] <= 0 \/ (p \in pqd /\ link[s] = NONE))
  /\ IF p \in pqd THEN UNCHANGED <<stale, excuse>>
     ELSE stale' = stale \cup ({link[s]} \ {NONE}) /\ Excuse("forgot_open")
  /\ Goto(p, "untag_put")
  /\ UNCHANGED <<refs, utd, active, npqd, pqd, dangling, fds, fref, sk, tg, reg, tofree, relfree,
                 leaked>>

(* Seeded fault: only the reference of the lookup is put.                  *)
UntagPut_once(p) ==
  /\ At(p, "untag_put") /\ Return(p)
  /\ fref' = [fref EXCEPT ![sk[p]] = @ - 1]
  /\ UNCHANGED <<tagvars, fds, relfree, leaked, oops, excuse>>

(* The reference of the tagging and that of this call's lookup.            *)
UntagPut(p) ==
  /\ At(p, "untag_put") /\ Return(p)
  /\ fref' = [fref EXCEPT ![sk[p]] = @ - 2]
  /\ UNCHANGED <<tagvars, fds, relfree, leaked, oops, excuse>>

-----------------------------------------------------------------------------
(* ctrl_cmd_delete.  Its steps on tag_counter_set_tree and on the          *)
(* tag_stats of the interfaces, between the puts and the last step, touch  *)
(* nothing of this module.                                                 *)

DeleteCall(p, t) ==
  /\ At(p, "idle") /\ MayUse(p, UidOf(t))
  /\ Goto(p, "del") /\ tg' = [tg EXCEPT ![p] = t]
  /\ UNCHANGED <<tagvars, fds, fref, sk, reg, tofree, relfree, leaked, oops, excuse>>

Covers(t, x) == UidOf(x) = UidOf(t) /\ (ATag(t) = ZERO \/ x = t)
CountIn(M, x) == Cardinality({s \in M : stag[s] = x})

(* Seeded fault: deleted sock_tags stay counted.                           *)
DeleteSockTags_uncounted(p) ==
  LET M == {s \in Socks : stag[s] # NONE /\ Covers(tg[p], stag[s])} IN
  /\ At(p, "del")
  /\ stag' = [s \in Socks |-> IF s \in M THEN NONE ELSE stag[s]]
  /\ link' = [s \in Socks |-> IF s \in M THEN NONE ELSE link[s]]
  /\ oops' = \E s \in M : stag[s] \notin refs \/ num[stag[s]] < CountIn(M, stag[s])
  /\ tofree' = [tofree EXCEPT ![p] = M]
  /\ Goto(p, "del_put")
  /\ UNCHANGED <<refs, num, utd, active, npqd, pqd, stale, dangling, fds, fref, sk, tg, reg, relfree,
                 leaked, excuse>>

DeleteSockTags(p) ==
  LET M == {s \in Socks : stag[s] # NONE /\ Covers(tg[p], stag[s])} IN
  /\ At(p, "del")
  /\ stag' = [s \in Socks |-> IF s \in M THEN NONE ELSE stag[s]]
  /\ link' = [s \in Socks |-> IF s \in M THEN NONE ELSE link[s]]
  /\ num' = [x \in Tags |-> num[x] - CountIn(M, x)]
  /\ oops' = \E s \in M : stag[s] \notin refs \/ num[stag[s]] < CountIn(M, stag[s])
  /\ tofree' = [tofree EXCEPT ![p] = M]
  /\ Goto(p, "del_put")
  /\ UNCHANGED <<refs, utd, active, npqd, pqd, stale, dangling, fds, fref, sk, tg, reg, relfree,
                 leaked, excuse>>

DeletePut(p) ==
  /\ At(p, "del_put") /\ Goto(p, "del_utd")
  /\ fref' = [s \in Socks |-> fref[s] - Bool(s \in tofree[p])]
  /\ tofree' = [tofree EXCEPT ![p] = {}]
  /\ UNCHANGED <<tagvars, fds, sk, tg, reg, relfree, leaked, oops, excuse>>

(* put_utd_entry fires a BUG_ON when the counts disagree with the tree.    *)
UtdBug(u, R, act, n) ==
  IF TagsOf(R, u) = {} /\ n = 0 THEN act # 0 ELSE act = 0 /\ n = 0

(* Seeded fault: tag_refs are freed whether or not sockets use them.       *)
DeleteTagRefs_inuse(p) ==
  LET u     == UidOf(tg[p])
      freed == {x \in refs : Covers(tg[p], x)}
  IN
  /\ At(p, "del_utd") /\ u \in utd
  /\ refs' = refs \ freed
  /\ active' = [active EXCEPT ![u] = @ - Cardinality(freed)]
  /\ oops' = (active[u] < Cardinality(freed) \/ UtdBug(u, refs', active'[u], npqd[u]))
  /\ utd' = IF TagsOf(refs', u) = {} /\ npqd[u] = 0 THEN utd \ {u} ELSE utd
  /\ Return(p) /\ Dangle(p, freed)
  /\ UNCHANGED <<stag, link, num, npqd, pqd, stale, fds, fref, relfree, leaked, excuse>>

(* put_tag_ref_tree and put_utd_entry of the uid_tag_data, if there is one *)
DeleteTagRefs(p) ==
  LET u     == UidOf(tg[p])
      freed == {x \in refs : Covers(tg[p], x) /\ num[x] = 0}
  IN
  /\ At(p, "del_utd") /\ u \in utd
  /\ refs' = refs \ freed
  /\ active' = [active EXCEPT ![u] = @ - Cardinality(freed)]
  /\ oops' = (active[u] < Cardinality(freed) \/ UtdBug(u, refs', active'[u], npqd[u]))
  /\ utd' = IF TagsOf(refs', u) = {} /\ npqd[u] = 0 THEN utd \ {u} ELSE utd
  /\ Return(p) /\ Dangle(p, freed)
  /\ UNCHANGED <<stag, link, num, npqd, pqd, stale, fds, fref, relfree, leaked, excuse>>

DeleteNoUtd(p) ==
  /\ At(p, "del_utd") /\ UidOf(tg[p]) \notin utd /\ Return(p)
  /\ UNCHANGED <<tagvars, fds, fref, relfree, leaked, oops, excuse>>

-----------------------------------------------------------------------------
(* /dev/xt_qtaguid                                                         *)

(* The failures -EBUSY and -ENOMEM of the proc_qtu_data change nothing: a  *)
(* new uid_tag_data is taken out again.                                    *)
QtudevOpen(p) ==
  /\ ~oops /\ p \notin pqd
  /\ pqd' = pqd \cup {p} /\ utd' = utd \cup {Uid[p]}
  /\ npqd' = [npqd EXCEPT ![Uid[p]] = @ + 1]
  /\ UNCHANGED <<stag, link, refs, num, active, stale, dangling, fds, fref, opvars, relfree, leaked, oops,
                 excuse>>

(* get_uid_data has no memory: "goto err" passes by the unlock, although   *)
(* get_uid_data says "Returns a PTR_ERR on failures, and lock is not held". *)
QtudevOpenFails(p) ==
  /\ ~oops /\ Uid[p] \notin utd
  /\ leaked' = TRUE /\ Excuse("utd_alloc")
  /\ UNCHANGED <<tagvars, fds, fref, opvars, relfree, oops>>

(* Every sock_tag on the list is freed, its tag_ref if that was the last,  *)
(* and each uid_tag_data nothing refers to any more.                       *)
QtudevRelease(p) ==
  LET L     == {s \in Socks : link[s] = p}
      after == [x \in Tags |-> num[x] - CountIn(L, x)]
      freed == {x \in refs : after[x] = 0 /\ \E s \in L : stag[s] = x}
      left  == [npqd EXCEPT ![Uid[p]] = @ - 1]
      touched == {UidOf(stag[s]) : s \in L} \cup {Uid[p]}
  IN
  /\ ~oops /\ p \in pqd
  /\ relfree[p] = {}      \* bound: the puts of the last release are done
  /\ stag' = [s \in Socks |-> IF s \in L THEN NONE ELSE stag[s]]
  /\ link' = [s \in Socks |-> IF s \in L THEN NONE ELSE link[s]]
  /\ num' = after /\ refs' = refs \ freed /\ npqd' = left /\ pqd' = pqd \ {p}
  /\ active' = [u \in Uids |-> active[u] - Cardinality(TagsOf(freed, u))]
  /\ utd' = utd \ {u \in touched : TagsOf(refs', u) = {} /\ left[u] = 0}
  /\ oops' = (\/ p \in stale
              \/ \E s \in L : stag[s] \notin refs \/ after[stag[s]] < 0
              \/ npqd[Uid[p]] < 1
              \/ \E u \in touched : UtdBug(u, refs', active'[u], left[u]))
  /\ relfree' = [relfree EXCEPT ![p] = L] /\ Dangle(NONE, freed)
  /\ UNCHANGED <<stale, fds, fref, opvars, leaked, excuse>>

ReleasePut(p) ==
  /\ ~oops /\ relfree[p] # {}
  /\ fref' = [s \in Socks |-> fref[s] - Bool(s \in relfree[p])]
  /\ relfree' = [relfree EXCEPT ![p] = {}]
  /\ UNCHANGED <<tagvars, fds, opvars, leaked, oops, excuse>>

-----------------------------------------------------------------------------
Init ==
  /\ stag = [s \in Socks |-> NONE] /\ link = [s \in Socks |-> NONE]
  /\ refs = {} /\ num = [t \in Tags |-> 0]
  /\ utd = {} /\ active = [u \in Uids |-> 0] /\ npqd = [u \in Uids |-> 0]
  /\ pqd = {} /\ stale = {} /\ dangling = {} /\ fds = [p \in Procs |-> {}] /\ fref = [s \in Socks |-> 0]
  /\ op = [p \in Procs |-> "idle"] /\ sk = [p \in Procs |-> NONE] /\ tg = [p \in Procs |-> NONE]
  /\ reg = [p \in Procs |-> 0] /\ tofree = [p \in Procs |-> {}]
  /\ relfree = [p \in Procs |-> {}] /\ leaked = FALSE /\ oops = FALSE /\ excuse = {}

Command(p) ==
  \/ \E s \in Socks : TagRefused(p, s) \/ UntagLookup(p, s) \/ \E t \in Tags : TagLookup(p, s, t)
  \/ \E t \in Tags : DeleteCall(p, t)
KernelStep(p) ==
  \/ TagUtdAllocFails(p) \/ TagRefFails(p) \/ Retag(p) \/ TagNew(p) \/ TagAllocFails(p)
  \/ UnrefLoad(p) \/ UnrefStore(p) \/ UnrefFree(p) \/ ErrPut(p)
  \/ UntagNothing(p) \/ Untag(p) \/ UntagPut(p)
  \/ DeleteSockTags(p) \/ DeletePut(p) \/ DeleteTagRefs(p) \/ DeleteNoUtd(p)
Device(p) == QtudevOpen(p) \/ QtudevOpenFails(p) \/ QtudevRelease(p)
Sockets(p) ==
  \E s \in Socks : \/ NewSocket(p, s) \/ CloseSocket(p, s)
                   \/ \E q \in Procs : PassSocket(p, q, s)
Halted == oops /\ UNCHANGED vars

Next ==
  \/ \E p \in Procs : Command(p) \/ KernelStep(p) \/ ReleasePut(p) \/ Device(p) \/ Sockets(p)
  \/ Halted

Spec == Init /\ [][Next]_vars

(* A process in the kernel runs on; user space need not do anything.       *)
FairSpec == Spec /\ \A p \in Procs : WF_vars(KernelStep(p)) /\ WF_vars(ReleasePut(p))

-----------------------------------------------------------------------------
(* Properties *)

Steps == {"idle", "tag", "unref_load", "unref_store", "unref_free", "put", "untag", "untag_put",
          "del", "del_put", "del_utd"}

TypeOK ==
  /\ \A p \in Procs :
       /\ op[p] \in {"tag", "unref_load", "unref_store", "unref_free", "del", "del_put", "del_utd"}
            => tg[p] \in Tags
       /\ op[p] \in {"tag", "unref_load", "unref_store", "unref_free", "put", "untag", "untag_put"}
            => sk[p] \in Socks
  /\ stag \in [Socks -> Tags \cup {NONE}] /\ link \in [Socks -> Procs \cup {NONE}]
  /\ refs \subseteq Tags /\ num \in [Tags -> Int] /\ utd \subseteq Uids
  /\ active \in [Uids -> Int] /\ npqd \in [Uids -> Int] /\ pqd \subseteq Procs
  /\ fds \in [Procs -> SUBSET Socks] /\ fref \in [Socks -> Int]
  /\ op \in [Procs -> Steps] /\ sk \in [Procs -> Socks \cup {NONE}]
  /\ tg \in [Procs -> Tags \cup {NONE}] /\ reg \in [Procs -> Int]
  /\ tofree \in [Procs -> SUBSET Socks] /\ relfree \in [Procs -> SUBSET Socks]
  /\ stale \subseteq Procs /\ dangling \subseteq Procs
  /\ leaked \in BOOLEAN /\ oops \in BOOLEAN /\ excuse \subseteq Excuses

Unrefing(t) == {p \in Procs : op[p] \in {"unref_load", "unref_store"} /\ tg[p] = t}

(* num_sock_tags counts the sockets that carry the tag, and the failed     *)
(* taggings still to be taken back; a tag that is counted has its tag_ref. *)
RefCounted ==
  \A t \in Tags :
    /\ num[t] = Cardinality(Tagged(t)) + Cardinality(Unrefing(t))
    /\ num[t] > 0 => t \in refs

(* num_active_tags is the number of tag_refs, which max_sock_tags bounds;  *)
(* num_pqd the number of proc_qtu_data; neither outlives its uid_tag_data. *)
UtdCounted ==
  \A u \in Uids :
    /\ active[u] = Cardinality(TagsOf(refs, u)) /\ active[u] <= MaxTags
    /\ npqd[u] = Cardinality(PqdsOf(pqd, u))
    /\ active[u] > 0 \/ npqd[u] > 0 => u \in utd

(* While nothing has cut into the unlocked part of ctrl_cmd_tag, the       *)
(* reference counts are exact.                                             *)
CountsExact == "unlocked" \notin excuse /\ ~oops => RefCounted /\ UtdCounted

(* The references that pin a socket's file: descriptors, its sock_tag, the *)
(* calls under way, the sock_tags taken out and not yet freed.             *)
Holders(s)  == {p \in Procs : s \in fds[p]}
Callers(s)  == {p \in Procs : op[p] \notin {"idle", "del", "del_put", "del_utd"} /\ sk[p] = s}
Untaggers(s) == {p \in Procs : op[p] = "untag_put" /\ sk[p] = s}
Deleters(s)  == {p \in Procs : s \in tofree[p]}
Releasers(s) == {p \in Procs : s \in relfree[p]}
Pins(s) ==
    Cardinality(Holders(s)) + Bool(stag[s] # NONE)
  + Cardinality(Callers(s)) + Cardinality(Untaggers(s))
  + Cardinality(Deleters(s)) + Cardinality(Releasers(s))

(* "We keep the ref to the socket (file) until it is untagged": whatever   *)
(* closes, retags, untags, deletes or fails in whatever order, f_count is  *)
(* exact, so no tagged socket is freed and none is pinned for ever.        *)
FilePinned == ~oops => \A s \in Socks : fref[s] = Pins(s)

(* proc_qtu_data "Tracks the sock_tags that need freeing upon this proc's  *)
(* death": if user space opens the device before it tags and untags, every *)
(* sock_tag is on the list of one live proc_qtu_data and the lists hold    *)
(* nothing else.                                                           *)
ListsTrackTags ==
  "forgot_open" \notin excuse /\ ~oops =>
    /\ stale = {}
    /\ \A s \in Socks : IF stag[s] = NONE THEN link[s] = NONE ELSE link[s] \in pqd

(* No BUG_ON fires, no bad pointer is followed and no call returns with    *)
(* the lock held, if user space opens the device first, memory for a       *)
(* uid_tag_data is found and nothing cuts into the unlocked part of        *)
(* ctrl_cmd_tag.                                                           *)
NoOops == excuse = {} => ~oops /\ ~leaked

(* A closed and untagged socket's file is put in the end.                  *)
FileReleased ==
  \A s \in Socks :
    (stag[s] = NONE /\ \A p \in Procs : s \notin fds[p]) ~> (fref[s] = 0 \/ stag[s] # NONE \/ oops)

(* What is implemented                                                     *)

Map == INSTANCE SockTags WITH tag <- stag, by <- link, live <- {s \in Socks : fref[s] > 0}

(* The trees, lists and counts of Qtaguid, with every command cut where it *)
(* drops a lock, amount to a map from sockets to tags: however commands,   *)
(* failures and deaths interleave, a tag is given with authority, goes     *)
(* only by an untag, a delete that concerns it or the death of its giver,  *)
(* and no tagged socket disappears.                                        *)
ImplementsSockTags == Map!MapSpec

(* What the code says and does not do ------------------------------------ *)

(* ctrl_cmd_delete and ctrl_cmd_untag work "around apps that didn't open   *)
(* the /dev/xt_qtaguid".                                                   *)
ForgivesForgottenOpen == excuse \subseteq {"forgot_open"} => ~oops

(* tag_ref_tree: "No tag_node_tree_lock; use uid_tag_data_tree_lock".      *)
CountsExactAlways == excuse \subseteq {"unlocked"} => ~oops /\ RefCounted /\ UtdCounted
=============================================================================
