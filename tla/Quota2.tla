------------------------------- MODULE Quota2 -------------------------------
(***************************************************************************)
(* Named quota counters of src/modules/netfilter/xt_quota2.c: rules of     *)
(* several tables share a counter by its name, tables are replaced while   *)
(* others are in use, packets are matched in between.                      *)
(*                                                                         *)
(* A table is replaced as the kernel does it: every new rule is checked,   *)
(* the new table put in force, every old rule destroyed; if a rule is      *)
(* refused, those already checked are destroyed and the old table stays.   *)
(***************************************************************************)
EXTENDS Integers, Sequences, FiniteSets

CONSTANTS
  Rules,       \* rules as user space may load them; a name is written once per rule
  Table,       \* the table of a rule
  Name,        \* the counter's name, or ANON for the empty name
  Kind,        \* "bytes", "packets" (XT_QUOTA_PACKET) or "grow"
  Fixed,       \* rules with XT_QUOTA_NO_CHANGE
  Quota,       \* the quota a rule is loaded with
  Lengths, Writes, \* packet lengths; what is written to /proc/net/xt_quota
  ANON, NONE, MaxCounters, MaxQuota

Names    == {Name[r] : r \in Rules}
Counters == [name : Names, quota : Nat, ref : Nat, listed : BOOLEAN]

QuotaAssumption ==
  /\ IsFiniteSet(Rules) /\ Quota \in [Rules -> Nat] /\ NONE \notin Nat \cup Counters
  /\ Lengths \subseteq Nat \ {0} /\ Writes \subseteq Nat

VARIABLES
  inForce,  \* rules of the tables in use
  loading, dying,  \* rules checked for a table not yet in force; rules to destroy
  master,   \* q->master of each rule, or NONE
  counter,  \* the counters: name, quota, ref, whether on counter_list, or NONE if free
  files,    \* /proc/net/xt_quota, the newest first: name and counter
  missed,   \* rules whose lookup failed and that are allocating a counter
  due,      \* history: what a counter was given less what rules took from it
  slept     \* a task has slept in kmalloc or create_proc_entry under counter_list_lock

quotavars == <<inForce, loading, dying, master, counter, files, missed, due, slept>>

Cs == 1..MaxCounters
Live == {c \in Cs : counter[c] # NONE}
Listed(n) == {c \in Live : counter[c].listed /\ counter[c].name = n}
Same(r) == {x \in Rules : Table[x] = Table[r]}
Holding == {r \in Rules : master[r] # NONE}
Free(c) == counter' = [counter EXCEPT ![c] = NONE] /\ due' = [due EXCEPT ![c] = 0]

-----------------------------------------------------------------------------
(* quota_mt2_check and q2_get_counter.  One replacement of a table is      *)
(* under way at a time.  counter_list_lock keeps others out, unless its    *)
(* holder sleeps: it allocates with GFP_KERNEL.                            *)
MayCheck(r) == r \notin inForce \cup loading \cup dying \cup missed
               /\ Same(r) \cap (dying \cup missed) = {}
Locked == missed # {}

(* Seeded fault: a rule that finds its counter does not take a reference.  *)
CheckFinds_noref(r) ==
  /\ MayCheck(r) /\ Name[r] # ANON
  /\ \E c \in Listed(Name[r]) : master' = [master EXCEPT ![r] = c]
  /\ counter' = counter
  /\ loading' = loading \cup {r} /\ slept' = (slept \/ Locked)
  /\ UNCHANGED <<inForce, dying, files, missed, due>>

CheckFinds(r) ==
  /\ MayCheck(r) /\ Name[r] # ANON
  /\ \E c \in Listed(Name[r]) : /\ master' = [master EXCEPT ![r] = c]
                                /\ counter' = [counter EXCEPT ![c].ref = @ + 1]
  /\ loading' = loading \cup {r} /\ slept' = (slept \/ Locked)
  /\ UNCHANGED <<inForce, dying, files, missed, due>>

CheckMisses(r) ==
  /\ MayCheck(r) /\ Name[r] # ANON /\ Listed(Name[r]) = {}
  /\ missed' = missed \cup {r} /\ slept' = (slept \/ Locked)
  /\ UNCHANGED <<inForce, loading, dying, master, counter, files, due>>

Made(r, c, anon) ==
  /\ counter[c] = NONE /\ \A d \in Cs : d < c => counter[d] # NONE
  /\ counter' = [counter EXCEPT ![c] =
       [name |-> Name[r], quota |-> Quota[r], ref |-> IF anon THEN 0 ELSE 1, listed |-> ~anon]]
  /\ master' = [master EXCEPT ![r] = c] /\ loading' = loading \cup {r}
  /\ due' = [due EXCEPT ![c] = Quota[r]]

(* q2_new_counter and its file                                             *)
CheckMakes(r) ==
  /\ r \in missed /\ missed' = missed \ {r}
  /\ \E c \in Cs : Made(r, c, FALSE) /\ files' = <<<<Name[r], c>>>> \o files
  /\ UNCHANGED <<inForce, dying, slept>>

CheckAnonymous(r) ==
  /\ MayCheck(r) /\ Name[r] = ANON /\ \E c \in Cs : Made(r, c, TRUE)
  /\ UNCHANGED <<inForce, dying, files, missed, slept>>

(* No memory, or no file: the rule is refused and what was loaded of its   *)
(* table is destroyed.                                                     *)
CheckFails(r) ==
  /\ r \in missed \/ (MayCheck(r) /\ Name[r] = ANON)
  /\ missed' = missed \ {r}
  /\ dying' = dying \cup (loading \cap Same(r)) /\ loading' = loading \ Same(r)
  /\ UNCHANGED <<inForce, master, counter, files, due, slept>>

(* The new table of a rule's family takes over; it may be empty.           *)
Replace(r) ==
  /\ Same(r) \cap (dying \cup missed) = {}
  /\ Same(r) \cap (loading \cup inForce) # {}
  /\ inForce' = (inForce \ Same(r)) \cup (loading \cap Same(r))
  /\ dying' = dying \cup (inForce \cap Same(r)) /\ loading' = loading \ Same(r)
  /\ UNCHANGED <<master, counter, files, missed, due, slept>>

-----------------------------------------------------------------------------
(* remove_proc_entry takes the first file of that name                     *)
Without(n) ==
  LET hits == {k \in 1..Len(files) : files[k][1] = n}
  IN  IF hits = {} THEN files
      ELSE LET k == CHOOSE k \in hits : \A j \in hits : k <= j
           IN  SubSeq(files, 1, k - 1) \o SubSeq(files, k + 1, Len(files))

(* quota_mt2_destroy                                                       *)
Destroy(r) ==
  LET c == master[r] IN
  /\ r \in dying /\ dying' = dying \ {r} /\ master' = [master EXCEPT ![r] = NONE]
  /\ slept' = (slept \/ (Locked /\ Name[r] # ANON))
  /\ IF Name[r] = ANON THEN Free(c) /\ files' = files
     ELSE IF counter[c].ref = 1 THEN Free(c) /\ files' = Without(Name[r])
     ELSE counter' = [counter EXCEPT ![c].ref = @ - 1] /\ UNCHANGED <<due, files>>
  /\ UNCHANGED <<inForce, loading, missed>>

-----------------------------------------------------------------------------
(* quota_mt2, a packet of n bytes at a rule in force                       *)
Cost(r, n) == IF r \in Fixed THEN 0 ELSE IF Kind[r] = "packets" THEN 1 ELSE n
Enough(r, c, n) == counter[c].quota >= n
Grow(r, n) ==
  LET c == master[r] IN
  /\ r \in inForce /\ Kind[r] = "grow"
  /\ due[c] + Cost(r, n) <= MaxQuota
  /\ counter' = [counter EXCEPT ![c].quota = @ + Cost(r, n)]
  /\ due' = [due EXCEPT ![c] = @ + Cost(r, n)]
  /\ UNCHANGED <<inForce, loading, dying, master, files, missed, slept>>

Take(r, n) ==
  LET c == master[r] IN
  /\ r \in inForce /\ Kind[r] # "grow" /\ Enough(r, c, n)
  /\ counter' = [counter EXCEPT ![c].quota = @ - Cost(r, n)]
  /\ due' = [due EXCEPT ![c] = @ - Cost(r, n)]
  /\ UNCHANGED <<inForce, loading, dying, master, files, missed, slept>>

(* A packet that does not fit uses up the rest, NO_CHANGE or not.          *)
Exhaust(r, n) ==
  LET c == master[r] IN
  /\ r \in inForce /\ Kind[r] # "grow" /\ ~Enough(r, c, n)
  /\ counter' = [counter EXCEPT ![c].quota = 0]
  /\ UNCHANGED <<inForce, loading, dying, master, files, missed, due, slept>>

(* quota_proc_write                                                        *)
Write(k, v) ==
  LET c == files[k][2] IN
  /\ k \in 1..Len(files) /\ counter[c] # NONE
  /\ counter' = [counter EXCEPT ![c].quota = v]
  /\ due' = [due EXCEPT ![c] = v]
  /\ UNCHANGED <<inForce, loading, dying, master, files, missed, slept>>

-----------------------------------------------------------------------------
Init ==
  /\ inForce = {} /\ loading = {} /\ dying = {} /\ master = [r \in Rules |-> NONE]
  /\ counter = [c \in Cs |-> NONE] /\ files = <<>> /\ missed = {}
  /\ due = [c \in Cs |-> 0] /\ slept = FALSE

Next ==
  \/ \E r \in Rules :
       \/ CheckFinds(r) \/ CheckMisses(r) \/ CheckMakes(r) \/ CheckAnonymous(r) \/ CheckFails(r)
       \/ Replace(r) \/ Destroy(r)
       \/ \E n \in Lengths : Grow(r, n) \/ Take(r, n) \/ Exhaust(r, n)
  \/ \E k \in 1..MaxCounters, v \in Writes : Write(k, v)

Spec == Init /\ [][Next]_quotavars

-----------------------------------------------------------------------------
(* Properties *)

(* A counter is there as long as a rule uses it, in any table, old, new or *)
(* half loaded, and no longer; its count is the number of those rules,     *)
(* even when a holder of the lock has slept.                               *)
RefsExact ==
  /\ \A r \in Holding : counter[master[r]] # NONE
  /\ \A c \in Live :
       LET users == {r \in Holding : master[r] = c}
       IN  users # {} /\ (counter[c].listed => counter[c].ref = Cardinality(users))

(* All rules of a name count on one counter, so that what is left of a     *)
(* quota survives the replacement of a table, and each name has one file,  *)
(* of that counter: unless the lock's holder has slept in an allocation.   *)
NamedShared ==
  ~slept =>
    /\ \A r, x \in Holding : Name[r] = Name[x] /\ Name[r] # ANON => master[r] = master[x]
    /\ {files[k] : k \in 1..Len(files)} = {<<counter[c].name, c>> : c \in {d \in Live : counter[d].listed}}

(* What rules take from a counter is never more than it was given, and     *)
(* what is left never wraps, whatever modes its rules mix.                 *)
WithinBudget == \A c \in Live : 0 <= counter[c].quota /\ counter[c].quota <= due[c]

(* Counters are shared by those who hold them, and give out what was given. *)
CountersHold == RefsExact /\ NamedShared /\ WithinBudget
=============================================================================
