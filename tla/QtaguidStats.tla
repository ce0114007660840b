---------------------------- MODULE QtaguidStats ----------------------------
(***************************************************************************)
(* What xt_qtaguid.c counts: the tag_stats of each interface, the counter  *)
(* sets, ctrl_cmd_delete's steps on them, and the listing of               *)
(* /proc/net/xt_qtaguid/stats, which is read a page at a time.  Built over *)
(* SockTags, which Qtaguid implements.                                     *)
(*                                                                         *)
(* A packet is matched in softirq context, or with bottom halves off, on a *)
(* target with one processor: it is one step, between any two of a         *)
(* command's.  Packets are counted, not bytes, in one direction.           *)
(***************************************************************************)
EXTENDS SockTags, Sequences, FiniteSets

CONSTANTS
  SockUid,   \* f_cred->fsuid of a socket's file
  ROOT,      \* the uid that packets without a socket are counted for
  Ifaces,
  TagOrder,  \* the numbers that full tags are, by which tag_stat_tree is ordered
  Readable,  \* uids of which the reader of the listing may see the counters
  Pages,     \* the numbers of lines that a page may have room for
  MaxPackets \* bound

Sets == {0, 1}                          \* IFS_MAX_COUNTER_SETS
StatsAssumption ==
  /\ ZERO \in ATags /\ ROOT \in Uids /\ SockUid \in [Socks -> Uids]
  /\ NONE \notin FullTags /\ NONE \notin [Sets -> Nat]
  /\ IsFiniteSet(FullTags) /\ Pages \subseteq Nat
  /\ TagOrder \in [FullTags -> Nat] /\ \A t, x \in FullTags : TagOrder[t] = TagOrder[x] => t = x

VARIABLES
  ifaces,   \* iface_stat_list
  stat,     \* stat[i][t]: a tag_stat's counters of each set, or NONE
  orphan,   \* tag_stats whose parent_counters points into freed memory
  cset,     \* tag_counter_set_tree: the active_set of a uid, or NONE
  del,      \* the ctrl_cmd_delete under way: its step and its tag
  rd,       \* the listing under way: items_to_skip, and what it has shown
  billed,   \* history: packets of a uid since its counters were last erased
  dead, statOom   \* the system has stopped; for want of memory

statvars == <<ifaces, stat, orphan, cset, del, rd, billed, dead, statOom>>

Zeroes == [c \in Sets |-> 0]
UidTag(u) == <<ZERO, u>>                \* make_tag_from_uid()
Exists(i, t) == stat[i][t] # NONE
Packets == LET sum[S \in SUBSET (Ifaces \X Uids)] ==
                 IF S = {} THEN 0
                 ELSE LET x == CHOOSE x \in S : TRUE
                      IN  billed[x[1]][x[2]][0] + billed[x[1]][x[2]][1] + sum[S \ {x}]
           IN  sum[Ifaces \X Uids]

(* The lines of the listing, without its header: two for a tag_stat, those *)
(* of other uids left out; the newest interface comes first.               *)
LineSet ==
  {x \in {ifaces[k] : k \in 1..Len(ifaces)} \X FullTags \X Sets :
     Exists(x[1], x[2]) /\ Owner(x[2]) \in Readable}
Before(x, y) ==
  LET at(i) == CHOOSE k \in 1..Len(ifaces) : ifaces[k] = i IN
  \/ at(x[1]) < at(y[1])
  \/ x[1] = y[1] /\ TagOrder[x[2]] < TagOrder[y[2]]
  \/ x[1] = y[1] /\ x[2] = y[2] /\ x[3] < y[3]
(* ppi.item_index of a line; the header is item 0.                         *)
Item(x) == 1 + Cardinality({y \in LineSet : Before(y, x)})

NoRead(state) == [state |-> state, skip |-> 0, due |-> {}, seen |-> {},
                  twice |-> FALSE, ins |-> FALSE, rem |-> FALSE]
Inserted == rd' = IF rd.state = "reading" THEN [rd EXCEPT !.ins = TRUE] ELSE rd
Removed  == rd' = IF rd.state = "reading" THEN [rd EXCEPT !.rem = TRUE] ELSE rd

-----------------------------------------------------------------------------
(* iface_alloc, seen from here.  Entries are never deleted.                *)
NewIface(i) ==
  /\ ~dead /\ i \notin {ifaces[k] : k \in 1..Len(ifaces)}
  /\ ifaces' = <<i>> \o ifaces
  /\ UNCHANGED <<mapvars, stat, orphan, cset, del, rd, billed, dead, statOom>>

(* account_for_uid and if_tag_stat_update, for a packet of socket s or of  *)
(* none that can be found.  {0, uid} is created before {acct, uid}, which  *)
(* updates both.                                                           *)
TagOfPacket(s) ==
  IF s = NONE THEN UidTag(ROOT)
  ELSE IF tag[s] # NONE THEN tag[s] ELSE UidTag(SockUid[s])
(* get_active_counter_set *)
ActiveSet(u) == IF cset[u] = NONE THEN 0 ELSE cset[u]
(* Seeded fault: a new entry is not given its parent_counters.             *)
Updated_fatherless(i, t) ==
  LET c == ActiveSet(Owner(t))
      n(x) == IF Exists(i, x) THEN stat[i][x] ELSE Zeroes
  IN  [x \in FullTags |->
         IF x = t THEN [n(x) EXCEPT ![c] = @ + 1]
         ELSE IF x = UidTag(Owner(t)) THEN n(x) ELSE stat[i][x]]

(* tag_stat_update: the entry and, through parent_counters, that of its uid *)
Updated(i, t) ==
  LET c == ActiveSet(Owner(t))
      n(x) == IF Exists(i, x) THEN stat[i][x] ELSE Zeroes
  IN  [x \in FullTags |->
         IF x = t \/ x = UidTag(Owner(t)) THEN [n(x) EXCEPT ![c] = @ + 1] ELSE stat[i][x]]

Packet(i, s) ==
  LET t == TagOfPacket(s)  c == ActiveSet(Owner(t)) IN
  /\ ~dead /\ Packets < MaxPackets
  /\ i \in {ifaces[k] : k \in 1..Len(ifaces)} /\ (s = NONE \/ s \in live)
  /\ stat' = [stat EXCEPT ![i] = Updated(i, t)]
  /\ billed' = [billed EXCEPT ![i][Owner(t)][c] = @ + 1]
  /\ dead' = (<<i, t>> \in orphan)
  /\ IF Exists(i, t) THEN UNCHANGED rd ELSE Inserted
  /\ UNCHANGED <<mapvars, ifaces, orphan, cset, del, statOom>>

(* create_if_tag_stat finds no memory, and its result is used at once.     *)
PacketAllocFails(i, s) ==
  /\ ~dead /\ i \in {ifaces[k] : k \in 1..Len(ifaces)} /\ (s = NONE \/ s \in live)
  /\ ~Exists(i, TagOfPacket(s))
  /\ dead' = TRUE /\ statOom' = TRUE
  /\ UNCHANGED <<mapvars, ifaces, stat, orphan, cset, del, rd, billed>>

-----------------------------------------------------------------------------
(* Commands.  What tags and untags sockets is SockTags' business.          *)
Sockets ==
  /\ ~dead
  /\ \/ \E s \in Socks : NewSock(s) \/ TakeTag(s)
     \/ \E p \in Procs : GiverDies(p) \/ \E s \in Socks, t \in FullTags : SetTag(p, s, t)
     \/ \E s \in Socks : SocksGone({s})
  /\ UNCHANGED statvars

(* ctrl_cmd_counter_set                                                    *)
CounterSet(u, c) ==
  /\ ~dead /\ cset' = [cset EXCEPT ![u] = c]
  /\ UNCHANGED <<mapvars, ifaces, stat, orphan, del, rd, billed, dead, statOom>>

(* ctrl_cmd_delete: the sock_tags; the counter set, which is found under   *)
(* the full tag and so only with accounting tag 0; the tag_stats of all    *)
(* interfaces.  Each part takes its own lock.                              *)
DeleteSockTags(p, t) ==
  /\ ~dead /\ del = NONE /\ DropTags(p, t)
  /\ del' = [step |-> "cset", tag |-> t]
  /\ UNCHANGED <<ifaces, stat, orphan, cset, rd, billed, dead, statOom>>

DeleteCounterSet ==
  /\ ~dead /\ del # NONE /\ del.step = "cset"
  /\ cset' = IF Acct(del.tag) = ZERO THEN [cset EXCEPT ![Owner(del.tag)] = NONE] ELSE cset
  /\ del' = [del EXCEPT !.step = "stats"]
  /\ UNCHANGED <<mapvars, ifaces, stat, orphan, rd, billed, dead, statOom>>

Erased(i, t) == {x \in FullTags : Exists(i, x) /\ Concerns(t, x)}
DeleteTagStats ==
  LET E == [i \in Ifaces |-> Erased(i, del.tag)]
      u == Owner(del.tag)
      fatherless(i) == {x \in FullTags \ E[i] : Exists(i, x) /\ Owner(x) = u}
  IN
  /\ ~dead /\ del # NONE /\ del.step = "stats"
  /\ stat' = [i \in Ifaces |-> [x \in FullTags |-> IF x \in E[i] THEN NONE ELSE stat[i][x]]]
  /\ orphan' = {o \in orphan \cup UNION {{<<i, x>> : x \in fatherless(i)} :
                                      i \in {j \in Ifaces : UidTag(u) \in E[j]}} :
                  o[2] \notin E[o[1]]}
  /\ billed' = IF Acct(del.tag) # ZERO THEN billed
               ELSE [i \in Ifaces |-> [billed[i] EXCEPT ![u] = Zeroes]]
  /\ IF \E i \in Ifaces : E[i] # {} THEN Removed ELSE UNCHANGED rd
  /\ del' = NONE
  /\ UNCHANGED <<mapvars, ifaces, cset, dead, statOom>>

-----------------------------------------------------------------------------
(* qtaguid_stats_proc_read, from an offset of 0 until it reports the end.  *)
(* due are lines that were there at the start and have not been shown,     *)
(* twice tells that a line has been shown again.                           *)
ReadStart ==
  /\ ~dead /\ rd.state # "reading"
  /\ rd' = [NoRead("reading") EXCEPT !.due = LineSet]
  /\ UNCHANGED <<mapvars, ifaces, stat, orphan, cset, del, billed, dead, statOom>>

(* Seeded fault: lines of other uids are skipped and yet counted.          *)
Returned_all(shown, hidden) == Cardinality(shown) + hidden
Returned(shown, hidden) == Cardinality(shown)
ReadPage(room) ==
  LET total == 1 + Cardinality(LineSet)
      last  == IF rd.skip + room < total THEN rd.skip + room ELSE total
      items == rd.skip..(last - 1)
      page  == {x \in LineSet : Item(x) \in items}
      hidden == Cardinality({t \in FullTags : Owner(t) \notin Readable /\ \E i \in Ifaces : Exists(i, t)})
  IN
  /\ ~dead /\ rd.state = "reading"
  /\ rd' = [rd EXCEPT !.skip = IF last = total THEN 0 ELSE rd.skip + Returned(items, hidden),
                      !.due = @ \ page,
                      !.seen = IF last = total THEN {} ELSE @ \cup page,
                      !.twice = @ \/ page \cap rd.seen # {},
                      !.state = IF last = total THEN "eof" ELSE @]
  /\ UNCHANGED <<mapvars, ifaces, stat, orphan, cset, del, billed, dead, statOom>>

-----------------------------------------------------------------------------
Init ==
  /\ MapInit /\ ifaces = <<>> /\ stat = [i \in Ifaces |-> [t \in FullTags |-> NONE]]
  /\ orphan = {} /\ cset = [u \in Uids |-> NONE] /\ del = NONE /\ rd = NoRead("idle")
  /\ billed = [i \in Ifaces |-> [u \in Uids |-> Zeroes]] /\ dead = FALSE /\ statOom = FALSE

Next ==
  \/ \E i \in Ifaces : \/ NewIface(i)
                       \/ \E s \in Socks \cup {NONE} : Packet(i, s) \/ PacketAllocFails(i, s)
  \/ Sockets
  \/ \E u \in Uids, c \in Sets : CounterSet(u, c)
  \/ \E p \in Procs, t \in FullTags : DeleteSockTags(p, t)
  \/ DeleteCounterSet \/ DeleteTagStats
  \/ ReadStart \/ \E n \in Pages : ReadPage(n)

Spec == Init /\ [][Next]_<<mapvars, statvars>>

-----------------------------------------------------------------------------
(* Properties *)

(* {0, uid} holds what all packets of the uid came to since its counters   *)
(* were erased, whatever tags they had and whichever set was active, and   *)
(* the packets of its accounting tags together never exceed it: no packet  *)
(* is lost or counted twice between a command's parts.                     *)
UidTotals ==
  ~dead => \A i \in Ifaces, u \in Uids, c \in Sets :
    LET of(t) == IF Exists(i, t) THEN stat[i][t][c] ELSE 0
        shares == UNION {{a} \X (1..of(<<a, u>>)) : a \in ATags \ {ZERO}}
    IN  of(UidTag(u)) = billed[i][u][c] /\ Cardinality(shares) <= of(UidTag(u))

(* No packet is counted through the parent_counters of an entry that       *)
(* ctrl_cmd_delete has freed: only a lack of memory stops the system.      *)
ParentsAlive == dead => statOom

(* No packet is lost, counted twice or counted into freed memory.          *)
AccountsHold == UidTotals /\ ParentsAlive

(* A listing that nothing was added to while it was read shows no line     *)
(* twice, and one that nothing was erased from misses no line that was     *)
(* there when it began, however the pages cut it.                          *)
ListingWhole ==
  /\ ~rd.ins => ~rd.twice
  /\ rd.state = "eof" /\ ~rd.rem => rd.due = {}
=============================================================================
