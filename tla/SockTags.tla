------------------------------ MODULE SockTags ------------------------------
(***************************************************************************)
(* What the socket tags of xt_qtaguid promise, without the records that    *)
(* count each other: a map from sockets to tags.  A tag is given under the *)
(* giver's authority, stays on the socket it was given to until somebody   *)
(* takes it away, and goes when the process dies on whose account it was   *)
(* given.  A socket cannot disappear, and its address come to stand for    *)
(* another one, while it is tagged.                                        *)
(* Qtaguid implements this, QtaguidStats is built upon it.                 *)
(***************************************************************************)
EXTENDS Integers

CONSTANTS Procs, Uids, Uid, Priv, ATags, ZERO, Socks, NONE

VARIABLES
  tag,   \* the tag of each socket, or NONE
  by,    \* the process whose death takes the tag away, or NONE
  live   \* the sockets that exist

mapvars == <<tag, by, live>>

FullTags == ATags \X Uids
Acct(t)  == t[1]
Owner(t) == t[2]
May(p, u) == u = Uid[p] \/ p \in Priv
Concerns(t, x) == x # NONE /\ Owner(x) = Owner(t) /\ (Acct(t) = ZERO \/ x = t)

Clear(S) ==
  /\ tag' = [s \in Socks |-> IF s \in S THEN NONE ELSE tag[s]]
  /\ by'  = [s \in Socks |-> IF s \in S THEN NONE ELSE by[s]]

MapInit ==
  /\ tag = [s \in Socks |-> NONE] /\ by = [s \in Socks |-> NONE] /\ live = {}

NewSock(s) == s \notin live /\ live' = live \cup {s} /\ UNCHANGED <<tag, by>>

(* Sockets go together when one command puts several.                      *)
SocksGone(S) ==
  /\ S \subseteq live /\ \A s \in S : tag[s] = NONE
  /\ live' = live \ S /\ UNCHANGED <<tag, by>>

(* A second tag leaves the socket on the account of the first giver.       *)
SetTag(p, s, t) ==
  /\ s \in live /\ May(p, Owner(t))
  /\ tag' = [tag EXCEPT ![s] = t]
  /\ IF tag[s] # NONE THEN by' = by ELSE by' \in {by, [by EXCEPT ![s] = p]}
  /\ UNCHANGED live

TakeTag(s) == s \in live /\ tag[s] # NONE /\ Clear({s}) /\ UNCHANGED live

DropTags(p, t) ==
  /\ May(p, Owner(t)) /\ Clear({s \in Socks : Concerns(t, tag[s])}) /\ UNCHANGED live

GiverDies(p) == Clear({s \in Socks : by[s] = p}) /\ UNCHANGED live

MapNext ==
  \/ \E s \in Socks : NewSock(s) \/ TakeTag(s)
  \/ \E S \in SUBSET Socks : SocksGone(S)
  \/ \E p \in Procs :
       \/ \E t \in FullTags : DropTags(p, t) \/ \E s \in Socks : SetTag(p, s, t)
       \/ GiverDies(p)

MapSpec == MapInit /\ [][MapNext]_mapvars
=============================================================================
