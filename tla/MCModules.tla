----------------------------- MODULE MCModules -----------------------------
(***************************************************************************)
(* For TLC: a privileged process that tags sockets for another's uid,      *)
(* tag_stats, totals of interfaces, quotas, and the keypad's debouncing.   *)
(* They share no state here, so one of them moves in each behaviour (turn) *)
(* and the others rest: the states are the sum of theirs, not the product. *)
(***************************************************************************)
EXTENDS MCQtaguid

CONSTANTS wifi, i1, root, StatProcs, StatUids, StatUid, StatPriv, StatTags, SockUid, Ifaces,
          TagOrder, Readable, Pages, MaxPackets, MaxTraffic, MaxEvents,   \* of the statistics
          r1, r2, r3, r4, q, Rules, Table, Name, Kind, Fixed, Quota, Lengths, Writes,
          ANON, MaxCounters, MaxQuota,                      \* of the quotas
          Writers, Times, MaxStores                         \* of the keypad

VARIABLES
  tag, by, live, ifaces, stat, orphan, cset, del, rd, billed, dead, statOom,
  dev, ent, sent, missed, events,
  inForce, loading, dying, master, counter, files, missing, due, slept,
  phase, flags, padflags, irq, old_flags, hw, hwtime, chipOn, chipTime, pc, boot, crossed,
  hwcrossed, stores, beyond,
  turn

T == INSTANCE QtaguidStats WITH
       Procs <- StatProcs, Uids <- StatUids, Uid <- StatUid, Priv <- StatPriv, ATags <- StatTags,
       ROOT <- root
(* A process, a socket of its uid, root; the reader sees one uid.          *)
MCSockUid  == [s \in Socks |-> u1]
MCTagOrder == <<ZERO, u1>> :> 1 @@ <<ZERO, root>> :> 2 @@ <<wifi, u1>> :> 3 @@ <<wifi, root>> :> 4
I == INSTANCE IfaceStat

C == INSTANCE Quota2 WITH missed <- missing
(* Two rules of one table and one of another that share a counter by name, *)
(* in all three modes, and a rule without a name.                          *)
MCTable == r1 :> "v4" @@ r2 :> "v4" @@ r3 :> "v6" @@ r4 :> "v6"
MCName  == r1 :> q @@ r2 :> q @@ r3 :> q @@ r4 :> ANON
MCKind  == r1 :> "bytes" @@ r2 :> "packets" @@ r3 :> "grow" @@ r4 :> "bytes"
MCQuota == r1 :> 3 @@ r2 :> 2 @@ r3 :> 0 @@ r4 :> 1

D == INSTANCE Debounce WITH
       pads <- padflags, outside <- beyond

ASSUME MCModulesAssumption == T!StatsAssumption /\ C!QuotaAssumption /\ D!DebounceAssumption

statistics == <<tag, by, live, ifaces, stat, orphan, cset, del, rd, billed, dead, statOom>>
interfaces == <<dev, ent, sent, missed, events>>
quotas     == <<inForce, loading, dying, master, counter, files, missing, due, slept>>
keypad     == <<phase, flags, padflags, irq, old_flags, hw, hwtime, chipOn, chipTime, pc, boot,
                crossed, hwcrossed, stores, beyond>>

ModInit ==
  /\ Init /\ T!Init /\ I!Init /\ C!Init /\ D!Init
  /\ turn \in {"sockets", "statistics", "interfaces", "quotas", "keypad"}
  /\ turn # "keypad" => boot = {}
ModNext ==
  \/ turn = "sockets" /\ Next /\ UNCHANGED <<statistics, interfaces, quotas, keypad, turn>>
  \/ turn = "statistics" /\ T!Next /\ UNCHANGED <<vars, interfaces, quotas, keypad, turn>>
  \/ turn = "interfaces" /\ I!Next /\ UNCHANGED <<vars, statistics, quotas, keypad, turn>>
  \/ turn = "quotas" /\ C!Next /\ UNCHANGED <<vars, statistics, interfaces, keypad, turn>>
  \/ turn = "keypad" /\ D!Next /\ UNCHANGED <<vars, statistics, interfaces, quotas, turn>>
ModSpec == ModInit /\ [][ModNext]_<<vars, statistics, interfaces, quotas, keypad, turn>>

(* QtaguidStats, IfaceStat, Quota2 and Debounce state these.               *)
AccountsHold   == T!AccountsHold
ListingWhole   == T!ListingWhole
TrafficCounted == I!TrafficCounted
CountersHold   == C!CountersHold
KeypadFollows  == D!KeypadFollows
=============================================================================
