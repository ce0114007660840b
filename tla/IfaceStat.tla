----------------------------- MODULE IfaceStat -----------------------------
(***************************************************************************)
(* The totals that xt_qtaguid.c keeps of each network interface, over the  *)
(* life of many devices of that name.  A device counts for itself, from    *)
(* zero after it is registered and again whenever its driver says so;      *)
(* iface_stat adds what a device came to when it goes, and notices a reset *)
(* by comparing with what it stashed.                                      *)
(*                                                                         *)
(* Bytes of one direction are counted.  Each event is handled under        *)
(* iface_stat_list_lock.                                                   *)
(***************************************************************************)
EXTENDS Integers

CONSTANTS MaxTraffic, MaxEvents    \* bounds

VARIABLES
  dev,    \* the net_device: registered, up, its address, its own counter
  ent,    \* the iface_stat
  sent,   \* history: what went over the interface since it has its iface_stat
  missed, \* history: what the comparison cannot notice
  events

ifacevars == <<dev, ent, sent, missed, events>>

NoDevice == [there |-> FALSE, up |-> FALSE, addr |-> "none", raw |-> 0]
Addrs == {"none", "loopback", "real"}

Bounded == events < MaxEvents /\ events' = events + 1

-----------------------------------------------------------------------------
(* iface_check_stats_reset_and_adjust                                      *)
Rewound(e, raw) == e.active /\ e.valid /\ raw < e.known
Adjusted(e, raw) ==
  IF Rewound(e, raw) THEN [e EXCEPT !.total = @ + e.known, !.valid = FALSE] ELSE e

(* iface_stat_create for address a: a new entry, or an old one activated.  *)
Create(a) ==
  /\ IF ent.there
     THEN ent' = [Adjusted(ent, dev'.raw) EXCEPT !.active = (a = "real")]
     ELSE ent' = IF a = "loopback" THEN ent
                 ELSE [ent EXCEPT !.there = TRUE, !.active = TRUE]
  /\ sent' = IF ~ent.there /\ ent'.there THEN dev'.raw ELSE sent

(* iface_stat_update, stash_only                                           *)
Stash == ent' = IF ent.active THEN [ent EXCEPT !.known = dev.raw, !.valid = TRUE] ELSE ent

-----------------------------------------------------------------------------
Register ==
  /\ Bounded /\ ~dev.there
  /\ dev' = [NoDevice EXCEPT !.there = TRUE] /\ UNCHANGED <<ent, sent, missed>>

(* NETDEV_UP: the entry is made, or brought back, if an address is         *)
(* configured already.  Many drivers count from zero after they come up.   *)
Up(reset) ==
  /\ Bounded /\ dev.there /\ ~dev.up
  /\ dev' = [dev EXCEPT !.up = TRUE, !.raw = IF reset THEN 0 ELSE @]
  /\ IF dev.addr # "none" THEN Create(dev.addr) ELSE UNCHANGED <<ent, sent>>
  /\ missed' = IF /\ reset /\ dev.raw > 0 /\ ent.there
                  /\ (dev.addr = "none" \/ ~ent.active \/ ~ent.valid \/ ent.known # dev.raw)
               THEN missed \cup {"reset_unseen"} ELSE missed

(* NETDEV_DOWN of the device: what it counted is stashed.                  *)
Down ==
  /\ Bounded /\ dev.there /\ dev.up
  /\ dev' = [dev EXCEPT !.up = FALSE] /\ Stash
  /\ UNCHANGED <<sent, missed>>

(* NETDEV_UP of an address, ifa; NETDEV_DOWN of an address                 *)
AddrUp(a) ==
  /\ Bounded /\ dev.there /\ a # "none"
  /\ dev' = [dev EXCEPT !.addr = a] /\ Create(a)
  /\ missed' = IF a = "loopback" /\ ent.active THEN missed \cup {"loopback"} ELSE missed
AddrDown ==
  /\ Bounded /\ dev.there /\ dev.addr # "none"
  /\ dev' = [dev EXCEPT !.addr = "none"] /\ Stash
  /\ UNCHANGED <<sent, missed>>

(* NETDEV_UNREGISTER, after the device is down and its addresses gone.     *)
(* Seeded fault: the total is taken from the last stash alone.             *)
Totalled_known(e, raw) == [e EXCEPT !.total = e.known, !.valid = FALSE, !.active = FALSE]
Totalled(e, raw) == [e EXCEPT !.total = @ + raw, !.valid = FALSE, !.active = FALSE]
Unregister ==
  /\ Bounded /\ dev.there /\ ~dev.up /\ dev.addr = "none"
  /\ dev' = NoDevice
  /\ ent' = IF ent.active THEN Totalled(ent, dev.raw) ELSE ent
  /\ missed' = IF ent.there /\ ~ent.active /\ dev.raw > 0 THEN missed \cup {"untracked"} ELSE missed
  /\ UNCHANGED sent

Traffic(n) ==
  /\ dev.there /\ dev.up /\ dev.raw + n <= MaxTraffic
  /\ dev' = [dev EXCEPT !.raw = @ + n]
  /\ sent' = IF ent.there THEN sent + n ELSE sent
  /\ UNCHANGED <<ent, missed, events>>

Init ==
  /\ dev = NoDevice
  /\ ent = [there |-> FALSE, active |-> FALSE, total |-> 0, known |-> 0, valid |-> FALSE]
  /\ sent = 0 /\ missed = {} /\ events = 0

Next ==
  \/ Register \/ Down \/ AddrDown \/ Unregister
  \/ \E r \in BOOLEAN : Up(r)
  \/ \E a \in Addrs : AddrUp(a)
  \/ \E n \in 1..2 : Traffic(n)

Spec == Init /\ [][Next]_ifacevars

-----------------------------------------------------------------------------
Shown == ent.total + (IF ent.active THEN dev.raw ELSE 0)

(* A tracked interface's total and its device's own counter, which         *)
(* iface_stat_all shows side by side, add up to all its traffic, through   *)
(* any order of devices, addresses and resets that are noticed.            *)
TotalsExact == ent.active /\ missed = {} => Shown = sent

(* Whatever goes unnoticed, no traffic is counted twice.                   *)
NeverTwice == Shown <= sent

(* Traffic is counted once, and what goes uncounted was not noticed.       *)
TrafficCounted == TotalsExact /\ NeverTwice
=============================================================================
