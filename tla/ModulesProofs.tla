---------------------------- MODULE ModulesProofs ----------------------------
(***************************************************************************)
(* The totals of an interface, the keypad's debouncing, the quotas and the *)
(* counters of the tags, proved of the parts as MCModules composes them:   *)
(* for any traffic and any number of devices, addresses and resets, for    *)
(* any processes that write the keypad's files, for any rules in any       *)
(* tables, any sockets and packets, and whatever the other parts do.       *)
(***************************************************************************)
EXTENDS MCModules, Sequences, SequenceTheorems, FiniteSetTheorems, WellFoundedInduction, TLAPS

-----------------------------------------------------------------------------
(* The totals of an interface                                              *)

Entries == [there : BOOLEAN, active : BOOLEAN, total : Nat, known : Nat, valid : BOOLEAN]
Devices == [there : BOOLEAN, up : BOOLEAN, addr : I!Addrs, raw : Nat]

IfaceTypeOK ==
  /\ ent \in Entries /\ dev \in Devices /\ sent \in Nat
  /\ missed \subseteq {"reset_unseen", "loopback", "untracked"}

(* Whether or not the entry is active and the resets were noticed: what    *)
(* has been totalled and what the device counts now were both sent, and a  *)
(* stash that the device has fallen below was sent before what it counts.  *)
AtMostOnce ==
  /\ ent.there => ent.total + dev.raw <= sent
  /\ ent.there /\ ent.valid /\ dev.raw < ent.known => ent.total + ent.known + dev.raw <= sent
  /\ ~ent.there => ~ent.active /\ ~ent.valid /\ ent.total = 0 /\ ent.known = 0
  /\ ~dev.there => dev.raw = 0

(* Nothing went unnoticed: all is accounted for, and a stash is one of an  *)
(* active entry that the device has not fallen below.                      *)
AllCounted ==
  ent.there /\ missed = {} =>
    /\ ent.total + dev.raw = sent
    /\ ent.valid => ent.active /\ ent.known <= dev.raw
    /\ dev.addr = "loopback" => ~ent.active

IfaceInv == IfaceTypeOK /\ AtMostOnce /\ AllCounted

LEMMA IfaceInvCounts == IfaceInv => I!TrafficCounted
BY DEF IfaceInv, IfaceTypeOK, AtMostOnce, AllCounted, I!TrafficCounted, I!TotalsExact,
       I!NeverTwice, I!Shown, Entries, Devices

LEMMA IfaceInvInit == I!Init => IfaceInv
BY DEF I!Init, IfaceInv, IfaceTypeOK, AtMostOnce, AllCounted, Entries, Devices, I!NoDevice, I!Addrs

(* One field of an entry at a time.                                        *)
LEMMA SetTotal ==
  ASSUME NEW e \in Entries, NEW n \in Nat
  PROVE  /\ [e EXCEPT !.total = n] \in Entries
         /\ [e EXCEPT !.total = n].there = e.there /\ [e EXCEPT !.total = n].active = e.active
         /\ [e EXCEPT !.total = n].total = n /\ [e EXCEPT !.total = n].known = e.known
BY DEF Entries

LEMMA SetValid ==
  ASSUME NEW e \in Entries
  PROVE  /\ [e EXCEPT !.valid = FALSE] \in Entries
         /\ [e EXCEPT !.valid = FALSE].there = e.there /\ ~[e EXCEPT !.valid = FALSE].valid
         /\ [e EXCEPT !.valid = FALSE].active = e.active
         /\ [e EXCEPT !.valid = FALSE].total = e.total /\ [e EXCEPT !.valid = FALSE].known = e.known
BY DEF Entries

LEMMA SetActive ==
  ASSUME NEW e \in Entries, NEW on \in BOOLEAN
  PROVE  /\ [e EXCEPT !.active = on] \in Entries
         /\ [e EXCEPT !.active = on].there = e.there /\ [e EXCEPT !.active = on].active = on
         /\ [e EXCEPT !.active = on].total = e.total /\ [e EXCEPT !.active = on].known = e.known
         /\ [e EXCEPT !.active = on].valid = e.valid
BY DEF Entries

LEMMA SetThere ==
  ASSUME NEW e \in Entries
  PROVE  /\ [e EXCEPT !.there = TRUE] \in Entries /\ [e EXCEPT !.there = TRUE].there
         /\ [e EXCEPT !.there = TRUE].total = e.total /\ [e EXCEPT !.there = TRUE].known = e.known
         /\ [e EXCEPT !.there = TRUE].valid = e.valid
BY DEF Entries

LEMMA TotalledIs ==
  ASSUME NEW e \in Entries, NEW raw \in Nat
  PROVE  /\ I!Totalled(e, raw) \in Entries
         /\ I!Totalled(e, raw).there = e.there /\ I!Totalled(e, raw).known = e.known
         /\ I!Totalled(e, raw).total = e.total + raw
         /\ ~I!Totalled(e, raw).active /\ ~I!Totalled(e, raw).valid
<1>1. e.total + raw \in Nat
  BY DEF Entries
<1>2. PICK t \in Entries : /\ t = [e EXCEPT !.total = e.total + raw]
                          /\ t.there = e.there /\ t.total = e.total + raw /\ t.known = e.known
  BY <1>1, SetTotal
<1>3. PICK u \in Entries : /\ u = [t EXCEPT !.valid = FALSE]
                          /\ u.there = t.there /\ u.total = t.total /\ u.known = t.known /\ ~u.valid
  BY SetValid
<1>4. PICK v \in Entries : /\ v = [u EXCEPT !.active = FALSE]
                          /\ v.there = u.there /\ v.total = u.total /\ v.known = u.known
                          /\ v.valid = u.valid /\ v.active = FALSE
  BY SetActive
<1>5. I!Totalled(e, raw) = v
  BY <1>2, <1>3, <1>4, Zenon DEF I!Totalled
<1> QED
  BY <1>2, <1>3, <1>4, <1>5

LEMMA AdjustedIs ==
  ASSUME NEW e \in Entries, NEW raw \in Nat
  PROVE  /\ I!Adjusted(e, raw) \in Entries
         /\ I!Adjusted(e, raw).there = e.there /\ I!Adjusted(e, raw).active = e.active
         /\ I!Adjusted(e, raw).known = e.known
         /\ I!Rewound(e, raw) => I!Adjusted(e, raw).total = e.total + e.known /\ ~I!Adjusted(e, raw).valid
         /\ ~I!Rewound(e, raw) => I!Adjusted(e, raw) = e
<1>1. CASE ~I!Rewound(e, raw)
  BY <1>1 DEF I!Adjusted
<1>2. CASE I!Rewound(e, raw)
  <2>1. e.total + e.known \in Nat
    BY DEF Entries
  <2>2. PICK t \in Entries : /\ t = [e EXCEPT !.total = e.total + e.known]
                            /\ t.there = e.there /\ t.active = e.active
                            /\ t.total = e.total + e.known /\ t.known = e.known
    BY <2>1, SetTotal
  <2>3. PICK u \in Entries : /\ u = [t EXCEPT !.valid = FALSE]
                            /\ u.there = t.there /\ u.active = t.active
                            /\ u.total = t.total /\ u.known = t.known /\ ~u.valid
    BY SetValid
  <2>4. I!Adjusted(e, raw) = u
    BY <1>2, <2>2, <2>3, Zenon DEF I!Adjusted
  <2> QED
    BY <1>2, <2>2, <2>3, <2>4
<1> QED
  BY <1>1, <1>2

(* An entry is made, or an old one is adjusted and activated or not.       *)
LEMMA CreateIs ==
  ASSUME ent \in Entries, dev' \in Devices, NEW a \in I!Addrs, I!Create(a)
  PROVE  /\ ent' \in Entries
         /\ ent.there => /\ ent'.there /\ (ent'.active <=> a = "real") /\ ent'.known = ent.known
                         /\ sent' = sent
                         /\ I!Rewound(ent, dev'.raw) => ent'.total = ent.total + ent.known /\ ~ent'.valid
                         /\ ~I!Rewound(ent, dev'.raw) => ent'.total = ent.total /\ ent'.valid = ent.valid
         /\ ~ent.there /\ a = "loopback" => ent' = ent /\ sent' = sent
         /\ ~ent.there /\ a # "loopback" =>
              /\ ent'.there /\ ent'.active /\ ent'.total = ent.total /\ ent'.known = ent.known
              /\ ent'.valid = ent.valid /\ sent' = dev'.raw
<1>1. CASE ent.there
  <2>1. PICK raw \in Nat : raw = dev'.raw
    BY DEF Devices
  <2>2. ent' = [I!Adjusted(ent, raw) EXCEPT !.active = (a = "real")] /\ sent' = sent
    BY <1>1, <2>1 DEF I!Create
  <2>3. PICK e \in Entries : e = I!Adjusted(ent, raw)
    BY AdjustedIs
  <2>4. PICK f \in Entries : f = [e EXCEPT !.active = (a = "real")]
    BY SetActive, Zenon
  <2>5. ent' = f
    BY <2>2, <2>3, <2>4, Zenon
  <2>6. /\ f.there = e.there /\ f.total = e.total /\ f.known = e.known /\ f.valid = e.valid
        /\ f.active <=> a = "real"
    BY <2>4, SetActive, Zenon
  <2>7. /\ e.there = ent.there /\ e.known = ent.known
        /\ I!Rewound(ent, raw) => e.total = ent.total + ent.known /\ ~e.valid
        /\ ~I!Rewound(ent, raw) => e = ent
    BY <2>3, AdjustedIs
  <2>8. /\ I!Rewound(ent, raw) => f.total = ent.total + ent.known /\ ~f.valid
        /\ ~I!Rewound(ent, raw) => f.total = ent.total /\ f.valid = ent.valid
    BY <2>6, <2>7, Zenon
  <2> QED
    BY <1>1, <2>1, <2>2, <2>5, <2>6, <2>7, <2>8, Zenon
<1>2. CASE ~ent.there /\ a = "loopback"
  BY <1>2 DEF I!Create
<1>3. CASE ~ent.there /\ a # "loopback"
  <2>1. ent' = [ent EXCEPT !.there = TRUE, !.active = TRUE]
    BY <1>3 DEF I!Create
  <2>2. PICK t \in Entries : /\ t = [ent EXCEPT !.there = TRUE] /\ t.there
                            /\ t.total = ent.total /\ t.known = ent.known /\ t.valid = ent.valid
    BY SetThere
  <2>3. PICK u \in Entries : /\ u = [t EXCEPT !.active = TRUE] /\ u.there = t.there /\ u.active
                            /\ u.total = t.total /\ u.known = t.known /\ u.valid = t.valid
    BY SetActive
  <2>4. ent' = u
    BY <2>1, <2>2, <2>3, Zenon
  <2>5. sent' = dev'.raw
    BY <1>3, <2>2, <2>3, <2>4 DEF I!Create
  <2> QED
    BY <1>3, <2>2, <2>3, <2>4, <2>5
<1> QED
  BY <1>1, <1>2, <1>3

LEMMA SetUp ==
  ASSUME NEW d \in Devices, NEW reset \in BOOLEAN
  PROVE  LET up == [d EXCEPT !.up = TRUE, !.raw = IF reset THEN 0 ELSE @] IN
         /\ up \in Devices /\ up.addr = d.addr /\ up.there = d.there
         /\ up.raw = IF reset THEN 0 ELSE d.raw
BY DEF Devices

(* A device comes up, or gets an address, and counts on or from zero.  The *)
(* comparison with the stash finds what AllCounted needs, unless missed    *)
(* says it was not noticed.                                                *)
LEMMA CreateKeeps ==
  ASSUME IfaceInv, NEW a \in I!Addrs, a # "none", I!Create(a),
         dev' \in Devices, dev'.there, dev'.addr = a, dev'.raw \in {0, dev.raw},
         missed' \subseteq {"reset_unseen", "loopback", "untracked"},
         missed' = {} =>
           /\ missed = {} /\ (a = "loopback" => ~ent.active)
           /\ dev'.raw # dev.raw /\ ent.there => ent.active /\ ent.valid /\ ent.known = dev.raw
  PROVE  IfaceInv'
<1>1. ent \in Entries /\ dev \in Devices /\ sent \in Nat
  BY DEF IfaceInv, IfaceTypeOK
<1>2. IfaceTypeOK'
  BY <1>1, CreateIs DEF IfaceTypeOK, Devices
<1>3. AtMostOnce'
  BY <1>1, CreateIs DEF IfaceInv, IfaceTypeOK, AtMostOnce, I!Rewound, Entries, Devices
<1>4. AllCounted'
  <2> SUFFICES ASSUME ent'.there, missed' = {}
               PROVE  /\ ent'.total + dev'.raw = sent'
                      /\ ent'.valid => ent'.active /\ ent'.known <= dev'.raw
                      /\ dev'.addr = "loopback" => ~ent'.active
    BY DEF AllCounted
  <2>1. CASE ent.there
    <3>1. /\ ent.total + dev.raw = sent /\ (ent.valid => ent.active /\ ent.known <= dev.raw)
          /\ (a = "real" \/ ~ent.active)
      BY <2>1 DEF IfaceInv, AllCounted, I!Addrs
    <3>2. dev'.raw = dev.raw \/ (dev'.raw = 0 /\ ent.active /\ ent.valid /\ ent.known = dev.raw)
      BY <2>1, Zenon
    <3>3. /\ (ent'.active <=> a = "real") /\ ent'.known = ent.known /\ sent' = sent
          /\ I!Rewound(ent, dev'.raw) => ent'.total = ent.total + ent.known /\ ~ent'.valid
          /\ ~I!Rewound(ent, dev'.raw) => ent'.total = ent.total /\ ent'.valid = ent.valid
      BY <1>1, <2>1, CreateIs
    <3>4. CASE I!Rewound(ent, dev'.raw)
      <4>1. ent.active /\ ent.valid /\ dev'.raw < ent.known
        BY <3>4 DEF I!Rewound
      <4>2. ent.known <= dev.raw /\ dev'.raw = 0 /\ ent.known = dev.raw
        BY <1>1, <3>1, <3>2, <4>1 DEF Entries, Devices
      <4> QED
        BY <1>1, <3>1, <3>3, <3>4, <4>1, <4>2 DEF Entries, Devices
    <3>5. CASE ~I!Rewound(ent, dev'.raw)
      <4>1. dev'.raw \in Nat /\ (ent.active /\ ent.valid => ent.known <= dev'.raw)
        BY <1>1, <3>5 DEF I!Rewound, Entries, Devices
      <4>2. dev'.raw = dev.raw
        BY <1>1, <3>2, <4>1 DEF Entries, Devices
      <4> QED
        BY <1>1, <3>1, <3>3, <3>5, <4>1, <4>2 DEF Entries, Devices
    <3> QED
      BY <3>4, <3>5
  <2>2. CASE ~ent.there
    BY <1>1, <2>2, CreateIs DEF IfaceInv, AtMostOnce, Entries, Devices, I!Addrs
  <2> QED
    BY <2>1, <2>2
<1> QED
  BY <1>2, <1>3, <1>4 DEF IfaceInv

LEMMA IfaceInvStep == IfaceInv /\ [I!Next]_(I!ifacevars) => IfaceInv'
<1> SUFFICES ASSUME IfaceInv, [I!Next]_(I!ifacevars) PROVE IfaceInv'
  OBVIOUS
<1> USE DEF IfaceInv
<1>1. CASE UNCHANGED I!ifacevars
  BY <1>1 DEF I!ifacevars, IfaceTypeOK, AtMostOnce, AllCounted
<1>2. CASE I!Register
  BY <1>2 DEF I!Register, IfaceTypeOK, AtMostOnce, AllCounted, Entries, Devices, I!NoDevice, I!Addrs
<1>3. CASE I!Down
  <2>1. /\ dev' = [dev EXCEPT !.up = FALSE] /\ sent' = sent /\ missed' = missed
        /\ ent' = IF ent.active THEN [ent EXCEPT !.known = dev.raw, !.valid = TRUE] ELSE ent
    BY <1>3 DEF I!Down, I!Stash
  <2>2. IfaceTypeOK'
    BY <2>1 DEF IfaceTypeOK, Entries, Devices
  <2>3. /\ ent'.there = ent.there /\ ent'.active = ent.active /\ ent'.total = ent.total
        /\ dev'.raw = dev.raw /\ dev'.addr = dev.addr /\ dev'.there = dev.there
        /\ ent.active => ent'.known = dev.raw /\ ent'.valid
        /\ ~ent.active => ent'.known = ent.known /\ ent'.valid = ent.valid
    BY <2>1 DEF IfaceTypeOK, Entries, Devices
  <2> QED
    BY <2>1, <2>2, <2>3 DEF IfaceTypeOK, AtMostOnce, AllCounted, Entries, Devices
<1>4. CASE I!AddrDown
  <2>1. /\ dev' = [dev EXCEPT !.addr = "none"] /\ sent' = sent /\ missed' = missed
        /\ ent' = IF ent.active THEN [ent EXCEPT !.known = dev.raw, !.valid = TRUE] ELSE ent
    BY <1>4 DEF I!AddrDown, I!Stash
  <2>2. IfaceTypeOK'
    BY <2>1 DEF IfaceTypeOK, Entries, Devices, I!Addrs
  <2>3. /\ ent'.there = ent.there /\ ent'.active = ent.active /\ ent'.total = ent.total
        /\ dev'.raw = dev.raw /\ dev'.addr = "none" /\ dev'.there = dev.there
        /\ ent.active => ent'.known = dev.raw /\ ent'.valid
        /\ ~ent.active => ent'.known = ent.known /\ ent'.valid = ent.valid
    BY <2>1 DEF IfaceTypeOK, Entries, Devices
  <2> QED
    BY <2>1, <2>2, <2>3 DEF IfaceTypeOK, AtMostOnce, AllCounted, Entries, Devices
<1>5. CASE I!Unregister
  <2>1. /\ dev' = I!NoDevice /\ sent' = sent
        /\ ent' = IF ent.active THEN I!Totalled(ent, dev.raw) ELSE ent
        /\ missed' = IF ent.there /\ ~ent.active /\ dev.raw > 0
                     THEN missed \cup {"untracked"} ELSE missed
    BY <1>5 DEF I!Unregister
  <2>2. IfaceTypeOK'
    <3>1. ent' \in Entries
      BY <2>1, TotalledIs DEF IfaceTypeOK, Devices
    <3>2. dev' \in Devices
      BY <2>1 DEF Devices, I!Addrs, I!NoDevice
    <3> QED
      BY <2>1, <3>1, <3>2 DEF IfaceTypeOK
  <2>3. /\ ent'.there = ent.there /\ ent'.known = ent.known /\ ~ent'.active
        /\ dev'.raw = 0 /\ dev'.addr = "none"
        /\ ent.active => ent'.total = ent.total + dev.raw /\ ~ent'.valid
        /\ ~ent.active => ent'.total = ent.total /\ ent'.valid = ent.valid
    BY <2>1 DEF IfaceTypeOK, Entries, Devices, I!NoDevice, I!Totalled
  <2>4. missed' = {} => missed = {} /\ (ent.there => ent.active \/ dev.raw = 0)
    BY <2>1 DEF IfaceTypeOK, Entries, Devices
  <2>5. AtMostOnce'
    BY <2>1, <2>3 DEF IfaceTypeOK, AtMostOnce, Entries, Devices, I!NoDevice
  <2>6. AllCounted'
    BY <2>1, <2>3, <2>4 DEF IfaceTypeOK, AtMostOnce, AllCounted, Entries, Devices
  <2> QED
    BY <2>2, <2>5, <2>6
<1>6. ASSUME NEW reset \in BOOLEAN, I!Up(reset) PROVE IfaceInv'
  <2>1. /\ dev.there /\ dev' = [dev EXCEPT !.up = TRUE, !.raw = IF reset THEN 0 ELSE @]
        /\ dev.addr # "none" => I!Create(dev.addr)
        /\ dev.addr = "none" => ent' = ent /\ sent' = sent
        /\ missed' = IF /\ reset /\ dev.raw > 0 /\ ent.there
                        /\ (dev.addr = "none" \/ ~ent.active \/ ~ent.valid \/ ent.known # dev.raw)
                     THEN missed \cup {"reset_unseen"} ELSE missed
    BY <1>6 DEF I!Up
  <2>2. /\ dev' \in Devices /\ dev'.addr = dev.addr /\ dev'.there
        /\ dev'.raw = IF reset THEN 0 ELSE dev.raw
    BY <2>1, SetUp DEF IfaceTypeOK
  <2>3. missed' \subseteq {"reset_unseen", "loopback", "untracked"}
    BY <2>1 DEF IfaceTypeOK
  <2>4. missed' = {} =>
          /\ missed = {}
          /\ reset /\ dev.raw > 0 /\ ent.there =>
               dev.addr # "none" /\ ent.active /\ ent.valid /\ ent.known = dev.raw
    BY <2>1
  <2>5. CASE dev.addr = "none"
    BY <2>1, <2>2, <2>3, <2>4, <2>5 DEF IfaceTypeOK, AtMostOnce, AllCounted, Entries, Devices
  <2>6. CASE dev.addr # "none"
    <3>1. I!Create(dev.addr)
      BY <2>1, <2>6
    <3>2. dev.addr \in I!Addrs /\ dev'.raw \in {0, dev.raw}
      BY <2>2 DEF IfaceTypeOK, Devices
    <3>3. missed' = {} =>
            /\ missed = {} /\ (dev.addr = "loopback" => ~ent.active)
            /\ dev'.raw # dev.raw /\ ent.there => ent.active /\ ent.valid /\ ent.known = dev.raw
      BY <2>2, <2>4 DEF IfaceTypeOK, AtMostOnce, AllCounted, Entries, Devices
    <3> HIDE DEF IfaceInv
    <3> QED
      BY <2>2, <2>3, <2>6, <3>1, <3>2, <3>3, CreateKeeps
  <2> QED
    BY <2>5, <2>6
<1>7. ASSUME NEW a \in I!Addrs, I!AddrUp(a) PROVE IfaceInv'
  <2>1. /\ dev.there /\ a # "none" /\ dev' = [dev EXCEPT !.addr = a] /\ I!Create(a)
        /\ missed' = IF a = "loopback" /\ ent.active THEN missed \cup {"loopback"} ELSE missed
    BY <1>7 DEF I!AddrUp
  <2>2. /\ dev' \in Devices /\ dev'.addr = a /\ dev'.there /\ dev'.raw = dev.raw
    BY <2>1 DEF IfaceTypeOK, Devices
  <2>3. missed' \subseteq {"reset_unseen", "loopback", "untracked"}
    BY <2>1 DEF IfaceTypeOK
  <2>4. missed' = {} => missed = {} /\ (a = "loopback" => ~ent.active)
    BY <2>1
  <2> QED
    BY <2>1, <2>2, <2>3, <2>4, CreateKeeps
<1>8. ASSUME NEW n \in 1..2, I!Traffic(n) PROVE IfaceInv'
  BY <1>8 DEF I!Traffic, IfaceTypeOK, AtMostOnce, AllCounted, Entries, Devices, I!Addrs
<1> QED
  BY <1>1, <1>2, <1>3, <1>4, <1>5, <1>6, <1>7, <1>8 DEF I!Next

(* The total of a tracked interface and its device's own counter add up to *)
(* all the traffic, and never to more, through any order of devices,       *)
(* addresses and resets.                                                   *)
THEOREM TrafficCorrect == ModSpec => []TrafficCounted
<1>1. ModInit => IfaceInv
  BY IfaceInvInit DEF ModInit
<1>2. IfaceInv /\ [ModNext]_<<vars, statistics, interfaces, quotas, keypad, turn>> => IfaceInv'
  BY IfaceInvStep DEF ModNext, interfaces, I!ifacevars
<1>3. IfaceInv => TrafficCounted
  BY IfaceInvCounts DEF TrafficCounted
<1> QED
  BY <1>1, <1>2, <1>3, PTL DEF ModSpec

-----------------------------------------------------------------------------
(* The keypad                                                              *)

StoreSteps ==
  {D!Idle} \cup [at : {"write"}, flag : D!Flags, on : BOOLEAN, read : SUBSET D!Flags]
           \cup [at : {"pads", "irq"}, on : BOOLEAN] \cup [at : {"irq"}]
           \cup [at : D!Hw, time : Times \cup {0}]
           \cup [at : {"var"}, what : D!Hw, time : Times \cup {0}]
Phases == {"gone", "made", "saved", "restoring", "restored"}

KeypadType ==
  /\ phase \in Phases /\ pc \in [Writers -> StoreSteps]
  /\ flags \in SUBSET D!Flags /\ old_flags \in SUBSET D!Flags
  /\ phase = "gone" => \A w \in Writers : pc[w] = D!Idle

(* The pads and the interrupts know the flags.                             *)
Follows == padflags = ("active_high" \in flags) /\ irq = flags \cap {"active_high", "level"}

(* With one store at a time in the flags, and all of them between saving   *)
(* and restoring: what it read is still so when it writes, and what it has *)
(* not yet told the pads and the interrupts is all they do not know.       *)
FlagsAt(w) ==
  /\ pc[w].at = "write" /\ phase \in {"made", "saved"} => pc[w].read = flags /\ Follows
  /\ pc[w].at \in {"pads", "irq"} => phase \notin {"gone", "made"}
  /\ pc[w].at = "pads" /\ phase = "saved" => pc[w].on = ("active_high" \in flags)
  /\ pc[w].at = "irq" /\ phase = "saved" => padflags = ("active_high" \in flags)
FlagsInv ==
  ~crossed /\ ~beyond =>
    /\ \A v, w \in Writers : D!InFlags(v) /\ D!InFlags(w) => v = w
    /\ (\A w \in Writers : ~D!InFlags(w)) => Follows
    /\ \A w \in Writers : FlagsAt(w)
    /\ phase \in {"gone", "made", "restoring", "restored"} => flags = boot
    /\ phase \in {"saved", "restoring", "restored"} => old_flags = boot

(* The same for the debouncing by hardware, whose time is set only while   *)
(* it is on, which it stays while a store of the time is under way.        *)
HwSame == chipOn = hw /\ chipTime = hwtime
HwAt(w) ==
  /\ pc[w].at \in D!Hw /\ phase \in {"made", "saved"} => HwSame
  /\ pc[w].at = "time" \/ (pc[w].at = "var" /\ pc[w].what = "time") => hw = 1
  /\ pc[w].at = "var" => phase \notin {"gone", "made"}
  /\ pc[w].at = "var" /\ phase = "saved" =>
       /\ pc[w].what = "on"   => chipOn = 1 /\ chipTime = hwtime
       /\ pc[w].what = "off"  => chipOn = 0 /\ chipTime = 0
       /\ pc[w].what = "time" => chipOn = hw /\ chipTime = pc[w].time
HwInv ==
  /\ hw \in {0, 1}
  /\ ~hwcrossed /\ ~beyond =>
       /\ \A v, w \in Writers : D!InHw(v) /\ D!InHw(w) => v = w
       /\ (\A w \in Writers : ~D!InHw(w)) =>
            /\ phase \in {"made", "saved", "restoring"} => HwSame
            /\ phase \in {"restored", "gone"} => chipOn = 0 /\ chipTime = 0
       /\ (\A w \in Writers : HwAt(w)) /\ (hw = 0 => hwtime = 0)

LEMMA KeypadInit == D!Init => KeypadType /\ FlagsInv /\ HwInv
<1> SUFFICES ASSUME D!Init PROVE KeypadType /\ FlagsInv /\ HwInv
  OBVIOUS
<1>1. /\ phase = "gone" /\ flags = boot /\ hw = 0 /\ hwtime = 0 /\ chipOn = 0 /\ chipTime = 0
      /\ Follows /\ pc = [w \in Writers |-> D!Idle]
  BY DEF D!Init, Follows
<1>2. \A w \in Writers : pc[w] = D!Idle /\ pc[w].at = "idle"
  BY <1>1 DEF D!Idle
<1>3. KeypadType
  BY <1>1, <1>2 DEF KeypadType, Phases, StoreSteps, D!Init
<1>4. FlagsInv
  BY <1>1, <1>2 DEF FlagsInv, FlagsAt, D!InFlags
<1>5. HwInv
  BY <1>1, <1>2 DEF HwInv, HwAt, D!InHw, D!Hw
<1> QED
  BY <1>3, <1>4, <1>5

(* The fields of what a step may be.                                       *)
LEMMA StepFields ==
  ASSUME NEW s \in StoreSteps
  PROVE  /\ s.at = "write" => s.flag \in D!Flags /\ s.on \in BOOLEAN /\ s.read \in SUBSET D!Flags
         /\ s.at = "pads" => s.on \in BOOLEAN
         /\ s.at \in D!Hw => s.time \in Times \cup {0}
         /\ s.at = "var" => s.what \in D!Hw /\ s.time \in Times \cup {0}
BY DEF StoreSteps, D!Idle, D!Hw

LEMMA KeypadTypeStep == KeypadType /\ D!Next => KeypadType'
<1> SUFFICES ASSUME KeypadType, D!Next PROVE KeypadType'
  OBVIOUS
<1> USE DEF KeypadType, Phases
<1>1. ASSUME NEW w \in Writers, NEW s \in StoreSteps, pc' = [pc EXCEPT ![w] = s],
             phase' = phase, pc[w] # D!Idle \/ phase # "gone",
             flags' \in SUBSET D!Flags, old_flags' = old_flags
      PROVE  KeypadType'
  BY <1>1
<1>2. ASSUME NEW w \in Writers, pc[w].at # "idle" PROVE pc[w] # D!Idle /\ pc[w] \in StoreSteps
  BY <1>2 DEF D!Idle
<1>3. ASSUME NEW w \in Writers, NEW f \in D!Flags, NEW on \in BOOLEAN, D!StoreReads(w, f, on)
      PROVE  KeypadType'
  <2>1. [at |-> "write", flag |-> f, on |-> on, read |-> flags] \in StoreSteps
    BY DEF StoreSteps
  <2> QED
    BY <1>1, <1>3, <2>1 DEF D!StoreReads, D!Begin, D!Files
<1>4. ASSUME NEW w \in Writers, D!StoreWrites(w) PROVE KeypadType'
  <2>1. /\ pc[w].at = "write" /\ phase' = phase /\ old_flags' = old_flags
        /\ pc[w].flag \in D!Flags /\ pc[w].on \in BOOLEAN /\ pc[w].read \in SUBSET D!Flags
    BY <1>4, StepFields DEF D!StoreWrites
  <2>2. flags' \in SUBSET D!Flags
    BY <1>4, <2>1 DEF D!StoreWrites
  <2>3. PICK s : s = IF D!AfterFlags(pc[w].flag) = "idle" THEN D!Idle
                     ELSE [at |-> D!AfterFlags(pc[w].flag), on |-> pc[w].on]
    OBVIOUS
  <2>4. s \in StoreSteps
    BY <2>1, <2>3 DEF D!AfterFlags, StoreSteps
  <2>5. pc' = [pc EXCEPT ![w] = s]
    BY <1>4, <2>3 DEF D!StoreWrites
  <2> QED
    BY <1>1, <1>2, <2>1, <2>2, <2>4, <2>5
<1>5. ASSUME NEW w \in Writers, D!StorePads(w) \/ D!StoreIrq(w) PROVE KeypadType'
  <2>1. D!Idle \in StoreSteps /\ [at |-> "irq"] \in StoreSteps
    BY DEF StoreSteps
  <2>2. /\ pc[w].at # "idle" /\ phase' = phase /\ flags' = flags /\ old_flags' = old_flags
        /\ pc' = [pc EXCEPT ![w] = D!Idle] \/ pc' = [pc EXCEPT ![w] = [at |-> "irq"]]
    BY <1>5 DEF D!StorePads, D!StoreIrq
  <2> QED
    BY <1>1, <1>2, <2>1, <2>2
<1>6. ASSUME NEW w \in Writers, NEW what \in D!Hw, NEW t \in Times \cup {0}, D!HwBegins(w, what, t)
      PROVE  KeypadType'
  <2>1. [at |-> what, time |-> t] \in StoreSteps
    BY DEF StoreSteps
  <2> QED
    BY <1>1, <1>6, <2>1 DEF D!HwBegins, D!Begin, D!Files
<1>7. ASSUME NEW w \in Writers, D!HwSets(w) PROVE KeypadType'
  <2>1. pc[w].at \in D!Hw /\ pc[w].time \in Times \cup {0}
    BY <1>7, StepFields DEF D!HwSets
  <2>2. [at |-> "var", what |-> pc[w].at, time |-> pc[w].time] \in StoreSteps
    BY <2>1 DEF StoreSteps
  <2> QED
    BY <1>1, <1>2, <1>7, <2>1, <2>2 DEF D!HwSets, D!Hw
<1>8. ASSUME NEW w \in Writers, D!HwNotes(w) PROVE KeypadType'
  <2>1. D!Idle \in StoreSteps
    BY DEF StoreSteps
  <2> QED
    BY <1>1, <1>2, <1>8, <2>1 DEF D!HwNotes
<1>9. CASE D!MakesFiles \/ D!Saves \/ D!RestoresFlags \/ D!RestoresHw \/ D!RemovesFiles
  BY <1>9 DEF D!MakesFiles, D!Saves, D!RestoresFlags, D!RestoresHw, D!RemovesFiles
<1> QED
  BY <1>3, <1>4, <1>5, <1>6, <1>7, <1>8, <1>9 DEF D!Next, D!Hw

(* A step of one writer leaves the others where they are.                  *)
LEMMA OneMoves ==
  ASSUME KeypadType, NEW w \in Writers, NEW s, pc' = [pc EXCEPT ![w] = s]
  PROVE  pc'[w] = s /\ \A v \in Writers : v # w => pc'[v] = pc[v]
BY DEF KeypadType

LEMMA FlagsInvStep == KeypadType /\ FlagsInv /\ D!Next => FlagsInv'
<1> SUFFICES ASSUME KeypadType, FlagsInv, D!Next, ~crossed', ~beyond' PROVE
      /\ \A v, w \in Writers : D!InFlags(v)' /\ D!InFlags(w)' => v = w
      /\ (\A w \in Writers : ~D!InFlags(w)') => Follows'
      /\ \A w \in Writers : FlagsAt(w)'
      /\ phase' \in {"gone", "made", "restoring", "restored"} => flags' = boot'
      /\ phase' \in {"saved", "restoring", "restored"} => old_flags' = boot'
  BY DEF FlagsInv
<1> DEFINE Goal ==
      /\ \A v, w \in Writers : D!InFlags(v)' /\ D!InFlags(w)' => v = w
      /\ (\A w \in Writers : ~D!InFlags(w)') => Follows'
      /\ \A w \in Writers : FlagsAt(w)'
      /\ phase' \in {"gone", "made", "restoring", "restored"} => flags' = boot'
      /\ phase' \in {"saved", "restoring", "restored"} => old_flags' = boot'
<1>1. ASSUME NEW w \in Writers, NEW f \in D!Flags, NEW on \in BOOLEAN, D!StoreReads(w, f, on)
      PROVE  Goal
  <2>1. ~crossed /\ ~beyond /\ \A v \in Writers : ~D!InFlags(v)
    BY <1>1 DEF D!StoreReads
  <2>2. Follows'
    BY <1>1, <2>1 DEF D!StoreReads, FlagsInv, Follows
  <2>3. /\ pc'[w].at = "write" /\ pc'[w].read = flags
        /\ \A v \in Writers : v # w => pc'[v] = pc[v]
    <3>1. PICK s : s = [at |-> "write", flag |-> f, on |-> on, read |-> flags]
      OBVIOUS
    <3>2. pc' = [pc EXCEPT ![w] = s] /\ s.at = "write" /\ s.read = flags
      BY <1>1, <3>1 DEF D!StoreReads, D!Begin
    <3> QED
      BY <3>2, OneMoves
  <2>4. \A v \in Writers : v # w => ~D!InFlags(v)'
    BY <2>1, <2>3 DEF D!InFlags
  <2> QED
    BY <1>1, <2>1, <2>2, <2>3, <2>4 DEF D!StoreReads, FlagsInv, FlagsAt, D!InFlags
<1>2. ASSUME NEW w \in Writers, D!StoreWrites(w) PROVE Goal
  <2>1. /\ ~crossed /\ ~beyond /\ phase = "saved" /\ pc[w].at = "write"
        /\ UNCHANGED <<phase, padflags, irq, old_flags, boot>>
        /\ flags' = (IF pc[w].on THEN pc[w].read \cup {pc[w].flag} ELSE pc[w].read \ {pc[w].flag})
    BY <1>2 DEF D!StoreWrites, D!Outside
  <2>2. /\ pc[w].read = flags /\ Follows /\ old_flags = boot
        /\ \A v \in Writers : v # w => ~D!InFlags(v)
    BY <2>1 DEF FlagsInv, FlagsAt, D!InFlags
  <2>3. \A v \in Writers : v # w => pc'[v] = pc[v] /\ ~D!InFlags(v)'
    BY <1>2, <2>2, OneMoves DEF D!StoreWrites, D!InFlags
  <2>4. pc[w].flag \in D!Flags /\ pc[w].on \in BOOLEAN
    BY <2>1, StepFields DEF KeypadType
  <2>5. pc'[w] = IF D!AfterFlags(pc[w].flag) = "idle" THEN D!Idle
                 ELSE [at |-> D!AfterFlags(pc[w].flag), on |-> pc[w].on]
    BY <1>2, OneMoves DEF D!StoreWrites
  <2>6. CASE pc[w].flag = "debounce"
    <3>1. pc'[w] = D!Idle /\ pc'[w].at = "idle"
      BY <2>5, <2>6 DEF D!AfterFlags, D!Idle
    <3>2. /\ "active_high" \in flags' <=> "active_high" \in flags
          /\ flags' \cap {"active_high", "level"} = flags \cap {"active_high", "level"}
      BY <2>1, <2>2, <2>6
    <3>3. Follows'
      BY <2>1, <2>2, <3>2 DEF Follows
    <3> QED
      BY <2>1, <2>2, <2>3, <3>1, <3>3 DEF FlagsAt, D!InFlags
  <2>7. CASE pc[w].flag = "active_high"
    <3>1. pc'[w].at = "pads" /\ pc'[w].on = pc[w].on
      BY <2>5, <2>7 DEF D!AfterFlags
    <3>2. pc[w].on = ("active_high" \in flags')
      BY <2>1, <2>4, <2>7
    <3> QED
      BY <2>1, <2>2, <2>3, <3>1, <3>2 DEF FlagsAt, D!InFlags
  <2>8. CASE pc[w].flag = "level"
    <3>1. pc'[w].at = "irq"
      BY <2>5, <2>8 DEF D!AfterFlags
    <3>2. padflags' = ("active_high" \in flags')
      BY <2>1, <2>2, <2>8 DEF Follows
    <3> QED
      BY <2>1, <2>2, <2>3, <3>1, <3>2 DEF FlagsAt, D!InFlags
  <2> QED
    BY <2>4, <2>6, <2>7, <2>8 DEF D!Flags
<1>3. ASSUME NEW w \in Writers, D!StorePads(w) PROVE Goal
  <2>1. /\ ~crossed /\ ~beyond /\ phase = "saved" /\ pc[w].at = "pads"
        /\ UNCHANGED <<phase, flags, irq, old_flags, boot>> /\ padflags' = pc[w].on
    BY <1>3 DEF D!StorePads, D!Outside
  <2>2. /\ pc[w].on = ("active_high" \in flags) /\ old_flags = boot
        /\ \A v \in Writers : v # w => ~D!InFlags(v)
    BY <2>1 DEF FlagsInv, FlagsAt, D!InFlags
  <2>3. pc'[w].at = "irq" /\ \A v \in Writers : v # w => pc'[v] = pc[v] /\ ~D!InFlags(v)'
    <3>1. PICK s : s = [at |-> "irq"]
      OBVIOUS
    <3>2. pc' = [pc EXCEPT ![w] = s] /\ s.at = "irq"
      BY <1>3, <3>1 DEF D!StorePads
    <3> QED
      BY <2>2, <3>2, OneMoves DEF D!InFlags
  <2> QED
    BY <2>1, <2>2, <2>3 DEF FlagsAt, D!InFlags
<1>4. ASSUME NEW w \in Writers, D!StoreIrq(w) PROVE Goal
  <2>1. /\ ~crossed /\ ~beyond /\ phase = "saved" /\ pc[w].at = "irq"
        /\ UNCHANGED <<phase, flags, padflags, old_flags, boot>>
        /\ irq' = flags \cap {"active_high", "level"}
    BY <1>4 DEF D!StoreIrq, D!Outside, D!set_irq_types
  <2>2. /\ padflags = ("active_high" \in flags) /\ old_flags = boot
        /\ \A v \in Writers : v # w => ~D!InFlags(v)
    BY <2>1 DEF FlagsInv, FlagsAt, D!InFlags
  <2>3. pc'[w].at = "idle" /\ \A v \in Writers : v # w => pc'[v] = pc[v] /\ ~D!InFlags(v)'
    <3>1. pc' = [pc EXCEPT ![w] = D!Idle] /\ D!Idle.at = "idle"
      BY <1>4 DEF D!StoreIrq, D!Idle
    <3> QED
      BY <2>2, <3>1, OneMoves DEF D!InFlags
  <2>4. Follows'
    BY <2>1, <2>2 DEF Follows
  <2> QED
    BY <2>1, <2>2, <2>3, <2>4 DEF FlagsAt, D!InFlags
<1>5. ASSUME NEW w \in Writers, NEW s, pc' = [pc EXCEPT ![w] = s], ~D!InFlags(w),
             s.at \notin {"write", "pads", "irq"}, ~crossed, ~beyond,
             UNCHANGED <<phase, flags, padflags, irq, old_flags, boot>>
      PROVE  Goal
  <2>1. pc'[w].at = s.at /\ ~D!InFlags(w)' /\ \A v \in Writers : v # w => pc'[v] = pc[v]
    BY <1>5, OneMoves DEF D!InFlags
  <2>2. \A v \in Writers : D!InFlags(v)' <=> D!InFlags(v)
    BY <1>5, <2>1 DEF D!InFlags
  <2>3. Follows' <=> Follows
    BY <1>5 DEF Follows
  <2>4. \A v \in Writers : FlagsAt(v)'
    BY <1>5, <2>1, <2>3 DEF FlagsInv, FlagsAt
  <2> QED
    BY <1>5, <2>2, <2>3, <2>4 DEF FlagsInv
<1>6. ASSUME NEW w \in Writers, NEW what \in D!Hw, NEW t \in Times \cup {0}, D!HwBegins(w, what, t)
      PROVE  Goal
  <2>1. pc[w].at = "idle" /\ what \notin {"write", "pads", "irq"}
    BY <1>6 DEF D!HwBegins, D!Begin, D!Idle, D!Hw
  <2> QED
    BY <1>5, <1>6, <2>1 DEF D!HwBegins, D!Begin, D!InFlags
<1>7. ASSUME NEW w \in Writers, D!HwSets(w) PROVE Goal
  <2>1. PICK s : s = [at |-> "var", what |-> pc[w].at, time |-> pc[w].time]
    OBVIOUS
  <2>2. /\ UNCHANGED <<phase, flags, padflags, irq, old_flags, boot, crossed>>
        /\ pc[w].at \in D!Hw /\ pc' = [pc EXCEPT ![w] = s] /\ D!Outside
    BY <1>7, <2>1, Zenon DEF D!HwSets
  <2>3. ~crossed /\ ~beyond
    BY <2>2 DEF D!Outside
  <2>4. s.at = "var" /\ pc[w].at \notin {"write", "pads", "irq"}
    BY <2>1, <2>2 DEF D!Hw
  <2> QED
    BY <1>5, <2>2, <2>3, <2>4 DEF D!InFlags
<1>13. ASSUME NEW w \in Writers, D!HwNotes(w) PROVE Goal
  <2>1. /\ UNCHANGED <<phase, flags, padflags, irq, old_flags, boot, crossed>>
        /\ pc[w].at = "var" /\ pc' = [pc EXCEPT ![w] = D!Idle] /\ D!Outside
    BY <1>13 DEF D!HwNotes
  <2>2. ~crossed /\ ~beyond /\ D!Idle.at = "idle"
    BY <2>1 DEF D!Outside, D!Idle
  <2> QED
    BY <1>5, <2>1, <2>2 DEF D!InFlags
<1>8. CASE D!MakesFiles
  <2>1. \A w \in Writers : pc'[w].at = "idle"
    BY <1>8 DEF D!MakesFiles, KeypadType, D!Idle
  <2> QED
    BY <1>8, <2>1 DEF D!MakesFiles, FlagsInv, FlagsAt, Follows, D!InFlags
<1>9. CASE D!Saves
  BY <1>9 DEF D!Saves, FlagsInv, FlagsAt, Follows, D!InFlags
<1>10. CASE D!RestoresFlags
  <2>1. /\ ~crossed /\ ~beyond /\ phase = "saved" /\ phase' = "restoring" /\ pc' = pc
        /\ old_flags' = old_flags /\ flags' = old_flags /\ boot' = boot /\ old_flags = boot
    BY <1>10 DEF D!RestoresFlags, FlagsInv
  <2>2. (\A v \in Writers : ~D!InFlags(v)) => Follows'
    BY <1>10 DEF D!RestoresFlags, FlagsInv, Follows
  <2> QED
    BY <2>1, <2>2 DEF FlagsInv, FlagsAt, D!InFlags
<1>11. CASE D!RestoresHw
  BY <1>11 DEF D!RestoresHw, FlagsInv, FlagsAt, Follows, D!InFlags
<1>12. CASE D!RemovesFiles
  <2>1. \A w \in Writers : pc'[w].at = "idle"
    BY <1>12 DEF D!RemovesFiles, D!Idle
  <2> QED
    BY <1>12, <2>1 DEF D!RemovesFiles, FlagsInv, FlagsAt, Follows, D!InFlags
<1> QED
  BY <1>1, <1>2, <1>3, <1>4, <1>6, <1>7, <1>8, <1>9, <1>10, <1>11, <1>12, <1>13 DEF D!Next, D!Hw

LEMMA HwInvStep == KeypadType /\ HwInv /\ D!Next => HwInv'
<1> DEFINE Goal ==
      /\ \A v, w \in Writers : D!InHw(v)' /\ D!InHw(w)' => v = w
      /\ (\A w \in Writers : ~D!InHw(w)') =>
           /\ phase' \in {"made", "saved", "restoring"} => HwSame'
           /\ phase' \in {"restored", "gone"} => chipOn' = 0 /\ chipTime' = 0
      /\ (\A w \in Writers : HwAt(w)') /\ (hw' = 0 => hwtime' = 0)
<1> SUFFICES ASSUME KeypadType, HwInv, D!Next
             PROVE  hw' \in {0, 1} /\ (~hwcrossed' /\ ~beyond' => Goal)
  BY DEF HwInv
<1>1. hw' \in {0, 1}
  <2>1. ASSUME NEW w \in Writers, D!HwNotes(w) PROVE hw' \in {0, 1}
    BY <2>1 DEF D!HwNotes, HwInv
  <2>2. ASSUME NEW w \in Writers, D!HwSets(w) PROVE hw' = hw
    BY <2>2, Zenon DEF D!HwSets
  <2> QED
    BY <2>1, <2>2 DEF D!Next, HwInv, D!StoreReads, D!StoreWrites, D!StorePads, D!StoreIrq, D!HwBegins,
       D!MakesFiles, D!Saves, D!RestoresFlags, D!RestoresHw, D!RemovesFiles
<1> SUFFICES ASSUME ~hwcrossed', ~beyond' PROVE Goal
  BY <1>1
<1>2. ASSUME NEW w \in Writers, NEW s, pc' = [pc EXCEPT ![w] = s], ~D!InHw(w),
             s.at \notin D!Hw \cup {"var"}, ~hwcrossed, ~beyond,
             UNCHANGED <<phase, hw, hwtime, chipOn, chipTime>>
      PROVE  Goal
  <2>1. pc'[w].at = s.at /\ ~D!InHw(w)' /\ \A v \in Writers : v # w => pc'[v] = pc[v]
    BY <1>2, OneMoves DEF D!InHw
  <2>2. \A v \in Writers : D!InHw(v)' <=> D!InHw(v)
    BY <1>2, <2>1 DEF D!InHw
  <2>3. HwSame' <=> HwSame
    BY <1>2 DEF HwSame
  <2>4. HwAt(w)'
    BY <1>2, <2>1 DEF HwAt, D!Hw
  <2>5. ASSUME NEW v \in Writers, v # w PROVE HwAt(v)'
    <3>1. HwAt(v) /\ pc'[v] = pc[v]
      BY <1>2, <2>1, <2>5 DEF HwInv
    <3> QED
      BY <1>2, <2>3, <3>1, Zenon DEF HwAt
  <2> QED
    BY <1>2, <2>2, <2>3, <2>4, <2>5 DEF HwInv
<1>3. ASSUME NEW w \in Writers, NEW f \in D!Flags, NEW on \in BOOLEAN, D!StoreReads(w, f, on)
      PROVE  Goal
  <2>1. PICK s : s = [at |-> "write", flag |-> f, on |-> on, read |-> flags]
    OBVIOUS
  <2>2. /\ pc' = [pc EXCEPT ![w] = s] /\ pc[w] = D!Idle
        /\ UNCHANGED <<phase, hw, hwtime, chipOn, chipTime, hwcrossed, beyond>>
    BY <1>3, <2>1 DEF D!StoreReads, D!Begin
  <2>3. s.at = "write" /\ pc[w].at = "idle" /\ ~hwcrossed /\ ~beyond
    BY <2>1, <2>2 DEF D!Idle
  <2> QED
    BY <1>2, <2>2, <2>3 DEF D!InHw, D!Hw
<1>4. ASSUME NEW w \in Writers, D!StoreWrites(w) PROVE Goal
  <2>1. PICK s : s = IF D!AfterFlags(pc[w].flag) = "idle" THEN D!Idle
                     ELSE [at |-> D!AfterFlags(pc[w].flag), on |-> pc[w].on]
    OBVIOUS
  <2>2. /\ pc' = [pc EXCEPT ![w] = s] /\ pc[w].at = "write" /\ D!Outside
        /\ UNCHANGED <<phase, hw, hwtime, chipOn, chipTime, hwcrossed>>
    BY <1>4, <2>1 DEF D!StoreWrites
  <2>3. s.at \in {"idle", "pads", "irq"}
    BY <2>1 DEF D!AfterFlags, D!Idle
  <2>4. ~hwcrossed /\ ~beyond
    BY <2>2 DEF D!Outside
  <2> QED
    BY <1>2, <2>2, <2>3, <2>4 DEF D!InHw, D!Hw
<1>5. ASSUME NEW w \in Writers, D!StorePads(w) \/ D!StoreIrq(w) PROVE Goal
  <2>1. PICK s : s \in {D!Idle, [at |-> "irq"]} /\ pc' = [pc EXCEPT ![w] = s]
    BY <1>5 DEF D!StorePads, D!StoreIrq
  <2>2. /\ pc[w].at \in {"pads", "irq"} /\ D!Outside
        /\ UNCHANGED <<phase, hw, hwtime, chipOn, chipTime, hwcrossed>>
    BY <1>5 DEF D!StorePads, D!StoreIrq
  <2>3. s.at \in {"idle", "irq"}
    BY <2>1 DEF D!Idle
  <2>4. ~hwcrossed /\ ~beyond
    BY <2>2 DEF D!Outside
  <2> QED
    BY <1>2, <2>1, <2>2, <2>3, <2>4 DEF D!InHw, D!Hw
<1>6. ASSUME NEW w \in Writers, NEW what \in D!Hw, NEW t \in Times \cup {0}, D!HwBegins(w, what, t)
      PROVE  Goal
  <2>1. PICK s : s = [at |-> what, time |-> t]
    OBVIOUS
  <2>2. /\ pc' = [pc EXCEPT ![w] = s] /\ D!Files /\ (what = "time" => hw = 1)
        /\ UNCHANGED <<phase, hw, hwtime, chipOn, chipTime, beyond>>
        /\ ~hwcrossed /\ \A v \in Writers : ~D!InHw(v)
    BY <1>6, <2>1 DEF D!HwBegins, D!Begin
  <2>3. pc'[w].at = what /\ \A v \in Writers : v # w => pc'[v] = pc[v]
    <3>1. s.at = what
      BY <2>1
    <3> QED
      BY <2>2, <3>1, OneMoves
  <2>4. /\ hw = 0 => hwtime = 0
        /\ phase \in {"made", "saved", "restoring"} => HwSame
    BY <2>2 DEF HwInv
  <2>5. HwSame' <=> HwSame
    BY <2>2 DEF HwSame
  <2>6. \A v \in Writers : v # w => ~D!InHw(v)'
    BY <2>2, <2>3 DEF D!InHw
  <2>7. \A v \in Writers : v # w => pc'[v].at \notin D!Hw \cup {"var"}
    BY <2>6 DEF D!InHw
  <2>8. HwAt(w)'
    BY <2>2, <2>3, <2>4, <2>5 DEF HwAt, D!Hw
  <2>9. \A v \in Writers : v # w => HwAt(v)'
    BY <2>7 DEF HwAt, D!Hw
  <2> QED
    BY <2>2, <2>3, <2>4, <2>6, <2>8, <2>9 DEF D!InHw
<1>7. ASSUME NEW w \in Writers, D!HwSets(w) PROVE Goal
  <2>1. PICK s : s = [at |-> "var", what |-> pc[w].at, time |-> pc[w].time]
    OBVIOUS
  <2>2. /\ s.at = "var" /\ s.what = pc[w].at /\ s.time = pc[w].time
    BY <2>1
  <2>3. /\ pc[w].at \in D!Hw /\ pc' = [pc EXCEPT ![w] = s] /\ D!Outside
        /\ UNCHANGED <<phase, hw, hwtime, hwcrossed>>
        /\ pc[w].at = "on" => D!hw_debounce_set(1, -1)
        /\ pc[w].at = "off" => D!hw_debounce_set(0, 0)
        /\ pc[w].at = "time" => D!hw_debounce_set(-1, pc[w].time)
    <3>1. /\ pc[w].at \in D!Hw /\ pc' = [pc EXCEPT ![w] = s] /\ D!Outside
          /\ UNCHANGED <<phase, hw, hwtime, hwcrossed>>
          /\ CASE pc[w].at = "on"   -> D!hw_debounce_set(1, -1)
               [] pc[w].at = "off"  -> D!hw_debounce_set(0, 0)
               [] pc[w].at = "time" -> D!hw_debounce_set(-1, pc[w].time)
      BY <1>7, <2>1, Zenon DEF D!HwSets
    <3>2. "on" # "off" /\ "on" # "time" /\ "off" # "time"
      OBVIOUS
    <3> QED
      BY <3>1, <3>2, ZenonT(60)
  <2>4. /\ ~hwcrossed /\ ~beyond /\ phase = "saved" /\ HwSame
        /\ \A v \in Writers : v # w => ~D!InHw(v)
        /\ pc[w].at = "time" => hw = 1
        /\ hw = 0 => hwtime = 0
        /\ hw \in {0, 1}
    BY <2>3 DEF D!Outside, HwInv, HwAt, D!InHw
  <2>5. pc'[w] = s /\ \A v \in Writers : v # w => pc'[v] = pc[v] /\ ~D!InHw(v)'
    BY <2>3, <2>4, OneMoves DEF D!InHw
  <2>6. pc[w].at = "on" => chipOn' = 1 /\ chipTime' = hwtime'
    BY <2>3, <2>4 DEF D!hw_debounce_set, HwSame
  <2>7. pc[w].at = "off" => chipOn' = 0 /\ chipTime' = 0
    BY <2>3, <2>4 DEF D!hw_debounce_set, HwSame
  <2>8. pc[w].at = "time" => chipOn' = hw' /\ chipTime' = pc[w].time
    <3>1. pc[w].at = "time" => pc[w].time \in Nat
      <4>1. pc[w] \in StoreSteps /\ Times \subseteq Nat
        BY MCModulesAssumption DEF KeypadType, D!DebounceAssumption
      <4>2. pc[w].at \in D!Hw
        BY <2>3
      <4>3. pc[w].time \in Times \cup {0}
        BY <4>1, <4>2, StepFields
      <4>4. Times \cup {0} \subseteq Nat
        BY <4>1
      <4> QED
        BY <4>3, <4>4, Zenon
    <3> QED
      BY <2>3, <2>4, <3>1 DEF D!hw_debounce_set, HwSame
  <2>9. HwAt(w)'
    BY <2>2, <2>3, <2>4, <2>5, <2>6, <2>7, <2>8 DEF HwAt, D!Hw
  <2>10. \A v \in Writers : v # w => HwAt(v)'
    <3>1. \A v \in Writers : v # w => pc'[v].at \notin D!Hw \cup {"var"}
      BY <2>5 DEF D!InHw
    <3> QED
      BY <3>1 DEF HwAt, D!Hw
  <2>11. D!InHw(w)'
    BY <2>2, <2>5 DEF D!InHw
  <2> QED
    BY <2>3, <2>4, <2>5, <2>9, <2>10, <2>11
<1>8. ASSUME NEW w \in Writers, D!HwNotes(w) PROVE Goal
  <2>1. /\ pc[w].at = "var" /\ pc' = [pc EXCEPT ![w] = D!Idle] /\ D!Outside
        /\ UNCHANGED <<phase, chipOn, chipTime, hwcrossed>>
        /\ pc[w].what = "on" => hw' = 1 /\ hwtime' = hwtime
        /\ pc[w].what = "off" => hw' = 0 /\ hwtime' = 0
        /\ pc[w].what = "time" => hw' = hw /\ hwtime' = pc[w].time
    BY <1>8 DEF D!HwNotes
  <2>2. /\ ~hwcrossed /\ ~beyond /\ phase = "saved" /\ HwAt(w)
        /\ \A v \in Writers : v # w => ~D!InHw(v)
        /\ hw = 0 => hwtime = 0
    BY <2>1 DEF D!Outside, HwInv, D!InHw
  <2>3. pc'[w].at = "idle" /\ \A v \in Writers : v # w => pc'[v] = pc[v] /\ ~D!InHw(v)'
    <3>1. D!Idle.at = "idle"
      BY DEF D!Idle
    <3> QED
      BY <2>1, <2>2, <3>1, OneMoves DEF D!InHw
  <2>4. pc[w].what \in {"on", "off", "time"}
    BY <2>1, StepFields DEF KeypadType, D!Hw
  <2>5. HwSame' /\ (hw' = 0 => hwtime' = 0)
    BY <2>1, <2>2, <2>4 DEF HwAt, HwSame
  <2>6. \A v \in Writers : ~D!InHw(v)' /\ HwAt(v)'
    BY <2>3 DEF HwAt, D!InHw, D!Hw
  <2> QED
    BY <2>1, <2>2, <2>5, <2>6
<1>9. CASE D!MakesFiles
  <2>1. \A w \in Writers : pc'[w].at = "idle"
    BY <1>9 DEF D!MakesFiles, KeypadType, D!Idle
  <2>2. \A w \in Writers : ~D!InHw(w) /\ ~D!InHw(w)' /\ HwAt(w)'
    BY <1>9, <2>1 DEF D!MakesFiles, HwAt, D!InHw, D!Hw
  <2> QED
    BY <1>9, <2>2 DEF D!MakesFiles, HwInv, HwSame
<1>10. CASE D!Saves
  <2>1. /\ phase = "made" /\ phase' = "saved" /\ ~hwcrossed /\ ~beyond
        /\ UNCHANGED <<hw, hwtime, chipOn, chipTime, pc>>
    BY <1>10 DEF D!Saves
  <2>2. \A w \in Writers : D!InHw(w)' <=> D!InHw(w)
    BY <2>1 DEF D!InHw
  <2>3. \A w \in Writers : HwAt(w)'
    BY <2>1 DEF HwInv, HwAt, HwSame
  <2> QED
    BY <2>1, <2>2, <2>3 DEF HwInv, HwSame
<1>11. CASE D!RestoresFlags
  <2>1. /\ phase = "saved" /\ phase' = "restoring" /\ ~hwcrossed /\ ~beyond
        /\ UNCHANGED <<hw, hwtime, chipOn, chipTime, pc>>
    BY <1>11 DEF D!RestoresFlags
  <2>2. \A w \in Writers : D!InHw(w)' <=> D!InHw(w)
    BY <2>1 DEF D!InHw
  <2>3. \A w \in Writers : HwAt(w)'
    BY <2>1 DEF HwInv, HwAt
  <2> QED
    BY <2>1, <2>2, <2>3 DEF HwInv, HwSame
<1>12. CASE D!RestoresHw
  <2>1. /\ phase = "restoring" /\ phase' = "restored" /\ ~hwcrossed /\ ~beyond
        /\ UNCHANGED <<hw, hwtime, pc>> /\ D!hw_debounce_set(0, 0)
    BY <1>12 DEF D!RestoresHw
  <2>2. \A w \in Writers : D!InHw(w)' <=> D!InHw(w)
    BY <2>1 DEF D!InHw
  <2>3. \A w \in Writers : HwAt(w)'
    BY <2>1 DEF HwInv, HwAt
  <2>4. HwSame => chipOn' = 0 /\ chipTime' = 0
    BY <2>1 DEF HwInv, HwSame, D!hw_debounce_set
  <2> QED
    BY <2>1, <2>2, <2>3, <2>4 DEF HwInv
<1>13. CASE D!RemovesFiles
  <2>1. /\ phase = "restored" /\ phase' = "gone" /\ ~hwcrossed /\ ~beyond
        /\ UNCHANGED <<hw, hwtime, chipOn, chipTime, pc>>
    BY <1>13 DEF D!RemovesFiles
  <2>2. \A w \in Writers : D!InHw(w)' <=> D!InHw(w)
    BY <2>1 DEF D!InHw
  <2>3. \A w \in Writers : HwAt(w)'
    <3>1. \A w \in Writers : pc'[w].at = "idle"
      BY <1>13 DEF D!RemovesFiles, D!Idle
    <3> QED
      BY <3>1 DEF HwAt, D!Hw
  <2> QED
    BY <2>1, <2>2, <2>3 DEF HwInv
<1> QED
  BY <1>3, <1>4, <1>5, <1>6, <1>7, <1>8, <1>9, <1>10, <1>11, <1>12, <1>13 DEF D!Next, D!Hw

KeypadInv == KeypadType /\ FlagsInv /\ HwInv
LEMMA KeypadRests == KeypadInv /\ UNCHANGED keypad => KeypadInv'
<1> SUFFICES ASSUME KeypadInv, UNCHANGED keypad PROVE KeypadInv'
  OBVIOUS
<1>1. UNCHANGED <<phase, flags, padflags, irq, old_flags, hw, hwtime, chipOn, chipTime, pc, boot,
                  crossed, hwcrossed, beyond>>
  BY DEF keypad
<1>2. KeypadType'
  BY <1>1 DEF KeypadInv, KeypadType
<1>3. FlagsInv'
  BY <1>1 DEF KeypadInv, FlagsInv, FlagsAt, Follows, D!InFlags
<1>4. HwInv'
  BY <1>1 DEF KeypadInv, HwInv, HwAt, HwSame, D!InHw
<1> QED
  BY <1>2, <1>3, <1>4 DEF KeypadInv

(* Unless two stores met in the same variables, or one wrote outside the   *)
(* time between saving and restoring: the pads, the interrupts and the     *)
(* gpios do what the flags and the variables say whenever no store is at   *)
(* work on them, and the module leaves the keypad as it found it.          *)
THEOREM KeypadCorrect == ModSpec => []KeypadFollows
<1>1. ModInit => KeypadInv
  BY KeypadInit DEF ModInit, KeypadInv
<1>2. KeypadInv /\ [ModNext]_<<vars, statistics, interfaces, quotas, keypad, turn>> => KeypadInv'
  BY KeypadTypeStep, FlagsInvStep, HwInvStep, KeypadRests DEF KeypadInv, ModNext
<1>3. KeypadInv => KeypadFollows
  <2>1. KeypadInv => D!FlagsFollow
    BY DEF KeypadInv, FlagsInv, D!FlagsFollow, Follows
  <2>2. KeypadInv => D!HwFollows
    BY DEF KeypadInv, HwInv, D!HwFollows, HwSame
  <2> QED
    BY <2>1, <2>2 DEF KeypadFollows, D!KeypadFollows
<1> QED
  BY <1>1, <1>2, <1>3, PTL DEF ModSpec
-----------------------------------------------------------------------------
(* The quotas                                                              *)

Users(c) == {r \in Rules : master[r] = c}
Kept(c)  == <<counter[c].name, counter[c].ref, counter[c].listed>>

QuotaType ==
  /\ inForce \subseteq Rules /\ loading \subseteq Rules /\ dying \subseteq Rules
  /\ missing \subseteq Rules /\ slept \in BOOLEAN
  /\ master \in [Rules -> C!Cs \cup {NONE}] /\ counter \in [C!Cs -> C!Counters \cup {NONE}]
  /\ files \in Seq(C!Names \X C!Cs) /\ due \in [C!Cs -> Nat]

(* A rule is at one place of its way and has a counter from its check to   *)
(* its destruction.                                                        *)
RulesInv ==
  /\ inForce \cap loading = {} /\ inForce \cap dying = {} /\ loading \cap dying = {}
  /\ missing \cap (inForce \cup loading \cup dying) = {}
  /\ \A r \in Rules : master[r] # NONE <=> r \in inForce \cup loading \cup dying
  /\ \A r \in missing : Name[r] # ANON

(* The counter of a rule bears its name and is on the list unless it has   *)
(* none; a counter on the list counts its rules, another has just one.     *)
RefsInv ==
  /\ \A r \in C!Holding :
       /\ master[r] \in C!Live
       /\ counter[master[r]].listed <=> Name[r] # ANON
       /\ Name[r] # ANON => counter[master[r]].name = Name[r]
  /\ \A c \in C!Live :
       IF counter[c].listed THEN counter[c].ref = Cardinality(Users(c)) /\ Users(c) # {}
       ELSE \E r \in Rules : Users(c) = {r}

(* While nobody slept under the lock: one rule at most makes a counter,    *)
(* and no other has that name; each counter on the list has one file.      *)
SharedInv ==
  ~slept =>
    /\ \A r, x \in missing : r = x
    /\ \A r \in missing : C!Listed(Name[r]) = {}
    /\ \A c, d \in C!Live :
         counter[c].listed /\ counter[d].listed /\ counter[c].name = counter[d].name => c = d
    /\ \A j, k \in DOMAIN files : files[j][1] = files[k][1] => j = k
    /\ \A k \in DOMAIN files : files[k][2] \in C!Listed(files[k][1])
    /\ \A c \in C!Live : counter[c].listed => \E k \in DOMAIN files : files[k] = <<counter[c].name, c>>

QuotaInv == QuotaType /\ RulesInv /\ RefsInv /\ SharedInv /\ C!WithinBudget
(* Finite sets and their cardinality are the same in every module.         *)
LEMMA SameFinite == ASSUME NEW S PROVE C!IsFiniteSet(S) <=> IsFiniteSet(S)
BY DEF C!IsFiniteSet, IsFiniteSet
LEMMA SameCardinality == ASSUME NEW S PROVE C!Cardinality(S) = Cardinality(S)
BY DEF C!Cardinality, Cardinality


LEMMA CountersAre ==
  ASSUME QuotaType, NEW c \in C!Live
  PROVE  /\ c \in C!Cs /\ counter[c] \in C!Counters /\ counter[c].quota \in Nat
         /\ counter[c].ref \in Nat /\ counter[c].listed \in BOOLEAN /\ counter[c].name \in C!Names
<1>1. c \in C!Cs /\ counter[c] \in C!Counters
  BY DEF QuotaType, C!Live
<1> QED
  BY <1>1 DEF C!Counters

(* Rules go on their way, and the counters rest.                           *)
LEMMA RulesMove ==
  ASSUME QuotaInv, UNCHANGED <<master, counter, files, due>>, slept' \in BOOLEAN,
         inForce' \subseteq Rules, loading' \subseteq Rules, dying' \subseteq Rules,
         missing' \subseteq Rules, RulesInv',
         ~slept' => /\ ~slept /\ \A r, x \in missing' : r = x
                    /\ \A r \in missing' : C!Listed(Name[r]) = {}
  PROVE  QuotaInv'
<1>1. QuotaType'
  BY DEF QuotaInv, QuotaType
<1>2. C!Live' = C!Live /\ C!Holding' = C!Holding /\ \A c : Users(c)' = Users(c)
  BY DEF C!Live, C!Holding, Users
<1>3. RefsInv'
  BY <1>2 DEF QuotaInv, RefsInv
<1>4. \A m : C!Listed(m)' = C!Listed(m)
  BY <1>2 DEF C!Listed
<1>5. SharedInv'
  BY <1>2, <1>4 DEF QuotaInv, SharedInv
<1>6. C!WithinBudget'
  BY <1>2 DEF QuotaInv, C!WithinBudget
<1> QED
  BY <1>1, <1>3, <1>5, <1>6 DEF QuotaInv

(* Counters, names and files stay as they are, and nobody wakes up.        *)
LEMMA SharedRests ==
  ASSUME SharedInv, UNCHANGED <<missing, files>>, slept => slept', C!Live' = C!Live,
         \A d \in C!Live : /\ counter'[d].name = counter[d].name
                           /\ counter'[d].listed = counter[d].listed
  PROVE  SharedInv'
<1>1. SUFFICES ASSUME ~slept' PROVE SharedInv'
  BY DEF SharedInv
<1>2. \A m : C!Listed(m)' = C!Listed(m)
  BY DEF C!Listed
<1>3. /\ \A s, x \in missing' : s = x
      /\ \A s \in missing' : (C!Listed(Name[s]))' = {}
  BY <1>1, <1>2 DEF SharedInv
<1>4. \A a, d \in C!Live' :
        counter'[a].listed /\ counter'[d].listed /\ counter'[a].name = counter'[d].name => a = d
  BY <1>1 DEF SharedInv
<1>5. /\ \A j, k \in DOMAIN files' : files'[j][1] = files'[k][1] => j = k
      /\ \A k \in DOMAIN files' : files'[k][2] \in (C!Listed(files[k][1]))'
  BY <1>1, <1>2 DEF SharedInv
<1>6. \A d \in C!Live' : counter'[d].listed => \E k \in DOMAIN files' : files'[k] = <<counter'[d].name, d>>
  BY <1>1 DEF SharedInv
<1> QED
  BY <1>3, <1>4, <1>5, <1>6 DEF SharedInv

(* What is left of a quota changes.                                        *)
LEMMA AmountMoves ==
  ASSUME QuotaInv, UNCHANGED <<inForce, loading, dying, missing, master, files, slept>>,
         NEW c \in C!Live, NEW v \in Nat, counter' = [counter EXCEPT ![c].quota = v],
         due' \in [C!Cs -> Nat], v <= due'[c], \A d \in C!Live \ {c} : due'[d] = due[d]
  PROVE  QuotaInv'
<1>1. /\ c \in C!Cs /\ counter[c] \in C!Counters /\ C!Live \subseteq C!Cs /\ NONE \notin C!Counters
      /\ \A d \in C!Live : counter[d] \in C!Counters
  BY CountersAre, MCModulesAssumption DEF QuotaInv, C!QuotaAssumption, C!Live
<1>2. [counter[c] EXCEPT !.quota = v] \in C!Counters
  BY <1>1 DEF C!Counters
<1>3. /\ counter' \in [C!Cs -> C!Counters \cup {NONE}]
      /\ counter'[c] = [counter[c] EXCEPT !.quota = v]
      /\ \A d \in C!Cs \ {c} : counter'[d] = counter[d]
  BY <1>1, <1>2 DEF QuotaInv, QuotaType
<1>4. /\ counter'[c].name = counter[c].name /\ counter'[c].ref = counter[c].ref
      /\ counter'[c].listed = counter[c].listed /\ counter'[c].quota = v
  BY <1>1, <1>3 DEF C!Counters
<1>5. C!Live' = C!Live
  BY <1>1, <1>2, <1>3 DEF C!Live
<1>6. \A d \in C!Live : /\ counter'[d].name = counter[d].name /\ counter'[d].ref = counter[d].ref
                        /\ counter'[d].listed = counter[d].listed
  BY <1>1, <1>3, <1>4
<1>7. QuotaType'
  BY <1>3 DEF QuotaInv, QuotaType
<1>8. RulesInv'
  BY DEF QuotaInv, RulesInv
<1>9. C!Holding' = C!Holding /\ \A d : Users(d)' = Users(d)
  BY DEF C!Holding, Users
<1>10. RefsInv'
  BY <1>5, <1>6, <1>9 DEF QuotaInv, RefsInv
<1>11. \A m : C!Listed(m)' = C!Listed(m)
  BY <1>5, <1>6 DEF C!Listed
<1>12. SharedInv'
  BY <1>5, <1>6, SharedRests DEF QuotaInv
<1>13. C!WithinBudget'
  BY <1>1, <1>3, <1>4, <1>5 DEF QuotaInv, C!WithinBudget
<1> QED
  BY <1>7, <1>8, <1>10, <1>12, <1>13 DEF QuotaInv

LEMMA AmountStep ==
  ASSUME QuotaInv,
         \/ \E r \in Rules, m \in Lengths : C!Grow(r, m) \/ C!Take(r, m) \/ C!Exhaust(r, m)
         \/ \E k \in 1 .. MaxCounters, v \in Writes : C!Write(k, v)
  PROVE  QuotaInv'
<1>1. ASSUME NEW r \in Rules, NEW m \in Lengths, C!Grow(r, m) \/ C!Take(r, m) \/ C!Exhaust(r, m)
      PROVE  QuotaInv'
  <2>1. PICK c : c = master[r]
    OBVIOUS
  <2>2. c \in C!Live
    <3>1. r \in inForce
      BY <1>1 DEF C!Grow, C!Take, C!Exhaust
    <3>2. r \in C!Holding
      BY <3>1 DEF QuotaInv, RulesInv, C!Holding
    <3> QED
      BY <2>1, <3>2 DEF QuotaInv, RefsInv
  <2>3. /\ counter[c].quota \in Nat /\ c \in C!Cs /\ due[c] \in Nat /\ due \in [C!Cs -> Nat]
        /\ counter[c].quota <= due[c]
    BY <2>2, CountersAre DEF QuotaInv, QuotaType, C!WithinBudget
  <2>4. m \in Nat \ {0} /\ C!Cost(r, m) \in 0 .. m
    BY MCModulesAssumption DEF C!QuotaAssumption, C!Cost
  <2>5. UNCHANGED <<inForce, loading, dying, missing, master, files, slept>>
    BY <1>1 DEF C!Grow, C!Take, C!Exhaust
  <2>6. CASE C!Grow(r, m)
    <3>1. PICK v \in Nat : v = counter[c].quota + C!Cost(r, m)
      BY <2>3, <2>4
    <3>2. /\ counter' = [counter EXCEPT ![c].quota = v]
          /\ due' = [due EXCEPT ![c] = due[c] + C!Cost(r, m)]
      BY <2>1, <2>6, <3>1 DEF C!Grow
    <3>3. /\ due' \in [C!Cs -> Nat] /\ v <= due'[c] /\ \A d \in C!Live \ {c} : due'[d] = due[d]
      BY <2>3, <2>4, <3>1, <3>2 DEF C!Live
    <3> QED
      BY <2>2, <2>5, <3>2, <3>3, AmountMoves
  <2>7. CASE C!Take(r, m)
    <3>1. PICK v \in Nat : v = counter[c].quota - C!Cost(r, m)
      BY <2>1, <2>3, <2>4, <2>7 DEF C!Take, C!Enough
    <3>2. /\ counter' = [counter EXCEPT ![c].quota = v]
          /\ due' = [due EXCEPT ![c] = due[c] - C!Cost(r, m)]
      BY <2>1, <2>7, <3>1 DEF C!Take
    <3>3. /\ due' \in [C!Cs -> Nat] /\ v <= due'[c] /\ \A d \in C!Live \ {c} : due'[d] = due[d]
      BY <2>3, <2>4, <3>1, <3>2 DEF C!Live
    <3> QED
      BY <2>2, <2>5, <3>2, <3>3, AmountMoves
  <2>8. CASE C!Exhaust(r, m)
    <3>1. counter' = [counter EXCEPT ![c].quota = 0] /\ due' = due
      BY <2>1, <2>8 DEF C!Exhaust
    <3>2. 0 \in Nat /\ 0 <= due'[c]
      BY <2>3, <3>1
    <3> QED
      BY <2>2, <2>3, <2>5, <3>1, <3>2, AmountMoves
  <2> QED
    BY <1>1, <2>6, <2>7, <2>8
<1>2. ASSUME NEW k \in 1 .. MaxCounters, NEW v \in Writes, C!Write(k, v)
      PROVE  QuotaInv'
  <2>1. PICK c : c = files[k][2]
    OBVIOUS
  <2>2. /\ k \in 1 .. Len(files) /\ counter[c] # NONE
        /\ counter' = [counter EXCEPT ![c].quota = v] /\ due' = [due EXCEPT ![c] = v]
        /\ UNCHANGED <<inForce, loading, dying, missing, master, files, slept>>
    BY <1>2, <2>1 DEF C!Write
  <2>3. c \in C!Live /\ c \in C!Cs
    <3>1. files[k] \in C!Names \X C!Cs
      BY <2>2 DEF QuotaInv, QuotaType
    <3> QED
      BY <2>1, <2>2, <3>1 DEF C!Live
  <2>4. v \in Nat
    BY MCModulesAssumption DEF C!QuotaAssumption
  <2>5. /\ due' \in [C!Cs -> Nat] /\ v <= due'[c] /\ \A d \in C!Live \ {c} : due'[d] = due[d]
    BY <2>2, <2>3, <2>4 DEF QuotaInv, QuotaType, C!Live
  <2> QED
    BY <2>2, <2>3, <2>4, <2>5, AmountMoves
<1> QED
  BY <1>1, <1>2

LEMMA WayStep ==
  ASSUME QuotaInv, NEW r \in Rules, C!CheckMisses(r) \/ C!CheckFails(r) \/ C!Replace(r)
  PROVE  QuotaInv'
<1> USE DEF QuotaInv, QuotaType, RulesInv, SharedInv
<1>1. CASE C!CheckMisses(r)
  <2>1. UNCHANGED <<master, counter, files, due, inForce, loading, dying>>
    BY <1>1 DEF C!CheckMisses
  <2>2. missing' \subseteq Rules /\ slept' \in BOOLEAN /\ RulesInv'
    BY <1>1 DEF C!CheckMisses, C!MayCheck
  <2>3. ~slept' => ~slept /\ missing' = {r} /\ C!Listed(Name[r]) = {}
    BY <1>1 DEF C!CheckMisses, C!Locked
  <2> QED
    BY <2>1, <2>2, <2>3, RulesMove
<1>2. CASE C!CheckFails(r)
  <2>1. UNCHANGED <<master, counter, files, due, inForce, slept>>
    BY <1>2 DEF C!CheckFails
  <2>2. /\ missing' \subseteq missing /\ loading' \subseteq Rules /\ dying' \subseteq Rules
        /\ RulesInv'
    BY <1>2 DEF C!CheckFails
  <2> QED
    BY <2>1, <2>2, RulesMove
<1>3. CASE C!Replace(r)
  <2>1. UNCHANGED <<master, counter, files, due, missing, slept>>
    BY <1>3 DEF C!Replace
  <2>2. inForce' \subseteq Rules /\ loading' \subseteq Rules /\ dying' \subseteq Rules /\ RulesInv'
    BY <1>3 DEF C!Replace
  <2> QED
    BY <2>1, <2>2, RulesMove
<1> QED
  BY <1>1, <1>2, <1>3

(* A rule that shares a counter with others takes or drops its reference.  *)
LEMMA RefMoves ==
  ASSUME QuotaInv, UNCHANGED <<files, due, missing>>, slept => slept', slept' \in BOOLEAN,
         inForce' \subseteq Rules, loading' \subseteq Rules, dying' \subseteq Rules, RulesInv',
         NEW r \in Rules, NEW c \in C!Live, NEW n \in Nat, counter[c].listed,
         counter' = [counter EXCEPT ![c].ref = n],
         \/ master' = [master EXCEPT ![r] = c] /\ master[r] = NONE /\ counter[c].name = Name[r]
            /\ Name[r] # ANON /\ n = counter[c].ref + 1
         \/ master' = [master EXCEPT ![r] = NONE] /\ master[r] = c /\ n = counter[c].ref - 1 /\ n # 0
  PROVE  QuotaInv'
<1>0. NONE \notin C!Counters /\ NONE \notin Nat /\ IsFiniteSet(Rules)
  BY MCModulesAssumption, SameFinite DEF C!QuotaAssumption
<1>1. /\ c \in C!Cs /\ counter[c] \in C!Counters /\ C!Live \subseteq C!Cs /\ NONE \notin C!Counters
      /\ \A d \in C!Live : counter[d] \in C!Counters
      /\ NONE \notin Nat /\ IsFiniteSet(Rules)
  BY <1>0, CountersAre DEF QuotaInv, C!Live
<1>2. [counter[c] EXCEPT !.ref = n] \in C!Counters
  BY <1>1 DEF C!Counters
<1>3. /\ counter' \in [C!Cs -> C!Counters \cup {NONE}]
      /\ counter'[c] = [counter[c] EXCEPT !.ref = n]
      /\ \A d \in C!Cs \ {c} : counter'[d] = counter[d]
  BY <1>1, <1>2 DEF QuotaInv, QuotaType
<1>4. /\ counter'[c].name = counter[c].name /\ counter'[c].ref = n
      /\ counter'[c].listed = counter[c].listed /\ counter'[c].quota = counter[c].quota
  BY <1>1, <1>3 DEF C!Counters
<1>5. C!Live' = C!Live
  BY <1>1, <1>2, <1>3 DEF C!Live
<1>6. \A d \in C!Live : /\ counter'[d].name = counter[d].name /\ counter'[d].quota = counter[d].quota
                        /\ counter'[d].listed = counter[d].listed
  BY <1>1, <1>3, <1>4
<1>7. /\ master \in [Rules -> C!Cs \cup {NONE}] /\ master' \in [Rules -> C!Cs \cup {NONE}]
      /\ \A x \in Rules \ {r} : master'[x] = master[x]
  BY <1>1 DEF QuotaInv, QuotaType
<1>8. QuotaType'
  BY <1>3, <1>7 DEF QuotaInv, QuotaType
<1>9. \A d \in C!Live \ {c} : Users(d)' = Users(d)
  <2>1. TAKE d \in C!Live \ {c}
  <2>2. d # NONE /\ c # NONE
    BY <1>1 DEF C!Cs
  <2> QED
    BY <1>7, <2>2 DEF QuotaInv, QuotaType, Users
<1>10. counter'[c].ref = Cardinality(Users(c)') /\ Users(c)' # {}
  <2>1. IsFiniteSet(Users(c)) /\ counter[c].ref = Cardinality(Users(c)) /\ c # NONE
    BY <1>1, FS_Subset DEF QuotaInv, RefsInv, Users, C!Cs
  <2>2. CASE master[r] = NONE
    <3>1. Users(c)' = Users(c) \cup {r} /\ r \notin Users(c)
      BY <1>1, <1>7, <2>1, <2>2 DEF QuotaInv, QuotaType, Users
    <3>2. Cardinality(Users(c) \cup {r}) = Cardinality(Users(c)) + 1
      BY <2>1, <3>1, FS_AddElement
    <3>3. n = counter[c].ref + 1
      BY <1>1, <2>2 DEF C!Cs
    <3> QED
      BY <1>4, <2>1, <3>1, <3>2, <3>3
  <2>3. CASE master[r] = c
    <3>1. Users(c)' = Users(c) \ {r} /\ r \in Users(c)
      BY <1>1, <1>7, <2>1, <2>3 DEF QuotaInv, QuotaType, Users
    <3>2. Cardinality(Users(c)') = n /\ n # 0
      BY <2>1, <2>3, <3>1, FS_RemoveElement, SMTT(30)
    <3> QED
      BY <1>4, <3>2, FS_EmptySet
  <2> QED
    BY <2>2, <2>3
<1>11. RefsInv'
  <2>1. ASSUME NEW x \in C!Holding'
        PROVE  /\ master'[x] \in C!Live'
               /\ counter'[master'[x]].listed <=> Name[x] # ANON
               /\ Name[x] # ANON => counter'[master'[x]].name = Name[x]
    <3>1. CASE x = r
      BY <1>1, <1>4, <1>5, <1>7, <2>1, <3>1 DEF QuotaInv, QuotaType, C!Holding
    <3>2. CASE x # r
      <4>1. x \in C!Holding /\ master'[x] = master[x]
        BY <1>7, <2>1, <3>2 DEF C!Holding
      <4> QED
        BY <1>5, <1>6, <4>1 DEF QuotaInv, RefsInv
    <3> QED
      BY <3>1, <3>2
  <2>2. ASSUME NEW d \in C!Live'
        PROVE  IF counter'[d].listed THEN counter'[d].ref = Cardinality(Users(d)') /\ Users(d)' # {}
               ELSE \E x \in Rules : Users(d)' = {x}
    <3>1. CASE d = c
      BY <1>4, <1>10, <3>1
    <3>2. CASE d # c
      BY <1>1, <1>3, <1>5, <1>9, <3>2 DEF QuotaInv, RefsInv
    <3> QED
      BY <3>1, <3>2
  <2> QED
    BY <2>1, <2>2 DEF RefsInv
<1>12. SharedInv'
  BY <1>5, <1>6, SharedRests DEF QuotaInv
<1>13. C!WithinBudget'
  BY <1>5, <1>6 DEF QuotaInv, C!WithinBudget
<1> QED
  BY <1>8, <1>11, <1>12, <1>13 DEF QuotaInv

LEMMA FindsStep ==
  ASSUME QuotaInv, NEW r \in Rules, C!CheckFinds(r)
  PROVE  QuotaInv'
<1>1. PICK c \in C!Listed(Name[r]) : /\ master' = [master EXCEPT ![r] = c]
                                     /\ counter' = [counter EXCEPT ![c].ref = @ + 1]
  BY DEF C!CheckFinds
<1>2. /\ c \in C!Live /\ counter[c].listed /\ counter[c].name = Name[r] /\ Name[r] # ANON
      /\ counter[c].ref \in Nat /\ c \in C!Cs
  BY CountersAre DEF QuotaInv, C!Listed, C!CheckFinds
<1>3. PICK n \in Nat : n = counter[c].ref + 1
  BY <1>2
<1>4. UNCHANGED <<inForce, dying, files, missing, due>> /\ loading' = loading \cup {r}
  BY DEF C!CheckFinds
<1>5. (slept => slept') /\ slept' \in BOOLEAN
  BY DEF C!CheckFinds, QuotaInv, QuotaType, C!Locked
<1>6. master[r] = NONE /\ r \notin inForce \cup loading \cup dying \cup missing
  BY DEF QuotaInv, RulesInv, C!CheckFinds, C!MayCheck
<1>7. c # NONE /\ master \in [Rules -> C!Cs \cup {NONE}]
  BY <1>2, MCModulesAssumption DEF QuotaInv, QuotaType, C!QuotaAssumption, C!Cs
<1>8. RulesInv'
  BY <1>1, <1>4, <1>6, <1>7 DEF QuotaInv, RulesInv
<1>9. loading' \subseteq Rules /\ inForce' \subseteq Rules /\ dying' \subseteq Rules
  BY <1>4 DEF QuotaInv, QuotaType
<1>10. counter' = [counter EXCEPT ![c].ref = n]
  BY <1>1, <1>3
<1> QED
  BY <1>1, <1>2, <1>3, <1>4, <1>5, <1>6, <1>8, <1>9, <1>10, RefMoves

(* A rule gets a counter of its own, and its file if it has a name.        *)
LEMMA MadeStep ==
  ASSUME QuotaInv, NEW r \in Rules, C!CheckMakes(r) \/ C!CheckAnonymous(r)
  PROVE  QuotaInv'
<1>1. PICK anon \in BOOLEAN : anon = (Name[r] = ANON)
  OBVIOUS
<1>2. PICK c \in C!Cs : C!Made(r, c, anon)
  <2>1. CASE C!CheckMakes(r)
    <3>1. ~anon
      BY <1>1, <2>1 DEF C!CheckMakes, QuotaInv, RulesInv
    <3>2. PICK c \in C!Cs : C!Made(r, c, FALSE)
      BY <2>1 DEF C!CheckMakes
    <3>3. anon = FALSE
      BY <1>1, <3>1
    <3> QED
      BY <3>2, <3>3
  <2>2. CASE C!CheckAnonymous(r)
    <3>1. anon = TRUE
      BY <1>1, <2>2 DEF C!CheckAnonymous
    <3>2. PICK c \in C!Cs : C!Made(r, c, TRUE)
      BY <2>2 DEF C!CheckAnonymous
    <3> QED
      BY <3>1, <3>2
  <2> QED
    BY <2>1, <2>2
<1>3. PICK z : z = [name |-> Name[r], quota |-> Quota[r], ref |-> IF anon THEN 0 ELSE 1, listed |-> ~anon]
  OBVIOUS
<1>4. /\ counter[c] = NONE /\ counter' = [counter EXCEPT ![c] = z]
      /\ master' = [master EXCEPT ![r] = c] /\ loading' = loading \cup {r}
      /\ due' = [due EXCEPT ![c] = Quota[r]]
  BY <1>2, <1>3 DEF C!Made
<1>5. UNCHANGED <<inForce, dying, slept>> /\ missing' = missing \ {r}
  BY DEF C!CheckMakes, C!CheckAnonymous, C!MayCheck
<1>6. files' = IF anon THEN files ELSE <<<<Name[r], c>>>> \o files
  <2>1. CASE C!CheckMakes(r)
    <3>1. ~anon
      BY <1>1, <2>1 DEF C!CheckMakes, QuotaInv, RulesInv
    <3>2. PICK e \in C!Cs : C!Made(r, e, FALSE) /\ files' = <<<<Name[r], e>>>> \o files
      BY <2>1 DEF C!CheckMakes
    <3>3. master'[r] = e /\ master'[r] = c
      BY <1>4, <3>2 DEF C!Made, QuotaInv, QuotaType
    <3> QED
      BY <3>1, <3>2, <3>3
  <2>2. CASE C!CheckAnonymous(r)
    BY <1>1, <2>2 DEF C!CheckAnonymous
  <2> QED
    BY <2>1, <2>2
<1>7. /\ ~anon => r \in missing
      /\ r \notin inForce \cup loading \cup dying /\ master[r] = NONE
  BY <1>1 DEF C!CheckMakes, C!CheckAnonymous, C!MayCheck, QuotaInv, RulesInv
<1>8. NONE \notin C!Counters /\ NONE \notin Nat /\ Quota[r] \in Nat
  BY MCModulesAssumption DEF C!QuotaAssumption
<1>9. /\ z \in C!Counters /\ z # NONE /\ z.name = Name[r] /\ z.quota = Quota[r]
      /\ z.ref = (IF anon THEN 0 ELSE 1) /\ z.listed = ~anon
  <2>1. Name[r] \in C!Names /\ (IF anon THEN 0 ELSE 1) \in Nat /\ (~anon) \in BOOLEAN
    BY DEF C!Names
  <2>2. z \in C!Counters
    BY <1>3, <1>8, <2>1 DEF C!Counters
  <2>3. z # NONE
    BY <1>8, <2>2
  <2> QED
    BY <1>3, <2>2, <2>3
<1>10. /\ counter' \in [C!Cs -> C!Counters \cup {NONE}] /\ counter'[c] = z
       /\ \A d \in C!Cs \ {c} : counter'[d] = counter[d]
       /\ due' \in [C!Cs -> Nat] /\ due'[c] = Quota[r]
       /\ \A d \in C!Cs \ {c} : due'[d] = due[d]
       /\ master' \in [Rules -> C!Cs \cup {NONE}] /\ master'[r] = c
       /\ \A x \in Rules \ {r} : master'[x] = master[x]
  BY <1>4, <1>8, <1>9 DEF QuotaInv, QuotaType
<1>11. C!Live' = C!Live \cup {c} /\ c \notin C!Live /\ C!Live \subseteq C!Cs
  BY <1>4, <1>9, <1>10 DEF C!Live
<1>12. c # NONE /\ \A d \in C!Cs : d # NONE
  BY <1>8 DEF C!Cs
<1>13. Users(c)' = {r} /\ \A d \in C!Live : Users(d)' = Users(d)
  <2>1. \A x \in Rules : master[x] # c
    BY <1>11, <1>12 DEF QuotaInv, RefsInv, C!Holding
  <2>2. Users(c)' = {r}
    BY <1>10, <2>1 DEF Users
  <2>3. ASSUME NEW d \in C!Live PROVE Users(d)' = Users(d)
    <3>1. d # c /\ d # NONE
      BY <1>11, <1>12
    <3>2. master[r] # d /\ master'[r] # d
      BY <1>7, <1>10, <3>1
    <3> QED
      BY <1>10, <3>2 DEF Users
  <2> QED
    BY <2>2, <2>3
<1>14. QuotaType'
  <2>1. files' \in Seq(C!Names \X C!Cs)
    <3>1. files \in Seq(C!Names \X C!Cs) /\ <<Name[r], c>> \in C!Names \X C!Cs
      BY DEF QuotaInv, QuotaType, C!Names
    <3>2. <<<<Name[r], c>>>> \in Seq(C!Names \X C!Cs)
      BY <3>1
    <3>3. <<<<Name[r], c>>>> \o files \in Seq(C!Names \X C!Cs)
      BY <3>1, <3>2, ConcatProperties
    <3> QED
      BY <1>6, <3>1, <3>3
  <2> QED
    BY <1>4, <1>5, <1>10, <2>1 DEF QuotaInv, QuotaType
<1>15. RulesInv'
  BY <1>4, <1>5, <1>7, <1>10, <1>12 DEF QuotaInv, RulesInv
<1>16. RefsInv'
  <2>1. ASSUME NEW x \in C!Holding'
        PROVE  /\ master'[x] \in C!Live'
               /\ counter'[master'[x]].listed <=> Name[x] # ANON
               /\ Name[x] # ANON => counter'[master'[x]].name = Name[x]
    <3>1. CASE x = r
      BY <1>1, <1>9, <1>10, <1>11, <3>1
    <3>2. CASE x # r
      <4>1. x \in C!Holding /\ master'[x] = master[x]
        BY <1>10, <2>1, <3>2 DEF C!Holding
      <4>2. master[x] \in C!Live /\ counter'[master[x]] = counter[master[x]]
        BY <1>10, <1>11, <4>1 DEF QuotaInv, RefsInv
      <4> QED
        BY <1>11, <4>1, <4>2 DEF QuotaInv, RefsInv
    <3> QED
      BY <3>1, <3>2
  <2>2. ASSUME NEW d \in C!Live'
        PROVE  IF counter'[d].listed THEN counter'[d].ref = Cardinality(Users(d)') /\ Users(d)' # {}
               ELSE \E x \in Rules : Users(d)' = {x}
    <3>1. CASE d = c
      <4>1. Users(d)' = {r} /\ Cardinality({r}) = 1 /\ counter'[d] = z
        BY <1>10, <1>13, <3>1, FS_Singleton
      <4>2. CASE anon
        <5>1. ~counter'[d].listed
          BY <1>9, <4>1, <4>2
        <5> QED
          BY <4>1, <5>1
      <4>3. CASE ~anon
        <5>1. counter'[d].listed /\ counter'[d].ref = 1
          BY <1>9, <4>1, <4>3
        <5> QED
          BY <4>1, <5>1
      <4> QED
        BY <4>2, <4>3
    <3>2. CASE d # c
      <4>1. d \in C!Live /\ counter'[d] = counter[d] /\ Users(d)' = Users(d)
        BY <1>10, <1>11, <1>13, <3>2
      <4> QED
        BY <4>1 DEF QuotaInv, RefsInv
    <3> QED
      BY <3>1, <3>2
  <2> QED
    BY <2>1, <2>2 DEF RefsInv
<1>17. C!WithinBudget'
  <2>1. ASSUME NEW d \in C!Live'
        PROVE  0 <= counter'[d].quota /\ counter'[d].quota <= due'[d]
    <3>1. CASE d = c
      BY <1>8, <1>9, <1>10, <3>1
    <3>2. CASE d # c
      <4>1. d \in C!Live /\ counter'[d] = counter[d] /\ due'[d] = due[d]
        BY <1>10, <1>11, <3>2
      <4> QED
        BY <4>1 DEF QuotaInv, C!WithinBudget
    <3> QED
      BY <3>1, <3>2
  <2> QED
    BY <2>1 DEF C!WithinBudget
<1>18. SharedInv'
  <2>1. SUFFICES ASSUME ~slept PROVE SharedInv'
    BY <1>5 DEF SharedInv
  <2>2. CASE anon
    <3>1. UNCHANGED <<missing, files>>
      BY <1>1, <1>5, <1>6, <2>2 DEF QuotaInv, RulesInv
    <3>2. \A m : C!Listed(m)' = C!Listed(m)
      <4>1. ~counter'[c].listed
        BY <1>9, <1>10, <2>2
      <4>2. \A d \in C!Live : counter'[d] = counter[d]
        BY <1>10, <1>11
      <4> QED
        BY <1>11, <4>1, <4>2 DEF C!Listed
    <3>3. \A d \in C!Live' : counter'[d].listed => d \in C!Live /\ counter'[d] = counter[d]
      BY <1>9, <1>10, <1>11, <2>2
    <3>4. /\ \A s, x \in missing' : s = x
          /\ \A s \in missing' : (C!Listed(Name[s]))' = {}
      BY <2>1, <3>1, <3>2 DEF QuotaInv, SharedInv
    <3>5. \A a, d \in C!Live' :
            counter'[a].listed /\ counter'[d].listed /\ counter'[a].name = counter'[d].name => a = d
      BY <2>1, <3>3 DEF QuotaInv, SharedInv
    <3>6. /\ \A j, k \in DOMAIN files' : files'[j][1] = files'[k][1] => j = k
          /\ \A k \in DOMAIN files' : files'[k][2] \in (C!Listed(files[k][1]))'
      BY <2>1, <3>1, <3>2 DEF QuotaInv, SharedInv
    <3>7. \A d \in C!Live' : counter'[d].listed => \E k \in DOMAIN files' : files'[k] = <<counter'[d].name, d>>
      BY <2>1, <3>1, <3>3 DEF QuotaInv, SharedInv
    <3> QED
      BY <3>4, <3>5, <3>6, <3>7 DEF SharedInv
  <2>3. CASE ~anon
    <3>1. missing' = {} /\ C!Listed(Name[r]) = {}
      BY <1>5, <1>7, <2>1, <2>3 DEF QuotaInv, SharedInv
    <3>2. \A a, d \in C!Live' :
            counter'[a].listed /\ counter'[d].listed /\ counter'[a].name = counter'[d].name => a = d
      <4>1. \A d \in C!Live : counter'[d] = counter[d] /\ ~(counter[d].listed /\ counter[d].name = Name[r])
        BY <1>10, <1>11, <3>1 DEF C!Listed
      <4>2. \A a, d \in C!Live :
              counter[a].listed /\ counter[d].listed /\ counter[a].name = counter[d].name => a = d
        BY <2>1 DEF QuotaInv, SharedInv
      <4> QED
        BY <1>9, <1>10, <1>11, <4>1, <4>2
    <3>3. /\ Len(files') = Len(files) + 1 /\ files'[1] = <<Name[r], c>> /\ Len(files) \in Nat
          /\ \A k \in 2 .. Len(files) + 1 : files'[k] = files[k - 1]
          /\ DOMAIN files' = 1 .. Len(files) + 1 /\ DOMAIN files = 1 .. Len(files)
      BY <1>6, <2>3 DEF QuotaInv, QuotaType
    <3>4. \A m : C!Listed(m) \subseteq C!Listed(m)'
      BY <1>10, <1>11 DEF C!Listed
    <3>5. c \in (C!Listed(Name[r]))'
      BY <1>9, <1>10, <1>11, <2>3 DEF C!Listed
    <3>6. \A k \in DOMAIN files' : files'[k][2] \in (C!Listed(files[k][1]))'
      <4>1. TAKE k \in DOMAIN files'
      <4>2. CASE k = 1
        BY <3>3, <3>5, <4>2
      <4>3. CASE k # 1
        <5>1. k - 1 \in DOMAIN files /\ files'[k] = files[k - 1]
          BY <3>3, <4>1, <4>3
        <5>2. files[k - 1][2] \in C!Listed(files[k - 1][1])
          BY <2>1, <5>1 DEF QuotaInv, SharedInv
        <5> QED
          BY <3>4, <5>1, <5>2
      <4> QED
        BY <4>2, <4>3
    <3>7. \A k \in DOMAIN files : files[k][1] # Name[r]
      BY <2>1, <3>1 DEF QuotaInv, SharedInv
    <3>8. \A j, k \in DOMAIN files' : files'[j][1] = files'[k][1] => j = k
      <4>1. \A j \in DOMAIN files' : j # 1 => j - 1 \in DOMAIN files /\ files'[j] = files[j - 1]
        BY <3>3
      <4>2. \A j, k \in DOMAIN files : files[j][1] = files[k][1] => j = k
        BY <2>1 DEF QuotaInv, SharedInv
      <4>3. files'[1][1] = Name[r]
        BY <3>3
      <4>4. TAKE j, k \in DOMAIN files'
      <4>5. j \in Int /\ k \in Int
        BY <3>3
      <4>6. HAVE files'[j][1] = files'[k][1]
      <4> QED
        BY <3>7, <4>1, <4>2, <4>3, <4>5, <4>6
    <3>9. \A d \in C!Live' : counter'[d].listed => \E k \in DOMAIN files' : files'[k] = <<counter'[d].name, d>>
      <4>1. TAKE d \in C!Live'
      <4>2. HAVE counter'[d].listed
      <4>3. CASE d = c
        <5>1. 1 \in DOMAIN files' /\ files'[1] = <<counter'[d].name, d>>
          BY <1>9, <1>10, <3>3, <4>3
        <5> QED
          BY <5>1
      <4>4. CASE d # c
        <5>1. d \in C!Live /\ counter'[d] = counter[d]
          BY <1>10, <1>11, <4>4
        <5>2. PICK k \in DOMAIN files : files[k] = <<counter[d].name, d>>
          BY <2>1, <4>2, <5>1 DEF QuotaInv, SharedInv
        <5>3. k + 1 \in DOMAIN files' /\ files'[k + 1] = files[k]
          BY <3>3
        <5> QED
          BY <5>1, <5>2, <5>3
      <4> QED
        BY <4>3, <4>4
    <3> QED
      BY <3>1, <3>2, <3>6, <3>8, <3>9 DEF SharedInv
  <2> QED
    BY <2>2, <2>3
<1> QED
  BY <1>14, <1>15, <1>16, <1>17, <1>18 DEF QuotaInv

LEMMA LeastNat ==
  ASSUME NEW A \in SUBSET Nat, A # {} PROVE \E k \in A : \A j \in A : k <= j
<1> DEFINE L == OpToRel(<, Nat)
<1>1. IsWellFoundedOn(L, Nat)
  BY NatLessThanWellFounded, Zenon
<1> HIDE DEF L
<1>2. PICK k \in A : \A j \in A : ~(<<j, k>> \in L)
  BY <1>1, WFMin
<1>3. \A j, i \in Nat : j < i => <<j, i>> \in L
  BY DEF L, OpToRel
<1>4. \A j \in A : ~(j < k)
  BY <1>2, <1>3
<1>5. \A j \in A : j \in Nat /\ k \in Nat
  OBVIOUS
<1> QED
  BY <1>4, <1>5

(* The file of a name, taken away.                                         *)
LEMMA WithoutTyped ==
  ASSUME files \in Seq(C!Names \X C!Cs), NEW n
  PROVE  C!Without(n) \in Seq(C!Names \X C!Cs)
<1> DEFINE hits == {k \in 1 .. Len(files) : files[k][1] = n}
<1>1. CASE hits = {}
  BY <1>1 DEF C!Without
<1>2. CASE hits # {}
  <2>1. \E k \in hits : \A j \in hits : k <= j
    <3>1. hits \subseteq Nat
      OBVIOUS
    <3> QED
      BY <1>2, <3>1, LeastNat
  <2>2. PICK k \in hits : /\ k = CHOOSE i \in hits : \A j \in hits : i <= j
    BY <2>1
  <2>3. C!Without(n) = SubSeq(files, 1, k - 1) \o SubSeq(files, k + 1, Len(files))
    BY <1>2, <2>2 DEF C!Without
  <2> HIDE DEF hits
  <2>6. k \in 1 .. Len(files) /\ Len(files) \in Nat
    BY <2>2 DEF hits
  <2>4. SubSeq(files, 1, k - 1) \in Seq(C!Names \X C!Cs)
    <3>1. k - 1 \in Int /\ 1 \in Int /\ \A i \in 1 .. k - 1 : files[i] \in C!Names \X C!Cs
      BY <2>6
    <3> QED
      BY <3>1, SubSeqProperties
  <2>5. SubSeq(files, k + 1, Len(files)) \in Seq(C!Names \X C!Cs)
    <3>1. k + 1 \in Int /\ Len(files) \in Int
          /\ \A i \in k + 1 .. Len(files) : files[i] \in C!Names \X C!Cs
      BY <2>6
    <3> QED
      BY <3>1, SubSeqProperties
  <2> QED
    BY <2>3, <2>4, <2>5, ConcatProperties
<1> QED
  BY <1>1, <1>2

LEMMA WithoutOne ==
  ASSUME files \in Seq(C!Names \X C!Cs), NEW n, NEW k \in DOMAIN files, files[k][1] = n,
         \A i, j \in DOMAIN files : files[i][1] = files[j][1] => i = j
  PROVE  LET f == C!Without(n) IN
         /\ DOMAIN f = 1 .. Len(files) - 1
         /\ \A i \in DOMAIN f : f[i] = files[IF i < k THEN i ELSE i + 1]
<1> DEFINE hits == {i \in 1 .. Len(files) : files[i][1] = n}
<1>1. hits = {k} /\ k \in 1 .. Len(files) /\ Len(files) \in Nat
  OBVIOUS
<1>2. (CHOOSE i \in hits : \A j \in hits : i <= j) = k
  BY <1>1
<1>3. C!Without(n) = SubSeq(files, 1, k - 1) \o SubSeq(files, k + 1, Len(files))
  BY <1>1, <1>2 DEF C!Without
<1>4. PICK s : s = SubSeq(files, 1, k - 1)
  OBVIOUS
<1>5. PICK t : t = SubSeq(files, k + 1, Len(files))
  OBVIOUS
<1>6. /\ s \in Seq(C!Names \X C!Cs) /\ Len(s) = k - 1 /\ \A i \in 1 .. k - 1 : s[i] = files[i]
  <2>1. k - 1 \in Int /\ 1 \in Int /\ \A i \in 1 .. k - 1 : files[i] \in C!Names \X C!Cs
    BY <1>1
  <2> QED
    BY <1>1, <1>4, <2>1, SubSeqProperties
<1>7. /\ t \in Seq(C!Names \X C!Cs) /\ Len(t) = Len(files) - k
      /\ \A i \in 1 .. Len(files) - k : t[i] = files[k + i]
  <2>1. k + 1 \in Int /\ Len(files) \in Int
        /\ \A i \in k + 1 .. Len(files) : files[i] \in C!Names \X C!Cs
    BY <1>1
  <2>2. /\ t \in Seq(C!Names \X C!Cs)
        /\ Len(t) = IF k + 1 <= Len(files) THEN Len(files) - (k + 1) + 1 ELSE 0
        /\ \A i \in 1 .. Len(files) - (k + 1) + 1 : t[i] = files[(k + 1) + i - 1]
    BY <1>5, <2>1, SubSeqProperties
  <2> QED
    BY <1>1, <2>2
<1>8. /\ Len(s \o t) = Len(files) - 1 /\ s \o t \in Seq(C!Names \X C!Cs)
      /\ \A i \in 1 .. Len(files) - 1 :
           (s \o t)[i] = IF i <= k - 1 THEN s[i] ELSE t[i - (k - 1)]
  <2>1. Len(s) + Len(t) = Len(files) - 1
    BY <1>1, <1>6, <1>7
  <2>2. /\ Len(s \o t) = Len(s) + Len(t) /\ s \o t \in Seq(C!Names \X C!Cs)
        /\ \A i \in 1 .. Len(s) + Len(t) : (s \o t)[i] = IF i <= Len(s) THEN s[i] ELSE t[i - Len(s)]
    BY <1>6, <1>7, ConcatProperties
  <2> QED
    BY <1>6, <2>1, <2>2
<1>9. \A i \in 1 .. Len(files) - 1 : (s \o t)[i] = files[IF i < k THEN i ELSE i + 1]
  <2>1. TAKE i \in 1 .. Len(files) - 1
  <2>2. CASE i < k
    BY <1>1, <1>6, <1>8, <2>2
  <2>3. CASE ~(i < k)
    <3>1. i - (k - 1) \in 1 .. Len(files) - k /\ k + (i - (k - 1)) = i + 1 /\ ~(i <= k - 1)
      BY <1>1, <2>3
    <3> QED
      BY <1>7, <1>8, <2>3, <3>1
  <2> QED
    BY <2>2, <2>3
<1>10. DOMAIN (s \o t) = 1 .. Len(files) - 1
  BY <1>8
<1> QED
  BY <1>3, <1>4, <1>5, <1>9, <1>10

(* The last rule of a counter goes, and takes it along with its file.      *)
LEMMA LastGoes ==
  ASSUME QuotaInv, NEW r \in dying, NEW c, c = master[r], Users(c) = {r},
         UNCHANGED <<inForce, loading, missing>>, dying' = dying \ {r},
         master' = [master EXCEPT ![r] = NONE], C!Free(c),
         slept' = (slept \/ (missing # {} /\ Name[r] # ANON)),
         files' = IF Name[r] = ANON THEN files ELSE C!Without(Name[r])
  PROVE  QuotaInv'
<1>1. /\ r \in Rules /\ c \in C!Live /\ (counter[c].listed <=> Name[r] # ANON)
      /\ Name[r] # ANON => counter[c].name = Name[r]
  BY DEF QuotaInv, QuotaType, RulesInv, RefsInv, C!Holding
<1>2. NONE \notin C!Counters /\ NONE \notin Nat /\ c \in C!Cs
  <2>1. NONE \notin C!Counters /\ NONE \notin Nat
    BY MCModulesAssumption DEF C!QuotaAssumption
  <2> QED
    BY <1>1, <2>1, CountersAre DEF QuotaInv
<1>3. /\ counter' \in [C!Cs -> C!Counters \cup {NONE}] /\ counter'[c] = NONE
      /\ \A d \in C!Cs \ {c} : counter'[d] = counter[d]
      /\ due' \in [C!Cs -> Nat] /\ \A d \in C!Cs \ {c} : due'[d] = due[d]
      /\ master' \in [Rules -> C!Cs \cup {NONE}] /\ master'[r] = NONE
      /\ \A x \in Rules \ {r} : master'[x] = master[x]
  BY <1>1, <1>2 DEF QuotaInv, QuotaType, C!Free
<1>4. C!Live' = C!Live \ {c} /\ C!Live \subseteq C!Cs
  BY <1>2, <1>3 DEF C!Live
<1>5. \A d \in C!Live' : counter'[d] = counter[d] /\ due'[d] = due[d] /\ Users(d)' = Users(d)
  <2>1. \A d \in C!Live' : d # c /\ d # NONE /\ d \in C!Cs
    BY <1>2, <1>4 DEF C!Cs
  <2> QED
    BY <1>3, <2>1 DEF Users
<1>6. slept => slept'
  OBVIOUS
<1>7. QuotaType'
  <2>1. files' \in Seq(C!Names \X C!Cs)
    BY WithoutTyped DEF QuotaInv, QuotaType
  <2>2. slept' \in BOOLEAN /\ dying' \subseteq Rules
    BY DEF QuotaInv, QuotaType
  <2> QED
    BY <1>3, <2>1, <2>2 DEF QuotaInv, QuotaType
<1>8. RulesInv'
  BY <1>3 DEF QuotaInv, RulesInv
<1>9. RefsInv'
  <2>1. ASSUME NEW x \in C!Holding'
        PROVE  /\ master'[x] \in C!Live'
               /\ counter'[master'[x]].listed <=> Name[x] # ANON
               /\ Name[x] # ANON => counter'[master'[x]].name = Name[x]
    <3>1. x \in Rules \ {r} /\ master'[x] = master[x] /\ x \in C!Holding
      BY <1>3, <2>1 DEF C!Holding
    <3>2. master[x] # c
      BY <3>1 DEF Users
    <3>3. master[x] \in C!Live'
      BY <1>4, <3>1, <3>2 DEF QuotaInv, RefsInv
    <3> QED
      BY <1>5, <3>1, <3>3 DEF QuotaInv, RefsInv
  <2>2. ASSUME NEW d \in C!Live'
        PROVE  IF counter'[d].listed THEN counter'[d].ref = Cardinality(Users(d)') /\ Users(d)' # {}
               ELSE \E x \in Rules : Users(d)' = {x}
    BY <1>4, <1>5 DEF QuotaInv, RefsInv
  <2> QED
    BY <2>1, <2>2 DEF RefsInv
<1>10. C!WithinBudget'
  BY <1>4, <1>5 DEF QuotaInv, C!WithinBudget
<1>11. SharedInv'
  <2>1. SUFFICES ASSUME ~slept' PROVE SharedInv'
    BY DEF SharedInv
  <2>2. ~slept /\ (Name[r] # ANON => missing = {})
    BY <2>1
  <2>3. /\ \A s, x \in missing : s = x
        /\ \A s \in missing : C!Listed(Name[s]) = {}
        /\ \A a, d \in C!Live :
             counter[a].listed /\ counter[d].listed /\ counter[a].name = counter[d].name => a = d
        /\ \A j, k \in DOMAIN files : files[j][1] = files[k][1] => j = k
        /\ \A k \in DOMAIN files : files[k][2] \in C!Listed(files[k][1])
        /\ \A d \in C!Live : counter[d].listed => \E k \in DOMAIN files : files[k] = <<counter[d].name, d>>
    BY <2>2 DEF QuotaInv, SharedInv
  <2>4. \A m : C!Listed(m)' = C!Listed(m) \ {c}
    BY <1>4, <1>5 DEF C!Listed
  <2>5. /\ \A s, x \in missing' : s = x
        /\ \A s \in missing' : (C!Listed(Name[s]))' = {}
    BY <2>3, <2>4
  <2>6. \A a, d \in C!Live' :
          counter'[a].listed /\ counter'[d].listed /\ counter'[a].name = counter'[d].name => a = d
    BY <1>4, <1>5, <2>3
  <2>7. CASE Name[r] = ANON
    <3>1. files' = files /\ \A m : C!Listed(m)' = C!Listed(m)
      BY <1>1, <2>4, <2>7 DEF C!Listed
    <3>2. /\ \A j, k \in DOMAIN files' : files'[j][1] = files'[k][1] => j = k
          /\ \A k \in DOMAIN files' : files'[k][2] \in (C!Listed(files[k][1]))'
      BY <2>3, <3>1
    <3>3. \A d \in C!Live' : counter'[d].listed => \E k \in DOMAIN files' : files'[k] = <<counter'[d].name, d>>
      BY <1>4, <1>5, <2>3, <3>1
    <3> QED
      BY <2>5, <2>6, <3>2, <3>3 DEF SharedInv
  <2>8. CASE Name[r] # ANON
    <3>1. PICK h \in DOMAIN files : files[h] = <<counter[c].name, c>>
      BY <1>1, <2>3, <2>8
    <3>2. files[h][1] = Name[r] /\ files[h][2] = c
      BY <1>1, <2>8, <3>1
    <3>3. PICK n \in Nat : n = Len(files) /\ DOMAIN files = 1 .. n
      BY DEF QuotaInv, QuotaType
    <3>4. /\ DOMAIN files' = 1 .. n - 1
          /\ \A i \in DOMAIN files' : files'[i] = files[IF i < h THEN i ELSE i + 1]
      BY <2>3, <2>8, <3>2, <3>3, WithoutOne DEF QuotaInv, QuotaType
    <3>5. h \in 1 .. n
      BY <3>1, <3>3
    <3>6. \A i \in DOMAIN files' :
            \E k \in DOMAIN files : k = (IF i < h THEN i ELSE i + 1) /\ k # h /\ files'[i] = files[k]
      <4>1. TAKE i \in DOMAIN files'
      <4>2. i \in 1 .. n - 1
        BY <3>4
      <4>3. PICK k : k = IF i < h THEN i ELSE i + 1
        OBVIOUS
      <4>4. k \in DOMAIN files /\ k # h
        BY <3>3, <3>5, <4>2, <4>3
      <4>5. files'[i] = files[k]
        BY <3>4, <4>3
      <4> QED
        BY <4>3, <4>4, <4>5
    <3>7. \A j, k \in DOMAIN files' : files'[j][1] = files'[k][1] => j = k
      <4>1. TAKE j, k \in DOMAIN files'
      <4>2. HAVE files'[j][1] = files'[k][1]
      <4>3. PICK x \in DOMAIN files : x = (IF j < h THEN j ELSE j + 1) /\ files'[j] = files[x]
        BY <3>6
      <4>4. PICK y \in DOMAIN files : y = (IF k < h THEN k ELSE k + 1) /\ files'[k] = files[y]
        BY <3>6
      <4>5. x = y
        BY <2>3, <4>2, <4>3, <4>4
      <4>6. j \in Int /\ k \in Int /\ h \in Int
        BY <3>4, <3>5
      <4> QED
        BY <4>3, <4>4, <4>5, <4>6
    <3>8. \A k \in DOMAIN files' : files'[k][2] \in (C!Listed(files[k][1]))'
      <4>1. TAKE k \in DOMAIN files'
      <4>2. PICK x \in DOMAIN files : x # h /\ files'[k] = files[x]
        BY <3>6
      <4>3. files[x][2] \in C!Listed(files[x][1])
        BY <2>3
      <4>4. files[x][2] # c
        <5>1. files[x][1] # Name[r]
          BY <2>3, <3>2, <4>2
        <5>2. SUFFICES ASSUME files[x][2] = c PROVE FALSE
          OBVIOUS
        <5> QED
          BY <1>1, <2>8, <4>3, <5>1, <5>2 DEF C!Listed
      <4> QED
        BY <2>4, <4>2, <4>3, <4>4
    <3>9. \A d \in C!Live' : counter'[d].listed => \E k \in DOMAIN files' : files'[k] = <<counter'[d].name, d>>
      <4>1. TAKE d \in C!Live'
      <4>2. HAVE counter'[d].listed
      <4>3. d \in C!Live /\ d # c /\ counter'[d] = counter[d]
        BY <1>4, <1>5
      <4>4. PICK k \in DOMAIN files : files[k] = <<counter[d].name, d>>
        BY <2>3, <4>2, <4>3
      <4>5. k # h
        BY <3>2, <4>3, <4>4
      <4>6. PICK i : i = IF k < h THEN k ELSE k - 1
        OBVIOUS
      <4>7. i \in 1 .. n - 1 /\ k = (IF i < h THEN i ELSE i + 1)
        BY <3>3, <3>5, <4>5, <4>6
      <4>8. i \in DOMAIN files' /\ files'[i] = files[k]
        BY <3>4, <4>7
      <4> QED
        BY <4>3, <4>4, <4>8
    <3> QED
      BY <2>5, <2>6, <3>7, <3>8, <3>9 DEF SharedInv
  <2> QED
    BY <2>7, <2>8
<1> QED
  BY <1>7, <1>8, <1>9, <1>10, <1>11 DEF QuotaInv

LEMMA DestroyStep ==
  ASSUME QuotaInv, NEW r \in Rules, C!Destroy(r)
  PROVE  QuotaInv'
<1>1. PICK c : c = master[r]
  OBVIOUS
<1>2. /\ r \in dying /\ dying' = dying \ {r} /\ master' = [master EXCEPT ![r] = NONE]
      /\ slept' = (slept \/ (missing # {} /\ Name[r] # ANON))
      /\ UNCHANGED <<inForce, loading, missing>>
  BY DEF C!Destroy, C!Locked
<1>3. /\ c \in C!Live /\ (counter[c].listed <=> Name[r] # ANON)
      /\ Name[r] # ANON => counter[c].name = Name[r]
      /\ counter[c].ref \in Nat /\ c \in C!Cs /\ r \in Users(c)
  <2>1. c \in C!Live /\ (counter[c].listed <=> Name[r] # ANON)
        /\ (Name[r] # ANON => counter[c].name = Name[r])
    BY <1>1, <1>2 DEF QuotaInv, RulesInv, RefsInv, C!Holding
  <2> QED
    BY <1>1, <2>1, CountersAre DEF QuotaInv, Users
<1>4. IsFiniteSet(Users(c)) /\ Cardinality(Users(c)) \in Nat
  <2>1. IsFiniteSet(Rules)
    BY MCModulesAssumption, SameFinite DEF C!QuotaAssumption
  <2>2. IsFiniteSet(Users(c))
    BY <2>1, FS_Subset DEF Users
  <2> QED
    BY <2>2, FS_CardinalityType
<1>5. Cardinality(Users(c) \ {r}) = Cardinality(Users(c)) - 1
  BY <1>3, <1>4, FS_RemoveElement
<1>6. CASE Name[r] = ANON
  <2>1. Users(c) = {r}
    BY <1>3, <1>6 DEF QuotaInv, RefsInv
  <2>2. C!Free(c) /\ files' = files
    BY <1>1, <1>6 DEF C!Destroy
  <2> QED
    BY <1>1, <1>2, <1>6, <2>1, <2>2, LastGoes
<1>7. CASE Name[r] # ANON /\ counter[c].ref = 1
  <2>1. Cardinality(Users(c)) = 1
    BY <1>3, <1>7 DEF QuotaInv, RefsInv
  <2>2. IsFiniteSet(Users(c) \ {r}) /\ Cardinality(Users(c) \ {r}) = 0
    BY <1>4, <1>5, <2>1, FS_Subset
  <2>3. Users(c) \ {r} = {}
    BY <2>2, FS_EmptySet
  <2>4. Users(c) = {r}
    BY <1>3, <2>3
  <2>5. C!Free(c) /\ files' = C!Without(Name[r])
    BY <1>1, <1>7 DEF C!Destroy
  <2> QED
    BY <1>1, <1>2, <1>7, <2>4, <2>5, LastGoes
<1>8. CASE Name[r] # ANON /\ counter[c].ref # 1
  <2>1. counter[c].listed /\ counter[c].ref = Cardinality(Users(c))
    BY <1>3, <1>8 DEF QuotaInv, RefsInv
  <2>2. counter[c].ref # 0
    BY <1>3, <1>4, <2>1, FS_EmptySet
  <2>3. PICK n \in Nat : n = counter[c].ref - 1 /\ n # 0
    BY <1>3, <1>8, <2>2
  <2>4. counter' = [counter EXCEPT ![c].ref = n] /\ UNCHANGED <<due, files>>
    BY <1>1, <1>8, <2>3 DEF C!Destroy
  <2>5. slept' \in BOOLEAN /\ (slept => slept')
    BY <1>2 DEF QuotaInv, QuotaType
  <2>6. RulesInv'
    <3>1. master'[r] = NONE /\ \A x \in Rules \ {r} : master'[x] = master[x]
      BY <1>2 DEF QuotaInv, QuotaType
    <3> QED
      BY <1>2, <3>1 DEF QuotaInv, RulesInv
  <2>7. inForce' \subseteq Rules /\ loading' \subseteq Rules /\ dying' \subseteq Rules
    BY <1>2 DEF QuotaInv, QuotaType
  <2> QED
    BY <1>1, <1>2, <1>3, <2>1, <2>3, <2>4, <2>5, <2>6, <2>7, RefMoves
<1> QED
  BY <1>6, <1>7, <1>8

-----------------------------------------------------------------------------
LEMMA QuotaInit == C!Init => QuotaInv
<1> SUFFICES ASSUME C!Init PROVE QuotaInv
  OBVIOUS
<1>1. C!Live = {} /\ C!Holding = {}
  BY DEF C!Init, C!Live, C!Holding
<1>2. files \in Seq(C!Names \X C!Cs)
  BY DEF C!Init
<1>4. QuotaType /\ RulesInv
  BY <1>2 DEF C!Init, QuotaType, RulesInv
<1>3. DOMAIN files = {} /\ missing = {}
  BY DEF C!Init
<1> QED
  BY <1>1, <1>3, <1>4 DEF QuotaInv, RefsInv, SharedInv, C!WithinBudget

LEMMA QuotaStep == QuotaInv /\ [C!Next]_(C!quotavars) => QuotaInv'
<1> SUFFICES ASSUME QuotaInv, [C!Next]_(C!quotavars) PROVE QuotaInv'
  OBVIOUS
<1>1. CASE UNCHANGED C!quotavars
  <2>1. UNCHANGED <<inForce, loading, dying, master, counter, files, missing, due, slept>>
    BY <1>1 DEF C!quotavars
  <2> QED
    BY <2>1, RulesMove DEF QuotaInv, QuotaType, RulesInv, SharedInv
<1>2. ASSUME NEW r \in Rules, C!CheckMisses(r) \/ C!CheckFails(r) \/ C!Replace(r) PROVE QuotaInv'
  BY <1>2, WayStep
<1>3. ASSUME NEW r \in Rules, C!CheckFinds(r) PROVE QuotaInv'
  BY <1>3, FindsStep
<1>4. ASSUME NEW r \in Rules, C!CheckMakes(r) \/ C!CheckAnonymous(r) PROVE QuotaInv'
  BY <1>4, MadeStep
<1>5. ASSUME NEW r \in Rules, C!Destroy(r) PROVE QuotaInv'
  BY <1>5, DestroyStep
<1>6. ASSUME \/ \E r \in Rules, m \in Lengths : C!Grow(r, m) \/ C!Take(r, m) \/ C!Exhaust(r, m)
             \/ \E k \in 1 .. MaxCounters, v \in Writes : C!Write(k, v)
      PROVE  QuotaInv'
  BY <1>6, AmountStep
<1> QED
  BY <1>1, <1>2, <1>3, <1>4, <1>5, <1>6 DEF C!Next

LEMMA QuotaShows == QuotaInv => CountersHold
<1> SUFFICES ASSUME QuotaInv PROVE CountersHold
  OBVIOUS
<1>1. \A r \in C!Holding : master[r] \in C!Live
  BY DEF QuotaInv, RefsInv
<1>2. NONE \notin Nat /\ IsFiniteSet(Rules)
  BY MCModulesAssumption, SameFinite DEF C!QuotaAssumption
<1>3. \A c \in C!Live : {r \in C!Holding : master[r] = c} = Users(c)
  <2>1. \A c \in C!Live : c # NONE
    BY <1>2 DEF C!Live, C!Cs
  <2> QED
    BY <2>1 DEF C!Holding, Users
<1>4. C!RefsExact
  <2>1. \A r \in C!Holding : counter[master[r]] # NONE
    BY <1>1 DEF C!Live
  <2>2. ASSUME NEW c \in C!Live
        PROVE  Users(c) # {} /\ (counter[c].listed => counter[c].ref = C!Cardinality(Users(c)))
    <3>1. counter[c].listed \/ ~counter[c].listed
      OBVIOUS
    <3> QED
      BY <3>1, SameCardinality DEF QuotaInv, RefsInv
  <2>3. ASSUME NEW c \in C!Live
        PROVE  LET users == {r \in C!Holding : master[r] = c}
               IN  users # {} /\ (counter[c].listed => counter[c].ref = C!Cardinality(users))
    BY <1>3, <2>2
  <2> QED
    BY <2>1, <2>3 DEF C!RefsExact
<1>5. C!NamedShared
  <2>1. SUFFICES ASSUME ~slept PROVE C!NamedShared
    BY DEF C!NamedShared
  <2>2. ASSUME NEW r \in C!Holding, NEW x \in C!Holding, Name[r] = Name[x], Name[r] # ANON
        PROVE  master[r] = master[x]
    BY <2>1, <2>2 DEF QuotaInv, RefsInv, SharedInv
  <2>3. DOMAIN files = 1 .. Len(files) /\ files \in Seq(C!Names \X C!Cs)
    BY DEF QuotaInv, QuotaType
  <2>4. {files[k] : k \in 1 .. Len(files)}
          = {<<counter[c].name, c>> : c \in {d \in C!Live : counter[d].listed}}
    <3>1. ASSUME NEW k \in 1 .. Len(files)
          PROVE  files[k] \in {<<counter[c].name, c>> : c \in {d \in C!Live : counter[d].listed}}
      <4>1. PICK n, c : files[k] = <<n, c>>
        BY <2>3
      <4>2. c \in C!Listed(n)
        BY <2>1, <2>3, <4>1 DEF QuotaInv, SharedInv
      <4> QED
        BY <4>1, <4>2 DEF C!Listed
    <3>2. ASSUME NEW c \in C!Live, counter[c].listed
          PROVE  <<counter[c].name, c>> \in {files[k] : k \in 1 .. Len(files)}
      <4>1. PICK k \in DOMAIN files : files[k] = <<counter[c].name, c>>
        BY <2>1, <3>2 DEF QuotaInv, SharedInv
      <4> QED
        BY <2>3, <4>1
    <3> QED
      BY <3>1, <3>2
  <2> QED
    BY <2>2, <2>4 DEF C!NamedShared
<1> QED
  BY <1>4, <1>5 DEF QuotaInv, CountersHold, C!CountersHold

(* Whatever rules are loaded, replaced and refused in whatever tables, and *)
(* whatever packets they match: a named counter has as many references as  *)
(* rules, lives as long as one, and gives out what it was given; unless a  *)
(* task has slept under the lock, the rules of a name share it and its one *)
(* file.                                                                   *)
THEOREM CountersCorrect == ModSpec => []CountersHold
<1>1. ModInit => QuotaInv
  BY QuotaInit DEF ModInit
<1>2. QuotaInv /\ [ModNext]_<<vars, statistics, interfaces, quotas, keypad, turn>> => QuotaInv'
  BY QuotaStep DEF ModNext, quotas, C!quotavars
<1> QED
  BY <1>1, <1>2, QuotaShows, PTL DEF ModSpec

-----------------------------------------------------------------------------
(* The counters of the tags                                                *)

Rows == [T!Sets -> Nat]
Deletions == [step : {"cset", "stats"}, tag : T!FullTags]

StatType ==
  /\ stat \in [Ifaces -> [T!FullTags -> Rows \cup {NONE}]]
  /\ billed \in [Ifaces -> [StatUids -> Rows]]
  /\ cset \in [StatUids -> T!Sets \cup {NONE}]
  /\ tag \in [Socks -> T!FullTags \cup {NONE}]
  /\ del \in Deletions \cup {NONE}

(* What UidTotals says of one interface, uid and counter set, which is so  *)
(* even of a system that has stopped.                                      *)
Of(i, t, c) == IF T!Exists(i, t) THEN stat[i][t][c] ELSE 0
Shares(i, u, c) == UNION {{a} \X (1 .. Of(i, <<a, u>>, c)) : a \in StatTags \ {ZERO}}
Totals(i, u, c) ==
  /\ Of(i, T!UidTag(u), c) = billed[i][u][c]
  /\ IsFiniteSet(Shares(i, u, c)) /\ Cardinality(Shares(i, u, c)) <= Of(i, T!UidTag(u), c)

(* ctrl_cmd_delete erases {0, uid} only with all tags of the uid, so that  *)
(* no entry outlives the one its parent_counters points to.                *)
StatInv ==
  /\ StatType /\ orphan = {} /\ (dead => statOom)
  /\ \A i \in Ifaces, u \in StatUids, c \in T!Sets : Totals(i, u, c)

LEMMA SameSize == ASSUME NEW S PROVE T!Cardinality(S) = Cardinality(S)
BY DEF T!Cardinality, Cardinality

LEMMA StatShows == StatInv => AccountsHold
<1> SUFFICES ASSUME StatInv, NEW i \in Ifaces, NEW u \in StatUids, NEW c \in T!Sets
             PROVE  /\ Of(i, T!UidTag(u), c) = billed[i][u][c]
                    /\ T!Cardinality(Shares(i, u, c)) <= Of(i, T!UidTag(u), c)
  BY DEF AccountsHold, T!AccountsHold, T!UidTotals, T!ParentsAlive, StatInv, Of, Shares
<1> QED
  BY SameSize DEF StatInv, Totals

LEMMA OfIs ==
  ASSUME StatType, NEW i \in Ifaces, NEW t \in T!FullTags, NEW c \in T!Sets
  PROVE  Of(i, t, c) \in Nat
BY DEF StatType, Rows, Of, T!Exists

LEMMA UidTagIs == \A u \in StatUids : T!UidTag(u) \in T!FullTags
BY MCModulesAssumption DEF T!StatsAssumption, T!UidTag, T!FullTags

LEMMA StatInit == T!Init => StatInv
<1> SUFFICES ASSUME T!Init PROVE StatInv
  OBVIOUS
<1>1. StatType /\ orphan = {} /\ (dead => statOom)
  BY DEF T!Init, T!MapInit, StatType, Rows, T!Zeroes, T!Sets
<1>2. ASSUME NEW i \in Ifaces, NEW u \in StatUids, NEW c \in T!Sets PROVE Totals(i, u, c)
  <2>1. \A t \in T!FullTags : Of(i, t, c) = 0
    BY DEF T!Init, Of, T!Exists
  <2>2. Shares(i, u, c) = {}
    <3>1. \A a \in StatTags : (1 .. Of(i, <<a, u>>, c)) = {}
      BY <2>1 DEF T!FullTags
    <3>2. \A a \in StatTags \ {ZERO} : {a} \X (1 .. Of(i, <<a, u>>, c)) = {}
      BY <3>1
    <3> QED
      BY <3>2 DEF Shares
  <2>3. billed[i][u][c] = 0
    BY DEF T!Init, T!Zeroes
  <2>4. IsFiniteSet(Shares(i, u, c)) /\ Cardinality(Shares(i, u, c)) = 0
    BY <2>2, FS_EmptySet
  <2> QED
    BY <2>1, <2>3, <2>4, UidTagIs DEF Totals
<1> QED
  BY <1>1, <1>2 DEF StatInv

(* What a command does to the sockets and the counter sets leaves the      *)
(* counters alone.                                                         *)
LEMMA StatKeeps ==
  ASSUME StatInv, UNCHANGED <<stat, billed, orphan>>, StatType', (dead => statOom)'
  PROVE  StatInv'
<1>1. ASSUME NEW i \in Ifaces, NEW u \in StatUids, NEW c \in T!Sets PROVE Totals(i, u, c)'
  <2>1. \A t : Of(i, t, c)' = Of(i, t, c)
    BY DEF Of, T!Exists
  <2>2. Shares(i, u, c)' = Shares(i, u, c)
    BY <2>1 DEF Shares
  <2> QED
    BY <2>1, <2>2 DEF StatInv, Totals
<1> QED
  BY <1>1 DEF StatInv

(* A packet adds one to the entry of its tag and to that of its uid, and   *)
(* makes those that were not there.                                        *)
Row(i, x) == IF T!Exists(i, x) THEN stat[i][x] ELSE T!Zeroes
LEMMA PacketIs ==
  ASSUME StatInv, NEW i \in Ifaces, NEW s \in Socks \cup {NONE}, T!Packet(i, s),
         NEW t, t = T!TagOfPacket(s), NEW u, u = T!Owner(t), NEW c, c = T!ActiveSet(u)
  PROVE  /\ t \in T!FullTags /\ u \in StatUids /\ c \in T!Sets /\ T!UidTag(u) \in T!FullTags
         /\ \A x \in T!FullTags : Row(i, x) \in Rows /\ [Row(i, x) EXCEPT ![c] = @ + 1] \in Rows
         /\ stat' = [stat EXCEPT ![i] =
              [x \in T!FullTags |-> IF x = t \/ x = T!UidTag(u)
                                    THEN [Row(i, x) EXCEPT ![c] = @ + 1] ELSE stat[i][x]]]
<1>1. ZERO \in StatTags /\ root \in StatUids /\ SockUid \in [Socks -> StatUids]
  BY MCModulesAssumption DEF T!StatsAssumption
<1>2. t \in T!FullTags
  <2>1. CASE s = NONE
    BY <2>1, <1>1, UidTagIs DEF T!TagOfPacket
  <2>2. CASE s # NONE
    BY <2>2, <1>1, UidTagIs DEF T!TagOfPacket, StatInv, StatType
  <2> QED
    BY <2>1, <2>2
<1>3. u \in StatUids /\ T!UidTag(u) \in T!FullTags
  BY <1>2, UidTagIs DEF T!FullTags, T!Owner
<1>4. c \in T!Sets
  BY <1>3 DEF StatInv, StatType, T!ActiveSet, T!Sets
<1>5. \A x \in T!FullTags : Row(i, x) \in Rows
  BY DEF StatInv, StatType, Row, Rows, T!Zeroes, T!Sets, T!Exists
<1>6. \A x \in T!FullTags : [Row(i, x) EXCEPT ![c] = @ + 1] \in Rows
  BY <1>4, <1>5 DEF Rows
<1>7. stat' = [stat EXCEPT ![i] = T!Updated(i, t)]
  BY DEF T!Packet
<1>8. T!Updated(i, t) = [x \in T!FullTags |-> IF x = t \/ x = T!UidTag(u)
                                             THEN [Row(i, x) EXCEPT ![c] = @ + 1] ELSE stat[i][x]]
  BY DEF T!Updated, Row
<1> QED
  BY <1>2, <1>3, <1>4, <1>5, <1>6, <1>7, <1>8

LEMMA PacketStep ==
  ASSUME StatInv, NEW i \in Ifaces, NEW s \in Socks \cup {NONE}, T!Packet(i, s)
  PROVE  StatInv'
<1> DEFINE t == T!TagOfPacket(s)
           u == T!Owner(t)
           c == T!ActiveSet(u)
           hit(j, x, d) == j = i /\ (x = t \/ x = T!UidTag(u)) /\ d = c
           n(x) == Row(i, x)
<1>1. NONE \notin Rows /\ ZERO \in StatTags
  BY MCModulesAssumption DEF T!StatsAssumption, Rows
<1>2. /\ t \in T!FullTags /\ u \in StatUids /\ c \in T!Sets /\ T!UidTag(u) \in T!FullTags
      /\ \A x \in T!FullTags : n(x) \in Rows /\ [n(x) EXCEPT ![c] = @ + 1] \in Rows
      /\ stat' = [stat EXCEPT ![i] =
              [x \in T!FullTags |-> IF x = t \/ x = T!UidTag(u)
                                    THEN [n(x) EXCEPT ![c] = @ + 1] ELSE stat[i][x]]]
  BY PacketIs
<1>3. t = <<T!Acct(t), u>> /\ T!Acct(t) \in StatTags
  BY <1>2 DEF T!FullTags, T!Owner, T!Acct
<1>5. /\ billed' = [billed EXCEPT ![i][u][c] = @ + 1] /\ dead' = (<<i, t>> \in orphan)
      /\ UNCHANGED <<orphan, cset, tag, del, statOom>>
  BY DEF T!Packet, T!mapvars
<1>6. \A x \in T!FullTags : \A d \in T!Sets : n(x)[d] = Of(i, x, d)
  BY DEF Row, T!Zeroes, T!Exists, Of
<1> HIDE DEF n
<1>9. stat' \in [Ifaces -> [T!FullTags -> Rows \cup {NONE}]]
  BY <1>2 DEF StatInv, StatType
<1>10. billed' \in [Ifaces -> [StatUids -> Rows]]
       /\ \A j \in Ifaces, v \in StatUids, d \in T!Sets :
            billed'[j][v][d] = billed[j][v][d] + (IF j = i /\ v = u /\ d = c THEN 1 ELSE 0)
  BY <1>2, <1>5 DEF StatInv, StatType, Rows
<1>11. StatType' /\ orphan' = {} /\ (dead => statOom)'
  BY <1>5, <1>9, <1>10 DEF StatInv, StatType
<1>12. ASSUME NEW j \in Ifaces, NEW x \in T!FullTags, NEW d \in T!Sets
       PROVE  Of(j, x, d)' = Of(j, x, d) + (IF hit(j, x, d) THEN 1 ELSE 0)
  <2>1. CASE j = i /\ (x = t \/ x = T!UidTag(u))
    <3>1. stat'[i][x] = [n(x) EXCEPT ![c] = @ + 1]
      BY <2>1, <1>2 DEF StatInv, StatType
    <3>2. stat'[i][x] # NONE
      BY <3>1, <1>1, <1>2
    <3>3. stat'[i][x][d] = n(x)[d] + (IF d = c THEN 1 ELSE 0)
      BY <3>1, <1>2, <1>6 DEF Rows
    <3> QED
      BY <2>1, <3>2, <3>3, <1>2, <1>6 DEF Of, T!Exists
  <2>2. CASE ~(j = i /\ (x = t \/ x = T!UidTag(u)))
    <3>1. stat'[j][x] = stat[j][x]
      BY <2>2, <1>2 DEF StatInv, StatType
    <3> QED
      BY <2>2, <3>1, OfIs DEF Of, T!Exists, StatInv
  <2> QED
    BY <2>1, <2>2
<1>13. ASSUME NEW j \in Ifaces, NEW v \in StatUids, NEW d \in T!Sets PROVE Totals(j, v, d)'
  <2>1. T!UidTag(v) \in T!FullTags /\ \A a \in StatTags : <<a, v>> \in T!FullTags
    BY UidTagIs DEF T!FullTags
  <2>2. Totals(j, v, d) /\ StatType
    BY DEF StatInv
  <2>3. Of(j, T!UidTag(v), d) \in Nat /\ \A a \in StatTags : Of(j, <<a, v>>, d) \in Nat
    BY <2>1, <2>2, OfIs
  <2>4. CASE ~(j = i /\ v = u /\ d = c)
    <3>1. \A a \in StatTags : Of(j, <<a, v>>, d)' = Of(j, <<a, v>>, d)
      BY <2>4, <2>1, <2>3, <1>12, <1>3 DEF T!UidTag
    <3>2. Of(j, T!UidTag(v), d)' = Of(j, T!UidTag(v), d)
      BY <3>1, <1>1 DEF T!UidTag
    <3>3. Shares(j, v, d)' = Shares(j, v, d)
      BY <3>1 DEF Shares
    <3>4. billed'[j][v][d] = billed[j][v][d]
      BY <2>4, <1>10 DEF StatInv, StatType, Rows
    <3> QED
      BY <3>2, <3>3, <3>4, <2>2 DEF Totals
  <2>5. CASE j = i /\ v = u /\ d = c
    <3>1. Of(j, T!UidTag(v), d)' = Of(j, T!UidTag(v), d) + 1
      BY <2>5, <2>1, <1>12
    <3>2. billed'[j][v][d] = billed[j][v][d] + 1
      BY <2>5, <1>10
    <3>3. CASE T!Acct(t) = ZERO
      <4>1. \A a \in StatTags \ {ZERO} : Of(j, <<a, v>>, d)' = Of(j, <<a, v>>, d)
        BY <3>3, <2>1, <2>3, <1>12, <1>3 DEF T!UidTag
      <4>2. Shares(j, v, d)' = Shares(j, v, d)
        BY <4>1 DEF Shares
      <4>3. Cardinality(Shares(j, v, d)) \in Nat
        BY <2>2, FS_CardinalityType DEF Totals
      <4> QED
        BY <3>1, <3>2, <4>2, <4>3, <2>2, <2>3 DEF Totals
    <3>4. CASE T!Acct(t) # ZERO
      <4> DEFINE b == T!Acct(t)
                 k == Of(j, <<b, v>>, d)
      <4>1. \A a \in StatTags \ {ZERO} :
              Of(j, <<a, v>>, d)' = IF a = b THEN k + 1 ELSE Of(j, <<a, v>>, d)
        BY <3>4, <2>5, <2>1, <2>3, <1>12, <1>3 DEF T!UidTag
      <4>2. b \in StatTags \ {ZERO} /\ k \in Nat
        BY <3>4, <1>3, <2>3
      <4>3. 1 .. (k + 1) = (1 .. k) \cup {k + 1}
        BY <4>2
      <4>4. Shares(j, v, d)' = Shares(j, v, d) \cup {<<b, k + 1>>}
        <5> HIDE DEF k, b
        <5>1. Shares(j, v, d)' = UNION {{a} \X (1 .. (IF a = b THEN k + 1 ELSE Of(j, <<a, v>>, d))) :
                                        a \in StatTags \ {ZERO}}
          BY <4>1 DEF Shares
        <5>2. \A a : a = b => Of(j, <<a, v>>, d) = k
          BY DEF k
        <5> QED
          <6> DEFINE F(a) == {a} \X (1 .. Of(j, <<a, v>>, d))
                     G(a) == {a} \X (1 .. (IF a = b THEN k + 1 ELSE Of(j, <<a, v>>, d)))
          <6>1. G(b) = F(b) \cup {<<b, k + 1>>} /\ \A a : a # b => G(a) = F(a)
            BY <5>2, <4>2, <4>3
          <6>2. Shares(j, v, d) = UNION {F(a) : a \in StatTags \ {ZERO}}
                /\ Shares(j, v, d)' = UNION {G(a) : a \in StatTags \ {ZERO}}
            BY <5>1 DEF Shares
          <6> HIDE DEF F, G
          <6> QED
            BY <6>1, <6>2, <4>2
      <4>5. <<b, k + 1>> \notin Shares(j, v, d)
        <5>1. \A a \in StatTags \ {ZERO} : <<b, k + 1>> \notin {a} \X (1 .. Of(j, <<a, v>>, d))
          <6> SUFFICES ASSUME NEW a \in StatTags \ {ZERO}, a = b
                       PROVE  k + 1 \notin 1 .. Of(j, <<a, v>>, d)
            OBVIOUS
          <6> QED
            BY <4>2
        <5> QED
          BY <5>1 DEF Shares
      <4>6. IsFiniteSet(Shares(j, v, d)) /\ Cardinality(Shares(j, v, d)) \in Nat
        BY <2>2, FS_CardinalityType DEF Totals
      <4>7. IsFiniteSet(Shares(j, v, d)')
            /\ Cardinality(Shares(j, v, d)') = Cardinality(Shares(j, v, d)) + 1
        <5> DEFINE S == Shares(j, v, d)
        <5>1. IsFiniteSet(S) /\ <<b, k + 1>> \notin S
          BY <4>5, <4>6
        <5>2. IsFiniteSet(S \cup {<<b, k + 1>>})
              /\ Cardinality(S \cup {<<b, k + 1>>}) = Cardinality(S) + 1
          <6> HIDE DEF S
          <6> QED
            BY <5>1, FS_AddElement
        <5> QED
          BY <4>4, <5>2
      <4> QED
        BY <3>1, <3>2, <4>6, <4>7, <2>2, <2>3 DEF Totals
    <3> QED
      BY <3>3, <3>4
  <2> QED
    BY <2>4, <2>5
<1> QED
  BY <1>11, <1>13 DEF StatInv

(* Erasing {0, uid} takes all tags of the uid along; any other tag goes    *)
(* alone, and what is left of its uid's shares is less than before.        *)
LEMMA EraseStep ==
  ASSUME StatInv, T!DeleteTagStats
  PROVE  StatInv'
<1> DEFINE t == del.tag
           u == T!Owner(t)
           E == [i \in Ifaces |-> T!Erased(i, t)]
<1>1. NONE \notin Rows /\ ZERO \in StatTags
  BY MCModulesAssumption DEF T!StatsAssumption, Rows
<1>2. t \in T!FullTags /\ u \in StatUids /\ t = <<T!Acct(t), u>>
  BY DEF T!DeleteTagStats, StatInv, StatType, Deletions, T!FullTags, T!Owner, T!Acct
<1>3. /\ stat' = [i \in Ifaces |-> [x \in T!FullTags |-> IF x \in E[i] THEN NONE ELSE stat[i][x]]]
      /\ billed' = IF T!Acct(t) # ZERO THEN billed
                   ELSE [i \in Ifaces |-> [billed[i] EXCEPT ![u] = T!Zeroes]]
      /\ del' = NONE /\ UNCHANGED <<cset, tag, dead, statOom>>
  BY DEF T!DeleteTagStats, T!mapvars
<1>4. \A i \in Ifaces : E[i] = {x \in T!FullTags : T!Exists(i, x) /\ T!Concerns(t, x)}
  BY DEF T!Erased
<1>5. \A x \in T!FullTags : T!Concerns(t, x) <=> T!Owner(x) = u /\ (T!Acct(t) = ZERO \/ x = t)
  BY <1>1, MCModulesAssumption DEF T!Concerns, T!StatsAssumption, T!FullTags
<1>6. orphan' = {}
  <2>1. ASSUME NEW i \in Ifaces, T!UidTag(u) \in E[i]
        PROVE  {x \in T!FullTags \ E[i] : T!Exists(i, x) /\ T!Owner(x) = u} = {}
    <3>1. T!Acct(t) = ZERO
      BY <2>1, <1>2, <1>4, <1>5 DEF T!UidTag
    <3> QED
      BY <3>1, <1>4, <1>5
  <2>2. orphan' = {o \in orphan \cup UNION
                     {{<<i, x>> : x \in {x \in T!FullTags \ E[i] : T!Exists(i, x) /\ T!Owner(x) = u}} :
                      i \in {j \in Ifaces : T!UidTag(u) \in E[j]}} : o[2] \notin E[o[1]]}
    BY DEF T!DeleteTagStats
  <2> QED
    BY <2>1, <2>2 DEF StatInv
<1>7. StatType'
  <2>1. T!Zeroes \in Rows
    BY DEF T!Zeroes, Rows, T!Sets
  <2>2. stat' \in [Ifaces -> [T!FullTags -> Rows \cup {NONE}]]
    BY <1>3 DEF StatInv, StatType
  <2>3. billed' \in [Ifaces -> [StatUids -> Rows]]
    BY <1>2, <1>3, <2>1 DEF StatInv, StatType
  <2> QED
    BY <1>3, <2>2, <2>3 DEF StatInv, StatType
<1>8. ASSUME NEW i \in Ifaces, NEW x \in T!FullTags, NEW d \in T!Sets
      PROVE  Of(i, x, d)' = IF T!Owner(x) = u /\ (T!Acct(t) = ZERO \/ x = t)
                            THEN 0 ELSE Of(i, x, d)
  <2>1. stat'[i][x] = IF x \in E[i] THEN NONE ELSE stat[i][x]
    BY <1>3
  <2> QED
    BY <2>1, <1>4, <1>5 DEF Of, T!Exists
<1>9. ASSUME NEW i \in Ifaces, NEW v \in StatUids, NEW d \in T!Sets PROVE Totals(i, v, d)'
  <2>1. \A a \in StatTags : <<a, v>> \in T!FullTags /\ T!Owner(<<a, v>>) = v
    BY DEF T!FullTags, T!Owner
  <2>2. Totals(i, v, d) /\ StatType
    BY DEF StatInv
  <2>3. \A a \in StatTags : Of(i, <<a, v>>, d) \in Nat
    BY <2>1, <2>2, OfIs
  <2>4. CASE v = u /\ T!Acct(t) = ZERO
    <3>1. \A a \in StatTags : Of(i, <<a, v>>, d)' = 0
      BY <2>1, <2>4, <1>8
    <3>2. Shares(i, v, d)' = {}
      <4>1. \A a \in StatTags \ {ZERO} : {a} \X (1 .. Of(i, <<a, v>>, d)') = {}
        BY <3>1
      <4> QED
        BY <4>1 DEF Shares
    <3>3. IsFiniteSet(Shares(i, v, d)') /\ Cardinality(Shares(i, v, d)') = 0
      BY <3>2, FS_EmptySet
    <3>4. billed'[i][v][d] = 0
      BY <2>4, <1>3 DEF StatInv, StatType, T!Zeroes
    <3>5. Of(i, T!UidTag(v), d)' = 0
      BY <3>1, <1>1 DEF T!UidTag
    <3> QED
      BY <3>3, <3>4, <3>5 DEF Totals
  <2>5. CASE ~(v = u /\ T!Acct(t) = ZERO)
    <3>1. billed'[i][v][d] = billed[i][v][d]
      BY <2>5, <1>3, <1>2 DEF StatInv, StatType
    <3>2. Of(i, T!UidTag(v), d)' = Of(i, T!UidTag(v), d)
      BY <2>5, <2>1, <1>1, <1>2, <1>8 DEF T!UidTag
    <3>3. \A a \in StatTags : (1 .. Of(i, <<a, v>>, d)') \subseteq 1 .. Of(i, <<a, v>>, d)
      <4> SUFFICES ASSUME NEW a \in StatTags
                   PROVE  (1 .. Of(i, <<a, v>>, d)') \subseteq 1 .. Of(i, <<a, v>>, d)
        OBVIOUS
      <4>1. Of(i, <<a, v>>, d)' = 0 \/ Of(i, <<a, v>>, d)' = Of(i, <<a, v>>, d)
        BY <2>1, <1>8
      <4> QED
        BY <4>1, <2>3
    <3>4. Shares(i, v, d)' \subseteq Shares(i, v, d)
      BY <3>3 DEF Shares
    <3>5. IsFiniteSet(Shares(i, v, d)) /\ Cardinality(Shares(i, v, d)) \in Nat
      BY <2>2, FS_CardinalityType DEF Totals
    <3>6. /\ IsFiniteSet(Shares(i, v, d)') /\ Cardinality(Shares(i, v, d)') \in Nat
          /\ Cardinality(Shares(i, v, d)') <= Cardinality(Shares(i, v, d))
      BY <3>4, <3>5, FS_Subset, FS_CardinalityType
    <3>7. T!UidTag(v) \in T!FullTags
      BY UidTagIs
    <3>8. Of(i, T!UidTag(v), d) \in Nat
      BY <3>7, <2>2, OfIs
    <3> QED
      BY <2>2, <3>1, <3>2, <3>5, <3>6, <3>8 DEF Totals
  <2> QED
    BY <2>4, <2>5
<1> QED
  BY <1>3, <1>6, <1>7, <1>9 DEF StatInv


LEMMA StatStep == StatInv /\ T!Next => StatInv'
<1> SUFFICES ASSUME StatInv, T!Next PROVE StatInv'
  OBVIOUS
<1>1. ASSUME NEW i \in Ifaces, T!NewIface(i) PROVE StatInv'
  BY <1>1, StatKeeps DEF T!NewIface, T!mapvars, StatInv, StatType
<1>2. ASSUME NEW i \in Ifaces, NEW s \in Socks \cup {NONE}, T!PacketAllocFails(i, s) PROVE StatInv'
  BY <1>2, StatKeeps DEF T!PacketAllocFails, T!mapvars, StatInv, StatType
<1>3. ASSUME T!Sockets PROVE StatInv'
  <2>1. UNCHANGED <<stat, billed, orphan, cset, del, dead, statOom>>
    BY <1>3 DEF T!Sockets, T!statvars
  <2>2. tag' \in [Socks -> T!FullTags \cup {NONE}]
    BY <1>3 DEF T!Sockets, T!NewSock, T!TakeTag, T!GiverDies, T!SetTag, T!SocksGone, T!Clear,
                StatInv, StatType
  <2> QED
    BY <2>1, <2>2, StatKeeps DEF StatInv, StatType
<1>4. ASSUME NEW v \in StatUids, NEW c \in T!Sets, T!CounterSet(v, c) PROVE StatInv'
  BY <1>4, StatKeeps DEF T!CounterSet, T!mapvars, StatInv, StatType
<1>5. ASSUME NEW p \in StatProcs, NEW t \in T!FullTags, T!DeleteSockTags(p, t) PROVE StatInv'
  <2>1. tag' \in [Socks -> T!FullTags \cup {NONE}] /\ del' \in Deletions
    BY <1>5 DEF T!DeleteSockTags, T!DropTags, T!Clear, StatInv, StatType, Deletions
  <2> QED
    BY <1>5, <2>1, StatKeeps DEF T!DeleteSockTags, StatInv, StatType
<1>6. ASSUME T!DeleteCounterSet PROVE StatInv'
  <2>1. del' \in Deletions /\ cset' \in [StatUids -> T!Sets \cup {NONE}]
    BY <1>6 DEF T!DeleteCounterSet, StatInv, StatType, Deletions
  <2> QED
    BY <1>6, <2>1, StatKeeps DEF T!DeleteCounterSet, T!mapvars, StatInv, StatType
<1>7. ASSUME T!ReadStart \/ \E n \in Pages : T!ReadPage(n) PROVE StatInv'
  <2>1. UNCHANGED <<T!mapvars, stat, billed, orphan, cset, del, dead, statOom>>
    BY <1>7 DEF T!ReadStart, T!ReadPage
  <2> QED
    BY <2>1, StatKeeps DEF T!mapvars, StatInv, StatType
<1> QED
  BY <1>1, <1>2, <1>3, <1>4, <1>5, <1>6, <1>7, PacketStep, EraseStep DEF T!Next

(* Whatever packets come, whatever tags their sockets have and whichever   *)
(* counter set is active, between any two steps of ctrl_cmd_delete: the    *)
(* entry {0, uid} holds all that was counted for the uid since it was      *)
(* erased, its accounting tags never come to more, and no entry is left    *)
(* with parent_counters that point to a freed one.                         *)
THEOREM AccountsCorrect == ModSpec => []AccountsHold
<1>1. ModInit => StatInv
  BY StatInit DEF ModInit
<1>2. StatInv /\ [ModNext]_<<vars, statistics, interfaces, quotas, keypad, turn>> => StatInv'
  <2>1. ASSUME StatInv, UNCHANGED statistics PROVE StatInv'
    BY <2>1, StatKeeps DEF statistics, StatInv, StatType
  <2> QED
    BY <2>1, StatStep DEF ModNext
<1> QED
  BY <1>1, <1>2, StatShows, PTL DEF ModSpec

-----------------------------------------------------------------------------
(* The listing of the counters                                             *)

Listed == {ifaces[k] : k \in 1 .. Len(ifaces)}
Place(i) == CHOOSE k \in 1 .. Len(ifaces) : ifaces[k] = i
Ahead(x) == {y \in T!LineSet : T!Before(y, x)}
Position(x) == 1 + Cardinality(Ahead(x))
AnyLine == Ifaces \X T!FullTags \X T!Sets
Readings == [state : {"idle", "reading", "eof"}, skip : Nat, due : SUBSET AnyLine,
             seen : SUBSET AnyLine, twice : BOOLEAN, ins : BOOLEAN, rem : BOOLEAN]

ListType ==
  /\ ifaces \in Seq(Ifaces)
  /\ \A j, k \in 1 .. Len(ifaces) : ifaces[j] = ifaces[k] => j = k
  /\ rd \in Readings

(* Only interfaces of the list have counters, and no tag without its uid,  *)
(* so that a packet that adds a line adds one for its own tag.             *)
Fathers ==
  \A i \in Ifaces, t \in T!FullTags :
    T!Exists(i, t) => i \in Listed /\ T!Exists(i, T!UidTag(T!Owner(t)))

(* What a page shows was before the next item: lines that are added only   *)
(* move others back, where they would be shown again, and lines that are   *)
(* erased only move others forward, where they would be missed.            *)
Shown ==
  rd.state = "reading" /\ ~rd.ins => \A x \in rd.seen \cap T!LineSet : Position(x) < rd.skip
ToCome ==
  rd.state = "reading" /\ ~rd.rem => \A x \in rd.due : x \in T!LineSet /\ rd.skip <= Position(x)

ListInv == ListType /\ Fathers /\ Shown /\ ToCome /\ ListingWhole

LEMMA PlaceIs ==
  ASSUME ListType, NEW k \in 1 .. Len(ifaces)
  PROVE  Place(ifaces[k]) = k
<1>1. \E j \in 1 .. Len(ifaces) : ifaces[j] = ifaces[k]
  OBVIOUS
<1>2. Place(ifaces[k]) \in 1 .. Len(ifaces) /\ ifaces[Place(ifaces[k])] = ifaces[k]
  BY <1>1 DEF Place
<1> QED
  BY <1>2 DEF ListType

LEMMA BeforeIs ==
  \A x, y : T!Before(x, y) <=> \/ Place(x[1]) < Place(y[1])
                               \/ x[1] = y[1] /\ TagOrder[x[2]] < TagOrder[y[2]]
                               \/ x[1] = y[1] /\ x[2] = y[2] /\ x[3] < y[3]
BY DEF T!Before, Place

LEMMA ItemIs == \A x : T!Item(x) = Position(x)
<1>1. \A S : T!Cardinality(S) = Cardinality(S)
  BY SameSize
<1> QED
  BY <1>1 DEF T!Item, Position, Ahead


LEMMA LinesFinite ==
  ASSUME NEW s \in Seq(Ifaces), NEW L, L \subseteq {s[k] : k \in 1 .. Len(s)} \X T!FullTags \X T!Sets
  PROVE  IsFiniteSet(L)
<1> DEFINE N == {s[k] : k \in 1 .. Len(s)}
           P == N \X (T!FullTags \X T!Sets)
           flat == [p \in P |-> <<p[1], p[2][1], p[2][2]>>]
<1>1. IsFiniteSet(N)
  <2>1. s \in [1 .. Len(s) -> Ifaces] /\ Len(s) \in Nat
    OBVIOUS
  <2>2. s \in Surjection(1 .. Len(s), N)
    BY <2>1 DEF Surjection
  <2>3. IsFiniteSet(1 .. Len(s))
    BY <2>1, FS_Interval
  <2> HIDE DEF N
  <2> QED
    BY <2>2, <2>3, FS_Surjection
<1>2. IsFiniteSet(T!FullTags)
  <2>1. \A S : T!IsFiniteSet(S) <=> IsFiniteSet(S)
    BY DEF T!IsFiniteSet, IsFiniteSet
  <2> QED
    BY <2>1, MCModulesAssumption DEF T!StatsAssumption
<1>3. IsFiniteSet(T!Sets)
  <2>1. T!Sets = {0} \cup {1}
    BY DEF T!Sets
  <2>2. IsFiniteSet({0})
    BY FS_Singleton
  <2>3. IsFiniteSet({0} \cup {1})
    BY <2>2, FS_AddElement
  <2> QED
    BY <2>1, <2>3
<1>4. IsFiniteSet(P)
  <2>1. IsFiniteSet(T!FullTags \X T!Sets)
    BY <1>2, <1>3, FS_Product
  <2> HIDE DEF N
  <2> QED
    BY <1>1, <2>1, FS_Product
<1>5. flat \in Surjection(P, N \X T!FullTags \X T!Sets)
  <2> HIDE DEF N
  <2>1. flat \in [P -> N \X T!FullTags \X T!Sets]
    OBVIOUS
  <2>2. ASSUME NEW x \in N \X T!FullTags \X T!Sets PROVE \E p \in P : flat[p] = x
    <3>1. <<x[1], <<x[2], x[3]>>>> \in P
      OBVIOUS
    <3> QED
      BY <3>1
  <2> QED
    BY <2>1, <2>2 DEF Surjection
<1>6. IsFiniteSet(N \X T!FullTags \X T!Sets)
  <2> HIDE DEF N, P, flat
  <2> QED
    BY <1>4, <1>5, FS_Surjection
<1> QED
  BY <1>6, FS_Subset

LEMMA LinesThere == T!LineSet \subseteq Listed \X T!FullTags \X T!Sets
BY DEF T!LineSet, Listed

(* An item is one of as many as there are lines.                           *)
LEMMA ItemBound ==
  ASSUME ListType, NEW x \in T!LineSet
  PROVE  Position(x) \in 1 .. Cardinality(T!LineSet) /\ Cardinality(T!LineSet) \in Nat
<1>1. IsFiniteSet(T!LineSet)
  BY LinesThere, LinesFinite DEF ListType, Listed
<1>2. x \notin Ahead(x)
  <2>1. x[1] \in Listed /\ x[2] \in T!FullTags /\ x[3] \in {0, 1}
    BY LinesThere DEF T!Sets
  <2>2. Place(x[1]) \in Nat
    BY <2>1, PlaceIs DEF Listed
  <2>3. TagOrder[x[2]] \in Nat
    BY <2>1, MCModulesAssumption DEF T!StatsAssumption
  <2>4. ~T!Before(x, x)
    BY <2>1, <2>2, <2>3, BeforeIs
  <2> QED
    BY <2>4 DEF Ahead
<1>3. Ahead(x) \subseteq T!LineSet /\ Ahead(x) # T!LineSet
  BY <1>2 DEF Ahead
<1>4. /\ IsFiniteSet(Ahead(x)) /\ Cardinality(Ahead(x)) <= Cardinality(T!LineSet)
      /\ Cardinality(Ahead(x)) # Cardinality(T!LineSet)
  BY <1>1, <1>3, FS_Subset
<1>5. Cardinality(Ahead(x)) \in Nat /\ Cardinality(T!LineSet) \in Nat
  BY <1>1, <1>4, FS_CardinalityType
<1> QED
  BY <1>4, <1>5 DEF Position

(* Lines keep their order, so that one that stays moves back when others   *)
(* are added and forward when others are erased.                           *)
LEMMA Moves ==
  ASSUME NEW A, NEW B, IsFiniteSet(B), A \subseteq B
  PROVE  1 + Cardinality(A) \in Nat /\ 1 + Cardinality(B) \in Nat
         /\ 1 + Cardinality(A) <= 1 + Cardinality(B)
BY FS_Subset, FS_CardinalityType

LEMMA ListInit == T!Init => ListInv
<1> SUFFICES ASSUME T!Init PROVE ListInv
  OBVIOUS
<1>1. ListType
  BY DEF T!Init, T!NoRead, ListType, Readings
<1> QED
  BY <1>1 DEF T!Init, T!NoRead, ListInv, Fathers, T!Exists, Shown, ToCome, ListingWhole, T!ListingWhole

(* What leaves the listing and the counters alone.                         *)
LEMMA ListRests ==
  ASSUME ListInv, UNCHANGED <<ifaces, stat, rd>>
  PROVE  ListInv'
<1>1. T!LineSet' = T!LineSet
  BY DEF T!LineSet, T!Exists
<1>2. \A x, y : T!Before(x, y)' <=> T!Before(x, y)
  BY DEF T!Before
<1>3. \A x : Position(x)' = Position(x)
  BY <1>1, <1>2 DEF Position, Ahead
<1>4. ListType' /\ Fathers' /\ ListingWhole'
  BY DEF ListInv, ListType, Fathers, T!Exists, Listed, ListingWhole, T!ListingWhole
<1>5. Shown' /\ ToCome'
  BY <1>1, <1>3 DEF ListInv, Shown, ToCome
<1> QED
  BY <1>4, <1>5 DEF ListInv

OrderKept ==
  \A x, y \in T!LineSet \cap T!LineSet' : T!Before(x, y) <=> T!Before(x, y)'

LEMMA ListGrows ==
  ASSUME ListType, ListType', OrderKept, T!LineSet \subseteq T!LineSet'
  PROVE  \A x \in T!LineSet : /\ Position(x) \in Nat /\ Position(x)' \in Nat
                              /\ Position(x) <= Position(x)'
<1> SUFFICES ASSUME NEW x \in T!LineSet
             PROVE  Position(x) \in Nat /\ Position(x)' \in Nat /\ Position(x) <= Position(x)'
  OBVIOUS
<1>1. Ahead(x) \subseteq Ahead(x)'
  BY DEF Ahead, OrderKept
<1>2. T!LineSet' \subseteq Listed' \X T!FullTags \X T!Sets
  BY DEF T!LineSet, Listed
<1>3. IsFiniteSet(Ahead(x)')
  <2>1. Ahead(x)' \subseteq Listed' \X T!FullTags \X T!Sets
    BY <1>2 DEF Ahead
  <2> QED
    BY <2>1, LinesFinite DEF ListType, Listed
<1> QED
  BY <1>1, <1>3, Moves DEF Position

LEMMA ListShrinks ==
  ASSUME ListType, OrderKept, T!LineSet' \subseteq T!LineSet
  PROVE  \A x \in T!LineSet' : /\ Position(x) \in Nat /\ Position(x)' \in Nat
                               /\ Position(x)' <= Position(x)
<1> SUFFICES ASSUME NEW x \in T!LineSet'
             PROVE  Position(x) \in Nat /\ Position(x)' \in Nat /\ Position(x)' <= Position(x)
  OBVIOUS
<1>1. Ahead(x)' \subseteq Ahead(x)
  BY DEF Ahead, OrderKept
<1>2. IsFiniteSet(Ahead(x))
  <2>1. Ahead(x) \subseteq Listed \X T!FullTags \X T!Sets
    BY LinesThere DEF Ahead
  <2> QED
    BY <2>1, LinesFinite DEF ListType, Listed
<1> QED
  BY <1>1, <1>2, Moves DEF Position

(* A new interface has no lines, and goes before those that are there.     *)
LEMMA IfaceStep ==
  ASSUME ListInv, NEW i \in Ifaces, T!NewIface(i)
  PROVE  ListInv'
<1>1. ifaces' = <<i>> \o ifaces /\ i \notin Listed /\ UNCHANGED <<stat, rd>>
  BY DEF T!NewIface, Listed
<1>2. ifaces \in Seq(Ifaces) /\ Len(ifaces) \in Nat /\ Len(ifaces') = Len(ifaces) + 1 /\ ifaces'[1] = i
      /\ \A k \in 1 .. Len(ifaces) : ifaces'[k + 1] = ifaces[k]
  BY <1>1 DEF ListInv, ListType
<1>3. \A k \in 1 .. Len(ifaces') : k # 1 => k - 1 \in 1 .. Len(ifaces) /\ ifaces'[k] = ifaces[k - 1]
  BY <1>2
<1>4. \A k \in 1 .. Len(ifaces) : k + 1 \in 1 .. Len(ifaces')
  BY <1>2
<1>5. Listed' = Listed \cup {i}
  <2>1. 1 \in 1 .. Len(ifaces')
    BY <1>2
  <2> QED
    BY <2>1, <1>2, <1>3, <1>4 DEF Listed
<1>6. ListType'
  <2>1. ifaces' \in Seq(Ifaces)
    BY <1>1, <1>2
  <2>2. ASSUME NEW j \in 1 .. Len(ifaces'), NEW k \in 1 .. Len(ifaces'), ifaces'[j] = ifaces'[k]
        PROVE  j = k
    <3>1. CASE j = 1 \/ k = 1
      BY <3>1, <2>2, <1>1, <1>2, <1>3 DEF Listed
    <3>2. CASE j # 1 /\ k # 1
      BY <3>2, <2>2, <1>2, <1>3 DEF ListInv, ListType
    <3> QED
      BY <3>1, <3>2
  <2> QED
    BY <2>1, <2>2, <1>1 DEF ListInv, ListType
<1>7. Fathers'
  BY <1>1, <1>5 DEF ListInv, Fathers, T!Exists
<1>8. T!LineSet' = T!LineSet
  <2>1. \A x : T!Exists(x[1], x[2])' <=> T!Exists(x[1], x[2])
    BY <1>1 DEF T!Exists
  <2>2. \A t \in T!FullTags : ~T!Exists(i, t)
    BY <1>1 DEF ListInv, Fathers
  <2>3. T!LineSet = {x \in Listed \X T!FullTags \X T!Sets :
                       T!Exists(x[1], x[2]) /\ T!Owner(x[2]) \in Readable}
        /\ T!LineSet' = {x \in Listed' \X T!FullTags \X T!Sets :
                       T!Exists(x[1], x[2])' /\ T!Owner(x[2]) \in Readable}
    BY DEF T!LineSet, Listed
  <2> QED
    BY <2>1, <2>2, <2>3, <1>5
<1>9. ASSUME NEW j \in Listed PROVE Place(j)' = Place(j) + 1
  <2>1. PICK k \in 1 .. Len(ifaces) : ifaces[k] = j
    BY DEF Listed
  <2>2. Place(j) = k
    BY <2>1, PlaceIs DEF ListInv
  <2>3. k + 1 \in 1 .. Len(ifaces') /\ ifaces'[k + 1] = j
    BY <2>1, <1>2, <1>4
  <2>4. Place(j)' = CHOOSE n \in 1 .. Len(ifaces') : ifaces'[n] = j
    BY DEF Place
  <2>5. Place(j)' = k + 1
    BY <2>3, <2>4, <1>6 DEF ListType
  <2> QED
    BY <2>2, <2>5
<1>10. \A x, y \in T!LineSet : T!Before(x, y)' <=> T!Before(x, y)
  <2> SUFFICES ASSUME NEW x \in T!LineSet, NEW y \in T!LineSet
               PROVE  T!Before(x, y)' <=> T!Before(x, y)
    OBVIOUS
  <2>1. x[1] \in Listed /\ y[1] \in Listed
    BY LinesThere
  <2>2. \A j \in Listed : Place(j) \in Nat
    BY PlaceIs DEF Listed, ListInv
  <2>3. Place(x[1]) \in Nat /\ Place(y[1]) \in Nat
    BY <2>1, <2>2
  <2>4. Place(x[1])' = Place(x[1]) + 1 /\ Place(y[1])' = Place(y[1]) + 1
    BY <2>1, <1>9
  <2>5. T!Before(x, y)' <=> \/ Place(x[1])' < Place(y[1])'
                            \/ x[1] = y[1] /\ TagOrder[x[2]] < TagOrder[y[2]]
                            \/ x[1] = y[1] /\ x[2] = y[2] /\ x[3] < y[3]
    BY DEF T!Before, Place
  <2> QED
    BY <2>3, <2>4, <2>5, BeforeIs
<1>11. \A x \in T!LineSet : Position(x)' = Position(x)
  BY <1>8, <1>10 DEF Position, Ahead
<1> QED
  <2>1. Shown' /\ ToCome'
    BY <1>1, <1>8, <1>11 DEF ListInv, Shown, ToCome
  <2> QED
    BY <2>1, <1>1, <1>6, <1>7 DEF ListInv, ListingWhole, T!ListingWhole

(* A packet of a tag that is there adds no line, that of its uid being     *)
(* there too.                                                              *)
LEMMA ListPacket ==
  ASSUME StatInv, ListInv, NEW i \in Ifaces, NEW s \in Socks \cup {NONE}, T!Packet(i, s)
  PROVE  ListInv'
<1> DEFINE t == T!TagOfPacket(s)
           u == T!Owner(t)
           c == T!ActiveSet(u)
           hit(j, x) == j = i /\ (x = t \/ x = T!UidTag(u))
<1>1. /\ t \in T!FullTags /\ u \in StatUids /\ c \in T!Sets /\ T!UidTag(u) \in T!FullTags
      /\ \A x \in T!FullTags : [Row(i, x) EXCEPT ![c] = @ + 1] \in Rows
      /\ stat' = [stat EXCEPT ![i] =
              [x \in T!FullTags |-> IF x = t \/ x = T!UidTag(u)
                                    THEN [Row(i, x) EXCEPT ![c] = @ + 1] ELSE stat[i][x]]]
  BY PacketIs
<1>2. /\ i \in Listed /\ ifaces' = ifaces
      /\ IF T!Exists(i, t) THEN rd' = rd ELSE T!Inserted
  BY DEF T!Packet, Listed
<1>3. \A j \in Ifaces, x \in T!FullTags : T!Exists(j, x)' <=> T!Exists(j, x) \/ hit(j, x)
  <2>1. NONE \notin Rows
    BY MCModulesAssumption DEF T!StatsAssumption, Rows
  <2> SUFFICES ASSUME NEW j \in Ifaces, NEW x \in T!FullTags
               PROVE  T!Exists(j, x)' <=> T!Exists(j, x) \/ hit(j, x)
    OBVIOUS
  <2>2. CASE hit(j, x)
    <3>1. stat'[j][x] = [Row(i, x) EXCEPT ![c] = @ + 1]
      BY <2>2, <1>1 DEF StatInv, StatType
    <3> QED
      BY <2>2, <3>1, <2>1, <1>1 DEF T!Exists
  <2>3. CASE ~hit(j, x)
    <3>1. stat'[j][x] = stat[j][x]
      BY <2>3, <1>1 DEF StatInv, StatType
    <3> QED
      BY <2>3, <3>1 DEF T!Exists
  <2> QED
    BY <2>2, <2>3
<1>4. Listed' = Listed
  BY <1>2 DEF Listed
<1>5. Fathers'
  <2> SUFFICES ASSUME NEW j \in Ifaces, NEW x \in T!FullTags, T!Exists(j, x)'
               PROVE  j \in Listed /\ T!Exists(j, T!UidTag(T!Owner(x)))'
    BY <1>4 DEF Fathers
  <2>1. T!UidTag(T!Owner(x)) \in T!FullTags
    BY UidTagIs DEF T!FullTags, T!Owner
  <2>2. CASE T!Exists(j, x)
    BY <2>1, <2>2, <1>3 DEF ListInv, Fathers
  <2>3. CASE hit(j, x)
    <3>1. T!Owner(x) = u
      BY <2>3 DEF T!Owner, T!UidTag
    <3> QED
      BY <2>1, <2>3, <3>1, <1>2, <1>3
  <2> QED
    BY <2>2, <2>3, <1>3
<1>6. CASE T!Exists(i, t)
  <2>1. T!Exists(i, T!UidTag(u))
    BY <1>6, <1>1 DEF ListInv, Fathers
  <2>2. \A j \in Ifaces, x \in T!FullTags : T!Exists(j, x)' <=> T!Exists(j, x)
    BY <2>1, <1>6, <1>3
  <2>3. T!LineSet' = T!LineSet
    <3>1. Listed \subseteq Ifaces
      BY DEF ListInv, ListType, Listed
    <3>2. T!LineSet = {x \in Listed \X T!FullTags \X T!Sets :
                         T!Exists(x[1], x[2]) /\ T!Owner(x[2]) \in Readable}
          /\ T!LineSet' = {x \in Listed \X T!FullTags \X T!Sets :
                         T!Exists(x[1], x[2])' /\ T!Owner(x[2]) \in Readable}
      BY <1>4 DEF T!LineSet, Listed
    <3> QED
      BY <2>2, <3>1, <3>2
  <2>4. \A x, y : T!Before(x, y)' <=> T!Before(x, y)
    BY <1>2 DEF T!Before
  <2>5. \A x : Position(x)' = Position(x)
    BY <2>3, <2>4 DEF Position, Ahead
  <2>6. rd' = rd
    BY <1>2, <1>6
  <2>7. Shown' /\ ToCome'
    BY <2>3, <2>5, <2>6 DEF ListInv, Shown, ToCome
  <2> QED
    BY <2>6, <2>7, <1>2, <1>5 DEF ListInv, ListType, ListingWhole, T!ListingWhole
<1>7. CASE ~T!Exists(i, t)
  <2>1. rd' = IF rd.state = "reading" THEN [rd EXCEPT !.ins = TRUE] ELSE rd
    BY <1>2, <1>7 DEF T!Inserted
  <2>2. ListType'
    BY <2>1, <1>2 DEF ListInv, ListType, Readings
  <2>3. T!LineSet \subseteq T!LineSet'
    <3>1. Listed \subseteq Ifaces
      BY DEF ListInv, ListType, Listed
    <3>2. T!LineSet = {x \in Listed \X T!FullTags \X T!Sets :
                         T!Exists(x[1], x[2]) /\ T!Owner(x[2]) \in Readable}
          /\ T!LineSet' = {x \in Listed \X T!FullTags \X T!Sets :
                         T!Exists(x[1], x[2])' /\ T!Owner(x[2]) \in Readable}
      BY <1>4 DEF T!LineSet, Listed
    <3> QED
      BY <1>3, <3>1, <3>2
  <2>4. OrderKept
    BY <1>2 DEF OrderKept, T!Before
  <2>5. \A x \in T!LineSet : Position(x) \in Nat /\ Position(x)' \in Nat /\ Position(x) <= Position(x)'
    BY <2>2, <2>3, <2>4, ListGrows DEF ListInv
  <2>6. /\ rd'.state = rd.state /\ rd'.skip = rd.skip /\ rd'.due = rd.due /\ rd'.rem = rd.rem
        /\ rd.state = "reading" => rd'.ins
        /\ rd.state # "reading" => rd' = rd
    BY <2>1 DEF ListInv, ListType, Readings
  <2>7. ToCome'
    <3> SUFFICES ASSUME rd.state = "reading", ~rd.rem, NEW x \in rd.due
                 PROVE  x \in T!LineSet' /\ rd.skip <= Position(x)'
      BY <2>6 DEF ToCome
    <3>1. x \in T!LineSet /\ rd.skip <= Position(x)
      BY DEF ListInv, ToCome
    <3>2. rd.skip \in Nat
      BY DEF ListInv, ListType, Readings
    <3> QED
      BY <3>1, <3>2, <2>3, <2>5
  <2>8. Shown'
    BY <2>6 DEF Shown
  <2>9. ListingWhole'
    BY <2>6 DEF ListInv, ListingWhole, T!ListingWhole
  <2> QED
    BY <2>2, <2>7, <2>8, <2>9, <1>5 DEF ListInv
<1> QED
  BY <1>6, <1>7

(* What is erased with {0, uid} are all tags of the uid.                   *)
LEMMA ListErase ==
  ASSUME StatInv, ListInv, T!DeleteTagStats
  PROVE  ListInv'
<1> DEFINE t == del.tag
           E == [i \in Ifaces |-> T!Erased(i, t)]
<1>1. /\ stat' = [i \in Ifaces |-> [x \in T!FullTags |-> IF x \in E[i] THEN NONE ELSE stat[i][x]]]
      /\ IF \E i \in Ifaces : E[i] # {} THEN T!Removed ELSE rd' = rd
      /\ ifaces' = ifaces /\ t \in T!FullTags
  BY DEF T!DeleteTagStats, StatInv, StatType, Deletions
<1>2. \A j \in Ifaces, x \in T!FullTags : T!Exists(j, x)' <=> T!Exists(j, x) /\ x \notin E[j]
  BY <1>1 DEF T!Exists
<1>3. \A j \in Ifaces, x \in T!FullTags :
        x \in E[j] <=> T!Exists(j, x) /\ T!Owner(x) = T!Owner(t) /\ (T!Acct(t) = ZERO \/ x = t)
  <2>1. NONE \notin T!FullTags
    BY MCModulesAssumption DEF T!StatsAssumption
  <2> QED
    BY <2>1 DEF T!Erased, T!Concerns
<1>4. Listed' = Listed /\ Listed \subseteq Ifaces
  BY <1>1 DEF Listed, ListInv, ListType
<1>5. Fathers'
  <2> SUFFICES ASSUME NEW j \in Ifaces, NEW x \in T!FullTags, T!Exists(j, x)'
               PROVE  j \in Listed /\ T!Exists(j, T!UidTag(T!Owner(x)))'
    BY <1>4 DEF Fathers
  <2>1. T!UidTag(T!Owner(x)) \in T!FullTags /\ T!Owner(T!UidTag(T!Owner(x))) = T!Owner(x)
        /\ T!Acct(T!UidTag(T!Owner(x))) = ZERO
    BY UidTagIs DEF T!FullTags, T!Owner, T!UidTag, T!Acct
  <2>2. T!Exists(j, x) /\ x \notin E[j]
    BY <1>2
  <2>3. j \in Listed /\ T!Exists(j, T!UidTag(T!Owner(x)))
    BY <2>2 DEF ListInv, Fathers
  <2>4. T!UidTag(T!Owner(x)) \notin E[j]
    BY <2>1, <2>2, <2>3, <1>3
  <2> QED
    BY <2>1, <2>3, <2>4, <1>2
<1>6. T!LineSet = {x \in Listed \X T!FullTags \X T!Sets :
                         T!Exists(x[1], x[2]) /\ T!Owner(x[2]) \in Readable}
      /\ T!LineSet' = {x \in Listed \X T!FullTags \X T!Sets :
                         T!Exists(x[1], x[2])' /\ T!Owner(x[2]) \in Readable}
  BY <1>4 DEF T!LineSet, Listed
<1>7. \A x, y : T!Before(x, y)' <=> T!Before(x, y)
  BY <1>1 DEF T!Before
<1>8. CASE \A i \in Ifaces : E[i] = {}
  <2>1. T!LineSet' = T!LineSet
    BY <1>2, <1>4, <1>6, <1>8
  <2>2. \A x : Position(x)' = Position(x)
    BY <2>1, <1>7 DEF Position, Ahead
  <2>3. rd' = rd
    BY <1>1, <1>8
  <2>4. Shown' /\ ToCome'
    BY <2>1, <2>2, <2>3 DEF ListInv, Shown, ToCome
  <2> QED
    BY <2>3, <2>4, <1>1, <1>5 DEF ListInv, ListType, ListingWhole, T!ListingWhole
<1>9. CASE \E i \in Ifaces : E[i] # {}
  <2>1. rd' = IF rd.state = "reading" THEN [rd EXCEPT !.rem = TRUE] ELSE rd
    BY <1>1, <1>9 DEF T!Removed
  <2>2. ListType'
    BY <2>1, <1>1 DEF ListInv, ListType, Readings
  <2>3. T!LineSet' \subseteq T!LineSet
    BY <1>2, <1>4, <1>6
  <2>4. OrderKept
    BY <1>7 DEF OrderKept
  <2>5. \A x \in T!LineSet' : Position(x) \in Nat /\ Position(x)' \in Nat /\ Position(x)' <= Position(x)
    BY <2>3, <2>4, ListShrinks DEF ListInv
  <2>6. /\ rd'.state = rd.state /\ rd'.skip = rd.skip /\ rd'.seen = rd.seen /\ rd'.ins = rd.ins
        /\ rd'.twice = rd.twice
        /\ rd.state = "reading" => rd'.rem
    BY <2>1 DEF ListInv, ListType, Readings
  <2>7. rd.state # "reading" => rd' = rd
    BY <2>1
  <2>8. Shown'
    <3> SUFFICES ASSUME rd.state = "reading", ~rd.ins, NEW x \in rd.seen \cap T!LineSet'
                 PROVE  Position(x)' < rd.skip
      BY <2>6 DEF Shown
    <3>1. Position(x) < rd.skip
      BY <2>3 DEF ListInv, Shown
    <3>2. rd.skip \in Nat
      BY DEF ListInv, ListType, Readings
    <3> QED
      BY <3>1, <3>2, <2>5
  <2>9. ToCome' /\ ListingWhole'
    <3>1. CASE rd.state = "reading"
      BY <3>1, <2>6 DEF ListInv, ToCome, ListingWhole, T!ListingWhole
    <3>2. CASE rd.state # "reading"
      BY <3>2, <2>7 DEF ListInv, ToCome, ListingWhole, T!ListingWhole
    <3> QED
      BY <3>1, <3>2
  <2> QED
    BY <2>2, <2>8, <2>9, <1>5 DEF ListInv
<1> QED
  BY <1>8, <1>9

(* A page goes on from what has been shown, and the last page shows all    *)
(* the rest.                                                               *)
LEMMA ListPage ==
  ASSUME ListInv, NEW room \in Pages, T!ReadPage(room)
  PROVE  ListInv'
<1> DEFINE total == 1 + Cardinality(T!LineSet)
           last  == IF rd.skip + room < total THEN rd.skip + room ELSE total
           items == rd.skip .. (last - 1)
           page  == {x \in T!LineSet : T!Item(x) \in items}
<1>1. /\ rd \in Readings /\ room \in Nat /\ UNCHANGED <<ifaces, stat>> /\ rd.state = "reading"
      /\ IsFiniteSet(T!LineSet) /\ Cardinality(T!LineSet) \in Nat
  <2>1. IsFiniteSet(T!LineSet)
    BY LinesThere, LinesFinite DEF ListInv, ListType, Listed
  <2> QED
    BY <2>1, FS_CardinalityType, MCModulesAssumption DEF T!ReadPage, T!StatsAssumption, ListInv, ListType
<1>2. total \in Nat /\ last \in Nat /\ rd.skip \in Nat /\ (last = total \/ last = rd.skip + room)
      /\ last <= total
  BY <1>1 DEF Readings
<1>3. rd' = [rd EXCEPT !.skip = IF last = total THEN 0 ELSE rd.skip + T!Returned(items, T!Cardinality(
                 {t \in T!FullTags : T!Owner(t) \notin Readable /\ \E i \in Ifaces : T!Exists(i, t)})),
                       !.due = @ \ page,
                       !.seen = IF last = total THEN {} ELSE @ \cup page,
                       !.twice = @ \/ page \cap rd.seen # {},
                       !.state = IF last = total THEN "eof" ELSE @]
  BY SameSize DEF T!ReadPage
<1>4. last # total => rd.skip + T!Cardinality(items) = last
  <2> SUFFICES ASSUME last # total PROVE rd.skip + T!Cardinality(items) = last
    OBVIOUS
  <2>1. last = rd.skip + room
    BY <1>2
  <2>2. Cardinality(items) = IF rd.skip > last - 1 THEN 0 ELSE last - 1 - rd.skip + 1
    <3>1. PICK b \in Int : b = last - 1
      BY <1>2
    <3>2. PICK a \in Int : a = rd.skip
      BY <1>2
    <3>3. Cardinality(a .. b) = IF a > b THEN 0 ELSE b - a + 1
      BY FS_Interval
    <3> QED
      BY <3>1, <3>2, <3>3
  <2> QED
    BY <2>1, <2>2, <1>1, <1>2, SameSize
<1>5. \A x \in T!LineSet : T!Item(x) = Position(x) /\ Position(x) \in Nat /\ Position(x) < total
  <2>1. \A x \in T!LineSet : Position(x) \in 1 .. Cardinality(T!LineSet)
    BY ItemBound DEF ListInv
  <2> QED
    BY <2>1, <1>1, ItemIs
<1>6. \A x \in T!LineSet : x \in page <=> rd.skip <= Position(x) /\ Position(x) < last
  BY <1>2, <1>5
<1> HIDE DEF total, last, items
<1>7. /\ rd'.state = (IF last = total THEN "eof" ELSE "reading")
      /\ rd'.skip = (IF last = total THEN 0 ELSE last)
      /\ rd'.due = rd.due \ page
      /\ rd'.seen = (IF last = total THEN {} ELSE rd.seen \cup page)
      /\ rd'.ins = rd.ins /\ rd'.rem = rd.rem
      /\ rd'.twice <=> (rd.twice \/ page \cap rd.seen # {})
      /\ rd' \in Readings
  <2>1. page \subseteq AnyLine
    <3>1. Listed \subseteq Ifaces
      BY DEF ListInv, ListType, Listed
    <3> QED
      BY <3>1, LinesThere DEF AnyLine
  <2> HIDE DEF page
  <2>2. (page \cap rd.seen # {}) \in BOOLEAN
    OBVIOUS
  <2>3. rd.skip + T!Returned(items, T!Cardinality(
          {t \in T!FullTags : T!Owner(t) \notin Readable /\ \E i \in Ifaces : T!Exists(i, t)}))
          = rd.skip + T!Cardinality(items)
    BY DEF T!Returned
  <2> QED
    BY <1>1, <1>2, <1>3, <1>4, <2>1, <2>2, <2>3 DEF Readings
<1>8. T!LineSet' = T!LineSet
  BY <1>1 DEF T!LineSet, T!Exists
<1>9. \A x : Position(x)' = Position(x)
  <2>1. \A x, y : T!Before(x, y)' <=> T!Before(x, y)
    BY <1>1 DEF T!Before
  <2> QED
    BY <2>1, <1>8 DEF Position, Ahead
<1>10. ListType' /\ Fathers'
  BY <1>1, <1>7 DEF ListInv, ListType, Fathers, T!Exists, Listed
<1>11. Shown'
  <2> SUFFICES ASSUME last # total, ~rd.ins, NEW x \in (rd.seen \cup page) \cap T!LineSet
               PROVE  Position(x) < last
    BY <1>7, <1>8, <1>9 DEF Shown
  <2>1. x \in rd.seen => Position(x) < rd.skip
    BY <1>1 DEF ListInv, Shown
  <2>2. last # total => rd.skip <= last
    BY <1>1, <1>2
  <2> QED
    BY <2>1, <2>2, <1>2, <1>5, <1>6
<1>12. ToCome'
  <2> SUFFICES ASSUME last # total, ~rd.rem, NEW x \in rd.due \ page
               PROVE  x \in T!LineSet /\ last <= Position(x)
    BY <1>7, <1>8, <1>9 DEF ToCome
  <2>1. x \in T!LineSet /\ rd.skip <= Position(x)
    BY <1>1 DEF ListInv, ToCome
  <2> QED
    BY <2>1, <1>2, <1>5, <1>6
<1>13. ListingWhole'
  <2>1. ASSUME ~rd.ins PROVE ~rd'.twice
    <3>1. ~rd.twice
      BY <2>1 DEF ListInv, ListingWhole, T!ListingWhole
    <3>2. page \cap rd.seen = {}
      <4> SUFFICES ASSUME NEW x \in page, x \in rd.seen PROVE FALSE
        OBVIOUS
      <4>1. x \in T!LineSet
        OBVIOUS
      <4>2. Position(x) < rd.skip
        BY <4>1, <2>1, <1>1 DEF ListInv, Shown
      <4> QED
        BY <4>1, <4>2, <1>2, <1>5, <1>6
    <3> QED
      BY <3>1, <3>2, <1>7
  <2>2. ASSUME last = total, ~rd.rem PROVE rd.due \ page = {}
    <3> SUFFICES ASSUME NEW x \in rd.due PROVE x \in page
      OBVIOUS
    <3>1. x \in T!LineSet /\ rd.skip <= Position(x)
      BY <2>2, <1>1 DEF ListInv, ToCome
    <3> QED
      BY <3>1, <2>2, <1>2, <1>5, <1>6
  <2> QED
    BY <2>1, <2>2, <1>7 DEF ListingWhole, T!ListingWhole
<1> QED
  BY <1>10, <1>11, <1>12, <1>13 DEF ListInv

LEMMA ListStart == ASSUME ListInv, T!ReadStart PROVE ListInv'
<1>1. /\ rd' = [T!NoRead("reading") EXCEPT !.due = T!LineSet]
      /\ UNCHANGED <<ifaces, stat>>
  BY DEF T!ReadStart
<1>2. T!LineSet \subseteq AnyLine
  <2>1. Listed \subseteq Ifaces
    BY DEF ListInv, ListType, Listed
  <2> QED
    BY <2>1, LinesThere DEF AnyLine
<1>3. /\ rd'.state = "reading" /\ rd'.skip = 0 /\ rd'.due = T!LineSet /\ rd'.seen = {}
      /\ ~rd'.twice /\ rd' \in Readings
  BY <1>1, <1>2 DEF T!NoRead, Readings
<1>4. T!LineSet' = T!LineSet
  BY <1>1 DEF T!LineSet, T!Exists
<1>5. \A x : Position(x)' = Position(x)
  <2>1. \A x, y : T!Before(x, y)' <=> T!Before(x, y)
    BY <1>1 DEF T!Before
  <2> QED
    BY <2>1, <1>4 DEF Position, Ahead
<1>6. ListType' /\ Fathers'
  BY <1>1, <1>3 DEF ListInv, ListType, Fathers, T!Exists, Listed
<1>7. \A x \in T!LineSet : 0 <= Position(x)
  BY ItemBound DEF ListInv
<1>8. Shown' /\ ToCome' /\ ListingWhole'
  BY <1>3, <1>4, <1>5, <1>7 DEF Shown, ToCome, ListingWhole, T!ListingWhole
<1> QED
  BY <1>6, <1>8 DEF ListInv

LEMMA ListStep == StatInv /\ ListInv /\ T!Next => ListInv'
<1> SUFFICES ASSUME StatInv, ListInv, T!Next PROVE ListInv'
  OBVIOUS
<1>1. ASSUME NEW i \in Ifaces, NEW s \in Socks \cup {NONE}, T!PacketAllocFails(i, s)
      PROVE  UNCHANGED <<ifaces, stat, rd>>
  BY <1>1 DEF T!PacketAllocFails
<1>2. T!Sockets => UNCHANGED <<ifaces, stat, rd>>
  BY DEF T!Sockets, T!statvars
<1>3. \A v \in StatUids, c \in T!Sets : T!CounterSet(v, c) => UNCHANGED <<ifaces, stat, rd>>
  BY DEF T!CounterSet
<1>4. \A p \in StatProcs, t \in T!FullTags : T!DeleteSockTags(p, t) => UNCHANGED <<ifaces, stat, rd>>
  BY DEF T!DeleteSockTags
<1>5. T!DeleteCounterSet => UNCHANGED <<ifaces, stat, rd>>
  BY DEF T!DeleteCounterSet
<1> QED
  BY <1>1, <1>2, <1>3, <1>4, <1>5, ListRests, IfaceStep, ListPacket, ListErase, ListStart, ListPage
     DEF T!Next

(* However the pages cut a listing, and whatever is counted, created and   *)
(* erased between two pages: unless an entry was added no line is shown    *)
(* twice, and unless one was erased no line is missed.                     *)
THEOREM ListingCorrect == ModSpec => []ListingWhole
<1>1. ModInit => StatInv /\ ListInv
  BY StatInit, ListInit DEF ModInit
<1>2. StatInv /\ ListInv /\ [ModNext]_<<vars, statistics, interfaces, quotas, keypad, turn>>
        => (StatInv /\ ListInv)'
  <2>1. ASSUME StatInv, ListInv, UNCHANGED statistics PROVE (StatInv /\ ListInv)'
    BY <2>1, StatKeeps, ListRests DEF statistics, StatInv, StatType
  <2> QED
    BY <2>1, StatStep, ListStep DEF ModNext
<1>3. ListInv => ListingWhole
  BY DEF ListInv
<1> QED
  BY <1>1, <1>2, <1>3, PTL DEF ModSpec
=============================================================================
