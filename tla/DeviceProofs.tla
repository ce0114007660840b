---------------------------- MODULE DeviceProofs ----------------------------
(***************************************************************************)
(* The lights, the interactive governor and the alarms of                  *)
(* charge_only_mode, proved of the parts as MCDevice composes them: for    *)
(* any levels of brightness, any three speeds, any times of the alarms,    *)
(* and whatever the other parts do.                                        *)
(***************************************************************************)
EXTENDS MCDevice, SequenceTheorems, FiniteSetTheorems, WellFoundedInduction, TLAPS

-----------------------------------------------------------------------------
(* The lights                                                              *)

(* The charge LED is asked for only while the battery has no colour of its *)
(* own to show: so beside it only a notification can light the other LED,  *)
(* and that switches it off.                                               *)
ChargeIsAlone == charge \in BOOLEAN /\ (charge => battery = L!OFF)
LightsInv == last \in Int /\ ChargeIsAlone /\ L!ButtonsAsBelieved /\ L!OneLed

LEMMA LightsInvInit == L!Init => LightsInv
<1> SUFFICES ASSUME L!Init PROVE LightsInv
  OBVIOUS
<1> USE DEF L!Init
<1>1. last \in Int /\ L!ButtonsAsBelieved
  BY DEF L!ButtonsAsBelieved
<1>2. ChargeIsAlone
  BY DEF ChargeIsAlone
<1>3. L!OneLed
  BY DEF L!OneLed, L!Lit, L!OFF, L!Flashes
<1> QED
  BY <1>1, <1>2, <1>3 DEF LightsInv

(* The files of the LEDs after a call that missed none of them.            *)
LEMMA ShownAsAsked ==
  ASSUME NEW bat, NEW note, NEW chg \in BOOLEAN, NEW fails \in L!Files,
         chg => bat = L!OFF, L!Show(bat, note, chg, fails)
  PROVE  ~missed' => /\ ~(led' /\ L!Lit(rgb'))
                     /\ blink' <=> (IF L!Lit(note) THEN note ELSE bat) \in L!Flashes
<1> DEFINE shown == IF L!Lit(note) THEN note ELSE bat
<1>1. ASSUME ~missed'
      PROVE  rgb' = L!Colour(shown) /\ blink' = (shown \in L!Flashes) /\ led' = (chg /\ ~L!Lit(note))
  BY <1>1 DEF L!Show, L!Write
<1>2. chg /\ ~L!Lit(note) => shown = L!OFF
  BY DEF L!Lit
<1>3. L!Colour(L!OFF) = L!OFF
  BY DEF L!Colour, L!OFF
<1> QED
  BY <1>1, <1>2, <1>3 DEF L!Lit

LEMMA LightsInvStep == LightsInv /\ (L!Next \/ UNCHANGED leds) => LightsInv'
<1> SUFFICES ASSUME LightsInv, L!Next \/ UNCHANGED leds PROVE LightsInv'
  OBVIOUS
<1> USE MCDeviceAssumption DEF LightsInv, ChargeIsAlone
<1>1. ASSUME NEW b \in Levels, NEW ok1 \in BOOLEAN, NEW ok2 \in BOOLEAN,
             L!set_light_buttons(b, ok1, ok2)
      PROVE  LightsInv'
  <2>1. b \in Nat
    BY DEF L!LightsAssumption
  <2>2. L!ButtonsAsBelieved'
    BY <1>1, <2>1 DEF L!set_light_buttons, L!ButtonsAsBelieved, L!Crosses, L!Changes
  <2>3. L!OneLed'
    BY <1>1 DEF L!set_light_buttons, L!OneLed, L!Lit, L!Flashes
  <2> QED
    BY <1>1, <2>1, <2>2, <2>3 DEF L!set_light_buttons
<1>2. ASSUME NEW c \in L!Battery, NEW p \in L!Prop, NEW fails \in L!Files,
             L!set_light_battery(c, p, fails)
      PROVE  LightsInv'
  <2>1. /\ charge' \in BOOLEAN /\ (charge' => battery' = L!OFF) /\ notification' = notification
        /\ L!Show(battery', notification, charge', fails)
    BY <1>2 DEF L!set_light_battery
  <2>2. L!OneLed'
    BY <2>1, ShownAsAsked DEF L!OneLed
  <2>3. L!ButtonsAsBelieved' /\ last' = last
    BY <1>2 DEF L!set_light_battery, L!ButtonsAsBelieved
  <2> QED
    BY <2>1, <2>2, <2>3
<1>3. ASSUME NEW c \in L!Notification, NEW fails \in L!Files, L!set_light_notification(c, fails)
      PROVE  LightsInv'
  <2>1. /\ charge' = charge /\ battery' = battery /\ notification' = c
        /\ L!Show(battery, c, charge, fails)
    BY <1>3 DEF L!set_light_notification
  <2>2. L!OneLed'
    BY <2>1, ShownAsAsked DEF L!OneLed
  <2>3. L!ButtonsAsBelieved' /\ last' = last
    BY <1>3 DEF L!set_light_notification, L!ButtonsAsBelieved
  <2> QED
    BY <2>1, <2>2, <2>3
<1>4. CASE UNCHANGED leds
  BY <1>4 DEF leds, L!ButtonsAsBelieved, L!OneLed, L!Lit, L!Flashes
<1> QED
  BY <1>1, <1>2, <1>3, <1>4 DEF L!Next

LEMMA LightsInvAlways == DeviceSpec => []LightsInv
<1>1. DeviceInit => LightsInv
  BY LightsInvInit DEF DeviceInit
<1>2. LightsInv /\ [DeviceNext]_<<vars, leds, governor, log, sockets, turn>> => LightsInv'
  BY LightsInvStep DEF DeviceNext
<1> QED
  BY <1>1, <1>2, PTL DEF DeviceSpec

(* A button file whose last due write did not fail holds what the cache    *)
(* says: set_light_buttons skips no write that was needed.                 *)
THEOREM ButtonsCorrect == DeviceSpec => []ButtonsAsBelieved
BY LightsInvAlways, PTL DEF LightsInv, ButtonsAsBelieved

(* At most one of the two LEDs is lit, and the light blinks just when what *)
(* it shows asks for it, unless a write to a file of theirs was missed.    *)
THEOREM LedCorrect == DeviceSpec => []OneLed
BY LightsInvAlways, PTL DEF LightsInv, OneLed

-----------------------------------------------------------------------------
(* The interactive governor                                                *)

(* The governor is wanted exactly when it is counted; a start that failed   *)
(* leaves one more in the count for good, and no hook from then on.        *)
(* Between the last two calls of a stop the hook is already gone, so that  *)
(* nothing arms the timer again.                                           *)
Counted == IF wanted THEN 1 ELSE 0
GovernorInv ==
  /\ hook \in BOOLEAN /\ timer \in BOOLEAN /\ wanted \in BOOLEAN /\ stopping \in BOOLEAN
  /\ count = Counted \/ (count = Counted + 1 /\ ~hook)
  /\ ~wanted => ~hook
  /\ stopping => ~wanted
  /\ ~wanted /\ ~stopping => ~timer

LEMMA GovernorInvStep == GovernorInv /\ (G!Next \/ UNCHANGED governor) => GovernorInv'
<1> SUFFICES ASSUME GovernorInv, G!Next \/ UNCHANGED governor PROVE GovernorInv'
  OBVIOUS
<1> USE DEF GovernorInv, Counted
<1>1. ASSUME UNCHANGED <<hook, timer, wanted, stopping, count>> PROVE GovernorInv'
  BY <1>1
<1>2. ASSUME G!Sleep \/ G!TimePasses \/ (\E b \in BOOLEAN : G!Load(b)) PROVE GovernorInv'
  BY <1>1, <1>2 DEF G!Sleep, G!TimePasses, G!Load
<1>3. CASE G!Wake
  BY <1>3 DEF G!Wake, G!Restart
<1>4. CASE G!TimerSame \/ G!TimerNoIdle
  <2>1. UNCHANGED <<hook, wanted, stopping, count>> /\ timer' = FALSE
    BY <1>4, Zenon DEF G!TimerSame, G!TimerNoIdle
  <2> QED
    BY <2>1
<1>5. CASE G!TimerIdled
  BY <1>5 DEF G!TimerIdled, G!Restart
<1>6. ASSUME NEW w \in G!Queues, G!Worker(w) PROVE GovernorInv'
  BY <1>1, <1>6 DEF G!Worker, G!WorkBegins, G!WorkTests, G!WorkCalculates, G!WorkDrives, G!WorkEnds
<1>7. ASSUME NEW ok \in BOOLEAN, G!Start(ok) PROVE GovernorInv'
  BY <1>7 DEF G!Start
<1>8. CASE G!Stop
  <2>1. wanted /\ wanted' = FALSE /\ count' = count - 1 /\ timer' = timer
    BY <1>8 DEF G!Stop
  <2>2. count = 1 \/ count = 2
    BY <2>1
  <2>3. hook' = FALSE /\ stopping' = TRUE
    BY <1>8, <2>2 DEF G!Stop
  <2>4. count' = Counted' \/ (count' = Counted' + 1 /\ ~hook')
    BY <2>1, <2>2, <2>3
  <2> QED
    BY <2>1, <2>3, <2>4, Zenon
<1>9. CASE G!StopTimer
  BY <1>9 DEF G!StopTimer
<1>10. CASE UNCHANGED governor
  BY <1>1, <1>10 DEF governor
<1> QED
  BY <1>2, <1>3, <1>4, <1>5, <1>6, <1>7, <1>8, <1>9, <1>10 DEF G!Next, G!Timer, G!Core

(* A governor that was stopped leaves neither its hook nor its timer,      *)
(* whenever the timer fires and the idle hook runs, also if starts failed. *)
THEOREM StopCorrect == DeviceSpec => []StopsClean
<1>1. DeviceInit => GovernorInv
  BY DEF DeviceInit, G!Init, GovernorInv, Counted
<1>2. GovernorInv /\ [DeviceNext]_<<vars, leds, governor, log, sockets, turn>> => GovernorInv'
  BY GovernorInvStep DEF DeviceNext
<1>3. GovernorInv => StopsClean
  BY DEF GovernorInv, StopsClean, G!StopsClean
<1> QED
  BY <1>1, <1>2, <1>3, PTL DEF DeviceSpec

-----------------------------------------------------------------------------
(* The alarms of charge_only_mode                                          *)

Kind == {"animation", "alarm1", "alarm2", "power_key"}
Alarm == {a \in [f : Kind, left : Nat] : a.left <= AlarmTimes[a.f]}

(* A list alarm_process can work with: sorted, and no kind in it twice.    *)
Listed(s) ==
  /\ s \in Seq(Alarm)
  /\ \A i, j \in 1 .. Len(s) : i < j => s[i].left <= s[j].left
  /\ \A i, j \in 1 .. Len(s) : s[i].f = s[j].f => i = j
KindsOf(s) == {s[i].f : i \in 1 .. Len(s)}

LEMMA LeastNat ==
  ASSUME NEW S \in SUBSET Nat, S # {}
  PROVE  Min(S) \in S /\ \A y \in S : Min(S) <= y
<1> DEFINE R == OpToRel(<, Nat)
<1>1. IsWellFoundedOn(R, Nat)
  BY NatLessThanWellFounded, Zenon
<1> HIDE DEF R
<1>2. PICK x \in S : \A y \in S : ~(<<y, x>> \in R)
  BY <1>1, WFMin
<1>3. \A j, i \in Nat : j < i => <<j, i>> \in R
  BY DEF R, OpToRel
<1>4. \A y \in S : ~(y < x)
  BY <1>2, <1>3
<1>5. \A y \in S : x <= y
  BY <1>4
<1> QED
  BY <1>2, <1>5 DEF Min

LEMMA InsertAtPoints ==
  ASSUME NEW T, NEW s \in Seq(T), NEW e \in T, NEW p \in 1 .. Len(s) + 1
  PROVE  LET t == InsertAt(s, p, e) IN
         /\ t \in Seq(T) /\ Len(t) = Len(s) + 1
         /\ \A i \in 1 .. Len(s) + 1 :
              t[i] = IF i < p THEN s[i] ELSE IF i = p THEN e ELSE s[i - 1]
<1>1. PICK a : a = SubSeq(s, 1, p - 1)
  OBVIOUS
<1>2. a \in Seq(T) /\ Len(a) = p - 1 /\ \A i \in 1 .. p - 1 : a[i] = s[i]
  BY <1>1
<1>3. PICK b : b = SubSeq(s, p, Len(s))
  OBVIOUS
<1>4. /\ b \in Seq(T) /\ Len(b) = Len(s) - p + 1
      /\ \A i \in 1 .. Len(s) - p + 1 : b[i] = s[i + p - 1]
  BY <1>3
<1>5. PICK c : c = a \o <<e>>
  OBVIOUS
<1>6. /\ c \in Seq(T) /\ Len(c) = p /\ c[p] = e
      /\ \A i \in 1 .. p - 1 : c[i] = s[i]
  BY <1>2, <1>5
<1>7. PICK t : t = c \o b
  OBVIOUS
<1>8. t = InsertAt(s, p, e)
  BY <1>1, <1>3, <1>5, <1>7 DEF InsertAt
<1>9. t \in Seq(T) /\ Len(t) = Len(s) + 1
  BY <1>4, <1>6, <1>7
<1>10. ASSUME NEW i \in 1 .. Len(s) + 1
       PROVE  t[i] = IF i < p THEN s[i] ELSE IF i = p THEN e ELSE s[i - 1]
  <2>1. i <= p => t[i] = c[i]
    BY <1>4, <1>6, <1>7
  <2>2. i > p => t[i] = b[i - p]
    BY <1>4, <1>6, <1>7
  <2>3. i > p => b[i - p] = s[i - 1]
    BY <1>4
  <2> QED
    BY <1>6, <2>1, <2>2, <2>3
<1> QED
  BY <1>8, <1>9, <1>10

(* alarm_set_relative, of a kind that is not pending: the list stays       *)
(* sorted, the new alarm among the others.                                 *)
Later(s, l) == {i \in DOMAIN s : s[i].left > l}

LEMMA SetListed ==
  ASSUME NEW s, Listed(s), NEW e \in Alarm, e.f \notin KindsOf(s)
  PROVE  LET later == Later(s, e.left)
             t == InsertAt(s, IF later = {} THEN Len(s) + 1 ELSE Min(later), e)
         IN  Listed(t) /\ KindsOf(t) = KindsOf(s) \cup {e.f}
<1> DEFINE later == {i \in DOMAIN s : s[i].left > e.left}
           p == IF later = {} THEN Len(s) + 1 ELSE Min(later)
<1>1. s \in Seq(Alarm) /\ e.left \in Nat /\ e.f \in Kind /\ later \subseteq 1 .. Len(s)
      /\ \A i \in 1 .. Len(s) : s[i] \in Alarm /\ s[i].left \in Nat /\ s[i].f \in Kind
  BY DEF Listed, Alarm
<1>2. /\ p \in 1 .. Len(s) + 1
      /\ \A i \in 1 .. Len(s) : i < p => s[i].left <= e.left
      /\ (p <= Len(s) => s[p].left > e.left)
  <2>1. CASE later = {}
    BY <1>1, <2>1
  <2>2. CASE later # {}
    <3>0. PICK S : S = later
      OBVIOUS
    <3>1. Min(S) \in S /\ \A y \in S : Min(S) <= y
      <4>1. S \in SUBSET Nat /\ S # {}
        BY <1>1, <2>2, <3>0
      <4> HIDE DEF later
      <4> QED
        BY <4>1, LeastNat
    <3>2. p = Min(S)
      BY <2>2, <3>0
    <3>3. p \in 1 .. Len(s) /\ s[p].left > e.left
      BY <1>1, <3>0, <3>1, <3>2
    <3>4. ASSUME NEW i \in 1 .. Len(s), i < p PROVE s[i].left <= e.left
      <4>1. p \in Int /\ i \in Int
        BY <3>3
      <4>2. ~(p <= i)
        BY <3>4, <4>1
      <4>3. i \notin S
        BY <3>1, <3>2, <4>2
      <4> QED
        BY <1>1, <3>0, <4>3
    <3> QED
      BY <3>3, <3>4
  <2> QED
    BY <2>1, <2>2
<1>4. PICK q : q = p
  OBVIOUS
<1>p. /\ q \in 1 .. Len(s) + 1
      /\ \A i \in 1 .. Len(s) : i < q => s[i].left <= e.left
      /\ (q <= Len(s) => s[q].left > e.left)
  BY <1>2, <1>4
<1> HIDE DEF later, p
<1>3. ASSUME NEW i \in 1 .. Len(s), i >= q PROVE e.left <= s[i].left
  <2>1. q \in 1 .. Len(s) /\ s[q].left > e.left
    BY <1>1, <1>3, <1>p
  <2>2. CASE i = q
    BY <1>1, <2>1, <2>2
  <2>3. CASE i > q
    <3>1. s[q].left <= s[i].left
      BY <2>1, <2>3 DEF Listed
    <3> QED
      BY <1>1, <2>1, <3>1
  <2> QED
    BY <1>3, <2>1, <2>2, <2>3
<1>5. PICK t : t = InsertAt(s, q, e)
  OBVIOUS
<1>6. /\ t \in Seq(Alarm) /\ Len(t) = Len(s) + 1
      /\ \A i \in 1 .. Len(s) + 1 : t[i] = IF i < q THEN s[i] ELSE IF i = q THEN e ELSE s[i - 1]
  <2>1. q \in 1 .. Len(s) + 1
    BY <1>p
  <2> QED
    BY <1>1, <1>5, <2>1, InsertAtPoints, SMTT(30)
<1> DEFINE Old(i) == IF i < q THEN i ELSE i - 1
<1>o. /\ \A i \in 1 .. Len(t) : i # q => Old(i) \in 1 .. Len(s) /\ t[i] = s[Old(i)]
      /\ t[q] = e /\ q \in 1 .. Len(t)
  <2>1. Len(s) \in Nat /\ q \in Int
    BY <1>1, <1>p
  <2>2. ASSUME NEW i \in 1 .. Len(t), i # q PROVE Old(i) \in 1 .. Len(s) /\ t[i] = s[Old(i)]
    <3>1. i \in 1 .. Len(s) + 1
      BY <1>6
    <3>2. CASE i < q
      BY <1>p, <1>6, <2>1, <3>1, <3>2
    <3>3. CASE i > q
      BY <1>p, <1>6, <2>1, <3>1, <3>3
    <3> QED
      BY <2>1, <2>2, <3>1, <3>2, <3>3
  <2> QED
    BY <1>p, <1>6, <2>2
<1>m. \A i, j \in 1 .. Len(t) : i < j /\ i # q /\ j # q => Old(i) < Old(j)
  BY <1>1, <1>p, <1>6
<1>7. ASSUME NEW i \in 1 .. Len(t), NEW j \in 1 .. Len(t), i < j
      PROVE  t[i].left <= t[j].left
  <2>1. \A a, b \in 1 .. Len(s) : a < b => s[a].left <= s[b].left
    BY DEF Listed
  <2>2. CASE i # q /\ j # q
    <3>1. Old(i) < Old(j) /\ Old(i) \in 1 .. Len(s) /\ Old(j) \in 1 .. Len(s)
      BY <1>7, <1>m, <1>o, <2>2
    <3> HIDE DEF Old
    <3>2. t[i] = s[Old(i)] /\ t[j] = s[Old(j)]
      BY <1>o, <2>2
    <3> QED
      BY <2>1, <3>1, <3>2
  <2>3. CASE i = q
    <3>1. Old(j) = j - 1 /\ j - 1 \in 1 .. Len(s) /\ t[j] = s[j - 1] /\ j - 1 >= q
      BY <1>7, <1>o, <1>p, <2>3
    <3> QED
      BY <1>3, <1>o, <2>3, <3>1
  <2>4. CASE j = q
    <3>1. i \in 1 .. Len(s) /\ t[i] = s[i] /\ i < q
      BY <1>7, <1>o, <1>p, <2>4
    <3> QED
      BY <1>p, <1>o, <2>4, <3>1
  <2> QED
    BY <2>2, <2>3, <2>4
<1>8. ASSUME NEW i \in 1 .. Len(t), NEW j \in 1 .. Len(t), t[i].f = t[j].f
      PROVE  i = j
  <2>1. \A a, b \in 1 .. Len(s) : s[a].f = s[b].f => a = b
    BY DEF Listed
  <2>2. \A a \in 1 .. Len(s) : s[a].f # e.f
    BY DEF KindsOf
  <2>3. CASE i # q /\ j # q
    <3>1. Old(i) \in 1 .. Len(s) /\ Old(j) \in 1 .. Len(s) /\ t[i] = s[Old(i)] /\ t[j] = s[Old(j)]
      BY <1>o, <2>3
    <3>2. Old(i) = Old(j)
      <4> HIDE DEF Old
      <4> QED
        BY <1>8, <2>1, <3>1
    <3>3. ~(i < j) /\ ~(j < i)
      BY <1>m, <2>3, <3>1, <3>2
    <3> QED
      BY <1>6, <3>3
  <2>4. CASE i = q \/ j = q
    <3> HIDE DEF Old
    <3> QED
      BY <1>o, <1>8, <2>2, <2>4
  <2> QED
    BY <2>3, <2>4
<1>9. KindsOf(t) = KindsOf(s) \cup {e.f}
  <2>1. ASSUME NEW i \in 1 .. Len(t) PROVE t[i].f \in KindsOf(s) \cup {e.f}
    <3> HIDE DEF Old
    <3> QED
      BY <1>o DEF KindsOf
  <2>2. ASSUME NEW i \in 1 .. Len(s) PROVE \E k \in 1 .. Len(t) : t[k].f = s[i].f
    <3>1. CASE i < q
      BY <1>1, <1>6, <3>1
    <3>2. CASE i >= q
      <4>1. i + 1 \in 1 .. Len(s) + 1 /\ ~(i + 1 < q) /\ i + 1 # q /\ (i + 1) - 1 = i
        BY <1>1, <1>p, <3>2
      <4>2. t[i + 1] = s[i] /\ i + 1 \in 1 .. Len(t)
        BY <1>6, <4>1
      <4> QED
        BY <4>2
    <3> QED
      BY <3>1, <3>2, <1>1, <1>p
  <2>3. q \in 1 .. Len(t) /\ t[q].f = e.f
    BY <1>o
  <2> HIDE DEF Old
  <2>4. KindsOf(t) \subseteq KindsOf(s) \cup {e.f}
    BY <2>1 DEF KindsOf
  <2>5. KindsOf(s) \cup {e.f} \subseteq KindsOf(t)
    BY <2>2, <2>3 DEF KindsOf
  <2> QED
    BY <2>4, <2>5
<1> QED
  BY <1>4, <1>5, <1>6, <1>7, <1>8, <1>9 DEF Listed, Later, later, p

(* What is left of a list when some are taken out of it.                   *)
PartOf(t, c, g, s) ==
  /\ t \in Seq(Alarm) /\ c \in Nat /\ Len(t) = c
  /\ \A k \in 1 .. c : g[k] \in 1 .. Len(s) /\ t[k] = s[g[k]]
  /\ \A j, k \in 1 .. c : j < k => g[j] < g[k]

LEMMA PartListed ==
  ASSUME NEW s, NEW t, NEW c, NEW g, Listed(s), PartOf(t, c, g, s)
  PROVE  Listed(t) /\ \A f : f \in KindsOf(t) <=> \E k \in 1 .. c : f = s[g[k]].f
<1> USE DEF PartOf
<1>1. \A k \in 1 .. c : g[k] \in 1 .. Len(s)
  OBVIOUS
<1>2. ASSUME NEW i \in 1 .. Len(t), NEW j \in 1 .. Len(t), i < j
      PROVE  t[i].left <= t[j].left
  <2>1. g[i] < g[j] /\ g[i] \in 1 .. Len(s) /\ g[j] \in 1 .. Len(s)
    BY <1>1, <1>2
  <2> QED
    BY <2>1 DEF Listed
<1>3. ASSUME NEW i \in 1 .. Len(t), NEW j \in 1 .. Len(t), t[i].f = t[j].f
      PROVE  i = j
  <2>1. g[i] = g[j]
    BY <1>1, <1>3 DEF Listed
  <2>2. \A k \in 1 .. c : g[k] \in Int
    BY <1>1
  <2> QED
    BY <2>1, <2>2
<1>4. \A f : f \in KindsOf(t) <=> \E k \in 1 .. c : f = s[g[k]].f
  BY DEF KindsOf
<1> QED
  BY <1>2, <1>3, <1>4 DEF Listed

LEMMA TailListed ==
  ASSUME NEW s, Listed(s), s # <<>>
  PROVE  /\ Listed(Tail(s)) /\ KindsOf(Tail(s)) = KindsOf(s) \ {Head(s).f}
         /\ Head(s).f \in KindsOf(s) /\ Head(s).f \in Kind
<1>1. s \in Seq(Alarm) /\ Len(s) \in Nat \ {0} /\ Head(s) = s[1] /\ s[1] \in Alarm
  BY DEF Listed
<1>2. PICK t, c, g : t = Tail(s) /\ c = Len(s) - 1 /\ g = [k \in 1 .. c |-> k + 1]
  OBVIOUS
<1>3. /\ t \in Seq(Alarm) /\ c \in Nat /\ Len(t) = c /\ g \in [1 .. c -> 1 .. Len(s)]
      /\ \A k \in 1 .. c : g[k] = k + 1 /\ t[k] = s[g[k]]
      /\ \A j, k \in 1 .. c : j < k => g[j] < g[k]
  <2>1. t \in Seq(Alarm) /\ c \in Nat /\ Len(t) = c /\ \A k \in 1 .. c : t[k] = s[k + 1]
    BY <1>1, <1>2
  <2>2. \A k \in 1 .. c : g[k] = k + 1 /\ k + 1 \in 1 .. Len(s)
    BY <1>1, <1>2
  <2>3. g \in [1 .. c -> 1 .. Len(s)]
    BY <1>2, <2>2
  <2> QED
    BY <2>1, <2>2, <2>3
<1>4. Listed(t) /\ \A f : f \in KindsOf(t) <=> \E k \in 1 .. c : f = s[g[k]].f
  <2>1. PartOf(t, c, g, s)
    BY <1>3 DEF PartOf
  <2> QED
    BY <2>1, PartListed
<1>5. {s[g[k]].f : k \in 1 .. c} = KindsOf(s) \ {s[1].f}
  <2>1. ASSUME NEW k \in 1 .. c PROVE s[g[k]].f \in KindsOf(s) \ {s[1].f}
    <3>1. k + 1 \in 1 .. Len(s) /\ g[k] = k + 1 /\ k + 1 # 1 /\ 1 \in 1 .. Len(s)
      BY <1>1, <1>2, <1>3
    <3> QED
      BY <3>1 DEF KindsOf, Listed
  <2>2. ASSUME NEW i \in 1 .. Len(s), s[i].f # s[1].f PROVE \E k \in 1 .. c : s[g[k]].f = s[i].f
    <3>1. i - 1 \in 1 .. c /\ g[i - 1] = i
      BY <1>1, <1>2, <1>3, <2>2
    <3> QED
      BY <3>1
  <2> QED
    BY <2>1, <2>2 DEF KindsOf
<1>6. s[1].f \in KindsOf(s) /\ s[1].f \in Kind
  BY <1>1 DEF KindsOf, Alarm
<1> QED
  BY <1>1, <1>2, <1>4, <1>5, <1>6

(* alarm_cancel: the others stay, in their order.                          *)
LEMMA WithoutListed ==
  ASSUME NEW s, Listed(s), NEW F
  PROVE  Listed(Without(s, F)) /\ KindsOf(Without(s, F)) = KindsOf(s) \ F
<1> DEFINE kept == {i \in DOMAIN s : s[i].f \notin F}
           UpTo(i) == {j \in kept : j <= i}
           nth(k) == CHOOSE i \in kept : Cardinality(UpTo(i)) = k
<1>1. s \in Seq(Alarm) /\ Len(s) \in Nat /\ kept \subseteq 1 .. Len(s)
  BY DEF Listed
<1>2. PICK c : c = Cardinality(kept)
  OBVIOUS
<1>3. IsFiniteSet(kept) /\ c \in Nat
  <2>1. IsFiniteSet(1 .. Len(s))
    BY <1>1, FS_Interval
  <2>2. IsFiniteSet(kept)
    <3> HIDE DEF kept
    <3> QED
      BY <1>1, <2>1, FS_Subset
  <2> HIDE DEF kept
  <2> QED
    BY <1>2, <2>2, FS_CardinalityType
<1>4. \A i \in kept : s[i].f \notin F
  OBVIOUS
<1>5. KindsOf(s) \ F = {s[i].f : i \in kept}
  BY <1>1 DEF KindsOf
<1>6. Without(s, F) = [k \in 1 .. c |-> s[nth(k)]]
  BY <1>2 DEF Without
<1> HIDE DEF kept
<1>7. \A i \in kept : i \in Int
  BY <1>1
<1>8. ASSUME NEW i \in kept
      PROVE  Cardinality(UpTo(i)) \in 1 .. c
  <2>1. IsFiniteSet(UpTo(i)) /\ Cardinality(UpTo(i)) <= c
    BY <1>2, <1>3, FS_Subset
  <2>2. i \in UpTo(i)
    BY <1>7
  <2>3. Cardinality(UpTo(i)) \in Nat /\ Cardinality(UpTo(i)) # 0
    BY <2>1, <2>2, FS_CardinalityType, FS_EmptySet
  <2> QED
    BY <1>3, <2>1, <2>3
<1>9. ASSUME NEW i \in kept, NEW j \in kept, i < j
      PROVE  Cardinality(UpTo(i)) < Cardinality(UpTo(j))
  <2>1. PICK A, B : A = UpTo(i) /\ B = UpTo(j)
    OBVIOUS
  <2>2. IsFiniteSet(A) /\ IsFiniteSet(B)
    BY <1>3, <2>1, FS_Subset
  <2>3. j \notin A /\ A \cup {j} \subseteq B
    BY <1>7, <1>9, <2>1
  <2>4. Cardinality(A \cup {j}) = Cardinality(A) + 1
    BY <2>2, <2>3, FS_AddElement
  <2>5. Cardinality(A \cup {j}) <= Cardinality(B)
    BY <2>2, <2>3, FS_Subset
  <2>6. Cardinality(A) \in Nat /\ Cardinality(B) \in Nat
    BY <2>2, FS_CardinalityType
  <2> QED
    BY <2>1, <2>4, <2>5, <2>6
<1>10. PICK r : r = [i \in kept |-> Cardinality(UpTo(i))]
  OBVIOUS
<1>11. \A i \in kept : r[i] \in 1 .. c /\ r[i] = Cardinality(UpTo(i))
  BY <1>8, <1>10
<1>12. \A i, j \in kept : i < j => r[i] < r[j]
  BY <1>9, <1>11
<1> HIDE DEF UpTo
<1>13. \A k \in 1 .. c : nth(k) \in kept /\ r[nth(k)] = k
  <2>1. r \in Injection(kept, 1 .. c)
    <3>1. r \in [kept -> 1 .. c]
      BY <1>10, <1>11
    <3>2. ASSUME NEW i \in kept, NEW j \in kept, r[i] = r[j] PROVE i = j
      <4>1. ~(i < j) /\ ~(j < i)
        BY <1>11, <1>12, <3>2
      <4> QED
        BY <1>7, <4>1
    <3> QED
      BY <3>1, <3>2 DEF Injection, IsInjective
  <2>2. IsFiniteSet(1 .. c) /\ Cardinality(1 .. c) = c
    BY <1>3, FS_Interval
  <2>3. r \in Surjection(kept, 1 .. c)
    BY <1>2, <2>1, <2>2, FS_Injection
  <2>4. \A k \in 1 .. c : \E i \in kept : Cardinality(UpTo(i)) = k
    BY <1>11, <2>3 DEF Surjection
  <2> QED
    BY <1>11, <2>4
<1>14. \A i \in kept : \E k \in 1 .. c : nth(k) = i
  <2> SUFFICES ASSUME NEW i \in kept PROVE \E k \in 1 .. c : nth(k) = i
    OBVIOUS
  <2>1. r[i] \in 1 .. c /\ nth(r[i]) \in kept /\ r[nth(r[i])] = r[i]
    BY <1>11, <1>13
  <2> HIDE DEF nth
  <2>2. PICK j : j = nth(r[i])
    OBVIOUS
  <2>3. ~(i < j) /\ ~(j < i) /\ i \in Int /\ j \in Int
    BY <1>7, <1>11, <1>12, <2>1, <2>2
  <2> QED
    BY <2>1, <2>2, <2>3
<1> HIDE DEF nth
<1>15. PICK g : g = [k \in 1 .. c |-> nth(k)]
  OBVIOUS
<1>16. PICK t : t = Without(s, F)
  OBVIOUS
<1>17. \A k \in 1 .. c : g[k] = nth(k) /\ nth(k) \in 1 .. Len(s) /\ t[k] = s[g[k]]
  BY <1>1, <1>6, <1>13, <1>15, <1>16
<1>18. t \in Seq(Alarm) /\ Len(t) = c
  <2>1. \A k \in 1 .. c : s[nth(k)] \in Alarm
    BY <1>1, <1>17
  <2> QED
    BY <1>3, <1>6, <1>16, <2>1
<1>19. ASSUME NEW j \in 1 .. c, NEW k \in 1 .. c, j < k PROVE g[j] < g[k]
  <2>1. ~(nth(k) < nth(j)) /\ nth(k) # nth(j)
    BY <1>12, <1>13, <1>19
  <2> QED
    BY <1>7, <1>13, <1>17, <2>1
<1>21. Listed(t) /\ \A f : f \in KindsOf(t) <=> \E k \in 1 .. c : f = s[g[k]].f
  <2>1. \A j, k \in 1 .. c : j < k => g[j] < g[k]
    BY <1>19
  <2>2. \A k \in 1 .. c : t[k] = s[g[k]]
    BY <1>17
  <2>3. PartOf(t, c, g, s)
    BY <1>3, <1>17, <1>18, <2>1, <2>2 DEF PartOf
  <2> QED
    BY <2>3, PartListed
<1>22. \A f : (\E k \in 1 .. c : f = s[g[k]].f) <=> (\E i \in kept : f = s[i].f)
  BY <1>13, <1>14, <1>17
<1>23. KindsOf(t) = {s[i].f : i \in kept}
  BY <1>21, <1>22
<1> QED
  BY <1>5, <1>16, <1>21, <1>23

(* In such a list an alarm is pending once or not at all.                  *)
LEMMA PendingOnce ==
  ASSUME NEW x, Listed(x.alarms), NEW f
  PROVE  Pending(x, f) = IF f \in KindsOf(x.alarms) THEN 1 ELSE 0
<1>1. PICK s : s = x.alarms /\ Listed(s)
  OBVIOUS
<1>2. DOMAIN s = 1 .. Len(s)
  BY <1>1 DEF Listed
<1>3. PICK S : S = {i \in 1 .. Len(s) : s[i].f = f}
  OBVIOUS
<1>4. Pending(x, f) = Cardinality(S)
  BY <1>1, <1>2, <1>3 DEF Pending
<1>5. CASE f \in KindsOf(s)
  <2>1. PICK i \in 1 .. Len(s) : s[i].f = f
    BY <1>5 DEF KindsOf
  <2>2. S = {i}
    BY <1>1, <1>3, <2>1 DEF Listed
  <2> QED
    BY <1>1, <1>4, <1>5, <2>2, FS_Singleton
<1>6. CASE f \notin KindsOf(s)
  <2>1. S = {}
    BY <1>3, <1>6 DEF KindsOf
  <2> QED
    BY <1>1, <1>4, <1>6, <2>1, FS_EmptySet
<1> QED
  BY <1>5, <1>6

(* Time passes for all of them alike.                                      *)
LEMMA TickListed ==
  ASSUME NEW s, Listed(s)
  PROVE  LET t == [i \in DOMAIN s |-> [s[i] EXCEPT !.left = IF @ = 0 THEN 0 ELSE @ - 1]] IN
         Listed(t) /\ KindsOf(t) = KindsOf(s)
<1>1. s \in Seq(Alarm) /\ DOMAIN s = 1 .. Len(s) /\ Len(s) \in Nat
  BY DEF Listed
<1>2. PICK t : t = [i \in 1 .. Len(s) |-> [s[i] EXCEPT !.left = IF @ = 0 THEN 0 ELSE @ - 1]]
  OBVIOUS
<1>3. ASSUME NEW i \in 1 .. Len(s)
      PROVE  /\ t[i] \in Alarm /\ t[i].f = s[i].f /\ s[i].left \in Nat
             /\ t[i].left = IF s[i].left = 0 THEN 0 ELSE s[i].left - 1
  <2>1. PICK a \in Alarm : a = s[i]
    BY <1>1
  <2>2. a \in [f : Kind, left : Nat] /\ a.left <= AlarmTimes[a.f] /\ AlarmTimes[a.f] \in Nat
    BY ChargeAssumption DEF Alarm, AlarmTimes, Kind
  <2>3. PICK b : b = [a EXCEPT !.left = IF a.left = 0 THEN 0 ELSE a.left - 1]
    OBVIOUS
  <2>4. b \in [f : Kind, left : Nat] /\ b.f = a.f /\ b.left = IF a.left = 0 THEN 0 ELSE a.left - 1
    BY <2>2, <2>3
  <2>5. b.left <= AlarmTimes[b.f]
    BY <2>2, <2>4
  <2>6. t[i] = b
    BY <1>2, <2>1, <2>3
  <2> QED
    BY <2>1, <2>2, <2>4, <2>5, <2>6 DEF Alarm
<1>4. t \in Seq(Alarm) /\ Len(t) = Len(s)
  <2>1. \A i \in 1 .. Len(s) : [s[i] EXCEPT !.left = IF @ = 0 THEN 0 ELSE @ - 1] \in Alarm
    BY <1>2, <1>3
  <2> QED
    BY <1>1, <1>2, <2>1
<1>5. Listed(t)
  <2>1. \A i, j \in 1 .. Len(t) : i < j => t[i].left <= t[j].left
    <3> SUFFICES ASSUME NEW i \in 1 .. Len(t), NEW j \in 1 .. Len(t), i < j
                 PROVE  t[i].left <= t[j].left
      OBVIOUS
    <3>1. i \in 1 .. Len(s) /\ j \in 1 .. Len(s) /\ s[i].left <= s[j].left
      BY <1>4 DEF Listed
    <3> QED
      BY <1>3, <3>1
  <2>2. \A i, j \in 1 .. Len(t) : t[i].f = t[j].f => i = j
    BY <1>3, <1>4 DEF Listed
  <2> QED
    BY <1>4, <2>1, <2>2 DEF Listed
<1>6. KindsOf(t) = KindsOf(s)
  BY <1>3, <1>4 DEF KindsOf
<1> QED
  BY <1>1, <1>2, <1>5, <1>6

(* The program's state: a list of alarms and its flags.                    *)
Flags == [alarms : Seq(Alarm), bright : {0, 4, 8}, blanked : BOOLEAN, powerup : BOOLEAN,
          shutdown : BOOLEAN, halted : {"no", "off", "outofcharge"}]
Sane(x) == x \in Flags /\ Listed(x.alarms)
Kinds(x) == KindsOf(x.alarms)
SameFlags(x, y) == /\ y.bright = x.bright /\ y.blanked = x.blanked /\ y.powerup = x.powerup
                   /\ y.shutdown = x.shutdown /\ y.halted = x.halted

(* Only the alarms change.                                                 *)
LEMMA AlarmsOnly ==
  ASSUME NEW x, Sane(x), NEW a, Listed(a)
  PROVE  LET y == [x EXCEPT !.alarms = a] IN
         Sane(y) /\ SameFlags(x, y) /\ y.alarms = a
BY DEF Sane, Flags, Listed, SameFlags

LEMMA SetSane ==
  ASSUME NEW x, Sane(x), NEW f \in Kind, f \notin Kinds(x), NEW ticks \in Nat, ticks = AlarmTimes[f]
  PROVE  LET y == alarm_set_relative(x, f, ticks) IN
         Sane(y) /\ SameFlags(x, y) /\ Kinds(y) = Kinds(x) \cup {f}
<1>1. PICK s : s = x.alarms /\ Listed(s)
  BY DEF Sane
<1>2. PICK e : e = [f |-> f, left |-> ticks]
  OBVIOUS
<1>3. e \in Alarm /\ e.f = f /\ e.left = ticks /\ e.f \notin KindsOf(s)
  BY <1>1, <1>2 DEF Alarm, Kinds
<1>4. PICK later : later = Later(s, e.left)
  OBVIOUS
<1>5. PICK t : t = InsertAt(s, IF later = {} THEN Len(s) + 1 ELSE Min(later), e)
  OBVIOUS
<1>6. Listed(t) /\ KindsOf(t) = KindsOf(s) \cup {e.f}
  BY <1>1, <1>3, <1>4, <1>5, SetListed
<1>7. alarm_set_relative(x, f, ticks) = [x EXCEPT !.alarms = t]
  BY <1>1, <1>2, <1>3, <1>4, <1>5 DEF alarm_set_relative, Later
<1>8. PICK y : y = [x EXCEPT !.alarms = t]
  OBVIOUS
<1>9. Sane(y) /\ SameFlags(x, y) /\ y.alarms = t
  BY <1>6, <1>8, AlarmsOnly
<1> QED
  BY <1>1, <1>3, <1>6, <1>7, <1>8, <1>9 DEF Kinds

LEMMA CancelSane ==
  ASSUME NEW x, Sane(x), NEW F
  PROVE  LET y == alarm_cancel(x, F) IN
         Sane(y) /\ SameFlags(x, y) /\ Kinds(y) = Kinds(x) \ F
<1>1. PICK s : s = x.alarms /\ Listed(s)
  BY DEF Sane
<1>2. PICK t : t = Without(s, F)
  OBVIOUS
<1>3. Listed(t) /\ KindsOf(t) = KindsOf(s) \ F
  BY <1>1, <1>2, WithoutListed
<1>4. PICK y : y = [x EXCEPT !.alarms = t]
  OBVIOUS
<1>5. Sane(y) /\ SameFlags(x, y) /\ y.alarms = t
  BY <1>3, <1>4, AlarmsOnly
<1>6. y = alarm_cancel(x, F)
  BY <1>1, <1>2, <1>4 DEF alarm_cancel
<1> QED
  BY <1>1, <1>3, <1>5, <1>6 DEF Kinds

LEMMA Times ==
  /\ ANIMATION \in Nat \ {0} /\ HOLD \in Nat \ {0} /\ BRIGHT \in Nat \ {0} /\ DIM \in Nat \ {0}
  /\ AlarmTimes["animation"] = ANIMATION /\ AlarmTimes["alarm1"] = BRIGHT
  /\ AlarmTimes["alarm2"] = DIM /\ AlarmTimes["power_key"] = HOLD
BY ChargeAssumption DEF AlarmTimes

-----------------------------------------------------------------------------
(* What each handler does to the kinds that are pending and to the flags.  *)

LEMMA Alarm2Does ==
  ASSUME NEW x, Sane(x), NEW ok
  PROVE  LET y == screen_brightness_animation_alarm2(x, ok) IN
         /\ Sane(y) /\ Kinds(y) = Kinds(x) \ {"animation"} /\ y.powerup = x.powerup
         /\ y.bright = 0
         /\ y.halted = "no" => y.blanked
<1>1. PICK c : c = alarm_cancel(x, {"animation"})
  OBVIOUS
<1>2. Sane(c) /\ SameFlags(x, c) /\ Kinds(c) = Kinds(x) \ {"animation"}
  BY <1>1, CancelSane
<1>3. PICK y : y = screen_brightness_animation_alarm2(x, ok)
  OBVIOUS
<1>4. /\ y.alarms = c.alarms /\ y.powerup = x.powerup /\ y.bright = 0
      /\ y \in Flags /\ (y.halted = "no" => y.blanked)
  <2>1. c \in Flags /\ c.powerup = x.powerup
    BY <1>2 DEF Sane, SameFlags
  <2> QED
    BY <1>1, <1>3, <2>1 DEF Flags, screen_brightness_animation_alarm2
<1> QED
  BY <1>2, <1>3, <1>4 DEF Sane, Kinds

LEMMA Alarm1Does ==
  ASSUME NEW x, Sane(x), "alarm2" \notin Kinds(x)
  PROVE  LET y == screen_brightness_animation_alarm1(x) IN
         /\ Sane(y) /\ Kinds(y) = Kinds(x) \cup {"alarm2"} /\ y.powerup = x.powerup
         /\ y.bright = 4 /\ y.blanked = x.blanked /\ y.halted = x.halted
<1>1. PICK b : b = [x EXCEPT !.bright = 4]
  OBVIOUS
<1>2. /\ Sane(b) /\ b.bright = 4 /\ b.blanked = x.blanked /\ b.powerup = x.powerup
      /\ b.halted = x.halted /\ b.alarms = x.alarms
  BY <1>1 DEF Sane, Flags
<1>3. PICK y : y = alarm_set_relative(b, "alarm2", DIM)
  OBVIOUS
<1>4. Sane(y) /\ SameFlags(b, y) /\ Kinds(y) = Kinds(b) \cup {"alarm2"}
  <2>1. "alarm2" \in Kind /\ "alarm2" \notin Kinds(b) /\ DIM \in Nat /\ DIM = AlarmTimes["alarm2"]
    BY <1>2, Times DEF Kind, Kinds
  <2> QED
    BY <1>2, <1>3, <2>1, SetSane
<1>5. y = screen_brightness_animation_alarm1(x)
  BY <1>1, <1>3 DEF screen_brightness_animation_alarm1
<1> QED
  BY <1>2, <1>4, <1>5 DEF SameFlags, Kinds

LEMMA StartDoes ==
  ASSUME NEW x, Sane(x), Kinds(x) \cap Animations = {}
  PROVE  LET y == screen_brightness_animation_start(x) IN
         /\ Sane(y) /\ Kinds(y) = Kinds(x) \cup {"alarm1", "animation"} /\ y.powerup = x.powerup
         /\ y.bright = 8 /\ y.blanked = FALSE /\ y.halted = x.halted
<1>1. PICK b : b = [x EXCEPT !.blanked = FALSE, !.bright = 8]
  OBVIOUS
<1>2. /\ Sane(b) /\ b.bright = 8 /\ b.blanked = FALSE /\ b.powerup = x.powerup
      /\ b.halted = x.halted /\ b.alarms = x.alarms
  BY <1>1 DEF Sane, Flags
<1>3. PICK c : c = alarm_set_relative(b, "alarm1", BRIGHT)
  OBVIOUS
<1>4. Sane(c) /\ SameFlags(b, c) /\ Kinds(c) = Kinds(x) \cup {"alarm1"}
  <2>1. "alarm1" \in Kind /\ "alarm1" \notin Kinds(b) /\ BRIGHT \in Nat /\ BRIGHT = AlarmTimes["alarm1"]
    BY <1>2, Times DEF Kind, Kinds, Animations
  <2>2. Kinds(b) = Kinds(x)
    BY <1>2 DEF Kinds
  <2> QED
    BY <1>2, <1>3, <2>1, <2>2, SetSane
<1>5. PICK y : y = alarm_set_relative(c, "animation", ANIMATION)
  OBVIOUS
<1>6. Sane(y) /\ SameFlags(c, y) /\ Kinds(y) = Kinds(c) \cup {"animation"}
  <2>1. "animation" \in Kind /\ "animation" \notin Kinds(c) /\ ANIMATION \in Nat
        /\ ANIMATION = AlarmTimes["animation"]
    BY <1>4, Times DEF Kind, Animations
  <2> QED
    BY <1>4, <1>5, <2>1, SetSane
<1>7. y = screen_brightness_animation_start(x)
  BY <1>1, <1>3, <1>5 DEF screen_brightness_animation_start
<1> QED
  BY <1>2, <1>4, <1>6, <1>7 DEF SameFlags

LEMMA PowerKeyAlarmDoes ==
  ASSUME NEW x, Sane(x), NEW ok
  PROVE  LET y == power_key_alarm(x, ok) IN
         /\ Sane(y) /\ Kinds(y) = Kinds(x) \ Animations /\ y.powerup = x.powerup
         /\ y.bright = x.bright /\ y.blanked = x.blanked
<1>1. PICK c : c = alarm_cancel(x, Animations)
  OBVIOUS
<1>2. Sane(c) /\ SameFlags(x, c) /\ Kinds(c) = Kinds(x) \ Animations
  BY <1>1, CancelSane
<1>3. PICK y : y = power_key_alarm(x, ok)
  OBVIOUS
<1>4. y = c \/ y = [c EXCEPT !.halted = "outofcharge"]
  BY <1>1, <1>3 DEF power_key_alarm
<1>5. /\ y.alarms = c.alarms /\ y \in Flags /\ y.powerup = c.powerup /\ y.bright = c.bright
      /\ y.blanked = c.blanked
  BY <1>2, <1>4 DEF Sane, Flags
<1> QED
  BY <1>2, <1>3, <1>5 DEF Sane, Kinds, SameFlags

(* power_event leaves the screen as it is, or darkens it for good.         *)
LEMMA PowerEventDoes ==
  ASSUME NEW x, Sane(x), NEW ok, voltOk \in BOOLEAN
  PROVE  LET y == power_event(x, ok) IN
         /\ Sane(y) /\ (x.powerup => y.powerup)
         /\ \/ Kinds(y) = Kinds(x) /\ y.bright = x.bright /\ y.blanked = x.blanked
               /\ y.halted = x.halted
            \/ Kinds(y) = Kinds(x) \ Animations /\ y.bright = 0 /\ (y.halted = "no" => y.blanked)
<1>1. PICK b : b = [x EXCEPT !.powerup = @ \/ voltOk]
  OBVIOUS
<1>2. /\ Sane(b) /\ b.alarms = x.alarms /\ b.powerup = (x.powerup \/ voltOk) /\ b.bright = x.bright
      /\ b.blanked = x.blanked /\ b.halted = x.halted /\ b.shutdown = x.shutdown
  BY <1>1 DEF Sane, Flags
<1>3. CASE ~(~b.shutdown /\ ~online)
  BY <1>1, <1>2, <1>3 DEF power_event, Kinds
<1>4. CASE ~b.shutdown /\ ~online
  <2>1. PICK c : c = [b EXCEPT !.shutdown = TRUE]
    OBVIOUS
  <2>2. Sane(c) /\ c.alarms = x.alarms /\ c.powerup = b.powerup
    BY <1>2, <2>1 DEF Sane, Flags
  <2>3. PICK d : d = alarm_cancel(c, {"alarm1", "alarm2"})
    OBVIOUS
  <2>4. Sane(d) /\ SameFlags(c, d) /\ Kinds(d) = Kinds(c) \ {"alarm1", "alarm2"}
    BY <2>2, <2>3, CancelSane
  <2>5. PICK y : y = screen_brightness_animation_alarm2(d, ok)
    OBVIOUS
  <2>6. /\ Sane(y) /\ Kinds(y) = Kinds(d) \ {"animation"} /\ y.powerup = d.powerup
        /\ y.bright = 0 /\ (y.halted = "no" => y.blanked)
    BY <2>4, <2>5, Alarm2Does
  <2>7. y = power_event(x, ok)
    BY <1>1, <1>4, <2>1, <2>3, <2>5 DEF power_event
  <2>8. Kinds(y) = Kinds(x) \ Animations
    BY <2>2, <2>4, <2>6 DEF Kinds, Animations
  <2> QED
    BY <1>2, <2>2, <2>4, <2>6, <2>7, <2>8 DEF SameFlags
<1> QED
  BY <1>3, <1>4

-----------------------------------------------------------------------------
(* What is set is what the screen shows and what the power key asks for.   *)

Cycle(x) == Kinds(x) \cap Animations
Screen(x, down) ==
  \/ x.bright = 8 /\ ~x.blanked /\ Cycle(x) = {"animation", "alarm1"}
  \/ x.bright = 4 /\ ~x.blanked /\ Cycle(x) = {"animation", "alarm2"}
  \/ x.bright = 0 /\ x.blanked /\ Cycle(x) = {}
  \/ x.bright # 0 /\ ~x.blanked /\ Cycle(x) = {} /\ down
KeyAlarm(x, down) == "power_key" \in Kinds(x) => down /\ x.powerup
Whole(x, down) == Sane(x) /\ KeyAlarm(x, down) /\ (x.halted = "no" => Screen(x, down))

LEMMA PowerEventKeeps ==
  ASSUME NEW x, NEW down, Whole(x, down), NEW ok, voltOk \in BOOLEAN
  PROVE  Whole(power_event(x, ok), down)
<1>1. PICK y : y = power_event(x, ok)
  OBVIOUS
<1>2. /\ Sane(y) /\ (x.powerup => y.powerup)
      /\ \/ Kinds(y) = Kinds(x) /\ y.bright = x.bright /\ y.blanked = x.blanked
            /\ y.halted = x.halted
         \/ Kinds(y) = Kinds(x) \ Animations /\ y.bright = 0 /\ (y.halted = "no" => y.blanked)
  BY <1>1, PowerEventDoes DEF Whole
<1>3. KeyAlarm(y, down)
  BY <1>2 DEF Whole, KeyAlarm
<1>4. CASE Kinds(y) = Kinds(x) /\ y.bright = x.bright /\ y.blanked = x.blanked
           /\ y.halted = x.halted
  BY <1>1, <1>2, <1>3, <1>4 DEF Whole, Screen, Cycle
<1>5. CASE Kinds(y) = Kinds(x) \ Animations /\ y.bright = 0 /\ (y.halted = "no" => y.blanked)
  <2>1. Cycle(y) = {}
    BY <1>5 DEF Cycle
  <2> QED
    BY <1>1, <1>2, <1>3, <1>5, <2>1 DEF Whole, Screen
<1> QED
  BY <1>2, <1>4, <1>5

LEMMA RunKeeps ==
  ASSUME NEW x, NEW down, Whole(x, down), x.halted = "no", x.alarms # <<>>, NEW ok,
         voltOk \in BOOLEAN,
         NEW f, f = Head(x.alarms).f, NEW b, b = [x EXCEPT !.alarms = Tail(x.alarms)]
  PROVE  Whole(Run(f, b, ok), down)
<1>2. /\ Sane(b) /\ SameFlags(x, b) /\ Kinds(b) = Kinds(x) \ {f} /\ f \in Kinds(x) /\ f \in Kind
  <2>1. PICK s, a : s = x.alarms /\ a = Tail(s)
    OBVIOUS
  <2>2. Listed(a) /\ KindsOf(a) = KindsOf(s) \ {Head(s).f} /\ Head(s).f \in KindsOf(s)
        /\ Head(s).f \in Kind
    BY <2>1, TailListed DEF Whole, Sane
  <2>3. b = [x EXCEPT !.alarms = a]
    BY <2>1
  <2>4. Sane(b) /\ SameFlags(x, b) /\ b.alarms = a
    <3>1. Sane(x)
      BY DEF Whole
    <3>2. PICK y : y = [x EXCEPT !.alarms = a]
      OBVIOUS
    <3>3. Sane(y) /\ SameFlags(x, y) /\ y.alarms = a
      BY <2>2, <3>1, <3>2, AlarmsOnly
    <3> QED
      BY <2>3, <3>2, <3>3
  <2> QED
    BY <2>1, <2>2, <2>4 DEF Kinds
<1>3. Screen(x, down) /\ KeyAlarm(x, down)
  BY DEF Whole
<1>4. CASE f = "animation"
  <2>1. PICK c : c = alarm_set_relative(b, "animation", ANIMATION)
    OBVIOUS
  <2>2. Sane(c) /\ SameFlags(b, c) /\ Kinds(c) = Kinds(b) \cup {"animation"}
    <3>1. "animation" \in Kind /\ "animation" \notin Kinds(b) /\ ANIMATION \in Nat
          /\ ANIMATION = AlarmTimes["animation"]
      BY <1>2, <1>4, Times DEF Kind
    <3> QED
      BY <1>2, <2>1, <3>1, SetSane
  <2>3. Kinds(c) = Kinds(x)
    BY <1>2, <1>4, <2>2
  <2>4. Whole(c, down)
    BY <1>2, <1>3, <2>2, <2>3 DEF Whole, SameFlags, Screen, Cycle, KeyAlarm
  <2>5. Run(f, b, ok) = power_event(c, ok)
    BY <1>4, <2>1 DEF Run, animation_alarm
  <2> QED
    BY <2>4, <2>5, PowerEventKeeps
<1>5. CASE f = "alarm1"
  <2>1. x.bright = 8 /\ ~x.blanked /\ Cycle(x) = {"animation", "alarm1"}
    BY <1>2, <1>3, <1>5 DEF Screen, Cycle, Animations
  <2>2. "alarm2" \notin Kinds(b)
    BY <1>2, <2>1 DEF Cycle, Animations
  <2>3. PICK y : y = screen_brightness_animation_alarm1(b)
    OBVIOUS
  <2>4. /\ Sane(y) /\ Kinds(y) = Kinds(b) \cup {"alarm2"} /\ y.powerup = b.powerup
        /\ y.bright = 4 /\ y.blanked = b.blanked /\ y.halted = b.halted
    BY <1>2, <2>2, <2>3, Alarm1Does
  <2>5. Cycle(y) = {"animation", "alarm2"}
    BY <1>2, <1>5, <2>1, <2>4 DEF Cycle, Animations
  <2>6. Screen(y, down)
    BY <1>2, <2>1, <2>4, <2>5 DEF Screen, SameFlags
  <2>7. KeyAlarm(y, down)
    BY <1>2, <1>3, <2>4 DEF KeyAlarm, SameFlags
  <2>8. Run(f, b, ok) = y
    BY <1>5, <2>3 DEF Run
  <2> QED
    BY <2>4, <2>6, <2>7, <2>8 DEF Whole
<1>6. CASE f = "alarm2"
  <2>1. Cycle(x) = {"animation", "alarm2"}
    BY <1>2, <1>3, <1>6 DEF Screen, Cycle, Animations
  <2>2. PICK y : y = screen_brightness_animation_alarm2(b, ok)
    OBVIOUS
  <2>3. /\ Sane(y) /\ Kinds(y) = Kinds(b) \ {"animation"} /\ y.powerup = b.powerup
        /\ y.bright = 0 /\ (y.halted = "no" => y.blanked)
    BY <1>2, <2>2, Alarm2Does
  <2>4. Cycle(y) = {}
    BY <1>2, <1>6, <2>1, <2>3 DEF Cycle, Animations
  <2>5. y.halted = "no" => Screen(y, down)
    BY <2>3, <2>4 DEF Screen
  <2>6. KeyAlarm(y, down)
    BY <1>2, <1>3, <2>3 DEF KeyAlarm, SameFlags
  <2>7. Run(f, b, ok) = y
    BY <1>6, <2>2 DEF Run
  <2> QED
    BY <2>3, <2>5, <2>6, <2>7 DEF Whole
<1>7. CASE f = "power_key"
  <2>1. down /\ x.powerup
    BY <1>2, <1>3, <1>7 DEF KeyAlarm
  <2>2. PICK y : y = power_key_alarm(b, ok)
    OBVIOUS
  <2>3. /\ Sane(y) /\ Kinds(y) = Kinds(b) \ Animations /\ y.powerup = b.powerup
        /\ y.bright = b.bright /\ y.blanked = b.blanked
    BY <1>2, <2>2, PowerKeyAlarmDoes
  <2>4. Cycle(y) = {}
    BY <2>3 DEF Cycle
  <2>5. Screen(y, down)
    BY <1>2, <1>3, <2>1, <2>3, <2>4 DEF Screen, SameFlags
  <2>6. KeyAlarm(y, down)
    BY <1>2, <2>1, <2>3 DEF KeyAlarm, SameFlags
  <2>7. Run(f, b, ok) = y
    BY <1>7, <2>2 DEF Run
  <2> QED
    BY <2>3, <2>5, <2>6, <2>7 DEF Whole
<1> QED
  BY <1>2, <1>4, <1>5, <1>6, <1>7 DEF Kind

LEMMA PowerDownKeeps ==
  ASSUME NEW x, Whole(x, FALSE), x.halted = "no", NEW ok
  PROVE  Whole(KeyEvent("power_down", x, ok), TRUE)
<1>1. PICK y : y = alarm_set_relative(x, "power_key", HOLD)
  OBVIOUS
<1>2. Sane(x) /\ Screen(x, FALSE) /\ "power_key" \notin Kinds(x)
  BY DEF Whole, KeyAlarm
<1>3. Sane(y) /\ SameFlags(x, y) /\ Kinds(y) = Kinds(x) \cup {"power_key"}
  <2>1. "power_key" \in Kind /\ HOLD \in Nat /\ HOLD = AlarmTimes["power_key"]
    BY Times DEF Kind
  <2> QED
    BY <1>1, <1>2, <2>1, SetSane
<1>4. Cycle(y) = Cycle(x)
  BY <1>3 DEF Cycle, Animations
<1>5. x.powerup => Whole(y, TRUE)
  BY <1>2, <1>3, <1>4 DEF Whole, Screen, SameFlags, KeyAlarm
<1>6. Whole(x, TRUE)
  BY <1>2 DEF Whole, Screen, KeyAlarm
<1> QED
  BY <1>1, <1>5, <1>6 DEF KeyEvent

LEMMA PowerUpKeeps ==
  ASSUME NEW x, Whole(x, TRUE), x.halted = "no", NEW ok
  PROVE  Whole(KeyEvent("power_up", x, ok), FALSE)
<1>1. PICK a, b : a = alarm_cancel(x, {"power_key"}) /\ b = alarm_cancel(a, {"alarm2", "animation"})
  OBVIOUS
<1>2. Sane(a) /\ SameFlags(x, a) /\ Kinds(a) = Kinds(x) \ {"power_key"}
  BY <1>1, CancelSane DEF Whole
<1>3. Sane(b) /\ SameFlags(a, b) /\ Kinds(b) = Kinds(a) \ {"alarm2", "animation"}
  BY <1>1, <1>2, CancelSane
<1>4. KeyEvent("power_up", x, ok) = update_screen_on_wakeup_key(a, ok)
  BY <1>1 DEF KeyEvent
<1>5. Pending(b, "alarm1") = IF "alarm1" \in Kinds(b) THEN 1 ELSE 0
  BY <1>3, PendingOnce DEF Sane, Kinds
<1>6. CASE "alarm1" \in Kinds(b)
  <2>1. PICK c, y : /\ c = alarm_cancel(b, {"alarm1"})
                    /\ y = screen_brightness_animation_alarm2(c, ok)
    OBVIOUS
  <2>2. Sane(c) /\ SameFlags(b, c) /\ Kinds(c) = Kinds(b) \ {"alarm1"}
    BY <1>3, <2>1, CancelSane
  <2>3. /\ Sane(y) /\ Kinds(y) = Kinds(c) \ {"animation"} /\ y.bright = 0
        /\ (y.halted = "no" => y.blanked)
    BY <2>1, <2>2, Alarm2Does
  <2>4. Cycle(y) = {} /\ "power_key" \notin Kinds(y)
    BY <1>2, <1>3, <2>2, <2>3 DEF Cycle, Animations
  <2>5. Whole(y, FALSE)
    BY <2>3, <2>4 DEF Whole, Screen, KeyAlarm
  <2>6. y = update_screen_on_wakeup_key(a, ok)
    BY <1>1, <1>5, <1>6, <2>1 DEF update_screen_on_wakeup_key
  <2> QED
    BY <1>4, <2>5, <2>6
<1>7. CASE "alarm1" \notin Kinds(b)
  <2>1. PICK y : y = screen_brightness_animation_start(b)
    OBVIOUS
  <2>2. Kinds(b) \cap Animations = {}
    BY <1>3, <1>7 DEF Animations
  <2>3. /\ Sane(y) /\ Kinds(y) = Kinds(b) \cup {"alarm1", "animation"}
        /\ y.bright = 8 /\ y.blanked = FALSE
    BY <1>3, <2>1, <2>2, StartDoes
  <2>4. Cycle(y) = {"animation", "alarm1"} /\ "power_key" \notin Kinds(y)
    BY <1>2, <1>3, <2>2, <2>3 DEF Cycle, Animations
  <2>5. Whole(y, FALSE)
    BY <2>3, <2>4 DEF Whole, Screen, KeyAlarm
  <2>6. y = update_screen_on_wakeup_key(a, ok)
    BY <1>1, <1>5, <1>7, <2>1 DEF update_screen_on_wakeup_key
  <2> QED
    BY <1>4, <2>5, <2>6
<1> QED
  BY <1>6, <1>7

LEMMA OtherKeyKeeps ==
  ASSUME NEW x, NEW down, Whole(x, down), NEW ok
  PROVE  Whole(KeyEvent("other_down", x, ok), down)
<1>1. PICK a, y : a = alarm_cancel(x, Animations) /\ y = screen_brightness_animation_start(a)
  OBVIOUS
<1>2. Sane(a) /\ SameFlags(x, a) /\ Kinds(a) = Kinds(x) \ Animations
  BY <1>1, CancelSane DEF Whole
<1>3. /\ Sane(y) /\ Kinds(y) = Kinds(a) \cup {"alarm1", "animation"} /\ y.powerup = a.powerup
      /\ y.bright = 8 /\ y.blanked = FALSE
  BY <1>1, <1>2, StartDoes
<1>4. Cycle(y) = {"animation", "alarm1"} /\ ("power_key" \in Kinds(y) => "power_key" \in Kinds(x))
  BY <1>2, <1>3 DEF Cycle, Animations
<1>5. Whole(y, down)
  BY <1>2, <1>3, <1>4 DEF Whole, Screen, KeyAlarm, SameFlags
<1> QED
  BY <1>1, <1>5 DEF KeyEvent, update_screen_on_wakeup_key2

LEMMA StartKeeps ==
  ASSUME Sane(m), Kinds(m) = {}, voltOk \in BOOLEAN, NEW ok, NEW down
  PROVE  LET x == power_event(m, ok) IN
         Whole(IF x.halted = "no" THEN screen_brightness_animation_start(x) ELSE x, down)
<1>1. PICK x : x = power_event(m, ok)
  OBVIOUS
<1>2. Sane(x) /\ Kinds(x) = {}
  BY <1>1, PowerEventDoes
<1>3. PICK y : y = screen_brightness_animation_start(x)
  OBVIOUS
<1>4. /\ Sane(y) /\ Kinds(y) = {"alarm1", "animation"} /\ y.bright = 8 /\ y.blanked = FALSE
  BY <1>2, <1>3, StartDoes
<1>5. Cycle(y) = {"animation", "alarm1"} /\ "power_key" \notin Kinds(y)
  BY <1>4 DEF Cycle, Animations
<1>6. Whole(y, down)
  BY <1>4, <1>5 DEF Whole, Screen, KeyAlarm
<1>7. x.halted # "no" => Whole(x, down)
  BY <1>2 DEF Whole, KeyAlarm
<1> QED
  BY <1>1, <1>3, <1>6, <1>7

-----------------------------------------------------------------------------
(* The events of the power key wait in its queue in the order of the key's *)
(* moves: downs and ups in turn, the last of them its present position.    *)

Moves(q, h) ==
  /\ q \in Seq({"power_down", "power_up"}) /\ h \in BOOLEAN
  /\ \A k \in 1 .. Len(q) : q[k] = "power_down" <=> (h <=> (Len(q) - k) % 2 = 0)
SeenDown(q, h) == h = (Len(q) % 2 = 0)

LEMMA MovesPush ==
  ASSUME NEW q, NEW h, Moves(q, h),
         NEW u, u = IF h THEN "power_up" ELSE "power_down"
  PROVE  Moves(Append(q, u), ~h) /\ (SeenDown(Append(q, u), ~h) <=> SeenDown(q, h))
<1>1. PICK t : t = Append(q, u)
  OBVIOUS
<1>2. /\ t \in Seq({"power_down", "power_up"}) /\ Len(t) = Len(q) + 1 /\ Len(q) \in Nat
      /\ t[Len(t)] = u /\ \A k \in 1 .. Len(q) : t[k] = q[k]
  BY <1>1 DEF Moves
<1>3. \A i \in Nat : (i + 1) % 2 = 0 <=> i % 2 # 0
  OBVIOUS
<1>4. ASSUME NEW k \in 1 .. Len(t)
      PROVE  t[k] = "power_down" <=> (~h <=> (Len(t) - k) % 2 = 0)
  <2>1. CASE k = Len(t)
    BY <1>2, <2>1 DEF Moves
  <2>2. CASE k # Len(t)
    <3>1. k \in 1 .. Len(q) /\ Len(q) - k \in Nat /\ Len(t) - k = (Len(q) - k) + 1
      BY <1>2, <2>2
    <3>2. (Len(t) - k) % 2 = 0 <=> (Len(q) - k) % 2 # 0
      BY <1>3, <3>1
    <3>3. q[k] = "power_down" <=> (h <=> (Len(q) - k) % 2 = 0)
      BY <3>1 DEF Moves
    <3>4. t[k] = q[k]
      BY <1>2, <3>1
    <3> QED
      BY <3>2, <3>3, <3>4
  <2> QED
    BY <2>1, <2>2
<1>5. SeenDown(t, ~h) <=> SeenDown(q, h)
  BY <1>2, <1>3 DEF SeenDown, Moves
<1> QED
  BY <1>1, <1>2, <1>4, <1>5 DEF Moves

LEMMA MovesPop ==
  ASSUME NEW q, NEW h, Moves(q, h), q # <<>>
  PROVE  /\ Moves(Tail(q), h) /\ Head(q) \in {"power_down", "power_up"}
         /\ SeenDown(Tail(q), h) <=> Head(q) = "power_down"
         /\ SeenDown(q, h) <=> Head(q) # "power_down"
<1>1. PICK t : t = Tail(q)
  OBVIOUS
<1>2. /\ t \in Seq({"power_down", "power_up"}) /\ Len(t) = Len(q) - 1 /\ Len(q) \in Nat \ {0}
      /\ \A k \in 1 .. Len(t) : t[k] = q[k + 1]
      /\ Head(q) = q[1] /\ q[1] \in {"power_down", "power_up"}
  BY <1>1 DEF Moves
<1>3. ASSUME NEW k \in 1 .. Len(t)
      PROVE  t[k] = "power_down" <=> (h <=> (Len(t) - k) % 2 = 0)
  <2>1. k + 1 \in 1 .. Len(q) /\ Len(q) - (k + 1) = Len(t) - k
    BY <1>2
  <2>2. q[k + 1] = "power_down" <=> (h <=> (Len(q) - (k + 1)) % 2 = 0)
    BY <2>1 DEF Moves
  <2> QED
    BY <1>2, <2>1, <2>2
<1>4. q[1] = "power_down" <=> (h <=> Len(t) % 2 = 0)
  <2>1. 1 \in 1 .. Len(q) /\ Len(q) - 1 = Len(t)
    BY <1>2
  <2>2. q[1] = "power_down" <=> (h <=> (Len(q) - 1) % 2 = 0)
    BY <2>1 DEF Moves
  <2> QED
    BY <2>1, <2>2
<1>5. Len(q) % 2 = 0 <=> Len(t) % 2 # 0
  <2>1. Len(t) \in Nat /\ Len(q) = Len(t) + 1
    BY <1>2
  <2>2. \A i \in Nat : (i + 1) % 2 = 0 <=> i % 2 # 0
    OBVIOUS
  <2> QED
    BY <2>1, <2>2
<1> QED
  BY <1>1, <1>2, <1>3, <1>4, <1>5 DEF Moves, SeenDown

ChargeInv ==
  /\ pc \in {"sleep", "top", "poll"} /\ online \in BOOLEAN /\ voltOk \in BOOLEAN
  /\ uev \in Seq({"battery", "other"}) /\ presses \in 0 .. MaxKeys
  /\ keys \in [power : Seq({"power_down", "power_up"}), other : Seq({"other_down"})]
  /\ Moves(keys.power, held)
  /\ Sane(m) /\ KeyAlarm(m, KeySeenDown)
  /\ IF pc = "sleep" THEN m.halted = "no" /\ Kinds(m) = {}
     ELSE m.halted = "no" => Screen(m, KeySeenDown)

LEMMA ChargeInvInit == Init => ChargeInv
<1> SUFFICES ASSUME Init PROVE ChargeInv
  OBVIOUS
<1>1. /\ m.alarms = <<>> /\ m.halted = "no" /\ pc = "sleep"
      /\ keys.power = <<>> /\ held = FALSE
  BY DEF Init
<1>2. Sane(m) /\ Kinds(m) = {}
  <2>1. Listed(<<>>) /\ KindsOf(<<>>) = {}
    BY DEF Listed, KindsOf
  <2>2. m \in Flags
    BY DEF Init, Flags
  <2> QED
    BY <1>1, <2>1, <2>2 DEF Sane, Kinds
<1>3. Moves(keys.power, held)
  <2>1. /\ <<>> \in Seq({"power_down", "power_up"}) /\ Len(<<>>) = 0
        /\ \A k \in 1 .. 0 : FALSE
    OBVIOUS
  <2>2. Moves(<<>>, FALSE)
    BY <2>1 DEF Moves
  <2> QED
    BY <1>1, <2>2
<1>4. 0 \in 0 .. MaxKeys
  BY ChargeAssumption
<1> QED
  BY <1>1, <1>2, <1>3, <1>4 DEF Init, ChargeInv, KeyAlarm

(* The invariant of the next state, from what its parts are.               *)
LEMMA ChargeInvNext ==
  ASSUME NEW y, y = m', NEW q, q = keys'.power, NEW h, h = held', NEW d, d = SeenDown(q, h),
         pc' \in {"sleep", "top", "poll"}, online' \in BOOLEAN, voltOk' \in BOOLEAN,
         uev' \in Seq({"battery", "other"}), presses' \in 0 .. MaxKeys,
         keys' \in [power : Seq({"power_down", "power_up"}), other : Seq({"other_down"})],
         Moves(q, h), Sane(y), KeyAlarm(y, d),
         IF pc' = "sleep" THEN y.halted = "no" /\ Kinds(y) = {} ELSE y.halted = "no" => Screen(y, d)
  PROVE  ChargeInv'
<1>1. KeySeenDown' = d
  BY DEF KeySeenDown, SeenDown
<1>2. Moves(keys.power, held)'
  BY DEF Moves
<1>3. Sane(m)'
  BY DEF Sane, Flags, Listed
<1>4. KeyAlarm(m, KeySeenDown)'
  BY <1>1 DEF KeyAlarm, Kinds, KindsOf
<1>5. pc' # "sleep" /\ m'.halted = "no" => Screen(m, KeySeenDown)'
  BY <1>1 DEF Screen, Cycle, Kinds, KindsOf
<1>6. pc' = "sleep" => m'.halted = "no" /\ Kinds(m)' = {}
  BY DEF Kinds, KindsOf
<1> QED
  BY <1>2, <1>3, <1>4, <1>5, <1>6 DEF ChargeInv

(* The steps that leave the keys alone.                                    *)
LEMMA ProgramKeeps ==
  ASSUME ChargeInv, pc' \in {"top", "poll"}, Whole(m', KeySeenDown),
         UNCHANGED <<online, voltOk, keys, held, presses>>,
         uev' \in Seq({"battery", "other"})
  PROVE  ChargeInv'
<1>1. KeySeenDown = SeenDown(keys'.power, held')
  BY DEF KeySeenDown, SeenDown
<1>2. Moves(keys'.power, held')
  BY DEF ChargeInv
<1>3. /\ online' \in BOOLEAN /\ voltOk' \in BOOLEAN /\ presses' \in 0 .. MaxKeys
      /\ keys' \in [power : Seq({"power_down", "power_up"}), other : Seq({"other_down"})]
  BY DEF ChargeInv
<1> QED
  BY <1>1, <1>2, <1>3, ChargeInvNext DEF Whole

LEMMA ChargeInvStep == ChargeInv /\ (Next \/ UNCHANGED vars) => ChargeInv'
<1> SUFFICES ASSUME ChargeInv, Next \/ UNCHANGED vars PROVE ChargeInv'
  OBVIOUS
<1>t. /\ pc \in {"sleep", "top", "poll"} /\ online \in BOOLEAN /\ voltOk \in BOOLEAN
      /\ uev \in Seq({"battery", "other"}) /\ presses \in 0 .. MaxKeys /\ held \in BOOLEAN
      /\ keys \in [power : Seq({"power_down", "power_up"}), other : Seq({"other_down"})]
      /\ MaxKeys \in Nat /\ Sane(m)
  BY ChargeAssumption DEF ChargeInv, Moves
<1>w. pc # "sleep" => Whole(m, KeySeenDown)
  BY DEF ChargeInv, Whole
<1>1. ASSUME NEW ok \in RebootOk, Start(ok) PROVE ChargeInv'
  <2>1. Kinds(m) = {}
    BY <1>1 DEF Start, ChargeInv
  <2>2. Whole(m', KeySeenDown)
    BY <1>1, <1>t, <2>1, StartKeeps DEF Start
  <2> QED
    BY <1>1, <1>t, <2>2, ProgramKeeps DEF Start, world
<1>2. ASSUME NEW ok \in RebootOk, alarm_process(ok) PROVE ChargeInv'
  <2>1. /\ Whole(m, KeySeenDown) /\ m.halted = "no" /\ m.alarms # <<>>
        /\ m' = Run(Head(m.alarms).f, [m EXCEPT !.alarms = Tail(@)], ok)
    BY <1>2, <1>w DEF alarm_process, Due, Up
  <2>2. Whole(m', KeySeenDown)
    <3>1. PICK x, b, f : /\ x = m /\ f = Head(x.alarms).f
                        /\ b = [x EXCEPT !.alarms = Tail(x.alarms)]
      OBVIOUS
    <3>2. m' = Run(f, b, ok)
      BY <2>1, <3>1
    <3>3. Whole(x, KeySeenDown) /\ x.halted = "no" /\ x.alarms # <<>> /\ voltOk \in BOOLEAN
      BY <1>t, <2>1, <3>1
    <3>4. Whole(Run(f, b, ok), KeySeenDown)
      BY <3>1, <3>3, RunKeeps, SMTT(30)
    <3> QED
      BY <3>2, <3>4
  <2> QED
    BY <1>2, <1>t, <2>2, ProgramKeeps DEF alarm_process, world
<1>3. ASSUME Poll \/ PollTimesOut PROVE ChargeInv'
  <2>1. Whole(m', KeySeenDown)
    BY <1>3, <1>w DEF Poll, PollTimesOut
  <2> QED
    BY <1>3, <1>t, <2>1, ProgramKeeps DEF Poll, PollTimesOut, world
<1>4. ASSUME NEW ok \in RebootOk, GetUevents(ok) PROVE ChargeInv'
  <2>1. Whole(m', KeySeenDown)
    BY <1>4, <1>t, <1>w, PowerEventKeeps DEF GetUevents
  <2>2. uev' \in Seq({"battery", "other"})
    BY <1>4 DEF GetUevents
  <2> QED
    BY <1>4, <1>t, <2>1, <2>2, ProgramKeeps DEF GetUevents
<1>5. ASSUME NEW ok \in RebootOk, GetKey(ok) PROVE ChargeInv'
  <2>0. PICK x : x = m /\ Whole(x, KeySeenDown) /\ x.halted = "no"
    BY <1>5, <1>w DEF GetKey, Up
  <2>1. PICK d \in DOMAIN keys : /\ keys[d] # <<>> /\ keys' = [keys EXCEPT ![d] = Tail(@)]
                                 /\ m' = KeyEvent(Head(keys[d]), x, ok)
    BY <1>5, <2>0 DEF GetKey
  <2>2. UNCHANGED <<online, voltOk, uev, held, presses>> /\ pc' = "top"
    BY <1>5 DEF GetKey
  <2>3. Moves(keys.power, held) /\ (KeySeenDown <=> SeenDown(keys.power, held))
    BY <1>t DEF ChargeInv, KeySeenDown, SeenDown
  <2>4. KeySeenDown \in BOOLEAN
    BY DEF KeySeenDown
  <2>5. CASE d = "power"
    <3>1. PICK q, h : q = keys.power /\ h = held
      OBVIOUS
    <3>2. q # <<>> /\ keys' = [keys EXCEPT !.power = Tail(q)] /\ m' = KeyEvent(Head(q), x, ok)
      BY <2>1, <2>5, <3>1
    <3>3. /\ Moves(Tail(q), h) /\ Head(q) \in {"power_down", "power_up"}
          /\ SeenDown(Tail(q), h) <=> Head(q) = "power_down"
          /\ SeenDown(q, h) <=> Head(q) # "power_down"
      BY <2>3, <3>1, <3>2, MovesPop
    <3>4. keys'.power = Tail(q) /\ held' = h
          /\ keys' \in [power : Seq({"power_down", "power_up"}), other : Seq({"other_down"})]
      BY <1>t, <2>2, <3>1, <3>2, <3>3 DEF Moves
    <3>5. Whole(m', SeenDown(Tail(q), h))
      <4>1. CASE Head(q) = "power_down"
        <5>1. KeySeenDown = FALSE /\ SeenDown(Tail(q), h) = TRUE
          BY <2>3, <2>4, <3>1, <3>3, <4>1 DEF SeenDown
        <5> QED
          BY <2>0, <3>2, <4>1, <5>1, PowerDownKeeps
      <4>2. CASE Head(q) = "power_up"
        <5>1. KeySeenDown = TRUE /\ SeenDown(Tail(q), h) = FALSE
          BY <2>3, <2>4, <3>1, <3>3, <4>2 DEF SeenDown
        <5> QED
          BY <2>0, <3>2, <4>2, <5>1, PowerUpKeeps
      <4> QED
        BY <3>3, <4>1, <4>2
    <3> QED
      BY <1>t, <2>2, <3>3, <3>4, <3>5, ChargeInvNext DEF Whole
  <2>6. CASE d # "power"
    <3>1. d = "other"
      BY <1>t, <2>1, <2>6
    <3>2. PICK o : o = keys.other
      OBVIOUS
    <3>3. o \in Seq({"other_down"}) /\ o # <<>> /\ keys' = [keys EXCEPT !.other = Tail(o)]
          /\ m' = KeyEvent(Head(o), x, ok)
      BY <1>t, <2>1, <3>1, <3>2
    <3>4. Head(o) = "other_down" /\ Tail(o) \in Seq({"other_down"})
      BY <3>3
    <3>5. Whole(m', KeySeenDown)
      BY <2>0, <3>3, <3>4, OtherKeyKeeps
    <3>6. keys'.power = keys.power
          /\ keys' \in [power : Seq({"power_down", "power_up"}), other : Seq({"other_down"})]
      BY <1>t, <3>3, <3>4
    <3>7. KeySeenDown = SeenDown(keys'.power, held') /\ Moves(keys'.power, held')
      BY <2>2, <2>3, <3>6 DEF KeySeenDown, SeenDown
    <3> QED
      BY <1>t, <2>2, <3>5, <3>6, <3>7, ChargeInvNext DEF Whole
  <2> QED
    BY <2>5, <2>6
<1>6. CASE Tick
  <2>1. PICK s, a : s = m.alarms
                    /\ a = [i \in DOMAIN s |-> [s[i] EXCEPT !.left = IF @ = 0 THEN 0 ELSE @ - 1]]
    OBVIOUS
  <2>2. Listed(a) /\ KindsOf(a) = KindsOf(s)
    BY <1>t, <2>1, TickListed DEF Sane
  <2>3. m' = [m EXCEPT !.alarms = a]
    BY <1>6, <2>1 DEF Tick
  <2>4. PICK y : y = m' /\ Sane(y) /\ SameFlags(m, y) /\ y.alarms = a
    BY <1>t, <2>2, <2>3, AlarmsOnly
  <2>5. Kinds(y) = Kinds(m)
    BY <2>1, <2>2, <2>4 DEF Kinds
  <2>6. UNCHANGED <<pc, online, voltOk, uev, keys, held, presses>>
    BY <1>6 DEF Tick, world
  <2>7. /\ KeyAlarm(y, KeySeenDown)
        /\ IF pc = "sleep" THEN y.halted = "no" /\ Kinds(y) = {}
           ELSE y.halted = "no" => Screen(y, KeySeenDown)
    BY <2>4, <2>5 DEF ChargeInv, SameFlags, KeyAlarm, Screen, Cycle
  <2>8. KeySeenDown = SeenDown(keys'.power, held') /\ Moves(keys'.power, held')
    BY <2>6 DEF ChargeInv, KeySeenDown, SeenDown
  <2> QED
    BY <1>t, <2>4, <2>6, <2>7, <2>8, ChargeInvNext
<1>s. ASSUME UNCHANGED <<pc, m>>, online' \in BOOLEAN, voltOk' \in BOOLEAN,
             uev' \in Seq({"battery", "other"}), presses' \in 0 .. MaxKeys,
             keys' \in [power : Seq({"power_down", "power_up"}), other : Seq({"other_down"})],
             KeySeenDown = SeenDown(keys'.power, held'), Moves(keys'.power, held')
      PROVE  ChargeInv'
  <2>1. PICK y : y = m' /\ y = m
    BY <1>s
  <2>2. /\ KeyAlarm(y, KeySeenDown)
        /\ IF pc' = "sleep" THEN y.halted = "no" /\ Kinds(y) = {}
           ELSE y.halted = "no" => Screen(y, KeySeenDown)
    BY <1>s, <2>1 DEF ChargeInv
  <2>3. Sane(y) /\ pc' \in {"sleep", "top", "poll"}
    BY <1>s, <1>t, <2>1
  <2> QED
    BY <1>s, <2>1, <2>2, <2>3, ChargeInvNext
<1>7. ASSUME UNCHANGED <<pc, m>>, UNCHANGED keys, UNCHANGED held,
             online' \in BOOLEAN, voltOk' \in BOOLEAN, uev' \in Seq({"battery", "other"}),
             presses' \in 0 .. MaxKeys
      PROVE  ChargeInv'
  <2>1. KeySeenDown = SeenDown(keys'.power, held') /\ Moves(keys'.power, held')
    BY <1>7 DEF ChargeInv, KeySeenDown, SeenDown
  <2> QED
    BY <1>s, <1>t, <1>7, <2>1
<1>8. CASE Charger
  BY <1>7, <1>8, <1>t DEF Charger, Send
<1>9. CASE Battery
  BY <1>7, <1>9, <1>t DEF Battery, Send
<1>10. CASE OtherUevent
  BY <1>7, <1>10, <1>t DEF OtherUevent, Send
<1>11. ASSUME NEW u, PressPower \/ ReleasePower, u = IF held THEN "power_up" ELSE "power_down"
       PROVE  ChargeInv'
  <2>1. /\ held' = ~held /\ keys' = [keys EXCEPT !.power = Append(keys.power, u)]
        /\ presses' \in 0 .. MaxKeys
        /\ UNCHANGED <<pc, m, online, voltOk, uev>>
    <3>1. CASE PressPower
      <4>1. presses' \in 0 .. MaxKeys
        BY <1>t, <3>1 DEF PressPower
      <4>2. u = "power_down" /\ held' = ~held
        BY <1>11, <1>t, <3>1 DEF PressPower
      <4> QED
        BY <3>1, <4>1, <4>2 DEF PressPower, Push
    <3>2. CASE ReleasePower
      BY <1>11, <1>t, <3>2 DEF ReleasePower, Push
    <3> QED
      BY <1>11, <3>1, <3>2
  <2>2. PICK q, h : q = keys.power /\ h = held /\ Moves(q, h)
    BY DEF ChargeInv
  <2>3. Moves(Append(q, u), ~h) /\ (SeenDown(Append(q, u), ~h) <=> SeenDown(q, h))
    BY <1>11, <2>2, MovesPush
  <2>4. keys'.power = Append(q, u) /\ held' = ~h
        /\ keys' \in [power : Seq({"power_down", "power_up"}), other : Seq({"other_down"})]
    BY <1>t, <2>1, <2>2, <2>3 DEF Moves
  <2>5. KeySeenDown = SeenDown(keys'.power, held') /\ Moves(keys'.power, held')
    BY <2>2, <2>3, <2>4 DEF KeySeenDown, SeenDown
  <2> QED
    BY <1>s, <1>t, <2>1, <2>4, <2>5
<1>12. CASE PressOther
  <2>1. /\ keys' = [keys EXCEPT !.other = Append(keys.other, "other_down")]
        /\ presses' \in 0 .. MaxKeys
        /\ UNCHANGED <<pc, m, online, voltOk, uev, held>>
    <3>1. presses' \in 0 .. MaxKeys
      BY <1>12, <1>t DEF PressOther
    <3> QED
      BY <1>12, <3>1 DEF PressOther, Push
  <2>2. PICK o : o = keys.other
    OBVIOUS
  <2>3. Append(o, "other_down") \in Seq({"other_down"})
    BY <1>t, <2>2
  <2>4. keys'.power = keys.power
        /\ keys' \in [power : Seq({"power_down", "power_up"}), other : Seq({"other_down"})]
    BY <1>t, <2>1, <2>2, <2>3
  <2>5. KeySeenDown = SeenDown(keys'.power, held') /\ Moves(keys'.power, held')
    BY <2>1, <2>4 DEF ChargeInv, KeySeenDown, SeenDown
  <2> QED
    BY <1>s, <1>t, <2>1, <2>4, <2>5
<1>13. CASE Down \/ UNCHANGED vars
  BY <1>7, <1>13, <1>t DEF Down, vars, world
<1> QED
  BY <1>1, <1>2, <1>3, <1>4, <1>5, <1>6, <1>8, <1>9, <1>10, <1>11, <1>12, <1>13 DEF Next, Program

LEMMA ChargeInvBelongs == ChargeInv => AlarmsBelong
<1> SUFFICES ASSUME ChargeInv PROVE AlarmsBelong
  OBVIOUS
<1>1. PICK s : s = m.alarms /\ Listed(s) /\ DOMAIN s = 1 .. Len(s) /\ s \in Seq(Alarm)
  BY DEF ChargeInv, Sane, Listed
<1>2. TypeOK
  <2>1. DOMAIN AlarmTimes = Kind
    BY DEF AlarmTimes, Kind
  <2>2. ASSUME NEW i \in DOMAIN s
        PROVE  s[i].f \in DOMAIN AlarmTimes /\ s[i].left \in 0 .. AlarmTimes[s[i].f]
    <3>1. PICK a \in Alarm : a = s[i]
      BY <1>1
    <3>2. a.f \in Kind /\ a.left \in Nat /\ a.left <= AlarmTimes[a.f] /\ AlarmTimes[a.f] \in Nat
      BY Times DEF Alarm, Kind
    <3> QED
      BY <2>1, <3>1, <3>2
  <2> QED
    BY <1>1, <2>2 DEF TypeOK, ChargeInv, Sane, Flags, Moves
<1>3. AlarmsInOrder
  BY <1>1 DEF AlarmsInOrder, Listed
<1>4. \A f : Pending(m, f) = IF f \in Kinds(m) THEN 1 ELSE 0
  BY PendingOnce DEF ChargeInv, Sane, Kinds
<1>5. ScreenFollowsAlarms
  <2> SUFFICES ASSUME Up, pc # "sleep" PROVE ScreenFollowsAlarms
    BY DEF ScreenFollowsAlarms
  <2>1. Screen(m, KeySeenDown)
    BY DEF ChargeInv, Up
  <2>2. \A f \in Animations : Pending(m, f) = IF f \in Cycle(m) THEN 1 ELSE 0
    BY <1>4 DEF Cycle
  <2>3. /\ Pending(m, "animation") = IF "animation" \in Cycle(m) THEN 1 ELSE 0
        /\ Pending(m, "alarm1") = IF "alarm1" \in Cycle(m) THEN 1 ELSE 0
        /\ Pending(m, "alarm2") = IF "alarm2" \in Cycle(m) THEN 1 ELSE 0
    BY <2>2 DEF Animations
  <2> QED
    BY <2>1, <2>3 DEF Screen, ScreenFollowsAlarms
<1>6. PowerKeyAlarmIsHeld
  BY <1>4 DEF ChargeInv, KeyAlarm, PowerKeyAlarmIsHeld
<1> QED
  BY <1>2, <1>3, <1>5, <1>6 DEF AlarmsBelong

(* The alarms that are pending are those the screen and the power key call *)
(* for, in the order they are due: no handler, whatever its order with the *)
(* keys, the charger and failed reboots, leaves an alarm of an earlier     *)
(* cycle behind.                                                           *)
THEOREM AlarmsCorrect == DeviceSpec => []AlarmsBelong
<1>1. DeviceInit => ChargeInv
  BY ChargeInvInit DEF DeviceInit
<1>2. ChargeInv /\ [DeviceNext]_<<vars, leds, governor, log, sockets, turn>> => ChargeInv'
  BY ChargeInvStep DEF DeviceNext
<1> QED
  BY <1>1, <1>2, ChargeInvBelongs, PTL DEF DeviceSpec
=============================================================================
