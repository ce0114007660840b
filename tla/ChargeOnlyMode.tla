--------------------------- MODULE ChargeOnlyMode ---------------------------
(***************************************************************************)
(* charge_only_mode: the program that runs while the phone charges in the  *)
(* off state (main.c), with its alarm list (alarm.c) and its event source  *)
(* (events.c).  One thread runs alarms and events in turn; the world       *)
(* around it plugs and unplugs the charger, presses keys, sends uevents,   *)
(* and lets time pass, between any two of its steps.                       *)
(*                                                                         *)
(* Time is counted in ticks of 500 ms; an alarm holds the ticks it has     *)
(* left, 0 when it is due.                                                 *)
(***************************************************************************)
EXTENDS Integers, FiniteSets, Sequences, SequencesExt

CONSTANTS
  ANIMATION, HOLD, BRIGHT, DIM,  \* the times of the four alarms, in ticks
  RebootOk,     \* what a reboot may do: TRUE if the system goes down
  MaxUevents,   \* bound: uevents that wait in the socket
  MaxKeys       \* bound: keys pressed in a behaviour

ASSUME ChargeAssumption ==
  /\ {ANIMATION, HOLD, BRIGHT, DIM} \subseteq Nat \ {0}
  /\ RebootOk \subseteq BOOLEAN
  /\ MaxUevents \in Nat \ {0} /\ MaxKeys \in Nat

VARIABLES
  pc,       \* "sleep": not started; "top", "poll": in the main loop
  m,        \* the program: its alarms, its flags and what it has set the screen to
  online,   \* a charger is plugged in
  voltOk,   \* voltage_now is at least POWERUP_VOLTAGE
  uev,      \* the uevents that wait in the socket
  keys,     \* for the power key's and for the other keys' device, the events that wait in it
  held,     \* the power key is down
  presses   \* keys pressed so far

world == <<online, voltOk, uev, keys, held, presses>>
vars  == <<pc, m, world>>

Animations == {"animation", "alarm1", "alarm2"}

-----------------------------------------------------------------------------
(* alarm.c.  The list is sorted by time, equal times in order of setting.  *)

Pending(x, f) == Cardinality({i \in DOMAIN x.alarms : x.alarms[i].f = f})

alarm_set_relative(x, f, ticks) ==
  LET later == {i \in DOMAIN x.alarms : x.alarms[i].left > ticks} IN
  [x EXCEPT !.alarms = InsertAt(@, IF later = {} THEN Len(@) + 1 ELSE Min(later),
                                [f |-> f, left |-> ticks])]

(* Those that are not of F, in their order.                                *)
Without(s, F) ==
  LET kept   == {i \in DOMAIN s : s[i].f \notin F}
      nth(k) == CHOOSE i \in kept : Cardinality({j \in kept : j <= i}) = k
  IN  [k \in 1 .. Cardinality(kept) |-> s[nth(k)]]
alarm_cancel(x, F) == [x EXCEPT !.alarms = Without(@, F)]

Due(x) == x.alarms # <<>> /\ Head(x.alarms).left = 0

-----------------------------------------------------------------------------
(* main.c.  The handlers, from a state of the program to the next one; ok  *)
(* is whether a reboot they ask for takes the system down.                 *)

screen_brightness_animation_alarm2(x, ok) ==
  LET dark == [alarm_cancel(x, {"animation"}) EXCEPT !.bright = 0] IN
  IF x.shutdown /\ ok THEN [dark EXCEPT !.halted = "off"] ELSE [dark EXCEPT !.blanked = TRUE]

screen_brightness_animation_alarm1(x) ==
  alarm_set_relative([x EXCEPT !.bright = 4], "alarm2", DIM)

(* Seeded fault: nothing ends the bright part of the cycle.                *)
screen_brightness_animation_start_endless(x) ==
  alarm_set_relative([x EXCEPT !.blanked = FALSE, !.bright = 8], "animation", ANIMATION)

screen_brightness_animation_start(x) ==
  LET lit == [x EXCEPT !.blanked = FALSE, !.bright = 8] IN
  alarm_set_relative(alarm_set_relative(lit, "alarm1", BRIGHT), "animation", ANIMATION)

power_key_alarm(x, ok) ==
  LET quiet == alarm_cancel(x, Animations) IN
  IF ok THEN [quiet EXCEPT !.halted = "outofcharge"] ELSE quiet

power_event(x, ok) ==
  LET seen == [x EXCEPT !.powerup = @ \/ voltOk] IN
  IF ~seen.shutdown /\ ~online
  THEN screen_brightness_animation_alarm2(
         alarm_cancel([seen EXCEPT !.shutdown = TRUE], {"alarm1", "alarm2"}), ok)
  ELSE seen

animation_alarm(x, ok) == power_event(alarm_set_relative(x, "animation", ANIMATION), ok)

(* Seeded fault: the alarms of the cycle under way are not cancelled.      *)
update_screen_on_wakeup_key_again(x, ok) ==
  IF Pending(x, "alarm1") > 0
  THEN screen_brightness_animation_alarm2(alarm_cancel(x, {"alarm1"}), ok)
  ELSE screen_brightness_animation_start(x)

update_screen_on_wakeup_key(x, ok) ==
  LET quiet == alarm_cancel(x, {"alarm2", "animation"}) IN
  IF Pending(quiet, "alarm1") > 0
  THEN screen_brightness_animation_alarm2(alarm_cancel(quiet, {"alarm1"}), ok)
  ELSE screen_brightness_animation_start(quiet)

update_screen_on_wakeup_key2(x) == screen_brightness_animation_start(alarm_cancel(x, Animations))

Run(f, x, ok) ==
  CASE f = "animation" -> animation_alarm(x, ok)
    [] f = "alarm1"    -> screen_brightness_animation_alarm1(x)
    [] f = "alarm2"    -> screen_brightness_animation_alarm2(x, ok)
    [] f = "power_key" -> power_key_alarm(x, ok)

KeyEvent(k, x, ok) ==
  CASE k = "power_down" -> IF x.powerup THEN alarm_set_relative(x, "power_key", HOLD) ELSE x
    [] k = "power_up"   -> update_screen_on_wakeup_key(alarm_cancel(x, {"power_key"}), ok)
    [] k = "other_down" -> update_screen_on_wakeup_key2(x)

-----------------------------------------------------------------------------
(* The main loop.  A key is read one event at a time, from any device that *)
(* has one; the uevents are drained, and only the last one is looked at.   *)

Up == m.halted = "no"
NoKeys == \A d \in DOMAIN keys : keys[d] = <<>>

Start(ok) ==
  LET x == power_event(m, ok) IN
  /\ Up /\ pc = "sleep" /\ pc' = "top"
  /\ m' = IF x.halted = "no" THEN screen_brightness_animation_start(x) ELSE x
  /\ UNCHANGED world

alarm_process(ok) ==
  /\ Up /\ pc = "top" /\ Due(m)
  /\ m' = Run(Head(m.alarms).f, [m EXCEPT !.alarms = Tail(@)], ok)
  /\ UNCHANGED pc /\ UNCHANGED world

Poll ==
  /\ Up /\ pc = "top" /\ ~Due(m) /\ pc' = "poll"
  /\ UNCHANGED m /\ UNCHANGED world

PollTimesOut ==
  /\ Up /\ pc = "poll" /\ Due(m) /\ NoKeys /\ uev = <<>> /\ pc' = "top"
  /\ UNCHANGED m /\ UNCHANGED world

GetKey(ok) ==
  /\ Up /\ pc = "poll" /\ pc' = "top"
  /\ \E d \in DOMAIN keys :
       /\ keys[d] # <<>> /\ keys' = [keys EXCEPT ![d] = Tail(@)]
       /\ m' = KeyEvent(Head(keys[d]), m, ok)
  /\ UNCHANGED <<online, voltOk, uev, held, presses>>

GetUevents(ok) ==
  /\ Up /\ pc = "poll" /\ NoKeys /\ uev # <<>> /\ pc' = "top"
  /\ m' = IF Last(uev) = "battery" THEN power_event(m, ok) ELSE m
  /\ uev' = <<>>
  /\ UNCHANGED <<online, voltOk, keys, held, presses>>

Program ==
  \/ Poll \/ PollTimesOut
  \/ \E ok \in RebootOk : Start(ok) \/ alarm_process(ok) \/ GetKey(ok) \/ GetUevents(ok)

-----------------------------------------------------------------------------
(* The world                                                               *)

Send(u) == Len(uev) < MaxUevents /\ uev' = Append(uev, u)
Push(d, k) == keys' = [keys EXCEPT ![d] = Append(@, k)]

Tick ==
  /\ Up /\ m' = [m EXCEPT !.alarms = [i \in DOMAIN m.alarms |->
                   [m.alarms[i] EXCEPT !.left = IF @ = 0 THEN 0 ELSE @ - 1]]]
  /\ UNCHANGED pc /\ UNCHANGED world

Charger ==
  /\ Up /\ online' = ~online /\ Send("battery")
  /\ UNCHANGED <<pc, m, voltOk, keys, held, presses>>

Battery ==
  /\ Up /\ voltOk' = ~voltOk /\ Send("battery")
  /\ UNCHANGED <<pc, m, online, keys, held, presses>>

OtherUevent ==
  /\ Up /\ Send("other")
  /\ UNCHANGED <<pc, m, online, voltOk, keys, held, presses>>

PressPower ==
  /\ Up /\ ~held /\ presses < MaxKeys
  /\ held' = TRUE /\ presses' = presses + 1 /\ Push("power", "power_down")
  /\ UNCHANGED <<pc, m, online, voltOk, uev>>

ReleasePower ==
  /\ Up /\ held /\ held' = FALSE /\ Push("power", "power_up")
  /\ UNCHANGED <<pc, m, online, voltOk, uev, presses>>

PressOther ==
  /\ Up /\ presses < MaxKeys
  /\ presses' = presses + 1 /\ Push("other", "other_down")
  /\ UNCHANGED <<pc, m, online, voltOk, uev, held>>

Down == ~Up /\ UNCHANGED vars

Init ==
  /\ pc = "sleep" /\ online \in BOOLEAN /\ voltOk \in BOOLEAN
  /\ m = [alarms |-> <<>>, bright |-> 0, blanked |-> FALSE, powerup |-> FALSE,
          shutdown |-> FALSE, halted |-> "no"]
  /\ uev = <<>> /\ keys = [power |-> <<>>, other |-> <<>>] /\ held = FALSE /\ presses = 0

Next ==
  \/ Program \/ Tick \/ Charger \/ Battery \/ OtherUevent
  \/ PressPower \/ ReleasePower \/ PressOther \/ Down

Spec == Init /\ [][Next]_vars

(* The program runs on, time passes, and nobody holds a key for ever.      *)
FairSpec == Spec /\ WF_vars(Program) /\ WF_vars(Tick) /\ WF_vars(ReleasePower)

-----------------------------------------------------------------------------
(* Properties *)

AlarmTimes == [animation |-> ANIMATION, alarm1 |-> BRIGHT, alarm2 |-> DIM, power_key |-> HOLD]

(* Every variable has its type, no alarm is later than it was set for.     *)
TypeOK ==
  /\ pc \in {"sleep", "top", "poll"} /\ online \in BOOLEAN /\ voltOk \in BOOLEAN
  /\ \A i \in DOMAIN m.alarms : /\ m.alarms[i].f \in DOMAIN AlarmTimes
                               /\ m.alarms[i].left \in 0 .. AlarmTimes[m.alarms[i].f]
  /\ m.bright \in {0, 4, 8} /\ m.blanked \in BOOLEAN /\ m.powerup \in BOOLEAN
  /\ m.shutdown \in BOOLEAN /\ m.halted \in {"no", "off", "outofcharge"}
  /\ uev \in Seq({"battery", "other"})
  /\ keys \in [power : Seq({"power_down", "power_up"}), other : Seq({"other_down"})]
  /\ held \in BOOLEAN /\ presses \in 0 .. MaxKeys

(* alarm_process stops at the first alarm that is not due, so none may     *)
(* stand behind a later one.                                               *)
AlarmsInOrder == \A i, j \in DOMAIN m.alarms : i < j => m.alarms[i].left <= m.alarms[j].left

KeySeenDown == held = (Len(keys.power) % 2 = 0)    \* the power key, as the program read it last

(* The screen and the alarms of its cycle belong together: bright, one     *)
(* alarm1 and one animation; dim, one alarm2 and one animation; dark, none *)
(* of them and blanked.  Only a reboot that failed leaves the screen lit   *)
(* without them, until the power key is let go.                            *)
ScreenFollowsAlarms ==
  Up /\ pc # "sleep" =>
    LET counts == <<Pending(m, "animation"), Pending(m, "alarm1"), Pending(m, "alarm2")>> IN
      \/ m.bright = 8 /\ ~m.blanked /\ counts = <<1, 1, 0>>
      \/ m.bright = 4 /\ ~m.blanked /\ counts = <<1, 0, 1>>
      \/ m.bright = 0 /\ m.blanked /\ counts = <<0, 0, 0>>
      \/ m.bright # 0 /\ ~m.blanked /\ counts = <<0, 0, 0>> /\ KeySeenDown

(* "Long press Power key will reboot the device": its alarm is set at most *)
(* once, while the power key is down, and only after the battery was seen  *)
(* to have the voltage to start with.                                      *)
PowerKeyAlarmIsHeld ==
  Pending(m, "power_key") <= IF KeySeenDown /\ m.powerup THEN 1 ELSE 0

(* The alarms that are set are those the screen and the power key call for, *)
(* in the order they are due.                                              *)
AlarmsBelong == TypeOK /\ AlarmsInOrder /\ ScreenFollowsAlarms /\ PowerKeyAlarmIsHeld

(* The display cycle comes to its end: a lit screen goes dark.             *)
LitGoesDark == (m.bright # 0) ~> (m.bright = 0 \/ ~Up)

(* "When the charger is unplugged the device shall shutdown at once": it   *)
(* does ask for the power off, unless the charger comes back.              *)
UnplugShutsDown == (~online /\ pc # "sleep") ~> (online \/ m.shutdown \/ ~Up)
=============================================================================
