------------------------------- MODULE Lights -------------------------------
(***************************************************************************)
(* src/liblights/lights.c: the lights of the phone.  Two clients, battery  *)
(* and notification, share one three-coloured LED; the charge LED beside   *)
(* it belongs to the battery.  The buttons' light keeps in                 *)
(* g_last_button_brightness what it believes the files to hold.            *)
(*                                                                         *)
(* g_lock makes each call one step.  Any write to a file may fail; a       *)
(* failed one leaves the file as it was, and the caller gets no second     *)
(* chance: handle_light_locked looks at no error at all.                   *)
(***************************************************************************)
EXTENDS Integers

CONSTANTS Levels    \* brightness of the buttons after scaling; 0 is off

LightsAssumption == Levels \subseteq Nat

VARIABLES
  last,      \* g_last_button_brightness
  button,    \* BUTTON_FILE
  bright,    \* BUTTON_BRIGHT_FILE
  stale,     \* history: the button files whose last write failed or was skipped
  battery, notification, \* g_battery, g_notification: colours
  charge,    \* g_charge_led_active
  rgb, blink, led, \* the files of the LED: its colour, RED_BLINK_FILE, CHARGE_LED_FILE
  missed     \* history: a file of the LEDs has missed its last write

vars == <<last, button, bright, stale, battery, notification, charge, rgb, blink, led, missed>>

OFF == "off"
Battery      == {OFF, "red", "red flash", "yellow", "green"} \* yellow: charging; green: charged
Notification == {OFF, "blue", "blue flash"}
Flashes      == {"red flash", "blue flash"}     \* flashMode is not LIGHT_FLASH_NONE
Colour(c)    == CASE c = "red flash" -> "red" [] c = "blue flash" -> "blue" [] OTHER -> c
Prop         == {"rgb", "white", "off"}         \* persist.sys.charge_led

-----------------------------------------------------------------------------
(* set_light_buttons: BUTTON_FILE is written when the light goes on or off *)
(* or nothing is known, BUTTON_BRIGHT_FILE only after that succeeded.      *)
Crosses(b) == last < 0 \/ (last = 0 /\ b > 0) \/ (last > 0 /\ b = 0)

(* Seeded fault: the brightness is written only when the light goes on.    *)
Changes_on(b) == b > 0 /\ last <= 0
Changes(b) == b > 0 /\ b # last

set_light_buttons(b, ok1, ok2) ==
  LET first  == Crosses(b) => ok1
      second == Changes(b) /\ first
  IN /\ button' = IF Crosses(b) /\ ok1 THEN (IF b > 0 THEN 1 ELSE 0) ELSE button
     /\ bright' = IF second /\ ok2 THEN b ELSE bright
     /\ stale'  = {f \in {"button", "bright"} :
                     CASE f = "button" /\ Crosses(b) -> ~ok1
                       [] f = "bright" /\ Changes(b) -> ~first \/ ~ok2
                       [] OTHER -> f \in stale}
     /\ last' = b
     /\ UNCHANGED <<battery, notification, charge, rgb, blink, led, missed>>

-----------------------------------------------------------------------------
(* handle_light_locked with what the two clients now want; fails is the    *)
(* set of files whose write fails.  Blinking is first switched off; the    *)
(* colour is three files, of which some may take the new value.            *)
Lit(c) == c # OFF
Write(shown, on, fails) ==
  /\ rgb'   \in IF "rgb" \in fails THEN {rgb, "mixed"} ELSE {Colour(shown)}
  /\ blink' \in IF "blink" \in fails THEN {blink, FALSE} ELSE {shown \in Flashes}
  /\ led'   = IF "led" \in fails THEN led ELSE on
  /\ missed' = (fails # {})

(* Seeded fault: the charge LED stays on beside a notification.            *)
Show_both(bat, note, chg, fails) == Write(IF Lit(note) THEN note ELSE bat, chg, fails)
Show(bat, note, chg, fails) ==
  Write(IF Lit(note) THEN note ELSE bat, chg /\ ~Lit(note), fails)

(* The battery's colour with green in it means charging or charged.        *)
set_light_battery(c, prop, fails) ==
  LET white == c = "yellow" /\ prop = "white"
      seen  == IF c \in {"yellow", "green"} /\ (white \/ prop = "off") THEN OFF ELSE c
  IN /\ battery' = seen /\ charge' = white
     /\ Show(seen, notification, white, fails)
     /\ UNCHANGED <<last, button, bright, stale, notification>>

set_light_notification(c, fails) ==
  /\ notification' = c
  /\ Show(battery, c, charge, fails)
  /\ UNCHANGED <<last, button, bright, stale, battery, charge>>

-----------------------------------------------------------------------------
Init ==     \* init_globals; the files hold what the kernel left there
  /\ last = -1 /\ button \in {0, 1} /\ bright \in Levels /\ stale = {}
  /\ battery = OFF /\ notification = OFF /\ charge = FALSE
  /\ rgb = OFF /\ blink = FALSE /\ led = FALSE /\ missed = FALSE

Files == SUBSET {"rgb", "blink", "led"}
Next ==
  \/ \E b \in Levels, ok1, ok2 \in BOOLEAN : set_light_buttons(b, ok1, ok2)
  \/ \E c \in Battery, p \in Prop, fails \in Files : set_light_battery(c, p, fails)
  \/ \E c \in Notification, fails \in Files : set_light_notification(c, fails)
Spec == Init /\ [][Next]_vars

-----------------------------------------------------------------------------
(* Properties *)

(* A button file whose last due write did not fail holds what the cache    *)
(* says: the calls that write nothing are those that need write nothing,   *)
(* also after a failure that a later call made up for.                     *)
ButtonsAsBelieved ==
  last >= 0 => /\ "button" \notin stale => button = (IF last > 0 THEN 1 ELSE 0)
               /\ last > 0 /\ "bright" \notin stale => bright = last

(* At most one of the two LEDs is lit, whatever battery, charger, user     *)
(* setting and notifications did, unless a write was missed; and it blinks *)
(* if and only if the light it shows asks for it.                          *)
OneLed == ~missed => /\ ~(led /\ Lit(rgb))
                     /\ blink <=> (IF Lit(notification) THEN notification ELSE battery) \in Flashes
=============================================================================
