------------------------------ MODULE Debounce ------------------------------
(***************************************************************************)
(* src/modules/debounce/debounce.c: sysfs files that change the running    *)
(* keypad driver: its flags, with the pads and interrupt types that go     *)
(* with them, and the debouncing of the gpios by hardware.                 *)
(*                                                                         *)
(* Every store is a process that may lose the processor between reading    *)
(* and writing what it shares with the others, for nothing locks it.  The  *)
(* files exist before the old values are saved and until after they are    *)
(* restored; removing a file waits for the stores that are in it.          *)
(***************************************************************************)
EXTENDS Integers

CONSTANTS Writers, Times, MaxStores   \* who writes to the files; values of hw_debounce_time; how often they write

DebounceAssumption == Times \subseteq Nat

VARIABLES
  phase,            \* of the module: gone, made, saved, restored
  flags, pads, irq, \* gpio_evmi->flags; flags as the pads and the interrupts know them
  old_flags,
  hw, hwtime,       \* hw_debounce, hw_debounce_time
  chipOn, chipTime, \* the gpios' registers
  pc,               \* where each writer is
  boot,             \* history: the flags before the module
  crossed,          \* history: two stores were in the flags at once
  hwcrossed,        \* history: the same for hw_debounce and hw_debounce_time
  stores,           \* how many stores began
  outside           \* history: a store wrote before the saving or after the restoring

vars == <<phase, flags, pads, irq, old_flags, hw, hwtime, chipOn, chipTime, pc, boot, crossed, hwcrossed, stores, outside>>

Flags == {"debounce", "active_high", "level"}
Idle  == [at |-> "idle"]
set_irq_types == irq' = flags \cap {"active_high", "level"}
Hw    == {"on", "off", "time"}
InFlags(w) == pc[w].at \in {"write", "pads", "irq"}
InHw(w)    == pc[w].at \in Hw \cup {"var"}

-----------------------------------------------------------------------------
(* A store of one flag reads the flags, writes them, then for active_high  *)
(* the pads, then for that and level_triggered_irq the interrupt types.    *)
Files == phase # "gone"
Begin(w, step) ==
  /\ Files /\ pc[w] = Idle /\ stores < MaxStores /\ stores' = stores + 1
  /\ pc' = [pc EXCEPT ![w] = step]
StoreReads(w, f, on) ==
  /\ Begin(w, [at |-> "write", flag |-> f, on |-> on, read |-> flags])
  /\ crossed' = (crossed \/ \E v \in Writers : InFlags(v))
  /\ UNCHANGED <<phase, flags, pads, irq, old_flags, hw, hwtime, chipOn, chipTime, boot, hwcrossed, outside>>

AfterFlags(f) == IF f = "active_high" THEN "pads" ELSE IF f = "level" THEN "irq" ELSE "idle"
Outside == outside' = (outside \/ phase # "saved")
StoreWrites(w) ==
  /\ pc[w].at = "write"
  /\ flags' = IF pc[w].on THEN pc[w].read \cup {pc[w].flag} ELSE pc[w].read \ {pc[w].flag}
  /\ pc' = [pc EXCEPT ![w] = IF AfterFlags(@.flag) = "idle" THEN Idle
                             ELSE [at |-> AfterFlags(pc[w].flag), on |-> pc[w].on]]
  /\ Outside
  /\ UNCHANGED <<phase, pads, irq, old_flags, hw, hwtime, chipOn, chipTime, boot, crossed, hwcrossed, stores>>

(* Seeded fault: only the level flag's store sets the interrupt types.     *)
StorePads_only(w) ==
  /\ pc[w].at = "pads" /\ pads' = pc[w].on /\ pc' = [pc EXCEPT ![w] = Idle] /\ Outside
  /\ UNCHANGED <<phase, flags, irq, old_flags, hw, hwtime, chipOn, chipTime, boot, crossed, hwcrossed, stores>>

StorePads(w) ==
  /\ pc[w].at = "pads" /\ pads' = pc[w].on /\ pc' = [pc EXCEPT ![w] = [at |-> "irq"]] /\ Outside
  /\ UNCHANGED <<phase, flags, irq, old_flags, hw, hwtime, chipOn, chipTime, boot, crossed, hwcrossed, stores>>

StoreIrq(w) ==
  /\ pc[w].at = "irq" /\ set_irq_types /\ pc' = [pc EXCEPT ![w] = Idle] /\ Outside
  /\ UNCHANGED <<phase, flags, pads, old_flags, hw, hwtime, chipOn, chipTime, boot, crossed, hwcrossed, stores>>

-----------------------------------------------------------------------------
(* hw_debounce_set(enable, time), -1 for what stays: the time only while   *)
(* it is on, each only if it differs from what the variables say.          *)
hw_debounce_set(enable, time) ==
  /\ chipTime' = IF time # -1 /\ time # hwtime /\ hw = 1 THEN time ELSE chipTime
  /\ chipOn'   = IF enable # -1 /\ enable # hw THEN enable ELSE chipOn

(* The store asks for what it shall do and then notes it in the variables. *)
HwBegins(w, what, t) ==
  /\ Begin(w, [at |-> what, time |-> t])
  /\ what = "time" => hw = 1
  /\ hwcrossed' = (hwcrossed \/ \E v \in Writers : InHw(v))
  /\ UNCHANGED <<phase, flags, pads, irq, old_flags, hw, hwtime, chipOn, chipTime, boot, crossed, outside>>

HwSets(w) ==
  /\ pc[w].at \in Hw
  /\ CASE pc[w].at = "on"   -> hw_debounce_set(1, -1)
       [] pc[w].at = "off"  -> hw_debounce_set(0, 0)
       [] pc[w].at = "time" -> hw_debounce_set(-1, pc[w].time)
  /\ pc' = [pc EXCEPT ![w] = [at |-> "var", what |-> pc[w].at, time |-> pc[w].time]] /\ Outside
  /\ UNCHANGED <<phase, flags, pads, irq, old_flags, hw, hwtime, boot, crossed, hwcrossed, stores>>

HwNotes(w) ==
  /\ pc[w].at = "var"
  /\ hw' = CASE pc[w].what = "on" -> 1 [] pc[w].what = "off" -> 0 [] OTHER -> hw
  /\ hwtime' = CASE pc[w].what = "time" -> pc[w].time [] pc[w].what = "off" -> 0 [] OTHER -> hwtime
  /\ pc' = [pc EXCEPT ![w] = Idle] /\ Outside
  /\ UNCHANGED <<phase, flags, pads, irq, old_flags, chipOn, chipTime, boot, crossed, hwcrossed, stores>>

-----------------------------------------------------------------------------
(* debounce_init: the files, then the saving.  A loaded module is new: its *)
(* variables say off.                                                      *)
MakesFiles ==
  /\ phase = "gone" /\ phase' = "made" /\ hw' = 0 /\ hwtime' = 0 /\ old_flags' = {}
  /\ UNCHANGED <<flags, pads, irq, chipOn, chipTime, pc, boot, crossed, hwcrossed, outside, stores>>

Saves ==
  /\ phase = "made" /\ phase' = "saved" /\ old_flags' = flags
  /\ UNCHANGED <<flags, pads, irq, hw, hwtime, chipOn, chipTime, pc, boot, crossed, hwcrossed, outside, stores>>

(* debounce_exit.  The pads and interrupts are set only if the flags were  *)
(* not already the old ones.                                               *)
RestoresFlags ==
  /\ phase = "saved" /\ phase' = "restoring" /\ flags' = old_flags
  /\ IF flags # old_flags
     THEN pads' = ("active_high" \in old_flags) /\ irq' = old_flags \cap {"active_high", "level"}
     ELSE UNCHANGED <<pads, irq>>
  /\ UNCHANGED <<old_flags, hw, hwtime, chipOn, chipTime, pc, boot, crossed, hwcrossed, outside, stores>>

RestoresHw ==
  /\ phase = "restoring" /\ phase' = "restored" /\ hw_debounce_set(0, 0)
  /\ UNCHANGED <<flags, pads, irq, old_flags, hw, hwtime, pc, boot, crossed, hwcrossed, outside, stores>>

RemovesFiles ==
  /\ phase = "restored" /\ phase' = "gone" /\ \A w \in Writers : pc[w] = Idle
  /\ UNCHANGED <<flags, pads, irq, old_flags, hw, hwtime, chipOn, chipTime, pc, boot, crossed, hwcrossed, outside, stores>>

-----------------------------------------------------------------------------
Init ==
  /\ phase = "gone" /\ boot \in SUBSET Flags /\ flags = boot /\ old_flags = {}
  /\ pads = ("active_high" \in boot) /\ irq = boot \cap {"active_high", "level"}
  /\ hw = 0 /\ hwtime = 0 /\ chipOn = 0 /\ chipTime = 0 /\ pc = [w \in Writers |-> Idle]
  /\ crossed = FALSE /\ hwcrossed = FALSE /\ stores = 0 /\ outside = FALSE

Next ==
  \/ MakesFiles \/ Saves \/ RestoresFlags \/ RestoresHw \/ RemovesFiles
  \/ \E w \in Writers :
       \/ \E f \in Flags, on \in BOOLEAN : StoreReads(w, f, on)
       \/ StoreWrites(w) \/ StorePads(w) \/ StoreIrq(w)
       \/ HwBegins(w, "on", 0) \/ HwBegins(w, "off", 0)
       \/ \E t \in Times : HwBegins(w, "time", t)
       \/ HwSets(w) \/ HwNotes(w)
Spec == Init /\ [][Next]_vars

-----------------------------------------------------------------------------
(* Properties *)

(* Unless two stores were in the flags at once, or one wrote outside the   *)
(* saved time: pads and interrupts follow the flags whenever no store is   *)
(* at work on them, and the module leaves the keypad as it found it.       *)
FlagsFollow ==
  ~crossed /\ ~outside /\ (\A w \in Writers : ~InFlags(w)) =>
    /\ pads = ("active_high" \in flags) /\ irq = flags \cap {"active_high", "level"}
    /\ phase \in {"gone", "restored"} => flags = boot

(* The variables say what the gpios do, and the module leaves debouncing   *)
(* off, under the same provisos.                                           *)
HwFollows ==
  ~hwcrossed /\ ~outside /\ (\A w \in Writers : ~InHw(w)) =>
    /\ phase = "saved" => chipOn = hw /\ chipTime = hwtime
    /\ phase = "gone" => chipOn = 0 /\ chipTime = 0

(* The keypad does what its driver's flags and the module's variables say. *)
KeypadFollows == FlagsFollow /\ HwFollows
=============================================================================
