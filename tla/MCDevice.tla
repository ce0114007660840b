------------------------------ MODULE MCDevice ------------------------------
(***************************************************************************)
(* For TLC: charge_only_mode, the LEDs, the interactive governor, waiting  *)
(* readers of a log, and one process with tagged sockets.  They share no   *)
(* state, so one of them moves in each behaviour (turn) and the others     *)
(* rest: the states are the sum of theirs, not the product.                *)
(***************************************************************************)
EXTENDS ChargeOnlyMode, TLC

CONSTANTS Levels, MIN, MID, MAX,            \* of the LEDs and the governor
          N, r1, r2, MaxWrites,             \* of the log
          p1, u1, s1, z, wifi, NONE            \* of the sockets

VARIABLES
  last, button, bright, stalebut, battery, notification, charge, rgb, blink, led, missed,
  count, wanted, hook, stopping, busy, asleep, timer, slept, aged, target, mask, queued, work,
  cur, armedonce, lost,
  buf, w_off, off, readers, mutex, lines, wpc, todo, skipped, ftodo, rpc, armed, signal, n, got,
  damaged, lastread,
  stag, link, refs, num, utd, active, npqd, pqd, fds, fref, op, sk, tg, reg, tofree, relfree,
  stale, dangling, leaked, oops, excuse,
  turn

L == INSTANCE Lights WITH stale <- stalebut
G == INSTANCE CpufreqInteractive WITH armed <- armedonce
Readers == {r1, r2}
K == INSTANCE KLogger WITH
       HDR <- 2, PREFIX <- 1, MaxPayload <- 9, Counts <- {2}, Junk <- {2},
       HEAD <- "HEAD", FLUSHER <- "FLUSHER", NONE <- "NONE", pc <- rpc, last <- lastread
Q == INSTANCE Qtaguid WITH
       Procs <- {p1}, Uids <- {u1}, Uid <- p1 :> u1, Priv <- {}, ATags <- {z, wifi}, ZERO <- z,
       Socks <- {s1}, MaxTags <- 1

ASSUME MCDeviceAssumption == L!LightsAssumption

leds     == <<last, button, bright, stalebut, battery, notification, charge, rgb, blink, led, missed>>
governor == <<count, wanted, hook, stopping, busy, asleep, timer, slept, aged, target, mask,
              queued, work, cur, armedonce, lost>>
log      == <<buf, w_off, off, readers, mutex, lines, wpc, todo, skipped, ftodo, rpc, armed, signal,
              n, got, damaged, lastread>>
sockets  == <<stag, link, refs, num, utd, active, npqd, pqd, fds, fref, op, sk, tg, reg, tofree,
              relfree, stale, dangling, leaked, oops, excuse>>

DeviceInit ==
  /\ Init /\ L!Init /\ G!Init /\ K!Init /\ Q!Init
  /\ turn \in {"charge", "leds", "governor", "log", "sockets"}
  /\ turn # "charge" => online /\ voltOk
  /\ turn # "leds" => button = 0 /\ bright = 0
  /\ turn # "governor" => cur = MIN
DeviceNext ==
  \/ turn = "charge" /\ Next /\ UNCHANGED <<leds, governor, log, sockets, turn>>
  \/ turn = "leds" /\ L!Next /\ UNCHANGED <<vars, governor, log, sockets, turn>>
  \/ turn = "governor" /\ G!Next /\ UNCHANGED <<vars, leds, log, sockets, turn>>
  \/ turn = "log" /\ K!Next /\ UNCHANGED <<vars, leds, governor, sockets, turn>>
  \/ turn = "sockets" /\ Q!Next /\ UNCHANGED <<vars, leds, governor, log, turn>>

(* The fairness of the modules.                                            *)
ChargeFair ==
  /\ WF_vars(turn = "charge" /\ Program) /\ WF_vars(turn = "charge" /\ Tick)
  /\ WF_vars(turn = "charge" /\ ReleasePower)
GovernorFair ==
  /\ WF_governor(turn = "governor" /\ G!Wake) /\ WF_governor(turn = "governor" /\ G!Timer)
  /\ WF_governor(turn = "governor" /\ G!StopTimer)
  /\ \A w \in G!Queues : WF_governor(turn = "governor" /\ G!Worker(w))
LogFair ==
  /\ WF_log(turn = "log" /\ K!WriteStep) /\ WF_log(turn = "log" /\ K!FlushStep)
  /\ \A r \in Readers : WF_log(turn = "log" /\ K!ReaderStep(r))
SocketFair ==
  WF_sockets(turn = "sockets" /\ Q!KernelStep(p1)) /\ WF_sockets(turn = "sockets" /\ Q!ReleasePut(p1))

DeviceSpec ==
  /\ DeviceInit /\ [][DeviceNext]_<<vars, leds, governor, log, sockets, turn>>
  /\ ChargeFair /\ GovernorFair /\ LogFair /\ SocketFair

(* Lights, CpufreqInteractive, KLogger and Qtaguid state these; of the two *)
(* readers, which are alike, one stands for both.                          *)
ButtonsAsBelieved == L!ButtonsAsBelieved
OneLed            == L!OneLed
StopsClean        == G!StopsClean
BusyGetsSpeed     == G!BusyGetsSpeed
NoLostWakeup      == K!WokenUp(r1)
FileReleased      == Q!FileReleased
=============================================================================
