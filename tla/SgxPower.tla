------------------------------ MODULE SgxPower ------------------------------
(***************************************************************************)
(* modules/pvr: who may touch the graphics core, and when it is powered.   *)
(* Four threads of the host and the microkernel on the core:               *)
(*   app    a process in an ioctl (one at a time, under the bridge mutex): *)
(*          it kicks work                                                  *)
(*   misr   the work queue the interrupt schedules: it re-kicks, and       *)
(*          powers the core off when the microkernel says it is idle       *)
(*   tmr    the watchdog on its own work queue: it finds and ends lockups  *)
(*   pm     suspend and resume of the system; between the two it holds the *)
(*          bridge mutex                                                   *)
(*   Uk*    the microkernel, known only from what the driver expects of it *)
(* Of the build's options: active power management, hardware recovery,     *)
(* work queues for the MISR and the timers, no PDUMP.  Poll time-outs are  *)
(* taken only when the microkernel hangs.                                  *)
(***************************************************************************)
EXTENDS Naturals, Sequences, FiniteSets

CONSTANTS CCB,        \* commands the kernel CCB holds
          LOCKUP,     \* readings without a change that mean a lockup
          Budgets     \* bounds: how often which events may happen together

SgxAssumption == CCB \in Nat /\ LOCKUP \in Nat \ {0}

VARIABLES bridge,     \* holder of gPVRSRVLock
          lock,       \* holder of sPowerLock and sPowerStateChangeResource
          sys,        \* eCurrentPowerState of the system
          dev,        \* the device's eCurrentPowerState is ON
          clocks,     \* sSGXClocksEnabled
          active, armed, queued,    \* the watchdog: bActive, timer, work
          count,      \* ui32LockupCounter
          misr,       \* sMISRWork is queued
          reproc,     \* bReProcessDeviceCommandComplete
          status,     \* ui32PowerStatus
          flag, clr,  \* ACTIVE_POWER in ui32InterruptFlags, ...ClearFlags
          ccb,        \* commands the microkernel has not read
          awake, hung, work,        \* the microkernel
          hwr,        \* it asked for a recovery that no one has begun
          pc, ret,    \* where each thread is, and where a call returns to
          kicked,     \* a kick was written since flag was raised (history)
          leaked,     \* a failed power-up kept the lock (history)
          gaveup,     \* a power-off failed, or went on without an answer (history)
          left        \* what remains of the bounds

host == <<bridge, lock, sys, dev, clocks, reproc, status>>
watch == <<active, armed, queued, count>>
uk == <<flag, clr, ccb, awake, hung, hwr, work, kicked>>
ghost == <<leaked, gaveup, left>>
vars == <<bridge, lock, sys, dev, clocks, reproc, status, active, armed, queued, count,
          misr, flag, clr, ccb, awake, hung, hwr, work, kicked, pc, ret, leaked, gaveup, left>>

FREE == "free"
Runners == {"app", "misr", "tmr", "pm"}
Locked == {"up", "write", "unlock", "recheck", "disable", "flush", "delete", "again", "send",
           "wait", "cut", "post", "sleep", "woken", "reinit"}

TypeOK ==
  /\ bridge \in {FREE, "app", "pm"} /\ lock \in Runners \cup {FREE}
  /\ sys \in {"D0", "D3"} /\ count \in 0 .. LOCKUP - 1
  /\ dev \in BOOLEAN /\ clocks \in BOOLEAN /\ active \in BOOLEAN /\ armed \in BOOLEAN
  /\ queued \in BOOLEAN /\ misr \in BOOLEAN /\ reproc \in BOOLEAN /\ flag \in BOOLEAN
  /\ clr \in BOOLEAN /\ awake \in BOOLEAN /\ hung \in BOOLEAN /\ hwr \in BOOLEAN
  /\ kicked \in BOOLEAN /\ leaked \in BOOLEAN /\ gaveup \in BOOLEAN
  /\ status \subseteq {"complete", "restart", "nowork"}
  /\ ccb \in Seq({"kick", "off"}) /\ Len(ccb) <= CCB
  /\ work \in Nat
  /\ pc \in [Runners -> Locked \cup {"idle", "lock", "spq", "begin", "active", "try", "look", "read",
                                     "reset", "requeue", "rearm", "queues", "asleep"}]
  /\ ret \in [Runners -> {"idle", "begin", "active", "rearm", "queues", "requeue"}]

Init ==
  /\ bridge = FREE /\ lock = FREE /\ sys = "D0" /\ dev = FALSE /\ clocks = FALSE
  /\ active = FALSE /\ armed = FALSE /\ queued = FALSE /\ count = 0
  /\ misr = FALSE /\ reproc = FALSE /\ status = {"nowork"} /\ flag = FALSE /\ clr = FALSE
  /\ ccb = <<>> /\ awake = FALSE /\ hung = FALSE /\ hwr = FALSE /\ work = 0
  /\ pc = [t \in Runners |-> "idle"] /\ ret = [t \in Runners |-> "idle"]
  /\ kicked = FALSE /\ leaked = FALSE /\ gaveup = FALSE
  /\ left \in Budgets

Goto(t, at) == pc' = [pc EXCEPT ![t] = at]
Spend(what) == left[what] > 0 /\ left' = [left EXCEPT ![what] = @ - 1]
-----------------------------------------------------------------------------
(* PVRSRVPowerLock.  The MISR and the watchdog only try; everyone but the  *)
(* suspend and resume code is turned away while the system sleeps.         *)
PowerLock(t) == lock = FREE /\ sys = "D0" /\ lock' = t
PowerLockRefused == lock # FREE \/ sys = "D3"

(* SGXScheduleCCBCommand: what a written command changes. A kick tells the *)
(* microkernel to forget that it was idle.                                 *)
(* Seeded fault: an idle event survives the kick.                          *)
Write_keep(c) == ccb' = Append(ccb, c) /\ clr' = clr
Write(c) == ccb' = Append(ccb, c) /\ clr' = TRUE

-----------------------------------------------------------------------------
(* SGXScheduleCCBCommandKM, called by app (SGXDoKick and the like) and, as *)
(* SGXScheduleProcessQueuesKM, by misr, tmr and pm.                        *)
AppKick ==
  /\ pc["app"] = "idle" /\ bridge = FREE /\ Spend("kicks")
  /\ bridge' = "app" /\ Goto("app", "lock")
  /\ UNCHANGED <<lock, sys, dev, clocks, reproc, status, watch, misr, uk, ret, leaked, gaveup>>

AppLock ==
  /\ pc["app"] = "lock" /\ PowerLock("app") /\ Goto("app", "up")
  /\ UNCHANGED <<bridge, sys, dev, clocks, reproc, status, watch, misr, uk, ret, ghost>>

ProcessQueuesKM(t) ==
  /\ pc[t] = "spq"
  /\ \/ "nowork" \in status /\ Goto(t, ret[t]) /\ UNCHANGED <<lock, misr, reproc>>
     \/ "nowork" \notin status /\ PowerLock(t) /\ Goto(t, "up") /\ UNCHANGED <<misr, reproc>>
     \/ "nowork" \notin status /\ PowerLockRefused
        /\ Goto(t, ret[t]) /\ reproc' = TRUE /\ misr' = TRUE /\ UNCHANGED lock
  /\ UNCHANGED <<bridge, sys, dev, clocks, status, watch, uk, ret, ghost>>

(* PVRSRVSetDevicePowerStateKM(ON) by a thread that has the lock: clocks,  *)
(* SGXInitialise, the watchdog started.  A microkernel that starts finds   *)
(* its CCB empty.                                                          *)
PowerUp(t) ==
  /\ pc[t] = "up" /\ Goto(t, "write") /\ reproc' = FALSE
  /\ IF dev THEN UNCHANGED <<dev, clocks, status, active, armed, ccb, awake, hung, hwr, flag, clr>>
     ELSE /\ dev' = TRUE /\ clocks' = TRUE /\ status' = {}
          /\ active' = TRUE /\ armed' = TRUE
          /\ ccb' = <<>> /\ awake' = FALSE /\ hung' = FALSE /\ hwr' = FALSE
          /\ flag' = FALSE /\ clr' = FALSE
  /\ UNCHANGED <<bridge, lock, sys, queued, count, misr, work, kicked, ret, ghost>>

(* The clocks cannot be enabled, or the microkernel does not start: the    *)
(* caller returns, and the lock stays taken.                               *)
PowerUpFails(t) ==
  /\ pc[t] = "up" /\ ~dev /\ Spend("fails")
  /\ \E on \in BOOLEAN : clocks' = on /\ status' = IF on THEN {} ELSE status
  /\ leaked' = TRUE /\ Goto(t, ret[t])
  /\ bridge' = IF t = "app" THEN FREE ELSE bridge
  /\ UNCHANGED <<lock, sys, dev, reproc, watch, misr, uk, ret, gaveup>>

WriteCommand(t) ==
  /\ pc[t] = "write" /\ Goto(t, "unlock")
  /\ \/ /\ Len(ccb) < CCB /\ Write("kick") /\ kicked' = TRUE
        /\ work' = work + (IF t = "app" THEN 1 ELSE 0)
     \/ Len(ccb) = CCB /\ hung /\ UNCHANGED <<ccb, clr, kicked, work>>
  /\ UNCHANGED <<host, watch, misr, flag, awake, hung, hwr, ret, ghost>>

Unlock(t) ==
  /\ pc[t] = "unlock" /\ Goto(t, ret[t]) /\ lock' = FREE
  /\ bridge' = IF t = "app" THEN FREE ELSE bridge
  /\ UNCHANGED <<sys, dev, clocks, reproc, status, watch, misr, uk, ret, ghost>>
-----------------------------------------------------------------------------
(* PVRSRVSetDevicePowerStateKM(OFF) by misr or pm, with the lock:          *)
(* OSDisableTimer, the POWEROFF command, the answer, the clocks.           *)
Disable(t) ==
  /\ pc[t] = "disable" /\ active' = FALSE /\ Goto(t, "flush")
  /\ UNCHANGED <<host, armed, queued, count, misr, uk, ret, ghost>>

(* Seeded fault: the work queue is not waited for.                         *)
TimerQuiet_not == TRUE
TimerQuiet == ~queued /\ pc["tmr"] = "idle"       \* flush_workqueue returns

Flush(t) ==
  /\ pc[t] = "flush" /\ TimerQuiet /\ Goto(t, "delete")
  /\ UNCHANGED <<host, watch, misr, uk, ret, ghost>>

Delete(t) ==                              \* a timer that ran out before has queued its work
  /\ pc[t] = "delete" /\ armed' = FALSE /\ Goto(t, "again")
  /\ UNCHANGED <<host, active, queued, count, misr, uk, ret, ghost>>

FlushAgain(t) ==
  /\ pc[t] = "again" /\ TimerQuiet /\ Goto(t, "send")
  /\ UNCHANGED <<host, watch, misr, uk, ret, ghost>>

SendOff(t) ==
  /\ pc[t] = "send" /\ Len(ccb) < CCB /\ Write("off") /\ Goto(t, "wait")
  /\ UNCHANGED <<host, watch, misr, flag, awake, hung, hwr, work, kicked, ret, ghost>>

(* No room for the command: SGXPrePowerState returns with the watchdog     *)
(* stopped and the device on; suspend is refused.                          *)
SendOffFails(t) ==
  /\ pc[t] = "send" /\ Len(ccb) = CCB /\ hung /\ gaveup' = TRUE
  /\ lock' = FREE /\ Goto(t, IF t = "pm" THEN "idle" ELSE "queues")
  /\ bridge' = IF t = "pm" THEN FREE ELSE bridge
  /\ UNCHANGED <<sys, dev, clocks, reproc, status, watch, misr, uk, ret, leaked, left>>

AwaitOff(t) ==
  /\ pc[t] = "wait" /\ ("complete" \in status \/ hung) /\ Goto(t, "cut")
  /\ gaveup' = (gaveup \/ "complete" \notin status)
  /\ UNCHANGED <<host, watch, misr, uk, ret, leaked, left>>

(* DisableSGXClocks, and the state of the device.                          *)
CutPower(t) ==
  /\ pc[t] = "cut" /\ clocks' = FALSE /\ dev' = FALSE
  /\ awake' = FALSE /\ Goto(t, IF t = "pm" THEN "sleep" ELSE "post")
  /\ UNCHANGED <<bridge, lock, sys, reproc, status, watch, misr, flag, clr, ccb, hung, hwr,
                 work, kicked, ret, ghost>>
-----------------------------------------------------------------------------
(* SGX_MISRHandler and PVRSRVMISR.  A recovery that the microkernel asked  *)
(* for comes first; HWRecoveryResetSGX is with the watchdog's, below.      *)
MisrStart ==
  /\ misr /\ pc["misr"] = "idle" /\ misr' = FALSE
  /\ Goto("misr", IF hwr THEN "reset" ELSE "begin")
  /\ UNCHANGED <<host, watch, uk, ret, ghost>>

Begin ==
  /\ pc["misr"] = "begin" /\ Goto("misr", IF reproc THEN "spq" ELSE "active")
  /\ ret' = [ret EXCEPT !["misr"] = IF reproc THEN "active" ELSE "idle"]
  /\ UNCHANGED <<host, watch, misr, uk, ghost>>

(* SGXTestActivePowerEvent: the look without the lock, and with it.        *)
TestActive ==
  /\ pc["misr"] = "active" /\ Goto("misr", IF flag /\ ~clr THEN "try" ELSE "queues")
  /\ UNCHANGED <<host, watch, misr, uk, ret, ghost>>

TryActive ==
  /\ pc["misr"] = "try"
  /\ \/ PowerLock("misr") /\ Goto("misr", "recheck")
     \/ PowerLockRefused /\ Goto("misr", "queues") /\ UNCHANGED lock
  /\ UNCHANGED <<bridge, sys, dev, clocks, reproc, status, watch, misr, uk, ret, ghost>>

StillIdle == flag /\ ~clr

Recheck ==
  /\ pc["misr"] = "recheck"
  /\ \/ StillIdle /\ clr' = TRUE /\ UNCHANGED lock
        /\ Goto("misr", IF dev THEN "disable" ELSE "post")
     \/ ~StillIdle /\ lock' = FREE /\ Goto("misr", "queues") /\ UNCHANGED clr
  /\ UNCHANGED <<bridge, sys, dev, clocks, reproc, status, watch, misr, flag, ccb, awake, hung,
                 hwr, work, kicked, ret, ghost>>

(* SGXPostActivePowerEvent: work that is ready at once is re-kicked by     *)
(* PVRSRVProcessQueues, further down in the same MISR.                     *)
(* Seeded fault: the microkernel's remark is not read.                     *)
Restarts_not == FALSE
Restarts == "restart" \in status

PostActive ==
  /\ pc["misr"] = "post" /\ lock' = FREE /\ Goto("misr", "queues")
  /\ reproc' = (reproc \/ Restarts)
  /\ UNCHANGED <<bridge, sys, dev, clocks, status, watch, misr, uk, ret, ghost>>

(* PVRSRVProcessQueues_ForEachCb, in the MISR and after a recovery.        *)
AfterReset(t) == IF t = "tmr" THEN "rearm" ELSE "begin"

ProcessQueues(t) ==
  /\ pc[t] \in {"queues", "requeue"}
  /\ LET next == IF pc[t] = "queues" THEN "idle" ELSE AfterReset(t)
     IN  Goto(t, IF reproc THEN "spq" ELSE next) /\ ret' = [ret EXCEPT ![t] = next]
  /\ UNCHANGED <<host, watch, misr, uk, ghost>>
-----------------------------------------------------------------------------
(* OSTimerCallbackWrapper, OSTimerCallbackBody, SGXOSTimer.                *)
TimerFires ==
  /\ armed /\ armed' = FALSE /\ queued' = TRUE
  /\ UNCHANGED <<host, active, count, misr, uk, pc, ret, ghost>>

TimerStart ==
  /\ queued /\ pc["tmr"] = "idle" /\ queued' = FALSE
  /\ Goto("tmr", IF active THEN "look" ELSE "idle")
  /\ UNCHANGED <<host, active, armed, count, misr, uk, ret, ghost>>

(* SGXIsDevicePowered: a held lock counts as powered down.                 *)
TimerLook ==
  /\ pc["tmr"] = "look"
  /\ IF lock = FREE /\ dev THEN Goto("tmr", "read") /\ UNCHANGED count
                           ELSE Goto("tmr", "rearm") /\ count' = 0
  /\ UNCHANGED <<host, active, armed, queued, misr, uk, ret, ghost>>

(* The task registers stand still exactly when the microkernel hangs.      *)
TimerRead ==
  /\ pc["tmr"] = "read"
  /\ count' = IF hung THEN (count + 1) % LOCKUP ELSE 0
  /\ Goto("tmr", IF hung /\ count + 1 = LOCKUP THEN "reset" ELSE "rearm")
  /\ UNCHANGED <<host, active, armed, queued, misr, uk, ret, ghost>>

(* HWRecoveryResetSGX, by the watchdog and by the MISR: turned away, it    *)
(* leaves the lockup to the next readings or the next interrupt.  When     *)
(* SGXInitialise fails the core stays as dead as it was.  Neither caller   *)
(* has looked at the power since it took the lock.                         *)
Reset(t) ==
  /\ pc[t] = "reset"
  /\ \/ PowerLock(t) /\ Goto(t, "reinit")
     \/ PowerLockRefused /\ Goto(t, AfterReset(t)) /\ UNCHANGED lock
  /\ UNCHANGED <<bridge, sys, dev, clocks, reproc, status, watch, misr, uk, ret, ghost>>

Reinit(t) ==
  /\ pc[t] = "reinit" /\ lock' = FREE
  /\ \/ hung' = FALSE /\ UNCHANGED left
     \/ hung' = TRUE /\ Spend("fails")
  /\ hwr' = FALSE /\ ccb' = <<>> /\ awake' = FALSE /\ flag' = FALSE /\ clr' = FALSE
  /\ Goto(t, "spq") /\ ret' = [ret EXCEPT ![t] = "requeue"]
  /\ UNCHANGED <<bridge, sys, dev, clocks, reproc, status, watch, misr, work, kicked, leaked, gaveup>>

TimerRearm ==
  /\ pc["tmr"] = "rearm" /\ armed' = TRUE /\ Goto("tmr", "idle")
  /\ UNCHANGED <<host, active, queued, count, misr, uk, ret, ghost>>
-----------------------------------------------------------------------------
(* PVRSRVDriverSuspend and PVRSRVDriverResume.  The device is registered   *)
(* with OFF as its default state: resuming does not power it.              *)
Suspend ==
  /\ pc["pm"] = "idle" /\ bridge = FREE /\ Spend("sleeps")
  /\ bridge' = "pm" /\ Goto("pm", "lock")
  /\ UNCHANGED <<lock, sys, dev, clocks, reproc, status, watch, misr, uk, ret, leaked, gaveup>>

SuspendLock ==
  /\ pc["pm"] = "lock" /\ lock = FREE /\ lock' = "pm"
  /\ Goto("pm", IF dev THEN "disable" ELSE "sleep")
  /\ UNCHANGED <<bridge, sys, dev, clocks, reproc, status, watch, misr, uk, ret, ghost>>

Sleep ==
  /\ pc["pm"] = "sleep" /\ sys' = "D3" /\ lock' = FREE /\ Goto("pm", "asleep")
  /\ UNCHANGED <<bridge, dev, clocks, reproc, status, watch, misr, uk, ret, ghost>>

Wake ==
  /\ pc["pm"] = "asleep" /\ lock = FREE /\ lock' = "pm" /\ Goto("pm", "woken")
  /\ UNCHANGED <<bridge, sys, dev, clocks, reproc, status, watch, misr, uk, ret, ghost>>

(* PVRSRVSystemPostPowerStateKM ends with the devices' callbacks.          *)
Woken ==
  /\ pc["pm"] = "woken" /\ sys' = "D0" /\ lock' = FREE
  /\ Goto("pm", "spq") /\ ret' = [ret EXCEPT !["pm"] = "queues"]
  /\ UNCHANGED <<bridge, dev, clocks, reproc, status, watch, misr, uk, ghost>>

Resumed ==
  /\ pc["pm"] = "queues" /\ bridge' = FREE /\ Goto("pm", "idle")
  /\ UNCHANGED <<lock, sys, dev, clocks, reproc, status, watch, misr, uk, ret, ghost>>
-----------------------------------------------------------------------------
(* The microkernel.  It reads commands in order; it stops working at       *)
(* POWEROFF and says whether work is left; it raises ACTIVE_POWER when it  *)
(* has none, and clears it when the host asks.  An interrupt reaches the   *)
(* MISR through SGX_ISRHandler.                                            *)
Running == dev /\ clocks /\ ~hung

UkRead ==
  /\ Running /\ ccb # <<>> /\ ccb' = Tail(ccb)
  /\ \/ Head(ccb) = "kick" /\ awake' = TRUE /\ UNCHANGED status
     \/ Head(ccb) = "off" /\ awake' = FALSE
        /\ status' = {"complete", IF work > 0 THEN "restart" ELSE "nowork"}
  /\ UNCHANGED <<bridge, lock, sys, dev, clocks, reproc, watch, misr, flag, clr, hung, hwr,
                 work, kicked, pc, ret, ghost>>

UkFinish ==
  /\ Running /\ awake /\ work > 0 /\ work' = work - 1 /\ misr' = TRUE
  /\ UNCHANGED <<host, watch, flag, clr, ccb, awake, hung, hwr, kicked, pc, ret, ghost>>

UkIdle ==
  /\ Running /\ awake /\ work = 0 /\ ccb = <<>> /\ ~flag /\ ~clr
  /\ flag' = TRUE /\ misr' = TRUE /\ kicked' = FALSE
  /\ UNCHANGED <<host, watch, clr, ccb, awake, hung, hwr, work, pc, ret, ghost>>

UkClear ==
  /\ Running /\ clr /\ clr' = FALSE /\ flag' = FALSE
  /\ UNCHANGED <<host, watch, misr, ccb, awake, hung, hwr, work, kicked, pc, ret, ghost>>

UkReady ==            \* work that waited for an operand becomes ready
  /\ Running /\ awake /\ Spend("ready") /\ work' = work + 1
  /\ UNCHANGED <<host, watch, misr, flag, clr, ccb, awake, hung, hwr, kicked, pc, ret, leaked,
                 gaveup>>

UkHang ==             \* a lockup that it may notice itself
  /\ Running /\ awake /\ Spend("hangs") /\ hung' = TRUE
  /\ \/ UNCHANGED <<hwr, misr>>
     \/ hwr' = TRUE /\ misr' = TRUE
  /\ UNCHANGED <<host, watch, flag, clr, ccb, awake, work, kicked, pc, ret, leaked, gaveup>>
-----------------------------------------------------------------------------
PowerOff(t) ==
  \/ Disable(t) \/ Flush(t) \/ Delete(t) \/ FlushAgain(t)
  \/ SendOff(t) \/ SendOffFails(t) \/ AwaitOff(t) \/ CutPower(t)

Call(t) == ProcessQueuesKM(t) \/ PowerUp(t) \/ PowerUpFails(t) \/ WriteCommand(t) \/ Unlock(t)
App == AppLock \/ PowerUp("app") \/ PowerUpFails("app") \/ WriteCommand("app") \/ Unlock("app")
Recover(t) == Reset(t) \/ Reinit(t) \/ ProcessQueues(t)
Misr == MisrStart \/ Begin \/ TestActive \/ TryActive \/ Recheck \/ PostActive
        \/ Recover("misr") \/ Call("misr") \/ PowerOff("misr")
Timer == TimerStart \/ TimerLook \/ TimerRead \/ TimerRearm \/ Recover("tmr") \/ Call("tmr")
Pm == SuspendLock \/ Sleep \/ Wake \/ Woken \/ Resumed \/ Call("pm") \/ PowerOff("pm")
Uk == UkRead \/ UkFinish \/ UkIdle \/ UkClear

Next == AppKick \/ Suspend \/ App \/ Misr \/ TimerFires \/ Timer \/ Pm \/ Uk \/ UkReady \/ UkHang

(* Every thread that has something to do goes on, timers run out, the      *)
(* hardware works; a thread asleep on a mutex is woken by its holder.      *)
Fair ==
  /\ SF_vars(App) /\ WF_vars(Misr) /\ WF_vars(TimerFires) /\ WF_vars(Timer) /\ SF_vars(Pm)
  /\ WF_vars(UkRead) /\ WF_vars(UkFinish) /\ WF_vars(UkClear)

Spec == Init /\ [][Next]_vars
FairSpec == Spec /\ Fair
-----------------------------------------------------------------------------
(* The watchdog reads registers and re-initialises the core without having *)
(* checked the power under the lock; the clocks are on whenever it does,   *)
(* because powering off waits for it (sgxinit.c:1651, osfunc.c:2903).      *)
WatchedWithClocks == pc["tmr"] \in {"read", "reinit"} => clocks

(* While the system sleeps the core has no clocks, no watchdog and no one  *)
(* who powers it, though the MISR keeps trying (power.c:203-210).          *)
SleepsDark ==
  sys = "D3" => /\ ~dev /\ ~clocks /\ ~active /\ ~armed
                /\ lock \in {FREE, "pm"}

(* The lock is held by a thread that is going to release it, unless a      *)
(* power-up failed (sgxutils.c:718).                                       *)
LockIsReleased == lock # FREE => leaked \/ pc[lock] \in Locked

(* The core is powered off as idle only if no kick was written since the   *)
(* microkernel said so (sgxutils.c:185, 606).                              *)
IdleIsFresh ==
  [][pc["misr"] = "recheck" /\ pc'["misr"] = "disable" => ~kicked]_vars

(* Work is done in the end: through power-offs that raced with it, sleeps  *)
(* and lockups, if no power-up fails and no power-off meets a lockup.      *)
WorkIsDone == work > 0 ~> (work = 0 \/ leaked \/ gaveup)

(* What every state of the core, its watchdog and its lock keeps.          *)
PowerIsSafe == TypeOK /\ WatchedWithClocks /\ SleepsDark /\ LockIsReleased
=============================================================================
