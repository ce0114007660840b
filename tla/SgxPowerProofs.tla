--------------------------- MODULE SgxPowerProofs ---------------------------
(* The lock, the power and the watchdog of the graphics core, proved of    *)
(* SgxPower for any room in the kernel CCB, any number of readings that    *)
(* mean a lockup and any number of kicks, sleeps, hangs and failures.      *)
EXTENDS SgxPower, TLAPS

(* A thread in a critical section has the lock; only a failed power-up     *)
(* leaves it taken, and then for ever.                                     *)
LockInv ==
  /\ \A t \in Runners : pc[t] \in Locked => lock = t /\ ~leaked
  /\ lock # FREE => leaked \/ pc[lock] \in Locked
  /\ leaked => lock # FREE

(* The watchdog is stopped in steps: first it is told, then what was       *)
(* queued of it has run, then the timer stands still, and then what the    *)
(* timer had queued until then has run too.                                *)
WatchInv ==
  /\ \A t \in Runners :
       /\ pc[t] \in {"flush", "delete", "again", "send", "wait", "cut"} => ~active
       /\ pc[t] \in {"delete", "again", "send", "wait", "cut"} => pc["tmr"] = "idle"
       /\ pc[t] \in {"again", "send", "wait", "cut"} => ~armed
       /\ pc[t] \in {"send", "wait", "cut"} => ~queued
  /\ ~dev => ~active /\ ~armed /\ ~queued /\ pc["tmr"] = "idle"

(* Clocks without a device are those of a failed power-up.                 *)
ClockInv == /\ dev => clocks
            /\ clocks => dev \/ leaked

(* From the power-off of a suspend to the resume the core stays off.       *)
SleepInv ==
  /\ pc["pm"] \in {"sleep", "asleep", "woken"} => ~dev
  /\ sys = "D3" <=> pc["pm"] \in {"asleep", "woken"}
  /\ pc["pm"] = "asleep" => lock = FREE

PowerInv == TypeOK /\ LockInv /\ WatchInv /\ ClockInv /\ SleepInv

-----------------------------------------------------------------------------
(* The types, in three parts                                               *)
Places ==
  /\ bridge \in {FREE, "app", "pm"} /\ lock \in Runners \cup {FREE} /\ sys \in {"D0", "D3"}
  /\ pc \in [Runners -> Locked \cup {"idle", "lock", "spq", "begin", "active", "try", "look", "read",
                                     "reset", "requeue", "rearm", "queues", "asleep"}]
  /\ ret \in [Runners -> {"idle", "begin", "active", "rearm", "queues", "requeue"}]
Flags ==
  /\ dev \in BOOLEAN /\ clocks \in BOOLEAN /\ active \in BOOLEAN /\ armed \in BOOLEAN
  /\ queued \in BOOLEAN /\ misr \in BOOLEAN /\ reproc \in BOOLEAN /\ flag \in BOOLEAN
  /\ clr \in BOOLEAN /\ awake \in BOOLEAN /\ hung \in BOOLEAN /\ hwr \in BOOLEAN
  /\ kicked \in BOOLEAN /\ leaked \in BOOLEAN /\ gaveup \in BOOLEAN
Core ==
  /\ count \in 0 .. LOCKUP - 1 /\ status \subseteq {"complete", "restart", "nowork"}
  /\ ccb \in Seq({"kick", "off"}) /\ Len(ccb) <= CCB /\ work \in Nat

LEMMA TypeParts == TypeOK <=> Places /\ Flags /\ Core
BY DEF TypeOK, Places, Flags, Core

LEMMA PowerInvSafe == PowerInv => PowerIsSafe
<1> SUFFICES ASSUME PowerInv PROVE WatchedWithClocks /\ SleepsDark /\ LockIsReleased
  BY DEF PowerInv, PowerIsSafe
<1> USE DEF PowerInv, Runners, Locked, FREE
<1>1. WatchedWithClocks
  BY DEF WatchedWithClocks, WatchInv, ClockInv
<1>2. SleepsDark
  BY DEF SleepsDark, SleepInv, WatchInv, ClockInv, LockInv
<1>3. LockIsReleased
  BY DEF LockIsReleased, LockInv
<1> QED
  BY <1>1, <1>2, <1>3

LEMMA PowerInvInit == ASSUME SgxAssumption PROVE Init => PowerInv
<1> SUFFICES ASSUME Init PROVE PowerInv
  OBVIOUS
<1>1. TypeOK
  <2>1. Places
    BY DEF Init, Places, Runners, Locked, FREE
  <2>2. Flags
    BY DEF Init, Flags
  <2>3. Core
    BY DEF Init, Core, SgxAssumption
  <2> QED
    BY <2>1, <2>2, <2>3, TypeParts
<1>2. LockInv /\ WatchInv /\ ClockInv /\ SleepInv
  BY DEF Init, LockInv, WatchInv, ClockInv, SleepInv, Runners, Locked, FREE
<1> QED
  BY <1>1, <1>2 DEF PowerInv

-----------------------------------------------------------------------------
(* The types: who is where                                                 *)
LEMMA PlacesStep == ASSUME SgxAssumption, TypeOK, [Next]_vars PROVE Places'
<1>t. Places
  BY TypeParts
<1> USE <1>t DEF Places, Runners, Locked, FREE, Goto, host, watch, uk, ghost
<1>1. CASE UNCHANGED vars
  BY <1>1 DEF vars
<1>2. ASSUME NEW t \in Runners, ProcessQueuesKM(t) \/ PowerUp(t) \/ PowerUpFails(t)
      PROVE  Places'
  BY <1>2 DEF ProcessQueuesKM, PowerLock, PowerUp, PowerUpFails, Spend
<1>3. ASSUME NEW t \in Runners, WriteCommand(t) \/ Unlock(t) \/ ProcessQueues(t)
      PROVE  Places'
  BY <1>3 DEF WriteCommand, Write, Unlock, ProcessQueues, AfterReset
<1>4. ASSUME NEW t \in Runners, Disable(t) \/ Flush(t) \/ Delete(t) \/ FlushAgain(t) \/ SendOff(t)
      PROVE  Places'
  BY <1>4 DEF Disable, Flush, Delete, FlushAgain, SendOff, Write
<1>5. ASSUME NEW t \in Runners, SendOffFails(t) \/ AwaitOff(t) \/ CutPower(t)
      PROVE  Places'
  BY <1>5 DEF SendOffFails, AwaitOff, CutPower
<1>6. ASSUME AppKick \/ Suspend \/ AppLock
      PROVE  Places'
  BY <1>6 DEF AppKick, Suspend, AppLock, PowerLock, Spend
<1>7. ASSUME MisrStart \/ Begin \/ TestActive \/ TryActive \/ Recheck \/ PostActive
      PROVE  Places'
  BY <1>7 DEF MisrStart, Begin, TestActive, TryActive, PowerLock, Recheck, PostActive
<1>8. ASSUME TimerFires \/ TimerStart \/ TimerLook \/ TimerRead \/ TimerRearm
      PROVE  Places'
  BY <1>8 DEF TimerFires, TimerStart, TimerLook, TimerRead, TimerRearm
<1>9. ASSUME NEW t \in {"misr", "tmr"}, Reset(t) \/ Reinit(t)
      PROVE  Places'
  BY <1>9 DEF Reset, Reinit, PowerLock, AfterReset
<1>10. ASSUME SuspendLock \/ Sleep \/ Wake \/ Woken \/ Resumed
      PROVE  Places'
  BY <1>10 DEF SuspendLock, Sleep, Wake, Woken, Resumed
<1>11. ASSUME Uk \/ UkReady \/ UkHang
      PROVE  Places'
  BY <1>11 DEF Uk, UkRead, UkFinish, UkIdle, UkClear, UkReady, UkHang, Running, Spend
<1> QED
  BY <1>1, <1>2, <1>3, <1>4, <1>5, <1>6, <1>7, <1>8, <1>9, <1>10, <1>11
     DEF Next, App, Misr, Timer, Pm, Call, PowerOff, Recover, Runners

(* Booleans                                                                *)
LEMMA FlagsStep == ASSUME SgxAssumption, TypeOK, [Next]_vars PROVE Flags'
<1>t. Flags
  BY TypeParts
<1> USE <1>t DEF Flags, host, watch, uk, ghost
<1>1. CASE UNCHANGED vars
  BY <1>1 DEF vars
<1>2. ASSUME NEW t \in Runners, ProcessQueuesKM(t) PROVE Flags'
  <2>1. misr' \in BOOLEAN /\ reproc' \in BOOLEAN
    BY <1>2, ZenonT(60) DEF ProcessQueuesKM
  <2>2. /\ dev' \in BOOLEAN /\ clocks' \in BOOLEAN /\ active' \in BOOLEAN /\ armed' \in BOOLEAN
        /\ queued' \in BOOLEAN /\ flag' \in BOOLEAN /\ clr' \in BOOLEAN /\ awake' \in BOOLEAN
        /\ hung' \in BOOLEAN /\ hwr' \in BOOLEAN /\ kicked' \in BOOLEAN /\ leaked' \in BOOLEAN
        /\ gaveup' \in BOOLEAN
    BY <1>2, ZenonT(60) DEF ProcessQueuesKM
  <2> QED
    BY <2>1, <2>2, Zenon
<1>3. ASSUME NEW t \in Runners, PowerUp(t) PROVE Flags'
  BY <1>3, ZenonT(60) DEF PowerUp
<1>4. ASSUME NEW t \in Runners, PowerUpFails(t) PROVE Flags'
  BY <1>4, ZenonT(60) DEF PowerUpFails, Spend
<1>5. ASSUME NEW t \in Runners, WriteCommand(t) PROVE Flags'
  BY <1>5, ZenonT(60) DEF WriteCommand, Write
<1>6. ASSUME NEW t \in Runners, Unlock(t) PROVE Flags'
  BY <1>6, ZenonT(60) DEF Unlock
<1>7. ASSUME NEW t \in Runners, ProcessQueues(t) PROVE Flags'
  BY <1>7, ZenonT(60) DEF ProcessQueues
<1>8. ASSUME NEW t \in Runners, Disable(t) PROVE Flags'
  BY <1>8, ZenonT(60) DEF Disable
<1>9. ASSUME NEW t \in Runners, Flush(t) PROVE Flags'
  BY <1>9, ZenonT(60) DEF Flush
<1>10. ASSUME NEW t \in Runners, FlushAgain(t) PROVE Flags'
  BY <1>10, ZenonT(60) DEF FlushAgain
<1>11. ASSUME NEW t \in Runners, SendOff(t) PROVE Flags'
  BY <1>11, ZenonT(60) DEF SendOff, Write
<1>12. ASSUME NEW t \in Runners, SendOffFails(t) PROVE Flags'
  BY <1>12, ZenonT(60) DEF SendOffFails
<1>13. ASSUME NEW t \in Runners, AwaitOff(t) PROVE Flags'
  BY <1>13, ZenonT(60) DEF AwaitOff
<1>14. ASSUME NEW t \in Runners, CutPower(t) PROVE Flags'
  BY <1>14, ZenonT(60) DEF CutPower
<1>15. ASSUME AppKick PROVE Flags'
  BY <1>15, ZenonT(60) DEF AppKick
<1>16. ASSUME Suspend PROVE Flags'
  BY <1>16, ZenonT(60) DEF Suspend
<1>17. ASSUME AppLock PROVE Flags'
  BY <1>17, ZenonT(60) DEF AppLock
<1>18. ASSUME MisrStart PROVE Flags'
  BY <1>18, ZenonT(60) DEF MisrStart
<1>19. ASSUME TestActive PROVE Flags'
  BY <1>19, ZenonT(60) DEF TestActive
<1>20. ASSUME TryActive PROVE Flags'
  BY <1>20, ZenonT(60) DEF TryActive
<1>21. ASSUME Recheck PROVE Flags'
  <2>1. clr' \in BOOLEAN
    BY <1>21, ZenonT(60) DEF Recheck
  <2>2. /\ dev' \in BOOLEAN /\ clocks' \in BOOLEAN /\ active' \in BOOLEAN /\ armed' \in BOOLEAN
        /\ queued' \in BOOLEAN /\ flag' \in BOOLEAN /\ awake' \in BOOLEAN /\ hung' \in BOOLEAN
        /\ hwr' \in BOOLEAN
        /\ kicked' \in BOOLEAN /\ leaked' \in BOOLEAN /\ gaveup' \in BOOLEAN /\ misr' \in BOOLEAN
        /\ reproc' \in BOOLEAN
    BY <1>21, ZenonT(60) DEF Recheck
  <2> QED
    BY <2>1, <2>2, Zenon
<1>22. ASSUME PostActive PROVE Flags'
  BY <1>22, ZenonT(60) DEF PostActive
<1>23. ASSUME TimerFires PROVE Flags'
  BY <1>23, ZenonT(60) DEF TimerFires
<1>24. ASSUME TimerStart PROVE Flags'
  BY <1>24, ZenonT(60) DEF TimerStart
<1>25. ASSUME TimerLook PROVE Flags'
  BY <1>25, ZenonT(60) DEF TimerLook
<1>26. ASSUME TimerRead PROVE Flags'
  BY <1>26, ZenonT(60) DEF TimerRead
<1>27. ASSUME NEW t \in {"misr", "tmr"}, Reset(t) PROVE Flags'
  <2>1. /\ dev' \in BOOLEAN /\ clocks' \in BOOLEAN /\ active' \in BOOLEAN /\ armed' \in BOOLEAN
        /\ queued' \in BOOLEAN /\ misr' \in BOOLEAN /\ reproc' \in BOOLEAN
    BY <1>27, ZenonT(60) DEF Reset
  <2>2. /\ flag' \in BOOLEAN /\ clr' \in BOOLEAN /\ awake' \in BOOLEAN /\ hung' \in BOOLEAN
        /\ hwr' \in BOOLEAN /\ kicked' \in BOOLEAN /\ leaked' \in BOOLEAN /\ gaveup' \in BOOLEAN
    BY <1>27, ZenonT(60) DEF Reset
  <2> QED
    BY <2>1, <2>2, Zenon
<1>28. ASSUME NEW t \in {"misr", "tmr"}, Reinit(t) PROVE Flags'
  BY <1>28, ZenonT(60) DEF Reinit, Spend
<1>29. ASSUME TimerRearm PROVE Flags'
  BY <1>29, ZenonT(60) DEF TimerRearm
<1>30. ASSUME SuspendLock PROVE Flags'
  BY <1>30, ZenonT(60) DEF SuspendLock
<1>31. ASSUME Sleep PROVE Flags'
  BY <1>31, ZenonT(60) DEF Sleep
<1>32. ASSUME Wake PROVE Flags'
  BY <1>32, ZenonT(60) DEF Wake
<1>33. ASSUME Woken PROVE Flags'
  BY <1>33, ZenonT(60) DEF Woken
<1>34. ASSUME Resumed PROVE Flags'
  BY <1>34, ZenonT(60) DEF Resumed
<1>35. ASSUME UkRead PROVE Flags'
  BY <1>35, ZenonT(60) DEF UkRead
<1>36. ASSUME UkFinish PROVE Flags'
  BY <1>36, ZenonT(60) DEF UkFinish
<1>37. ASSUME UkIdle PROVE Flags'
  BY <1>37, ZenonT(60) DEF UkIdle
<1>38. ASSUME UkClear PROVE Flags'
  BY <1>38, ZenonT(60) DEF UkClear
<1>39. ASSUME UkReady PROVE Flags'
  BY <1>39, ZenonT(60) DEF UkReady, Spend
<1>40. ASSUME UkHang PROVE Flags'
  BY <1>40, ZenonT(60) DEF UkHang, Spend
<1>41. ASSUME NEW t \in Runners, Delete(t) PROVE Flags'
  BY <1>41, ZenonT(60) DEF Delete
<1>42. ASSUME Begin PROVE Flags'
  BY <1>42, ZenonT(60) DEF Begin
<1> QED
  BY <1>1, <1>2, <1>3, <1>4, <1>5, <1>6, <1>7, <1>8, <1>9, <1>10, <1>11, <1>12, <1>13, <1>14,
     <1>15, <1>16, <1>17, <1>18, <1>19, <1>20, <1>21, <1>22, <1>23, <1>24, <1>25, <1>26, <1>27,
     <1>28, <1>29, <1>30, <1>31, <1>32, <1>33, <1>34, <1>35, <1>36, <1>37, <1>38, <1>39, <1>40,
     <1>41, <1>42
     DEF Next, App, Misr, Timer, Pm, Uk, Call, PowerOff, Recover, Runners

(* The commands and what the microkernel says of them                      *)
LEMMA CoreStep == ASSUME SgxAssumption, TypeOK, [Next]_vars PROVE Core'
<1>t. Core
  BY TypeParts
<1> USE <1>t DEF Core, SgxAssumption, host, watch, uk, ghost
<1>1. CASE UNCHANGED vars
  BY <1>1 DEF vars
<1>2. ASSUME NEW t \in Runners, ProcessQueuesKM(t) PROVE Core'
  BY <1>2 DEF ProcessQueuesKM, PowerLock
<1>3. ASSUME NEW t \in Runners, PowerUp(t) PROVE Core'
  <2>1. UNCHANGED <<count, work>>
    BY <1>3, Zenon DEF PowerUp
  <2>2. (status' = status /\ ccb' = ccb) \/ (status' = {} /\ ccb' = <<>>)
    BY <1>3, Zenon DEF PowerUp
  <2>3. <<>> \in Seq({"kick", "off"}) /\ Len(<<>>) = 0
    OBVIOUS
  <2>4. CASE status' = status /\ ccb' = ccb
    BY <2>1, <2>4
  <2>5. CASE status' = {} /\ ccb' = <<>>
    BY <2>1, <2>3, <2>5
  <2> QED
    BY <2>2, <2>4, <2>5, Zenon
<1>4. ASSUME NEW t \in Runners, PowerUpFails(t) PROVE Core'
  BY <1>4 DEF PowerUpFails, Spend
<1>5. ASSUME NEW t \in Runners, WriteCommand(t) PROVE Core'
  BY <1>5 DEF WriteCommand, Write
<1>6. ASSUME NEW t \in Runners, Unlock(t) PROVE Core'
  BY <1>6 DEF Unlock
<1>7. ASSUME NEW t \in Runners, ProcessQueues(t) PROVE Core'
  BY <1>7 DEF ProcessQueues
<1>8. ASSUME NEW t \in Runners, Disable(t) PROVE Core'
  BY <1>8 DEF Disable
<1>9. ASSUME NEW t \in Runners, Flush(t) PROVE Core'
  BY <1>9 DEF Flush
<1>10. ASSUME NEW t \in Runners, FlushAgain(t) PROVE Core'
  BY <1>10 DEF FlushAgain
<1>11. ASSUME NEW t \in Runners, SendOff(t) PROVE Core'
  BY <1>11 DEF SendOff, Write
<1>12. ASSUME NEW t \in Runners, SendOffFails(t) PROVE Core'
  BY <1>12 DEF SendOffFails
<1>13. ASSUME NEW t \in Runners, AwaitOff(t) PROVE Core'
  BY <1>13 DEF AwaitOff
<1>14. ASSUME NEW t \in Runners, CutPower(t) PROVE Core'
  BY <1>14 DEF CutPower
<1>15. ASSUME AppKick PROVE Core'
  BY <1>15 DEF AppKick
<1>16. ASSUME Suspend PROVE Core'
  BY <1>16 DEF Suspend
<1>17. ASSUME AppLock PROVE Core'
  BY <1>17 DEF AppLock
<1>18. ASSUME MisrStart PROVE Core'
  BY <1>18 DEF MisrStart
<1>19. ASSUME TestActive PROVE Core'
  BY <1>19 DEF TestActive
<1>20. ASSUME TryActive PROVE Core'
  BY <1>20 DEF TryActive
<1>21. ASSUME Recheck PROVE Core'
  BY <1>21 DEF Recheck
<1>22. ASSUME PostActive PROVE Core'
  BY <1>22 DEF PostActive
<1>23. ASSUME TimerFires PROVE Core'
  BY <1>23 DEF TimerFires
<1>24. ASSUME TimerStart PROVE Core'
  BY <1>24 DEF TimerStart
<1>25. ASSUME TimerLook PROVE Core'
  BY <1>25 DEF TimerLook
<1>26. ASSUME TimerRead PROVE Core'
  BY <1>26 DEF TimerRead
<1>27. ASSUME NEW t \in {"misr", "tmr"}, Reset(t) PROVE Core'
  BY <1>27 DEF Reset
<1>28. ASSUME NEW t \in {"misr", "tmr"}, Reinit(t) PROVE Core'
  BY <1>28 DEF Reinit, Spend
<1>29. ASSUME TimerRearm PROVE Core'
  BY <1>29 DEF TimerRearm
<1>30. ASSUME SuspendLock PROVE Core'
  BY <1>30 DEF SuspendLock
<1>31. ASSUME Sleep PROVE Core'
  BY <1>31 DEF Sleep
<1>32. ASSUME Wake PROVE Core'
  BY <1>32 DEF Wake
<1>33. ASSUME Woken PROVE Core'
  BY <1>33 DEF Woken
<1>34. ASSUME Resumed PROVE Core'
  BY <1>34 DEF Resumed
<1>35. ASSUME UkRead PROVE Core'
  <2>1. ccb # <<>> /\ ccb' = Tail(ccb) /\ UNCHANGED <<count, work>>
    BY <1>35, Zenon DEF UkRead
  <2>2. \/ status' = status
        \/ status' = {"complete", IF work > 0 THEN "restart" ELSE "nowork"}
    BY <1>35, Zenon DEF UkRead
  <2>3. ccb' \in Seq({"kick", "off"}) /\ Len(ccb') <= CCB
    BY <2>1
  <2>4. status' \subseteq {"complete", "restart", "nowork"}
    BY <2>2
  <2> QED
    BY <2>1, <2>3, <2>4
<1>36. ASSUME UkFinish PROVE Core'
  BY <1>36 DEF UkFinish
<1>37. ASSUME UkIdle PROVE Core'
  BY <1>37 DEF UkIdle
<1>38. ASSUME UkClear PROVE Core'
  BY <1>38 DEF UkClear
<1>39. ASSUME UkReady PROVE Core'
  BY <1>39 DEF UkReady, Spend
<1>40. ASSUME UkHang PROVE Core'
  BY <1>40 DEF UkHang, Spend
<1>41. ASSUME NEW t \in Runners, Delete(t) PROVE Core'
  BY <1>41 DEF Delete
<1>42. ASSUME Begin PROVE Core'
  BY <1>42 DEF Begin
<1> QED
  BY <1>1, <1>2, <1>3, <1>4, <1>5, <1>6, <1>7, <1>8, <1>9, <1>10, <1>11, <1>12, <1>13, <1>14,
     <1>15, <1>16, <1>17, <1>18, <1>19, <1>20, <1>21, <1>22, <1>23, <1>24, <1>25, <1>26, <1>27,
     <1>28, <1>29, <1>30, <1>31, <1>32, <1>33, <1>34, <1>35, <1>36, <1>37, <1>38, <1>39, <1>40,
     <1>41, <1>42
     DEF Next, App, Misr, Timer, Pm, Uk, Call, PowerOff, Recover, Runners

-----------------------------------------------------------------------------
(* The lock, the watchdog, the clocks and the sleep                        *)
LEMMA SafeStep == ASSUME TypeOK, LockInv, WatchInv, ClockInv, SleepInv, [Next]_vars
  PROVE LockInv' /\ WatchInv' /\ ClockInv' /\ SleepInv'
<1> DEFINE Safe == LockInv /\ WatchInv /\ ClockInv /\ SleepInv
<1>t. Places
  BY TypeParts
<1> USE <1>t DEF Places, LockInv, WatchInv, ClockInv, SleepInv, Runners, Locked, FREE, Goto, host,
        watch, uk, ghost
<1>1. CASE UNCHANGED vars
  BY <1>1 DEF vars
<1>2. ASSUME NEW t \in Runners, ProcessQueuesKM(t) PROVE Safe'
  BY <1>2 DEF ProcessQueuesKM, PowerLock
<1>3. ASSUME NEW t \in Runners, PowerUp(t) PROVE Safe'
  BY <1>3 DEF PowerUp
<1>4. ASSUME NEW t \in Runners, PowerUpFails(t) PROVE Safe'
  BY <1>4 DEF PowerUpFails
<1>5. ASSUME NEW t \in Runners, WriteCommand(t) PROVE Safe'
  BY <1>5 DEF WriteCommand
<1>6. ASSUME NEW t \in Runners, Unlock(t) PROVE Safe'
  BY <1>6 DEF Unlock
<1>7. ASSUME NEW t \in Runners, ProcessQueues(t) PROVE Safe'
  BY <1>7 DEF ProcessQueues, AfterReset
<1>8. ASSUME NEW t \in Runners, Disable(t) PROVE Safe'
  BY <1>8 DEF Disable
<1>9. ASSUME NEW t \in Runners, Flush(t) PROVE Safe'
  BY <1>9 DEF Flush, TimerQuiet
<1>10. ASSUME NEW t \in Runners, FlushAgain(t) PROVE Safe'
  BY <1>10 DEF FlushAgain, TimerQuiet
<1>11. ASSUME NEW t \in Runners, SendOff(t) PROVE Safe'
  BY <1>11 DEF SendOff
<1>12. ASSUME NEW t \in Runners, SendOffFails(t) PROVE Safe'
  BY <1>12 DEF SendOffFails
<1>13. ASSUME NEW t \in Runners, AwaitOff(t) PROVE Safe'
  BY <1>13 DEF AwaitOff
<1>14. ASSUME NEW t \in Runners, CutPower(t) PROVE Safe'
  BY <1>14 DEF CutPower
<1>15. ASSUME AppKick PROVE Safe'
  BY <1>15 DEF AppKick
<1>16. ASSUME Suspend PROVE Safe'
  BY <1>16 DEF Suspend
<1>17. ASSUME AppLock PROVE Safe'
  BY <1>17 DEF AppLock, PowerLock
<1>18. ASSUME MisrStart PROVE Safe'
  BY <1>18 DEF MisrStart
<1>19. ASSUME TestActive PROVE Safe'
  BY <1>19 DEF TestActive
<1>20. ASSUME TryActive PROVE Safe'
  BY <1>20 DEF TryActive, PowerLock
<1>21. ASSUME Recheck PROVE Safe'
  BY <1>21 DEF Recheck
<1>22. ASSUME PostActive PROVE Safe'
  BY <1>22 DEF PostActive
<1>23. ASSUME TimerFires PROVE Safe'
  BY <1>23 DEF TimerFires
<1>24. ASSUME TimerStart PROVE Safe'
  BY <1>24 DEF TimerStart
<1>25. ASSUME TimerLook PROVE Safe'
  BY <1>25 DEF TimerLook
<1>26. ASSUME TimerRead PROVE Safe'
  BY <1>26 DEF TimerRead
<1>27. ASSUME NEW t \in {"misr", "tmr"}, Reset(t) PROVE Safe'
  BY <1>27 DEF Reset, PowerLock, AfterReset
<1>28. ASSUME NEW t \in {"misr", "tmr"}, Reinit(t) PROVE Safe'
  BY <1>28 DEF Reinit
<1>29. ASSUME TimerRearm PROVE Safe'
  BY <1>29 DEF TimerRearm
<1>30. ASSUME SuspendLock PROVE Safe'
  BY <1>30 DEF SuspendLock
<1>31. ASSUME Sleep PROVE Safe'
  BY <1>31 DEF Sleep
<1>32. ASSUME Wake PROVE Safe'
  BY <1>32 DEF Wake
<1>33. ASSUME Woken PROVE Safe'
  BY <1>33 DEF Woken
<1>34. ASSUME Resumed PROVE Safe'
  BY <1>34 DEF Resumed
<1>35. ASSUME UkRead PROVE Safe'
  BY <1>35 DEF UkRead
<1>36. ASSUME UkFinish PROVE Safe'
  BY <1>36 DEF UkFinish
<1>37. ASSUME UkIdle PROVE Safe'
  BY <1>37 DEF UkIdle
<1>38. ASSUME UkClear PROVE Safe'
  BY <1>38 DEF UkClear
<1>39. ASSUME UkReady PROVE Safe'
  BY <1>39 DEF UkReady
<1>40. ASSUME UkHang PROVE Safe'
  BY <1>40 DEF UkHang
<1>41. ASSUME NEW t \in Runners, Delete(t) PROVE Safe'
  BY <1>41 DEF Delete
<1>42. ASSUME Begin PROVE Safe'
  BY <1>42 DEF Begin
<1> QED
  BY <1>1, <1>2, <1>3, <1>4, <1>5, <1>6, <1>7, <1>8, <1>9, <1>10, <1>11, <1>12, <1>13, <1>14,
     <1>15, <1>16, <1>17, <1>18, <1>19, <1>20, <1>21, <1>22, <1>23, <1>24, <1>25, <1>26, <1>27,
     <1>28, <1>29, <1>30, <1>31, <1>32, <1>33, <1>34, <1>35, <1>36, <1>37, <1>38, <1>39, <1>40,
     <1>41, <1>42
     DEF Next, App, Misr, Timer, Pm, Uk, Call, PowerOff, Recover, Runners

LEMMA PowerInvAlways == ASSUME SgxAssumption PROVE Spec => []PowerInv
<1>1. PowerInv /\ [Next]_vars => PowerInv'
  <2> SUFFICES ASSUME PowerInv, [Next]_vars PROVE PowerInv'
    OBVIOUS
  <2>1. TypeOK'
    <3>1. Places' /\ Flags' /\ Core'
      BY PlacesStep, FlagsStep, CoreStep DEF PowerInv
    <3> QED
      BY <3>1 DEF TypeOK, Places, Flags, Core
  <2>2. LockInv' /\ WatchInv' /\ ClockInv' /\ SleepInv'
    BY SafeStep DEF PowerInv
  <2> QED
    BY <2>1, <2>2 DEF PowerInv
<1> QED
  BY <1>1, PowerInvInit, PTL DEF Spec

(* The watchdog reads and re-initialises the core only with its clocks on, *)
(* a system asleep has neither clocks nor watchdog nor anybody who powers  *)
(* it, and the lock is left taken by no one but a power-up that failed:    *)
(* whatever kicks, interrupts, lockups, suspends and failures interleave.  *)
THEOREM PowerSafe == ASSUME SgxAssumption PROVE Spec => []PowerIsSafe
<1>1. PowerInv => PowerIsSafe
  BY PowerInvSafe
<1> QED
  BY <1>1, PowerInvAlways, PTL

-----------------------------------------------------------------------------
(* An idle event that the host has not withdrawn is younger than any kick. *)
FreshInv == flag /\ ~clr => ~kicked

LEMMA FreshStep == FreshInv /\ [Next]_vars => FreshInv'
<1> SUFFICES ASSUME FreshInv, [Next]_vars PROVE FreshInv'
  OBVIOUS
<1> USE DEF FreshInv, host, watch, uk, ghost
<1>1. CASE UNCHANGED vars
  BY <1>1 DEF vars
<1>2. ASSUME NEW t \in Runners, ProcessQueuesKM(t) \/ PowerUpFails(t) \/ Unlock(t) \/ ProcessQueues(t)
      PROVE  FreshInv'
  BY <1>2 DEF ProcessQueuesKM, PowerUpFails, Unlock, ProcessQueues
<1>3. ASSUME NEW t \in Runners, PowerUp(t) PROVE FreshInv'
  BY <1>3 DEF PowerUp
<1>4. ASSUME NEW t \in Runners, WriteCommand(t) \/ SendOff(t) PROVE FreshInv'
  BY <1>4 DEF WriteCommand, SendOff, Write
<1>5. ASSUME NEW t \in Runners,
             Disable(t) \/ Flush(t) \/ Delete(t) \/ FlushAgain(t) \/ SendOffFails(t) \/ AwaitOff(t) \/ CutPower(t)
      PROVE  FreshInv'
  BY <1>5 DEF Disable, Flush, Delete, FlushAgain, SendOffFails, AwaitOff, CutPower
<1>6. ASSUME AppKick \/ AppLock \/ Suspend PROVE FreshInv'
  BY <1>6 DEF AppKick, AppLock, Suspend
<1>7. ASSUME MisrStart \/ Begin \/ TestActive \/ TryActive \/ Recheck \/ PostActive PROVE FreshInv'
  BY <1>7 DEF MisrStart, Begin, TestActive, TryActive, Recheck, PostActive
<1>8. ASSUME TimerFires \/ TimerStart \/ TimerLook \/ TimerRead \/ TimerRearm
      PROVE  FreshInv'
  BY <1>8 DEF TimerFires, TimerStart, TimerLook, TimerRead, TimerRearm
<1>9. ASSUME NEW t \in {"misr", "tmr"}, Reset(t) \/ Reinit(t) PROVE FreshInv'
  BY <1>9 DEF Reset, Reinit
<1>10. ASSUME SuspendLock \/ Sleep \/ Wake \/ Woken \/ Resumed PROVE FreshInv'
  BY <1>10 DEF SuspendLock, Sleep, Wake, Woken, Resumed
<1>11. ASSUME UkRead \/ UkFinish \/ UkReady \/ UkHang PROVE FreshInv'
  BY <1>11 DEF UkRead, UkFinish, UkReady, UkHang
<1>12. ASSUME UkIdle \/ UkClear PROVE FreshInv'
  BY <1>12 DEF UkIdle, UkClear
<1> QED
  BY <1>1, <1>2, <1>3, <1>4, <1>5, <1>6, <1>7, <1>8, <1>9, <1>10, <1>11, <1>12
     DEF Next, App, Misr, Timer, Pm, Uk, Call, PowerOff, Recover, Runners

(* Nothing but the look under the lock leads the MISR to a power-off.      *)
LEMMA OffAfterRecheck ==
  ASSUME Places, [Next]_vars, pc["misr"] = "recheck", pc'["misr"] = "disable" PROVE Recheck
<1> USE DEF Places, Runners, Locked, Goto, host, watch, uk, ghost
<1>1. CASE UNCHANGED vars
  BY <1>1 DEF vars
<1>2. ASSUME NEW t \in Runners, Call(t) \/ ProcessQueues(t) PROVE FALSE
  BY <1>2 DEF Call, ProcessQueuesKM, PowerUp, PowerUpFails, WriteCommand, Unlock, ProcessQueues, AfterReset
<1>3. ASSUME NEW t \in Runners, PowerOff(t) PROVE FALSE
  BY <1>3 DEF PowerOff, Disable, Flush, Delete, FlushAgain, SendOff, SendOffFails, AwaitOff, CutPower
<1>4. ASSUME AppKick \/ AppLock \/ Suspend PROVE FALSE
  BY <1>4 DEF AppKick, AppLock, Suspend
<1>5. ASSUME MisrStart \/ Begin \/ TestActive \/ TryActive \/ PostActive PROVE FALSE
  BY <1>5 DEF MisrStart, Begin, TestActive, TryActive, PostActive
<1>6. ASSUME TimerFires \/ TimerStart \/ TimerLook \/ TimerRead \/ TimerRearm
      PROVE  FALSE
  BY <1>6 DEF TimerFires, TimerStart, TimerLook, TimerRead, TimerRearm
<1>9. ASSUME NEW t \in {"misr", "tmr"}, Reset(t) \/ Reinit(t) PROVE FALSE
  BY <1>9 DEF Reset, Reinit, AfterReset
<1>7. ASSUME SuspendLock \/ Sleep \/ Wake \/ Woken \/ Resumed PROVE FALSE
  BY <1>7 DEF SuspendLock, Sleep, Wake, Woken, Resumed
<1>8. ASSUME Uk \/ UkReady \/ UkHang PROVE FALSE
  BY <1>8 DEF Uk, UkRead, UkFinish, UkIdle, UkClear, UkReady, UkHang
<1> QED
  BY <1>1, <1>2, <1>3, <1>4, <1>5, <1>6, <1>7, <1>8, <1>9
     DEF Next, App, Misr, Timer, Pm, Call, Recover, Runners

(* The core is powered off as idle only if no kick was written since the   *)
(* microkernel said so, however the kick and the MISR's two looks at the   *)
(* event interleave.                                                       *)
THEOREM IdleFresh == ASSUME SgxAssumption PROVE Spec => IdleIsFresh
<1>1. Init => FreshInv
  BY DEF Init, FreshInv
<1>2. PowerInv /\ FreshInv /\ [Next]_vars
        => [pc["misr"] = "recheck" /\ pc'["misr"] = "disable" => ~kicked]_vars
  <2> SUFFICES ASSUME PowerInv, FreshInv, [Next]_vars, pc["misr"] = "recheck", pc'["misr"] = "disable"
               PROVE  ~kicked
    OBVIOUS
  <2>1. Places
    BY TypeParts DEF PowerInv
  <2>2. Recheck
    BY <2>1, OffAfterRecheck
  <2> QED
    BY <2>1, <2>2 DEF Recheck, StillIdle, FreshInv, Goto, Places, Runners
<1> QED
  BY <1>1, <1>2, FreshStep, PowerInvAlways, PTL DEF Spec, IdleIsFresh
=============================================================================
