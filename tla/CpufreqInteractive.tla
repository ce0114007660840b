------------------------- MODULE CpufreqInteractive -------------------------
(***************************************************************************)
(* The governor src/modules/overclock/cpufreq_interactive.c: an idle hook  *)
(* arms a timer, the timer asks for the highest or the lowest speed in     *)
(* target_freq, one work item on two queues carries it out.  The timer     *)
(* runs in softirq context, between any two steps of the work; nothing     *)
(* locks target_freq or work_cpumask.                                      *)
(*                                                                         *)
(* There is one processor.  The worker of the queue "up" is a real-time    *)
(* thread: once it runs, that of "down" goes on only while the other is in *)
(* the driver, which may wait.  Time is what get_cpu_idle_time_us tells of *)
(* it: whether the clock has moved since the timer was set, whether the    *)
(* processor has slept, and whether the speed is older than                *)
(* min_sample_time.                                                        *)
(***************************************************************************)
EXTENDS Integers

CONSTANTS MIN, MID, MAX    \* speeds; MID stands for those between

VARIABLES
  count,    \* active_count
  wanted,   \* the cpufreq core has started the governor
  hook,     \* pm_idle is cpufreq_idle
  stopping, \* CPUFREQ_GOV_STOP is between its last two calls
  busy,     \* other tasks than the workers are runnable
  asleep,   \* the idle task is in pm_idle_old()
  timer,    \* cpu_timer is pending
  slept,    \* idle time since time_in_idle was taken
  aged,     \* min_sample_time since freq_change_time
  target,   \* target_freq
  mask,     \* the processor is in work_cpumask
  queued,   \* the queue on which freq_scale_work is pending, or "none"
  work,     \* the step of the work of each queue's worker
  cur,      \* policy->cur
  armed,    \* history: the hook has set the timer since the start
  lost      \* history: since the timer was last set, its look was in vain

vars == <<count, wanted, hook, stopping, busy, asleep, timer, slept, aged, target, mask, queued, work,
          cur, armed, lost>>

Queues  == {"up", "down"}
Running == queued # "none" \/ \E w \in Queues : work[w] # "none"  \* a worker is runnable
Alone(w) ==                                \* in a worker: _nr_running() == 1
  ~busy /\ \A o \in Queues \ {w} : work[o] = "none" /\ queued # o
Restart == timer' = TRUE /\ slept' = FALSE /\ lost' = FALSE  \* take the idle time, mod_timer

-----------------------------------------------------------------------------
(* The processor goes to sleep when nothing is runnable; an interrupt ends *)
(* it, possibly after it has made a task runnable.                         *)
Sleep ==
  /\ ~busy /\ ~Running /\ ~asleep /\ stopping = FALSE
  /\ asleep' = TRUE /\ slept' = TRUE
  /\ UNCHANGED <<count, wanted, hook, stopping, busy, timer, aged, target, mask, queued, work, cur, armed, lost>>

(* cpufreq_idle after pm_idle_old                                          *)
Wake ==
  /\ asleep /\ asleep' = FALSE
  /\ IF hook /\ ~timer THEN Restart ELSE UNCHANGED <<timer, slept, lost>>
  /\ armed' = (armed \/ hook)
  /\ UNCHANGED <<count, wanted, hook, stopping, busy, aged, target, mask, queued, work, cur>>

Load(b) ==
  /\ busy' = b /\ b # busy
  /\ UNCHANGED <<count, wanted, hook, stopping, asleep, timer, slept, aged, target, mask, queued, work,
                 cur, armed, lost>>

TimePasses ==
  /\ ~aged /\ aged' = TRUE
  /\ UNCHANGED <<count, wanted, hook, stopping, busy, asleep, timer, slept, target, mask, queued, work,
                 cur, armed, lost>>

-----------------------------------------------------------------------------
(* cpufreq_interactive_timer.  queue_work does nothing if the work is      *)
(* pending on either queue.  A look is in vain if nothing is runnable, but *)
(* the processor is not asleep either: the only task has just ended and    *)
(* the next not begun; if the speed is still high which a request lowers   *)
(* that is pending or being carried out; or if the work then overwrites    *)
(* what was asked for, below.                                              *)
Runnable == busy \/ Running               \* _nr_running() > 0
Request(q, f) ==
  /\ target' = f /\ mask' = TRUE
  /\ queued' = IF queued = "none" THEN q ELSE queued
NoRequest == UNCHANGED <<target, mask, queued>>

(* The clock shows the time at which the timer was set: no look at all.    *)
TimerSame ==
  /\ timer /\ timer' = FALSE
  /\ lost' = (lost \/ ~asleep)
  /\ UNCHANGED <<count, wanted, hook, stopping, busy, asleep, slept, aged, target, mask, queued, work, cur,
                 armed>>

TimerNoIdle ==
  /\ timer /\ ~slept /\ timer' = FALSE
  /\ IF cur # MAX /\ Runnable THEN Request("up", MAX) ELSE NoRequest
  /\ lost' = (lost \/ (cur = MAX /\ Running) \/ (~Runnable /\ ~asleep))
  /\ UNCHANGED <<count, wanted, hook, stopping, busy, asleep, slept, aged, work, cur, armed>>

(* Seeded fault: no second timer for the window the code's comment tells.  *)
TimerIdled_once ==
  /\ timer /\ slept /\ timer' = FALSE /\ UNCHANGED slept
  /\ lost' = (lost \/ (~Runnable /\ ~asleep))
  /\ IF cur # MIN /\ aged THEN Request("down", MIN) ELSE NoRequest
  /\ UNCHANGED <<count, wanted, hook, stopping, busy, asleep, aged, work, cur, armed>>

TimerIdled ==
  /\ timer /\ slept
  /\ IF Runnable THEN Restart ELSE timer' = FALSE /\ UNCHANGED slept /\ lost' = (lost \/ ~asleep)
  /\ IF cur # MIN /\ aged THEN Request("down", MIN) ELSE NoRequest
  /\ UNCHANGED <<count, wanted, hook, stopping, busy, asleep, aged, work, cur, armed>>

-----------------------------------------------------------------------------
(* cpufreq_interactive_freq_change_time_work, on the worker of queue w.    *)
(* The real-time worker may begin at any step of the other.                *)
InWork(w, step) ==
  /\ work[w] = step /\ ~asleep
  /\ w = "down" => work["up"] \in {"none", "drive"}
To(w, step) == work' = [work EXCEPT ![w] = step]

WorkBegins(w) ==
  /\ queued = w /\ InWork(w, "none") /\ queued' = "none"
  /\ To(w, IF mask THEN "test" ELSE "none")
  /\ UNCHANGED <<count, wanted, hook, stopping, busy, asleep, timer, slept, aged, target, mask, cur, armed, lost>>

(* With nothing else to run the request is dropped.                        *)
WorkTests(w) ==
  /\ InWork(w, "test")
  /\ IF target = MAX /\ Alone(w)
     THEN To(w, "none") /\ mask' = FALSE /\ lost' = TRUE
     ELSE To(w, IF target = MAX THEN "drive" ELSE "calc") /\ UNCHANGED <<mask, lost>>
  /\ UNCHANGED <<count, wanted, hook, stopping, busy, asleep, timer, slept, aged, target, queued, cur, armed>>

(* cpufreq_interactive_calc_freq: some part of the present speed           *)
WorkCalculates(w, f) ==
  /\ InWork(w, "calc")
  /\ f \in (IF cur = MAX THEN {MIN, MID, MAX} ELSE IF cur = MID THEN {MIN, MID} ELSE {MIN})
  /\ target' = f /\ To(w, "drive") /\ lost' = (lost \/ target = MAX)
  /\ UNCHANGED <<count, wanted, hook, stopping, busy, asleep, timer, slept, aged, mask, queued, cur, armed>>

(* __cpufreq_driver_target reads target_freq again                         *)
WorkDrives(w) ==
  /\ InWork(w, "drive") /\ cur' = target /\ To(w, "done")
  /\ UNCHANGED <<count, wanted, hook, stopping, busy, asleep, timer, slept, aged, target, mask, queued, armed, lost>>

(* The work that is pending then finds no processor in the mask.           *)
WorkEnds(w) ==
  /\ InWork(w, "done") /\ aged' = FALSE /\ mask' = FALSE /\ To(w, "none")
  /\ lost' = (lost \/ queued # "none")
  /\ UNCHANGED <<count, wanted, hook, stopping, busy, asleep, timer, slept, target, queued, cur, armed>>

-----------------------------------------------------------------------------
(* cpufreq_governor_interactive                                            *)
Start(ok) ==
  /\ ~wanted /\ ~asleep /\ stopping = FALSE /\ (count = 0 \/ ok) /\ count < 2
  /\ count' = count + 1 /\ wanted' = ok
  /\ hook' = (hook \/ (count = 0 /\ ok)) /\ armed' = FALSE
  /\ UNCHANGED <<stopping, busy, asleep, timer, slept, aged, target, mask, queued, work, cur, lost>>

(* Seeded fault: the count is compared as at the start.                    *)
Stop_counted ==
  /\ wanted /\ ~asleep /\ stopping = FALSE
  /\ wanted' = FALSE /\ count' = count - 1
  /\ IF count > 0 THEN UNCHANGED <<hook, stopping>> ELSE hook' = FALSE /\ stopping' = TRUE
  /\ UNCHANGED <<busy, asleep, timer, slept, aged, target, mask, queued, work, cur, armed, lost>>

(* The comparison is with one after the decrement: after a start that      *)
(* failed, which leaves its count, the next stop still undoes the start.   *)
Stop ==
  /\ wanted /\ ~asleep /\ stopping = FALSE
  /\ wanted' = FALSE /\ count' = count - 1
  /\ IF count - 1 > 1 THEN UNCHANGED <<hook, stopping>> ELSE hook' = FALSE /\ stopping' = TRUE
  /\ UNCHANGED <<busy, asleep, timer, slept, aged, target, mask, queued, work, cur, armed, lost>>

StopTimer ==
  /\ stopping /\ stopping' = FALSE /\ timer' = FALSE
  /\ UNCHANGED <<count, wanted, hook, busy, asleep, slept, aged, target, mask, queued, work, cur, armed, lost>>

-----------------------------------------------------------------------------
Init ==
  /\ count = 0 /\ wanted = FALSE /\ hook = FALSE /\ stopping = FALSE /\ busy = TRUE
  /\ asleep = FALSE /\ timer = FALSE /\ slept = FALSE /\ aged = TRUE /\ target = MIN
  /\ mask = FALSE /\ queued = "none" /\ work = [w \in Queues |-> "none"] /\ cur \in {MIN, MAX}
  /\ armed = FALSE /\ lost = FALSE

Timer  == TimerSame \/ TimerNoIdle \/ TimerIdled
Worker(w) ==
  \/ WorkBegins(w) \/ WorkTests(w) \/ WorkDrives(w) \/ WorkEnds(w)
  \/ \E f \in {MIN, MID, MAX} : WorkCalculates(w, f)
Core   == (\E ok \in BOOLEAN : Start(ok)) \/ Stop \/ StopTimer
Next   ==
  \/ Sleep \/ Wake \/ (\E b \in BOOLEAN : Load(b)) \/ TimePasses \/ Timer
  \/ (\E w \in Queues : Worker(w)) \/ Core
Spec == Init /\ [][Next]_vars
FairSpec ==
  /\ Spec /\ WF_vars(Wake) /\ WF_vars(Timer) /\ WF_vars(StopTimer)
  /\ \A w \in Queues : WF_vars(Worker(w))

-----------------------------------------------------------------------------
(* Properties *)

(* Once the hook has run, a processor that stays busy gets the highest     *)
(* speed: also when it was idle for part of the time, after which nothing  *)
(* but a second timer would look again, and whatever two workers and the   *)
(* timer did to each other before.  Excused is only a look in vain since   *)
(* the timer was last set; the next time it is set, by the hook or by      *)
(* itself, counts again.                                                   *)
BusyGetsSpeed == armed ~> (cur = MAX \/ ~busy \/ ~wanted \/ lost)

(* A governor that was stopped leaves neither its hook nor its timer, also *)
(* if an earlier start failed.                                             *)
StopsClean == ~wanted /\ ~stopping => ~hook /\ ~timer
=============================================================================
