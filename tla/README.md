# Specifications for the Milestone 2 device tree

TLA+ specifications, model-checking configurations and proofs for the parts of
this device tree that carry logic of their own: the kernel modules under
`src/modules`, the hardware libraries, and the programs that run outside
Android. Paths below are relative to the repository; line numbers refer to it.

1. [Inventory](#1-inventory) - the system's parts, their state, what is hard
2. [Modules](#2-modules) - which module models what, and how
3. [Runs](#3-runs) - what TLC checks, the bounds, the fairness
4. [Proofs](#4-proofs) - what holds for every value of the constants
5. [Disagreements](#5-disagreements-with-the-code) between the code and what it says of itself
6. [Not modelled](#6-not-modelled), and why
7. [Plan](#7-plan) - what could come next

To check a run: `tlc -config KLogger_laps.cfg KLogger`. To check a proof:
`tlapm NuSensorsProofs.tla`. `PROJECT.json` lists the runs, the source lines
each definition stands for, the hazards, and for each property a seeded fault
("Seeded fault" in the modules: a definition changed as a bug would change it)
that makes it fail.

## 1. Inventory

The repository is a device tree: most of its bytes are prebuilt binaries,
settings, and the third-party graphics driver in `modules/pvr`, some 120,000
lines with its bridges and headers. What remains is some 20,000 lines of C, C++,
Java and shell, in small programs that do not call each other. They meet in the
kernel (hooks on functions of the running, closed kernel), in files under
`/proc`, `/sys` and `/dev`, and in two Android services that call the libraries
from several threads. The phone has one processor: the kernel's spin locks
exclude by switching off preemption and bottom halves, and what runs outside
them interleaves.

| Component | State it keeps | Operations | What is hard | What makes it correct |
|---|---|---|---|---|
| **klogger** `modules/klogger` | ring buffer, write head, start head, an offset for each reader, wait queue, mutex | console write, open, release, read, poll, three ioctls, flush | a writer without a lock against readers that sleep in the middle of a read; entries and lengths that wrap; lapping; test-then-sleep | every offset stands on an entry; a read gives one whole entry, and later ones than before; nobody sleeps over something to read |
| **xt_qtaguid** `modules/netfilter/xt_qtaguid*` | trees of sock_tag, tag_ref, uid_tag_data, proc_qtu_data, tag_stat, counter sets, iface_stat; references on socket files | control commands t, u, d, s; open and release of a device; packet match; `/proc` listings; net-device events | four objects counting each other under two locks, error paths, privileged processes acting for others, user space that skips a step | counts are exact; a tagged socket's file is pinned and released in the end; no BUG_ON; the lists hold what a process's death must free |
| **charge_only_mode** | sorted alarm list, display cycle, wish to shut down, long press | alarms, keys, uevents | alarms of one cycle acting on the next; failed reboots; uevents that arrive together | screen and alarms belong together; a lit screen goes dark; unplugging shuts down |
| **libsensors** | drivers' flags and pending events, circular readers, poll results, wake pipe | pollEvents, activate, setDelay | two threads sharing the drivers' fields without a lock; reads cut anywhere; the array filled exactly | events reach the driver once and in order; the framework's last value is the present one; a pending event is reported |
| **xt_quota2** | named counters with references, a file each, remaining quota | checkentry, destroy, match in three modes, writes to the files | tables replaced under packets; a lock that is held over a sleep | references exact; one counter and one file a name; no rule gives out more than was granted |
| **cpufreq_interactive** `modules/overclock` | target frequency, cpu mask, timer, work on two queues, idle hook | idle, timer, work, start, stop | a timer and two workers sharing one target without a lock | a busy processor gets speed; neither hook nor timer remains after stop |
| **sio-iosched** `modules/overclock` | four fifos, batch and starvation counters | add, merge, dispatch, expiry, setting | opposite preferences inside and after a batch; counters never initialised | synchronous reads and asynchronous writes do not wait for ever; reads pass writes a bounded number of times |
| **debounce** | flags and times of the keypad driver it hooks | seven sysfs stores, init, exit | unlocked read-change-write; restoring at exit | pads, interrupts and chip follow the variables; the keypad is left as it was found |
| **liblights** | battery and notification colours, buttons' brightness as last written | set_light_* | cached value after a failed write; two clients of one LED | the files hold what is believed; one LED tells one thing |
| **pvr: power** `power.c`, `sgx/sgxpower.c`, `sgx/sgxutils.c`, `sgx/sgxinit.c`, `osfunc.c` | who holds the power lock, clocks, device and system power state, watchdog, what the microkernel says | kick, MISR, watchdog, suspend, resume | four threads and an independent processor; idle events that are old when read; lockups; failed power-ups | no register is read without clocks; powered off only when idle; work is done in the end |
| **pvr: flips** `queue.c`, `deviceclass.c` | swap chains, their queues in one list, operations pending and complete on each buffer | create, share, destroy, flip, process queues, completions | flips and renders that wait for each other; a list walked while queues come and go | buffers are shown as ordered; no queue is freed under a walker that has the list's lock; every flip happens |
| **pvr: resources** `resman.c`, `perproc.c`, `sgx/pb.c` | what each process holds; one shared parameter buffer with a count and a creation lock | register, unregister, find, add, process death | a microkernel that answers late or never; death in the middle of a protocol | memory is freed only when it is done with; counts are what processes hold; every process gets away |
| **pvr: mappings** `mmap.c` | areas, offset structures by area and process, the list of those asked for | query, mmap, munmap, release, free, exit | several threads of a process, areas with the same offset, unlocked user space between two calls | what is used is what was asked for; nothing freed is mapped |
| camera: camise, camera_misc, libcamera | power state, standby lines, torch thread, video mode | ioctls of two devices, preview, focus, torch | two devices driving one sensor; a thread against the API | powered exactly while used |
| qtouch_obp_ts2 | mode of the controller, checksum, calibration | irq, work, boot, suspend | interrupts in the middle of boot | irq enabled exactly in normal mode |
| bootmenu scripts, M2Parts | files on the partitions | mount, copy, start | one step of several failing | the old state or the new one |

The remaining components (hooks of a few lines, tables, tools, third-party
code) are listed in `PROJECT.json` with the reason they have no module.

## 2. Modules

```
SockTags  <- QtaguidStats                  what tags promise; what is counted by them
   ^ implements
Qtaguid   <- MCQtaguid                     xt_qtaguid: the records behind the tags
   ^-------- QtaguidSafety <- QtaguidFiles
IfaceStat                                  xt_qtaguid: totals of interfaces
Quota2                                     xt_quota2
KLogger   <- KLoggerProofs                 klogger
CpufreqInteractive, SioSched               modules/overclock
Debounce                                   debounce
ChargeOnlyMode, Lights                     charge_only_mode, liblights
InputEventReader <- NuSensors <- MCNuSensors
                        ^------- NuSensorsProofs
SgxPower <- SgxPowerProofs                 pvr: power
FlipQueue                                  pvr: swap chains and flips
ResMan, MMap                               pvr: resources, mappings

MCModules   Qtaguid, QtaguidStats, IfaceStat, Quota2, Debounce     side by side
MCDevice    ChargeOnlyMode, Lights, CpufreqInteractive, KLogger, Qtaguid
MCGraphics  FlipQueue, SgxPower, ResMan, MMap, SioSched
   ^-------- ModulesProofs, DeviceProofs, GraphicsProofs: what is proved of those parts
```

`A <- B`: B extends A. Parts that interact are composed in one module: polling
and drivers over the circular reader in `NuSensors`; swap chains, queues,
completions and two kinds of walkers in `FlipQueue`; host threads, watchdog,
suspend and microkernel in `SgxPower`; packets and commands over the map of tags
in `QtaguidStats`, which is built on `SockTags`, the abstract specification that
`Qtaguid` implements, so that the accounting is checked against every behaviour
of the tagging code without carrying its records.

The other parts share no state. `MCModules`, `MCDevice` and `MCGraphics` put
several in one run with a variable `turn`, chosen at the beginning, that says
which of them moves: the run explores each part's states completely, and their
sum in all, not their product. A property of one part is not weakened by this,
since the others cannot touch its variables. The constants of the parts are those
of the composition as far as theorems are stated about them, so that a theorem of
`ModulesProofs` speaks of every size and not of the run's.

### KLogger - `modules/klogger/logger.c`

The state is `struct logger_log` and `struct logger_reader`: `buf`, `w_off`,
`off[HEAD]` for `head` and `off[r]` for a reader's `r_off`, the list `readers`
in its order, the `mutex`. A byte of the buffer is a cell `[id, pos]`, "cell pos
of the id-th entry written": enough to tell whole, overwritten and misread
entries apart. What two bytes that are no header say as a length is any member
of `Junk`.

`klogger_kernel_write` is a chain of steps (`WriteHeader`, `FixSkip`,
`FixPull`, `GetNextEntry`, `WritePayload`, `WakeReaders`) in the code's order:
the header is stored and `w_off` moved before `fix_up_readers` runs. The kernel
calls a console with interrupts off and the target has one processor, so a write
runs to its end without another step between; but it may *start* at any
moment, also while a reader sleeps inside `log->mutex`, because it does not take
the mutex. `damaged[r]` remembers that this happened to the call `r` had under
way. A read is split wherever the task can lose the processor: before and after
each copy to user space, and between each line of the wait loop, whose mutex
may itself put the task in the running state.

### Qtaguid - `modules/netfilter/xt_qtaguid.c`

The trees are sets and functions: `stag` (which socket has which tag), `refs`
and `num` (the tag_refs and their `num_sock_tags`), `utd`, `active`, `npqd` (the
uid_tag_data and its two counts), `pqd` (the processes with the device open),
`link` (on whose list a sock_tag is), `fref` (`f_count` of the socket's file).
What runs under `spin_lock_bh` is one step. `ctrl_cmd_tag`, `ctrl_cmd_untag` and
`ctrl_cmd_delete` are cut where they drop the locks, and each of their error
exits is an action. Taking back a failed tagging (`err_tag_unref_put`) is cut
into load, store and free, since it holds no lock; it works on a pointer, so that a
tag_ref freed meanwhile is a bad one (`dangling`) also if the tag has a new one.

A BUG_ON or a bad pointer sets `oops`, and returning with the lock held sets
`leaked`. `excuse` records what the system was put through: a process that skipped the
device, an allocation of a uid_tag_data that failed, a command that cut into the
unlocked part. Properties name the excuses they need, so that a reader sees
under which conditions the code is right.

### ChargeOnlyMode - `charge_only_mode/main.c`, `alarm.c`, `events.c`

The program's state is a record `m` (alarms, brightness, flags). Each handler is
an operator from a state of the program to the next, named as in the code, and
`alarm_process`, `GetKey`, `GetUevents` apply them. The world (charger, battery,
keys, time, other devices' uevents) acts between any two steps. Keyboard events
are taken one at a time from any device that has one, uevents are drained and
only the last is looked at, as in `ev_get`. The list of `alarm.c` is a sequence:
`alarm_set_relative` puts an alarm before the first that is later, `Without` keeps
the positions that `alarm_cancel` does not free, `Pending` is how many it would.

### InputEventReader, NuSensors - `libsensors`

`InputEventReader` is the circular buffer: `Fill` reads behind `mHead`, possibly
over `mBufferEnd`, and copies what ran over to the front; `NextEvent` moves
`mCurr`. `Contents` is what it promises: a queue.

`NuSensors` has the polling thread (`pollEvents`, cut where another thread can
come between), the activating thread (`activate` and the drivers' `enable` and
`setInitialState`), and the devices. The drivers differ in what they do with a
pending event and while disabled; the three kinds are told apart by name.
`readEvents` blocks in `read(2)` when the device has nothing.
`StoreInitial` stores the flag and the value in either order: nothing in the
code fixes it, and the other thread reads both without a lock; `LookFails` is a
device that does not answer, at which `enable` succeeds all the same. `got` is the
value last written to the framework's array for a driver.

### SockTags, QtaguidStats, IfaceStat - `modules/netfilter/xt_qtaguid.c`

`SockTags` is what user space may rely on: a map `tag` from sockets to tags, `by`
(whose death takes the tag away) and `live` (the sockets that exist). Under the
mapping `tag <- stag`, `by <- link`, `live <- {s : fref[s] > 0}` every step of
`Qtaguid` is one of its steps or none.

`QtaguidStats` adds `stat` (interface, tag and counter set to a count), the
counter set of each tag, interfaces that come and go, `ctrl_cmd_delete` in its
four parts, and a reader of `/proc/net/xt_qtaguid/stats` who is given `Pages`
lines at a time. A packet is one step, between any two parts of a command. The
listing is the set of its lines (`LineSet`) with the order the code walks them in
(`Before`): the interfaces in their list, the tags of one as `rb_next` goes through
its tree. `Item(x)` is the number a line has in a walk from the start, 1 plus the
lines before it, since the header is item 0. `TagOrder` stands for the tags' 64-bit
values, of which only the order matters. What the accounting tags of a uid come to
is the cardinality of their shares. `StatsAssumption` names what the constants are:
the tag 0 and the uid 0 exist, a socket has a uid, the tags are finitely many.
`IfaceStat` is the life of one interface's entry over many devices of its name:
registration, up and down, addresses, traffic, and a driver that counts from
zero again.

### Quota2 - `modules/netfilter/xt_quota2.c`

Rules hold counters by name. A table is replaced as the kernel does it (check the
new rules, put them in force, destroy the old ones), rule by rule, while packets
match rules in force and user space writes to the files. `slept` remembers that an
allocation slept while `counter_list_lock` was held, which lets another rule in
on one processor. `QuotaAssumption` says that quotas are natural numbers and that
a packet has at least one byte, which a packet with an IP header has.

### CpufreqInteractive, SioSched - `modules/overclock`

`CpufreqInteractive` has the idle hook, the timer in softirq context and the work
in its steps, on the worker of either queue; what they share is unlocked. The
worker of `up_wq` is a real-time thread and may begin at any step of the other,
which goes on only while the first is in the driver (a driver's call may wait).
Time is three choices: whether the clock has moved since the timer was set, whether
the processor slept since the last look, whether the speed is old enough.
`TimerSame` is the first return of the timer (`cpufreq_interactive.c:90`), taken if
it runs in the microsecond it was set in: it asks for nothing and sets no timer.
`lost` remembers that the last look at the processor was in vain: it ended at that
return, found the speed still high that pending work lowers, found nothing
runnable, or its wish was overwritten by the work. It is forgotten when the timer
is set again. `SioSched` has the
scheduler's functions as the block layer calls them, under the queue's lock;
`starved` and `writes_starved` begin with any value, as nothing sets them.
`FIFO_BATCH` is 8 in the code and at least 1 here (`SioAssumption`): user space may
store 0, and then every dispatch but the first looks for expired requests first
(`sio-iosched.c:196`) and may find a read each time, without the bound that
`ReadsBounded` states.

### Debounce, Lights - `modules/debounce`, `liblights`

A store of `Debounce` is a process that can lose the processor between reading
the flags and writing them, and between those and pads and interrupts; loading and
unloading run beside them. `Lights` has the calls under `g_lock`, each file's
write failing or not.

### SgxPower - `modules/pvr`

The driver as this phone builds it: a release build with active power
management, hardware recovery, interrupts, the MISR on a work queue of one
thread and the timers on work queues of their own
(`modules/pvr/Makefile` and `eurasiacon`). All ioctls and releases run under
`gPVRSRVLock` (`bridge`); the power lock is `lock`. The threads `app`, `misr`,
`tmr` and `pm` move by `pc`; `PowerLock`, `PowerUp`, `PowerOff` and their
failures are common to them as the functions are in the code. What the
microkernel does is known only from what the driver expects: it reads the
command buffer, finishes work, raises ACTIVE_POWER when idle, may lock up, and may
notice that itself and ask for a recovery (`hwr`). `HWRecoveryResetSGX` (`Reset`,
`Reinit`, the queues) has two callers, the watchdog and the MISR; its
`SGXInitialise` may fail, and then the core stays locked up. `OSDisableTimer` is
its four calls (`Disable`, `Flush`, `Delete`, `FlushAgain`).
`kicked`, `leaked` and `gaveup` are history.

### FlipQueue, ResMan, MMap - `modules/pvr`

`FlipQueue`: a flip is a command with the counts it waits for; `Ready` compares
them as `PVRSRVProcessCommand` does, `FlipDone` and `RenderDone` count up. The
phone's display driver, `omaplfb`, is in the model with what it decides: it has one
chain at a time, flips on a work queue that the chain's destruction waits for, and
forgets a flip of a chain that is gone. An
ioctl that creates or destroys a queue is cut where it takes and leaves the list's
resource, and a walker at every queue. `freed` are queues whose memory was given
back. Any number of walkers may go through the list: the MISR, and the MISR or the
watchdog after a recovery (`PVRSRVProcessQueues(IMG_TRUE)`, `sgxinit.c:1590`).
`owner` is the walker that took the lock last, `robbed` that another gave it back.
`Ready` leaves two things of `PVRSRVProcessCommand` out: `CheckIfSyncIsQueued`, which
with one COMMAND_COMPLETE_DATA changes nothing, and the dummy processing of
commands whose counts a recovery made stale (`bFlush`).

`ResMan`: each process's list of resources by type, freed in
`PVRSRVResManDisconnect`'s order, with `SGXCleanupRequest` (ask, poll, read the
answer) in the middle and the bridge mutex released while it retries. `gone` and
`using` say whose memory is freed and what the microkernel works with. The order of
contexts in a list is kept, as it decides who is freed first; references to the
shared buffer are alike, and only their number is.

`MMap`: the protocol of query, mmap, munmap and release with its structure of an
area and a process. The areas have one offset, as parts of one allocation do, so
that `FindOffsetStructByOffset` has something to confuse. User space locks as
the comment at `mmap.c:453` requires. The list of structures has no order in the
model: what is looked for in it is a structure of the caller's own thread with that
offset, and there is never more than one (`OnlyOne`, a part of `MappingsHold`), so
that the first found is the only one. Giving an area back destroys the structures
that were asked for and never mapped, in the list's order, up to the first that is
still mapped, at which it fails.

## 3. Runs

Passing runs (TLC explores every behaviour within the bounds):

| Run | Question | Bounds, and why they are enough |
|---|---|---|
| `klogger_laps` | Do offsets stay on entries, and reads whole, when the writer laps? | A log of 16 bytes, entries of 4 and 5 bytes, six lines: the log is filled more than once and entries start at every alignment to its end, with headers, lengths and payloads that wrap. One reader is enough to be lapped in every step of a read. |
| `qtaguid_shared_socket` | Are all counts exact in every order of tag, retag, untag, delete, open, close, with every failure? Does all of it amount to a map from sockets to tags? | Two processes of one uid, one socket that both may hold, two accounting tags with room for both, so that a socket can move from one to the other. Two processes are enough for every pair of commands to overlap; more sockets only add to counts, which the proof covers for every number. |
| `sensors_poll` | Do events arrive once and in order; is the framework's value the present one; is a pending event reported? | Buffers of 3 slots (drivers use 4 and 32): packets of two events wrap at an odd length, in the middle of a packet. An array of 2 where the framework has 16: it is filled exactly and left over. Three changes of value, two calls of activate. The lengths are proved to be immaterial to the order of events. |
| `modules` | Tagging for another uid; accounting against deletion and paged listing; interfaces; quotas; the keypad's files | Tagging: two uids, one process of each, one privileged, one tag a uid. Statistics: an interface, a process and root, an accounting tag, two packets, pages of one and two lines: every line of the listing can be the last of a page. Interfaces: 12 events, three units of traffic: three devices of a name. Quotas: three rules in two tables sharing a name, one in each mode, and a rule without a name; three counters, one more than live at once unless a name is doubled. Keypad: two writers, three stores. |
| `device` | Charging screen, LEDs, governor, waiting readers of the log, a failed tagging | Charging: alarms of 1 to 4 ticks in the order of the code's times; two key presses (the second can end a cycle the first began) and two waiting uevents (one can hide another); reboots succeed or fail. LEDs: all colours, brightness of 0, 1 and 2: on, off and a change while on. Governor: its state is finite but for `active_count`, which stops at two: one start that failed and one that did not. Log: 8 bytes and entries of 5, one line: a waiting reader needs no more than one to wake up for; two readers in read, poll, open and release (lines that lap are `klogger_laps`). Sockets: one process, two tags and a quota of one. |
| `graphics` | Power, flips, resources, mappings, and the I/O scheduler | Power: the events of `MCBudgets`, chosen so that troubles meet: two kicks around an idle event with work that becomes ready meanwhile, a sleep with such work or a failed power-up or a lockup, a lockup with a recovery that fails. (With two kicks and one of each at once `SgxPower` has 3.2 million states and keeps its safety properties.) Flips: two chains of two buffers, queues of two commands, two processes, two orders of renders and flips, and the display's one chain at a time: a second chain is refused, or made after the first was given up on with a flip still in its queue. (With three orders and three chains `FlipQueue` has a million states, and with the watchdog as a second walker 440,000; its safety properties hold in both.) Resources: two processes, a context, one shared buffer with up to two references each, one answer that comes too late. Mappings: two threads of a process and one of another, two areas of one offset, three addresses. Fifos: two reads and two writes, batches of three. |

Between them these runs fire every action of every next-state relation, and for
each property a seeded fault in the model of the code makes it fail.

State constraints and deadlock: `qtaguid_shared_socket` and `modules` do not
follow behaviours beyond an interrupted unlocked update (`Explored`), after which
the counts may drift without end; the runs under *Disagreements* do. The sensor
runs do not check for deadlock: the polling thread may wait in `poll(2)` or in a
read for as long as no device sends and nobody calls activate, which is how the
library rests. The three runs of parts side by side do not either, because bounded
parts come to rest: all interfaces' events used up, all kicks done, every process
gone. What must go on is stated there as liveness.

Fairness:

- `KLogger`: a write, once begun, runs on, and a task in the kernel that can run
  gets the processor (weak fairness of each reader's steps): the kernel is
  preemptive and no step waits for user space. Printing, opening, reading,
  signals and timeouts need never happen.
- `Qtaguid`: a process inside a command runs on, for the same reason. User space
  need not do anything.
- `ChargeOnlyMode`: the program runs on, time passes, and the power key is not
  held down for ever; without the last, a failed reboot by a long press would
  leave the screen lit while the key is held.
- `NuSensors`: the framework's thread calls `pollEvents` over and over, and a
  call of activate comes to its end. Nobody has to call it.
  `PendingIsReported` assumes in addition that no read waits for ever, which
  the code does not guarantee (see `sensors_full_count`).
- `CpufreqInteractive`: a processor that sleeps is woken, timers fire, the worker of
  each queue runs its work, a stop that has begun ends. The load, the idle loop, time
  and user space are free.
- `SioSched`: the block layer dispatches whenever something is queued, and time
  expires every request that waits.
- `SgxPower`: MISR, watchdog and the microkernel go on (weak fairness); an ioctl
  and suspend, which take locks that others take again and again, are strongly
  fair, as the kernel's mutexes queue their waiters. The microkernel need not
  raise idle events, and lockups, sleeps and failures need not happen.
- `FlipQueue`: renders and flips that were started complete, an ioctl under way goes
  on, the MISR runs when queued; a walker, which must win a try-lock against
  ioctls, is strongly fair. `ResMan`: the microkernel answers requests, time
  passes, a dying process gets the bridge mutex (strong, as above); renders need not end.

A run checks some invariants as one conjunction, which its module names last: `OffsetsHold`,
`AlarmsBelong`, `AccountsHold`, `TrafficCounted`, `CountersHold`, `KeypadFollows`, `PowerIsSafe`,
`ListIsSafe`, `BufferIsOwned`, `MappingsHold`. The parts are stated and explained one by one.

In a run of parts side by side each fairness condition is restricted to its part's
`turn`. `MCGraphics` joins one strong condition of each part by "or": only one part
moves in a behaviour, so the disjunction is the condition of that part.

## 4. Proofs

Every safety property that a passing run checks, invariant or action property, is
stated by a theorem and proved by TLAPS for all values of the constants that
satisfy the named assumptions.
What a run shows of a handful of readers, rules or bytes holds for any number:

| Theorem | Says | Assumes |
|---|---|---|
| `QtaguidSafety!TypeCorrect` | `Spec => []TypeOK` | `QtaguidAssumption`: finite sets of processes, uids, tags and sockets; sentinels outside them |
| `QtaguidSafety!ListsCorrect` | every sock_tag is on the list of one live proc_qtu_data, if the device is opened first | the same |
| `QtaguidSafety!CountsCorrect` | `num_sock_tags`, `num_active_tags`, `num_pqd` are exact | the same |
| `QtaguidSafety!NeverOops` | no BUG_ON, no bad pointer, no lock left held, without excuses | the same |
| `QtaguidFiles!FilesCorrect` | `f_count` of every socket's file is exactly the references to it | the same |
| `QtaguidFiles!ImplementsMap` | `Spec => ImplementsSockTags`: the records implement the map of `SockTags` | the same |
| `ModulesProofs!TrafficCorrect` | interface totals: all traffic once, or a reset went unnoticed; never twice | nothing |
| `ModulesProofs!AccountsCorrect` | {0, uid} holds all that was counted for the uid since it was erased; its accounting tags never come to more; no entry outlives its parent | `StatsAssumption`: finitely many full tags, the tag 0 and the uid 0 among them |
| `ModulesProofs!ListingCorrect` | a listing read page by page shows no line twice unless one was added, and misses none unless one was erased | the same; `TagOrder` tells tags apart |
| `ModulesProofs!CountersCorrect` | a counter's references are the rules that use it; no rule gives out more than was granted; one counter and one file a name | `QuotaAssumption`: finitely many rules, natural quotas, packets of at least a byte |
| `ModulesProofs!KeypadCorrect` | pads, interrupts and chip follow the variables | `DebounceAssumption`: times are natural numbers (0 to 255 are accepted) |
| `KLoggerProofs!OffsetsCorrect` | start head and readers stand on entries whose bytes are all in the ring | `SizesAssumption`, `ActorsAssumption`, `LinesFit` |
| `KLoggerProofs!ReadsCorrect` | a read returns one whole entry, later than the one before | the same |
| `KLoggerProofs!SkipsCorrect` | a read moves its reader to the next entry or to the write head | the same |
| `KLoggerProofs!LengthsCorrect` | the two length ioctls return the bytes not read and the size of the next entry | the same |
| `DeviceProofs!AlarmsCorrect` | the alarms pending are those that screen and power key call for, in order, one of a kind | `ChargeAssumption`: positive times |
| `DeviceProofs!ButtonsCorrect` | the buttons' files hold what the cache says | `LightsAssumption`: natural brightnesses |
| `DeviceProofs!LedCorrect` | one LED is lit at most, and blinks as asked | nothing |
| `DeviceProofs!StopCorrect` | a stopped governor leaves neither hook nor timer, also if a start failed before | nothing |
| `GraphicsProofs!PowerSafe` | the watchdog reads only with clocks, the core is dark in suspend, the power lock is released | `SgxAssumption`: a natural size of the CCB, a positive lockup count |
| `GraphicsProofs!IdleFresh` | no idle power-off on a word that a kick has crossed | the same |
| `GraphicsProofs!ShownInOrder` | no render into a buffer on the display is complete that was ordered after the flip | nothing |
| `GraphicsProofs!QueuesCorrect` | no queue is freed under a walker, of any number of them, before one gave back another's lock; a queue that is being destroyed is in the list; no more is complete than was ordered | `FlipAssumption`: a natural length of a queue |
| `GraphicsProofs!MemoryCorrect` | the microkernel uses no context whose memory was freed, with the exceptions `FreedWhenDone` names | `ResManAssumption`: finitely many processes, sentinels outside the data |
| `GraphicsProofs!BufferCorrect` | the shared buffer's count is what the processes hold; who may create it is connected | the same |
| `GraphicsProofs!MappingsCorrect` | what is used was asked for by that process; what is given back is not mapped; structures are true, one matching structure at most | `MMapAssumption`: finitely many threads, sentinels outside the data |
| `GraphicsProofs!ReadsAreBounded` | at most `writes_starved` reads and two pass a waiting write, once the setting has a value | `SioAssumption`: `fifo_batch` is not 0 |
| `NuSensorsProofs!TypeCorrect` | `Spec => []TypeOK` | `NuSensorsAssumption`: distinct drivers; positive buffer length and array |
| `NuSensorsProofs!EventsCorrect` | `Spec => EventsInOrder` | the same |
| `NuSensorsProofs!ValueCorrect` | `Spec => []ValueIsCurrent`, for the light sensor too, which the run leaves out | the same |
| `NuSensorsProofs!FillAppends`, `NextTakesHead` | the circular reader is a queue | `ReaderAssumption`: a positive length |

**Parts side by side.** A theorem of `ModulesProofs`, `DeviceProofs` or
`GraphicsProofs` is about the composition's specification, the one the run checks.
Its invariant is over one part's variables; a step of the composition is either a
step of that part, for which a lemma `...Step` keeps the invariant, or leaves its
variables alone. No theorem relies on which part moves first.

**Qtaguid.** `TypeOK` is inductive; it carries that a process at a step has the
socket and tag that step uses. `ListsTrackTags` is inductive with it.
`CountsExact` is inductive with `TypeOK` because `RefCounted` also counts the
failed taggings which are still to be taken back (`Unrefing`): between the two
locked parts of a failed tagging the count is one too high, and that is exactly
one process at `unref_load` or `unref_store`. The lemmas on cardinalities
(`TagMoves`, `TagsCleared`, `TagRefMade`, `TagRefsFreed`) say what adding,
moving and clearing tags does to the counted sets. `NeverOops` follows from the
three: each BUG_ON's condition contradicts a count.

`FilePinned` counts, per socket, the processes that have it open, are inside a
command on it, or have still to put it: sets of processes (`Holders`, `Callers`,
`Untaggers`, `Deleters`, `Releasers`). It is inductive with two facts that the code
relies on without saying so: only a delete has sock_tags to free (`FreesOfDelete`),
and a sock_tag on a list is in the tree (`ListedTagged`). A step is one process's,
so that each of these sets changes at most at that process; `CardAt` and `PinsAt`
turn this into a balance of one socket's references, which each action then meets.

**The refinement.** The map is `stag`, the giver `link`, and the sockets that live
those with a reference. Two facts carry it: a process about to tag or delete may
use the uid it names (`Authorised`: the check was made when the command began), and a
tagged socket has a reference (`TaggedLive`, from `FilePinned`), so that putting the
last one never takes a tagged socket away.

**The counters of tags.** `StatInv`: the parts of `ctrl_cmd_delete` erase {0, uid}
only together with all tags of the uid, so no `tag_stat` is left whose parent is
gone (`orphan = {}`); and a packet adds to its own entry exactly what it adds to its
uid's, so the shares of the accounting tags, as a set, stay within the total
(`Totals`). Both need that a packet is one step and the commands are not.

**The paged listing.** A reader comes back with the number of the next item and
finds the lines numbered anew. `ListInv` rests on the order being the same for
lines that stay: a line that is added moves others only back and a line that is
erased moves others only forward (`ListGrows`, `ListShrinks`). So as long as none
was added, what has been shown has a number below the next (`Shown`), and as long
as none was erased, what is due has one that is not (`ToCome`). `Fathers` says that
a tag has no line without its uid, so that a packet adds lines of its own uid only.

**Interfaces.** While something went unnoticed the total is only bounded
(`AtMostOnce`): what is totalled and what the device counts now were both sent, and
a stash that the device has fallen below was sent before what it counts now, so
that adding it later counts nothing twice. As long as nothing went unnoticed
(`AllCounted`) the sum is exact, a stash belongs to an active entry and the device
has not fallen below it: a comparison finds a reset when the next address comes up.

**Quotas.** A rule is at one place of its way and has a counter from check to
destruction (`RulesInv`); a counter on the list counts the set of its rules, any
other has one (`RefsInv`). `SharedInv` is what holds while nobody slept under the
lock: at most one rule is making a counter, and no other has that name.

**The keypad.** With no two stores crossing, a writer's place says what the pads,
the interrupts and the chip do not know yet (`FlagsAt`, and the like for the
hardware debounce); once all are idle, they know everything.

**KLogger.** The invariant counts bytes from the first one ever written: there is a
placement `P` of the entries, end to end (`Laid`), such that the last `N` bytes below
the write head are in the ring (`Kept`), and every cursor that the code answers for
stands on an entry of it that will not be overwritten before it is moved (`Stands`).
What "before it is moved" means differs inside a write: `fix_up_readers` walks a list,
so that those still in `todo` may be passed by the header but not by the payload, and
those done are already past the payload. A reader into whose call a line was printed
(`damaged`) is excepted, since there the property is false (section 5). `Reads` adds
what a read has copied. `ReadsSkipNothing` and the order of ids come from `P` being
increasing. `SizeFrom`, by which `LOGGER_GET_LOG_LEN` adds the entries up, is a
recursive function; that it is the distance of `P` is proved by the least entry for
which it would fail.

**ChargeOnlyMode.** `Listed`: the alarms are sorted, and of a kind there is one at
most. So the list is told by its set of kinds (`KindsOf`), and each handler by what
it does to that set (the lemmas `...Does`): setting an alarm of a kind that is not
pending adds it, wherever in the list it goes (`SetListed`), cancelling takes it away
and keeps the others in order (`WithoutListed`), running takes the first
(`TailListed`). `Screen` then relates the kinds of the display cycle to brightness
and blanking, and `KeyAlarm` the long press to the key as the program last read it.
What it read last is known from the queue: downs and ups in turn, the last of them
the key's present position (`Moves`). This is what excludes that a power_key alarm
fires after its key was released but before the release was read: it may, and then
`SeenDown` still holds.

**Lights, governor.** The charge LED is asked for only while the battery has no
colour of its own to show (`ChargeIsAlone`). The governor is counted when it is
wanted; a start that failed leaves one more in the count for good, and from then on
no hook is set (`GovernorInv`). Between the two parts of its stop the hook is already
gone, so nothing arms the timer again.

**SgxPower.** `PowerInv` says what each thread may count on at its step: in a
critical section it has the lock (`LockInv`); the watchdog is stopped in the order
of `OSDisableTimer`'s calls, so that after each of them one more of its parts stands
still (`WatchInv`); a device that is on has its clocks, and clocks without one are
those of a failed power-up (`ClockInv`); from the power-off of a suspend to the
resume the core stays off (`SleepInv`). `IdleIsFresh` rests on `FreshInv`: an idle
event that the host has not withdrawn is younger than every kick, since a kick
withdraws it. The proofs are in `SgxPowerProofs`; `GraphicsProofs` shows that the
composition's power part is a behaviour of `SgxPower`.

**FlipQueue.** The invariant orders every queued flip and every render of one
buffer (`Fine`): a render counted after the flip waits for a read beyond the
flip's. A flip on the display has its counts met exactly (`Turn`), hence the
render whose turn comes is none of these. `ShownInOrder` needs nothing of the lock of
the list. `QueuesCorrect` does: freed are exactly the chains that are not in the list
(`PlacesInv`), and a walker that stands on one has the lock and took it last
(`LockedInv`). The lock is made anew only when the list is empty, and a walker that
holds the old one then stands on nothing; the harm begins when it gives back, by name,
the new lock that another has taken since. That step sets `robbed`, it needs two
walkers, and it is the only one that breaks the invariant, for any number of them
(section 5).

**ResMan.** `ListsInv`: one thread is under the bridge mutex (`PlaceInv`), what it frees
is in its list (`ItemInv`), a context is in one list, once (`ListInv`), and the buffer's
count is the number of references in the lists, counted as pairs of a process and a
number. `AnswerInv`: while no answer came late, the request that waits, or the word
the microkernel has given, is about the item of the thread that asked; this is what
lets a thread free when it reads "done".

**MMap.** A structure counts the threads that refer to it, and is on the list only
while the thread that put it there has user space's lock and goes on to the mmap
(`KeyInv`). Hence the structure that `FindOffsetStructByOffset` finds for a thread is
its own although areas share an offset (`FoundIs`).

**SioSched.** `starved` counts the reads that pass a waiting write. Past
`writes_starved` a read is chosen only because it expired, and only the first
dispatch of a batch looks for those; the second cannot be one (`SioInv`).

**InputEventReader.** The whole difficulty is modular arithmetic: `OldSlots`
says that what is read behind the queue meets none of its slots, `NewSlots` that
it ends in the slots after it, with those past the end copied to the front,
`NextSlots` that one step on every slot is the next one. `ReaderOK` lets `mHead`
rest on `mBufferEnd`, which it does in the code and `mCurr` does not; so head
and queue end agree only up to one turn.

**NuSensors.** `TypeOK` is not inductive. `IInv` adds that what waits in a reader
consists of events (a slot outside the queue may hold anything), that a thread
inside `readEvents` is at a driver and, before it copies a pending event, has room
for it, that a call under way is on a driver, and that `pipe`
plus the call under way is at most the number of calls, which bounds the wake
pipe. For `EventsInOrder` a fill is `Contents \o read \o rest` regrouped
(`FillStep`), a drain takes the head of the concatenation (`DrainStep`,
`TailOfConcat`), a change appends to it. For `ValueIsCurrent`, `IFollows` tracks a
value from the device to the framework: the last two unread events report it
(`Ends`); once at most one event is left, what `setInitialState` saw is the
device's value (`SawNow`), the driver holds it or is about to be given it
(`HoldsNow`); once none is left, the framework has it or is owed it (`HasNow`).
`crossed` excuses exactly the steps at which one of these breaks.

**What the model had to say for this.** A theorem is about all values of the
constants, so the modules name what the code takes for granted: the assumptions in
the table. Definitions that counted or cut sequences recursively say the same
without recursion: positions that are kept (`Without`), the cardinality of a set
(`Pending`, the shares of a uid), the number of lines before a line (`Item`).

Model-checked only: liveness, which is outside the prover (`NoLostWakeup`,
`FileReleased`, `LitGoesDark`, `PendingIsReported`, `BusyGetsSpeed`, `WorkIsDone`,
`FlipsHappen`, `EveryoneLeaves`, `Served`): each needs fairness, and with it ENABLED
of the steps it is fair to.

## 5. Disagreements with the code

Each of these runs ends with a behaviour that contradicts what the repository
says of itself:

- `klogger_unlocked_writer`: "The caller needs to hold log->mutex"
  (`logger.c:301`), and the console writer does not. The run shows an open that is
  preempted after `r_off = log->head` (439) and before it links its reader (440):
  the log is full, a line printed meanwhile overwrites its oldest entry,
  `fix_up_readers` does not see a reader that is on no list, and it is linked in the
  middle of an entry. A longer behaviour does
  the same to a read: a line printed between `get_entry_len` (225) and the update of
  `r_off` (165) pulls `r_off` forward, and the old length is added to it.
- `qtaguid_forgotten_open`: the code is "trying to work around apps that didn't
  open the /dev/xt_qtaguid" (`xt_qtaguid.c:1890`). Whether a sock_tag is on a list
  depends on the process that tags, whether it is taken off on the one
  that untags.
- `qtaguid_unlocked_error_path`: "use uid_tag_data_tree_lock"
  (`xt_qtaguid_internal.h:323`), and `err_tag_unref_put` (2174-2176) counts down
  with no lock.
- `charge_unplugged`: "When the charger is unplugged the device shall shutdown
  at once" (`main.c:120`). In the dark, a uevent of another device right behind
  the battery's hides it.
- `sensors_full_count`: "or just wait if we don't have anything to return"
  (`nusensors.cpp:165`). A driver that filled the array to the last place is read
  again in the next call without poll having said that it has something, and that
  read waits, with another driver's events already in the array.

- `resman_timeout`: "Ensure that there are no resources left"
  (`modules/pvr/resman.c:376`). `FreeResourceByCriteria` goes on to the next
  resource of a type only while the last one returned PVRSRV_OK; a render context
  whose cleanup took too long returns PVRSRV_ERROR_TIMEOUT_POLLING_FOR_VALUE
  (`sgx/sgxutils.c:964`) although it was freed, and the next one is left in a list that is then thrown away.

Met while modelling, and without a run of their own. Where a property has an
exception for one of these it does not guard against it: the exception is a history
variable, and says from which step on the code goes wrong. `PROJECT.json` lists such
a hazard without a property, or with one for its other half.

- `qtudev_open` returns on a failed allocation (`xt_qtaguid.c:2527`) with
  `uid_tag_data_tree_lock` held: the label it jumps to is behind the unlock. The model sets `leaked`; `NoOops` excuses it with `utd_alloc`.
- `get_tag_ref` stops the system when an allocation fails (`xt_qtaguid.c:636`).
  The model sets `oops`, with the same excuse.
- `xt_qtaguid_internal.h:333` says a tag_ref "can only be removed during a tag
  delete command"; a tagging that fails and a release of the device free it too.
- `klogger_kernel_write` clamps a line to `header.len - ret` with `ret` always 1:
  a line longer than the largest payload is stored longer than its header
  says. With `Counts = {2, 5}`, `MaxPayload = 6`, `PREFIX = 2` in
  `KLogger_laps.cfg`, `CursorsOnEntries` fails. The theorems of `KLoggerProofs`
  have `LinesFit` as a hypothesis, which says that no line is clamped: `printk`
  formats each call into 1024 bytes, and the largest payload is 4076.
- `ctrl_cmd_delete` looks for the counter set under the full tag
  (`xt_qtaguid.c:1912`) though counter sets are kept under the uid's tag: with an
  accounting tag it finds none. `DeleteCounterSet` models what it does.
- `create_if_tag_stat` returns NULL when memory is short and its result is used at
  once (`xt_qtaguid.c:1341`): `ParentsAlive` excuses it with `statOom`.
- `q2_new_counter` allocates with GFP_KERNEL and makes a file while
  `counter_list_lock` is held (`xt_quota2.c:119`); `NamedShared` excuses it
  with `slept`.
- sio-iosched says of writes_starved "max times reads can starve a write"; reads pass
  up to twice more (`ReadsBounded`), and neither it nor `starved` is ever
  initialised (`sio-iosched.c:251`): a large value left in memory makes it
  meaningless until somebody writes the file.
- `SGXScheduleCCBCommandKM` returns from a failed power-up with the power lock
  held (`sgxutils.c:718`); `LockIsReleased` and `WorkIsDone` excuse it with `leaked`.
- The lock of the list of queues is made anew whenever the list is empty
  (`queue.c:435`), also while a walker holds the old one, and is given back by its
  name, which all walkers share. With the MISR and the watchdog, which walks after a
  recovery (`Walkers = {"misr", "tmr"}`), one in an empty list gives back the lock the
  other took anew, and a queue can be freed under the other: 14 states without the
  exception `robbed` of `QueueKept` and `FlipsHappen`. The run has the MISR alone,
  as two walkers are sixteen times the states; the theorem is about any number.
- The recovery by the MISR (`sgxinit.c:1832`) does not ask whether the core has power.
  A suspend that met a lockup cuts the clocks without an answer; a recovery asked for
  before can take the lock after the resume and re-initialise a core without clocks
  (22 states, found by putting `misr` into `WatchedWithClocks`, which is about the
  watchdog: that one is waited for by every power-off).
- A chain whose queue does not run empty in time is destroyed with its queue left in
  the list (`deviceclass.c:1143`). Its flip is later given to the display,
  whose `ProcessFlipV1` finds the chain gone, says the command was taken and never
  completes it (`omaplfb_displayclass.c:963`): the one COMMAND_COMPLETE_DATA stays
  in use, and no flip of a later chain is shown. `FlipsHappen` excepts it. (If the
  new chain's structure lies where the old one's lay, the check of 182 compares the
  new chain with itself; that reuse of memory is not modelled.)
- A cleanup request whose poll timed out is answered later, and that answer is
  taken for the next request's (`sgxutils.c:866`): `FreedWhenDone` excuses
  it with `unheard`.
- `pollEvents` adds a negative error of `readEvents` to its count
  (`nusensors.cpp:158`); errors of `read(2)` are not modelled.
- What liblights believes is stored although the write failed (`lights.c:195`), so
  that the next call with the same brightness writes nothing: `ButtonsAsBelieved`
  excuses it with `stale`.
- Two stores that cross in `debounce` lose one another's change (`debounce.c:255`):
  `KeypadFollows` excuses them with `crossed` and `hwcrossed`, and a store before the
  saving or after the restoring with `outside`.
- In `cpufreq_interactive` a wish may be lost to pending work or to the timer's first
  return (`cpufreq_interactive.c:90`), until the timer is set again: `BusyGetsSpeed`
  excuses it with `lost` until then.
- Of sio-iosched's four classes asynchronous reads and synchronous writes may wait for
  ever: `Served` is about the other two, and fails if a request of these is added.
- `ValueIsCurrent` needs its exceptions, `crossed`: a sensor read by the polling thread while
  `setInitialState` has looked at the device but not stored what it saw ends
  with the older value, until the next change; and one whose device did not answer
  `setInitialState` is switched on and reports nothing until then.

## 6. Not modelled

- Within the modelled components: klogger's RESIZE_LOG hook and
  `klogger_aio_write` (which no file_operations names); xt_qtaguid's parsing and
  debug printing; drawing and the parsing of sysfs in charge_only_mode; in
  libsensors the magnetometer's driver, setDelay, and errors of `read(2)`; CPUFREQ_GOV_LIMITS and the sysfs file of the governor; the stores of
  `fifo_batch` and of the expiry times; lights that are one write to one file.
- In `modules/pvr`: the bridges, which unpack each ioctl's arguments and call one
  function (9,000 lines without state); `mm.c`, `buffer_manager.c`, `ra.c`,
  `mmu.c`, the allocators of memory and of device addresses, whose data
  structures are shared by nobody but the ioctl that holds the mutex; `handle.c`;
  transfer and 2D contexts, whose cleanup is a copy of the render contexts'; power
  of other builds (no PDUMP, no SUPPORT_HYBRID_PB, no multi-core); of `omaplfb` the set-up of
  the frame buffer, blanking, and the waits for vsync. A second ioctl of a dying process's pid while its
  cleanup sleeps without the mutex (`resman.c:897`) is not modelled: a process
  opens the driver again only after its death is complete.
- Values: bytes of a message, tag numbers, distances and times are opaque, except
  where they decide a branch.
- Memory: allocation failures are modelled in xt_qtaguid, xt_quota2 and pvr's power-up,
  where the code has a path for them that changes state, for the shared buffer's
  descriptor (`pb.c:359`), and nowhere else.
- Components without a module: see `PROJECT.json` for each one's reason. In
  short, third-party code (`bluedroid.c`, `tools`), hooks that
  replace one function or register (`clockfix`, `gpiofix`, `mmcfix`, `tls`,
  `thumbee`, `symsearch`), wrappers of closed libraries and firmware (`libcamera`,
  `qtouch_obp_ts2`), tables and constants, and `2nd-init`, whose effect is processor
  state.

## 7. Plan

In the order of what matters most:

1. *pvr's memory*: reference counts of memory infos across `SHARED_MEM_INFO` and
   mappings of one process's memory into another; `handle.c`'s free list and
   batches of handles, whose release must be all or nothing.
2. *`KLoggerResize`*: the hook on log_main (`logger.c:602`, 671-698, 738-758):
   copying the small log to the large one under its readers, and back at unload.
3. *`AkmSensor`* in NuSensors: two handles in one driver, one pending mask, delays.
4. *boosted and smartass*, which follow the screen besides the load.

New runs take the place of ones that a proof makes redundant, so that the number
of runs stays small.
