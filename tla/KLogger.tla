------------------------------ MODULE KLogger ------------------------------
(***************************************************************************)
(* The "kernel" log of src/modules/klogger/logger.c: a ring buffer that    *)
(* the console writes (klogger_kernel_write) and that any number of        *)
(* readers follow, each with an offset of its own.                         *)
(*                                                                         *)
(* The console writer takes no lock.  The target has one processor and the *)
(* kernel calls a console with interrupts off, so no other step runs while *)
(* a write is under way (CpuIdle); but a write may START while a reader or *)
(* a flush is preempted inside log->mutex.  damaged[r] remembers that this *)
(* has happened to the read or open that r had under way.                  *)
(*                                                                         *)
(* Bytes are cells [id, pos]: cell pos of the id-th entry written; an      *)
(* entry's length field is its cells 0 and 1.                              *)
(***************************************************************************)
EXTENDS Integers, Sequences

CONSTANTS
  N,          \* log->size
  HDR,        \* sizeof(struct logger_entry)
  PREFIX,     \* the priority byte and the tag that start a payload
  MaxPayload, \* LOGGER_ENTRY_MAX_PAYLOAD
  Counts,     \* lengths of the lines the console is given
  Junk,       \* what two bytes that are no header may say as a length
  Readers,    \* files open for reading
  HEAD,       \* the cursor log->head, where new readers start
  FLUSHER,    \* a file open for writing, on which LOGGER_FLUSH_LOG is called
  NONE,       \* nobody
  MaxWrites   \* bound: lines written in a behaviour

ASSUME SizesAssumption ==
  /\ N \in Nat \ {0} /\ HDR \in 2 .. N - 1 /\ PREFIX \in Nat \ {0} /\ MaxPayload \in Nat \ {0}
  /\ Counts \subseteq Nat /\ Junk \subseteq Nat /\ MaxWrites \in Nat
  /\ \A j \in Junk : HDR + j <= N      \* a length is 16 bits, the log 128 KB
ASSUME ActorsAssumption ==
  /\ HEAD # FLUSHER /\ HEAD # NONE /\ FLUSHER # NONE
  /\ {HEAD, FLUSHER, NONE} \cap Readers = {}

VARIABLES
  buf,      \* log->buffer
  w_off,    \* log->w_off
  off,      \* off[HEAD] = log->head, off[r] = the r_off of reader r
  readers,  \* log->readers, in list order
  mutex,    \* the holder of log->mutex
  lines,    \* the lines written so far
  wpc, todo, skipped,   \* the console write: step, cursors left to fix, count of get_next_entry
  ftodo,                \* the flush: cursors left to set
  pc,       \* where each reader is
  armed,    \* on the wait queue and in TASK_INTERRUPTIBLE
  signal,   \* signal_pending()
  n,        \* ret of get_entry_len in the read under way
  got,      \* cells copied by the read under way
  damaged,  \* history: a write began inside the mutex section of the open or read of r
  last      \* history: the last entry a read returned to r

wvars == <<buf, w_off, lines, wpc, todo, skipped>>
rvars == <<pc, armed, signal, n, got, last>>
vars  == <<buf, w_off, off, readers, mutex, lines, wpc, todo, skipped, ftodo,
           pc, armed, signal, n, got, damaged, last>>

Cursors == Readers \cup {HEAD}
Offsets == 0 .. N - 1
Cells   == [id : Nat, pos : Nat]
Nul     == [id |-> 0, pos |-> 0]        \* a byte never written

Lesser(a, b) == IF a < b THEN a ELSE b
Listed == {readers[i] : i \in DOMAIN readers}

(* n & (size - 1), the sizes being powers of two *)
logger_offset(k) == k % N

-----------------------------------------------------------------------------
(* Entries.  header.len is clamped to the largest payload less one; the    *)
(* part of the line that is stored is clamped to header.len - ret, and ret *)
(* stays 1.                                                                *)

HeaderLen(count) == Lesser(PREFIX + count, MaxPayload - 1)
BodyLen(count)   == PREFIX + Lesser(count, HeaderLen(count) - 1)
EntrySize(id)    == HDR + HeaderLen(lines[id])

(* printk formats into 1024 bytes: no line of one call is clamped, and the *)
(* log is larger than any entry.                                           *)
LinesFit == \A count \in Counts : PREFIX + count < MaxPayload /\ HDR + PREFIX + count < N

IsHeader(o) ==
  LET a == buf[o]
      b == buf[logger_offset(o + 1)]
  IN  a.id # 0 /\ a.pos = 0 /\ b = [id |-> a.id, pos |-> 1]

(* The lengths get_entry_len may return at offset o.                       *)
get_entry_len(o) ==
  IF IsHeader(o) THEN {EntrySize(buf[o].id)}
  ELSE IF buf[o] = Nul /\ buf[logger_offset(o + 1)] = Nul THEN {HDR}
  ELSE {HDR + j : j \in Junk}

(* do_write_log: b with cells from, from + 1, ... of entry id stored at o. *)
Stored(b, o, id, from, len) ==
  [i \in Offsets |-> LET d == (i - o) % N IN
                     IF d < len THEN [id |-> id, pos |-> from + d] ELSE b[i]]

(* Does the line from a to b cross c?                                      *)
clock_interval(a, b, c) ==
  IF b < a THEN a < c \/ b >= c ELSE a < c /\ b >= c

-----------------------------------------------------------------------------
(* The console write.  fix_up_readers runs AFTER the header is stored, so  *)
(* its range starts at the new w_off and is HDR too far on: a cursor may   *)
(* be pulled past an entry that is still whole.                            *)

CpuIdle == wpc = "idle"
NewLen  == HDR + HeaderLen(lines[Len(lines)])       \* the len of fix_up_readers

WriteHeader(count) ==
  /\ wpc = "idle" /\ Len(lines) < MaxWrites
  /\ lines' = Append(lines, count)
  /\ buf' = Stored(buf, w_off, Len(lines) + 1, 0, HDR)
  /\ w_off' = logger_offset(w_off + HDR)
  /\ wpc' = "fix" /\ todo' = <<HEAD>> \o readers
  /\ damaged' = [r \in Readers |-> damaged[r] \/ mutex = r]
  /\ UNCHANGED <<off, readers, mutex, skipped, ftodo>> /\ UNCHANGED rvars

Crossed(c) == clock_interval(w_off, logger_offset(w_off + NewLen), off[c])

FixSkip ==
  /\ wpc = "fix" /\ todo # <<>> /\ ~Crossed(Head(todo))
  /\ todo' = Tail(todo)
  /\ UNCHANGED <<buf, w_off, off, readers, mutex, lines, wpc, skipped, ftodo, damaged>>
  /\ UNCHANGED rvars

FixPull ==
  /\ wpc = "fix" /\ todo # <<>> /\ Crossed(Head(todo))
  /\ wpc' = "pull" /\ skipped' = 0
  /\ UNCHANGED <<buf, w_off, off, readers, mutex, lines, todo, ftodo, damaged>>
  /\ UNCHANGED rvars

(* Seeded fault: a cursor is pulled past one entry, whatever its size.     *)
GetNextEntry_once ==
  /\ wpc = "pull"
  /\ \E nr \in get_entry_len(off[Head(todo)]) :
       off' = [off EXCEPT ![Head(todo)] = logger_offset(@ + nr)]
  /\ wpc' = "fix" /\ todo' = Tail(todo) /\ skipped' = 0
  /\ UNCHANGED <<buf, w_off, readers, mutex, lines, ftodo, damaged>> /\ UNCHANGED rvars

(* One iteration of the loop of get_next_entry.                            *)
GetNextEntry ==
  /\ wpc = "pull"
  /\ \E nr \in get_entry_len(off[Head(todo)]) :
       /\ off' = [off EXCEPT ![Head(todo)] = logger_offset(@ + nr)]
       /\ IF skipped + nr < NewLen
          THEN skipped' = skipped + nr /\ UNCHANGED <<wpc, todo>>
          ELSE wpc' = "fix" /\ todo' = Tail(todo) /\ skipped' = 0
  /\ UNCHANGED <<buf, w_off, readers, mutex, lines, ftodo, damaged>> /\ UNCHANGED rvars

WritePayload ==
  /\ wpc = "fix" /\ todo = <<>>
  /\ LET len == BodyLen(lines[Len(lines)]) IN
       /\ buf' = Stored(buf, w_off, Len(lines), HDR, len)
       /\ w_off' = logger_offset(w_off + len)
  /\ wpc' = "wake"
  /\ UNCHANGED <<off, readers, mutex, lines, todo, skipped, ftodo, damaged>>
  /\ UNCHANGED rvars

(* Seeded fault: nobody is woken.                                          *)
WakeReaders_none ==
  /\ wpc = "wake" /\ wpc' = "idle"
  /\ UNCHANGED <<buf, w_off, off, readers, mutex, lines, todo, skipped, ftodo, damaged>>
  /\ UNCHANGED rvars

(* wake_up_interruptible(&log->wq)                                         *)
WakeReaders ==
  /\ wpc = "wake" /\ wpc' = "idle"
  /\ armed' = [r \in Readers |-> FALSE]
  /\ UNCHANGED <<buf, w_off, off, readers, mutex, lines, todo, skipped, ftodo, damaged,
                 pc, signal, n, got, last>>

WriteStep == FixSkip \/ FixPull \/ GetNextEntry \/ WritePayload \/ WakeReaders

-----------------------------------------------------------------------------
(* Files open for reading.  Returning to user space ends the call.         *)

At(r, from)     == CpuIdle /\ pc[r] = from
Goto(r, to)     == pc' = [pc EXCEPT ![r] = to]
Arm(r, b)       == armed' = [armed EXCEPT ![r] = b]
ToUser(r) ==
  /\ Goto(r, "open") /\ Arm(r, FALSE)
  /\ signal' = [signal EXCEPT ![r] = FALSE]
  /\ n' = [n EXCEPT ![r] = 0] /\ got' = [got EXCEPT ![r] = <<>>]
InLog(r)        == off[r] # w_off       \* there is something to read

Open(r) ==
  /\ At(r, "closed") /\ mutex = NONE
  /\ mutex' = r /\ Goto(r, "link")
  /\ off' = [off EXCEPT ![r] = off[HEAD]]
  /\ damaged' = [damaged EXCEPT ![r] = FALSE]
  /\ UNCHANGED wvars /\ UNCHANGED <<readers, ftodo, armed, signal, n, got, last>>

OpenLink(r) ==
  /\ At(r, "link")
  /\ readers' = Append(readers, r) /\ mutex' = NONE /\ Goto(r, "open")
  /\ UNCHANGED wvars /\ UNCHANGED <<off, ftodo, armed, signal, n, got, damaged, last>>

(* list_del(&reader->list): r stands in the list once.                     *)
Unlinked(r) ==
  LET i == CHOOSE j \in DOMAIN readers : readers[j] = r
  IN  SubSeq(readers, 1, i - 1) \o SubSeq(readers, i + 1, Len(readers))

Release(r) ==
  /\ At(r, "open") /\ mutex = NONE
  /\ readers' = Unlinked(r) /\ Goto(r, "closed")
  /\ off' = [off EXCEPT ![r] = 0] /\ last' = [last EXCEPT ![r] = 0]
  /\ damaged' = [damaged EXCEPT ![r] = FALSE]
  /\ UNCHANGED wvars /\ UNCHANGED <<mutex, ftodo, armed, signal, n, got>>

ReadCall(r) ==
  /\ At(r, "open") /\ Goto(r, "prepare")
  /\ UNCHANGED wvars
  /\ UNCHANGED <<off, readers, mutex, ftodo, armed, signal, n, got, damaged, last>>

PrepareToWait(r) ==
  /\ At(r, "prepare") /\ Goto(r, "test") /\ Arm(r, TRUE)
  /\ UNCHANGED wvars
  /\ UNCHANGED <<off, readers, mutex, ftodo, signal, n, got, damaged, last>>

(* A mutex_lock that has to wait leaves the task in TASK_RUNNING.          *)
TestBlocked(r) ==
  /\ At(r, "test") /\ mutex # NONE /\ armed[r] /\ Arm(r, FALSE)
  /\ UNCHANGED wvars
  /\ UNCHANGED <<off, readers, mutex, ftodo, pc, signal, n, got, damaged, last>>

(* The log is not empty: finish_wait and go on.                            *)
TestReady(r) ==
  /\ At(r, "test") /\ mutex = NONE /\ InLog(r)
  /\ Goto(r, "lock") /\ Arm(r, FALSE)
  /\ UNCHANGED wvars
  /\ UNCHANGED <<off, readers, mutex, ftodo, signal, n, got, damaged, last>>

(* -EAGAIN if O_NONBLOCK, which fcntl may set at any time, -EINTR if a     *)
(* signal is pending.                                                      *)
TestLeave(r) ==
  /\ At(r, "test") /\ mutex = NONE /\ ~InLog(r) /\ ToUser(r)
  /\ UNCHANGED wvars /\ UNCHANGED <<off, readers, mutex, ftodo, damaged, last>>

TestSleep(r) ==
  /\ At(r, "test") /\ mutex = NONE /\ ~InLog(r) /\ ~signal[r]
  /\ Goto(r, "sleep")
  /\ UNCHANGED wvars
  /\ UNCHANGED <<off, readers, mutex, ftodo, armed, signal, n, got, damaged, last>>

(* schedule() returns once the task is runnable.                           *)
Schedule(r) ==
  /\ At(r, "sleep") /\ ~armed[r] /\ Goto(r, "prepare")
  /\ UNCHANGED wvars
  /\ UNCHANGED <<off, readers, mutex, ftodo, armed, signal, n, got, damaged, last>>

Signal(r) ==
  /\ CpuIdle /\ pc[r] \in {"prepare", "test", "sleep"} /\ ~signal[r]
  /\ signal' = [signal EXCEPT ![r] = TRUE] /\ Arm(r, FALSE)
  /\ UNCHANGED wvars /\ UNCHANGED <<off, readers, mutex, ftodo, pc, n, got, damaged, last>>

(* "is there still something to read or did we race?"                      *)
Recheck(r) ==
  /\ At(r, "lock") /\ mutex = NONE
  /\ IF InLog(r) THEN mutex' = r /\ Goto(r, "len") ELSE mutex' = mutex /\ Goto(r, "prepare")
  /\ UNCHANGED wvars
  /\ UNCHANGED <<off, readers, ftodo, armed, signal, n, got, damaged, last>>

ReadLen(r) ==
  /\ At(r, "len") /\ Goto(r, "copy1")
  /\ \E ret \in get_entry_len(off[r]) : n' = [n EXCEPT ![r] = ret]
  /\ UNCHANGED wvars
  /\ UNCHANGED <<off, readers, mutex, ftodo, armed, signal, got, damaged, last>>

(* -EINVAL: the buffer is too small; -EFAULT: copy_to_user failed.         *)
ReadFails(r) ==
  /\ CpuIdle /\ pc[r] \in {"copy1", "copy2"}
  /\ mutex' = NONE /\ ToUser(r)
  /\ UNCHANGED wvars /\ UNCHANGED <<off, readers, ftodo, damaged, last>>

Copied(o, len) == [i \in 1 .. len |-> buf[o + i - 1]]

Copy1(r) ==
  /\ At(r, "copy1")
  /\ LET len == Lesser(n[r], N - off[r]) IN
       /\ got' = [got EXCEPT ![r] = Copied(off[r], len)]
       /\ Goto(r, IF n[r] # len THEN "copy2" ELSE "advance")
  /\ UNCHANGED wvars
  /\ UNCHANGED <<off, readers, mutex, ftodo, armed, signal, n, damaged, last>>

(* Seeded fault: the second copy goes on where the first one stopped.      *)
Copy2_again(r) ==
  /\ At(r, "copy2") /\ Goto(r, "advance")
  /\ got' = [got EXCEPT ![r] = @ \o Copied(off[r], n[r] - Len(@))]
  /\ UNCHANGED wvars
  /\ UNCHANGED <<off, readers, mutex, ftodo, armed, signal, n, damaged, last>>

Copy2(r) ==
  /\ At(r, "copy2") /\ Goto(r, "advance")
  /\ got' = [got EXCEPT ![r] = @ \o Copied(0, n[r] - Len(@))]
  /\ UNCHANGED wvars
  /\ UNCHANGED <<off, readers, mutex, ftodo, armed, signal, n, damaged, last>>

(* Seeded fault: the offset is not moved past what was read.               *)
ReadAdvance_stay(r) ==
  /\ At(r, "advance") /\ mutex' = NONE /\ ToUser(r)
  /\ last' = [last EXCEPT ![r] = got[r][1].id]
  /\ UNCHANGED wvars /\ UNCHANGED <<off, readers, ftodo, damaged>>

(* r_off is read again: it is no longer what was copied from if a write    *)
(* fixed it up in between.                                                 *)
ReadAdvance(r) ==
  /\ At(r, "advance") /\ mutex' = NONE /\ ToUser(r)
  /\ off' = [off EXCEPT ![r] = logger_offset(@ + n[r])]
  /\ last' = [last EXCEPT ![r] = got[r][1].id]
  /\ UNCHANGED wvars /\ UNCHANGED <<readers, ftodo, damaged>>

(* poll: on the queue first, then the test; the caller sleeps and polls    *)
(* again when woken, and gives up after its timeout.                       *)
PollCall(r) ==
  /\ At(r, "open") /\ Goto(r, "ptest") /\ Arm(r, TRUE)
  /\ UNCHANGED wvars
  /\ UNCHANGED <<off, readers, mutex, ftodo, signal, n, got, damaged, last>>

PollTest(r) ==
  /\ At(r, "ptest") /\ mutex = NONE
  /\ IF InLog(r) THEN ToUser(r) ELSE Goto(r, "psleep") /\ UNCHANGED <<armed, signal, n, got>>
  /\ UNCHANGED wvars /\ UNCHANGED <<off, readers, mutex, ftodo, damaged, last>>

PollWake(r) ==
  /\ At(r, "psleep") /\ ~armed[r] /\ Goto(r, "ptest") /\ Arm(r, TRUE)
  /\ UNCHANGED wvars
  /\ UNCHANGED <<off, readers, mutex, ftodo, signal, n, got, damaged, last>>

PollTimeout(r) ==
  /\ At(r, "psleep") /\ ToUser(r)
  /\ UNCHANGED wvars /\ UNCHANGED <<off, readers, mutex, ftodo, damaged, last>>

(* LOGGER_FLUSH_LOG: every reader in list order, then the head.            *)
FlushBegin ==
  /\ CpuIdle /\ mutex = NONE
  /\ mutex' = FLUSHER /\ ftodo' = Append(readers, HEAD)
  /\ UNCHANGED wvars /\ UNCHANGED <<off, readers, damaged>> /\ UNCHANGED rvars

FlushStep ==
  /\ CpuIdle /\ ftodo # <<>>
  /\ off' = [off EXCEPT ![Head(ftodo)] = w_off]
  /\ ftodo' = Tail(ftodo)
  /\ mutex' = IF Tail(ftodo) = <<>> THEN NONE ELSE mutex
  /\ UNCHANGED wvars /\ UNCHANGED <<readers, damaged>> /\ UNCHANGED rvars

(* LOGGER_GET_LOG_LEN and LOGGER_GET_NEXT_ENTRY_LEN                        *)
LogLen_nowrap(r) == IF w_off >= off[r] THEN w_off - off[r] ELSE off[r] - w_off
LogLen(r) == IF w_off >= off[r] THEN w_off - off[r] ELSE (N - off[r]) + w_off
NextEntryLen(r) == IF InLog(r) THEN get_entry_len(off[r]) ELSE {0}

ReaderCall(r) == Open(r) \/ Release(r) \/ ReadCall(r) \/ PollCall(r)
ReaderStep(r) ==
  \/ OpenLink(r) \/ PrepareToWait(r) \/ TestBlocked(r) \/ TestReady(r) \/ TestLeave(r)
  \/ TestSleep(r) \/ Schedule(r) \/ Recheck(r) \/ ReadLen(r) \/ ReadFails(r) \/ Copy1(r)
  \/ Copy2(r) \/ ReadAdvance(r) \/ PollTest(r) \/ PollWake(r)

-----------------------------------------------------------------------------
Init ==
  /\ buf = [i \in Offsets |-> Nul] /\ w_off = 0 /\ off = [c \in Cursors |-> 0]
  /\ readers = <<>> /\ mutex = NONE /\ lines = <<>>
  /\ wpc = "idle" /\ todo = <<>> /\ skipped = 0 /\ ftodo = <<>>
  /\ pc = [r \in Readers |-> "closed"]
  /\ armed = [r \in Readers |-> FALSE] /\ signal = [r \in Readers |-> FALSE]
  /\ n = [r \in Readers |-> 0] /\ got = [r \in Readers |-> <<>>]
  /\ damaged = [r \in Readers |-> FALSE] /\ last = [r \in Readers |-> 0]

Next ==
  \/ \E count \in Counts : WriteHeader(count)
  \/ WriteStep \/ FlushBegin \/ FlushStep
  \/ \E r \in Readers : ReaderCall(r) \/ ReaderStep(r) \/ Signal(r) \/ PollTimeout(r)

Spec == Init /\ [][Next]_vars

(* A write runs to its end; a task in the kernel that can run gets the     *)
(* processor.  Nothing makes a line be printed, a file be opened or read,  *)
(* a signal arrive or a timeout expire.                                    *)
FairSpec ==
  /\ Spec /\ WF_vars(WriteStep) /\ WF_vars(FlushStep)
  /\ \A r \in Readers : WF_vars(ReaderStep(r))

-----------------------------------------------------------------------------
(* Properties *)

ReaderPcs == {"closed", "link", "open", "prepare", "test", "sleep", "lock", "len",
              "copy1", "copy2", "advance", "ptest", "psleep"}

(* Every variable stays in its type; in particular every offset in the log. *)
TypeOK ==
  /\ buf \in [Offsets -> Cells] /\ w_off \in Offsets /\ off \in [Cursors -> Offsets]
  /\ readers \in Seq(Readers) /\ mutex \in Readers \cup {FLUSHER, NONE} /\ lines \in Seq(Counts)
  /\ wpc \in {"idle", "fix", "pull", "wake"} /\ todo \in Seq(Cursors) /\ skipped \in Nat
  /\ ftodo \in Seq(Cursors) /\ pc \in [Readers -> ReaderPcs]
  /\ armed \in [Readers -> BOOLEAN] /\ signal \in [Readers -> BOOLEAN]
  /\ n \in [Readers -> Nat] /\ got \in [Readers -> Seq(Cells)]
  /\ damaged \in [Readers -> BOOLEAN] /\ last \in [Readers -> Nat]

Intact(o, id) ==
  \A k \in 0 .. EntrySize(id) - 1 : buf[logger_offset(o + k)] = [id |-> id, pos |-> k]
OnEntry(c) == off[c] = w_off \/ (IsHeader(off[c]) /\ Intact(off[c], buf[off[c]].id))
Sound(c)   == c = HEAD \/ ~damaged[c]

(* fix_up_readers: however often the writer laps them, log->head and every *)
(* reader whose own calls no write has cut into stand at the write head or *)
(* at the first byte of an entry that is still whole.                      *)
CursorsOnEntries ==
  CpuIdle => \A c \in Listed \cup {HEAD} : Sound(c) => OnEntry(c)

(* What every state of the log and its readers keeps.                      *)
OffsetsHold == TypeOK /\ CursorsOnEntries

(* The code says it of every reader: "The structure is protected by        *)
(* log->mutex".                                                            *)
CursorsOnEntriesAlways ==
  CpuIdle => \A c \in Listed \cup {HEAD} : OnEntry(c)

(* klogger_read: "Atomically reads exactly one log entry", and each later  *)
(* than the one before.                                                    *)
ReadsOneEntry ==
  \A r \in Readers : pc[r] = "advance" /\ ~damaged[r] =>
    LET id == got[r][1].id IN
      /\ id > last[r]
      /\ got[r] = [k \in 1 .. EntrySize(id) |-> [id |-> id, pos |-> k - 1]]

SizeFrom[id \in Nat \ {0}] ==
  IF id > Len(lines) THEN 0 ELSE EntrySize(id) + SizeFrom[id + 1]

(* LOGGER_GET_LOG_LEN is the size of the entries not yet read, which are   *)
(* all those from the next one to the newest, and LOGGER_GET_NEXT_ENTRY_LEN *)
(* that of the next one.                                                   *)
LogLenIsUnread ==
  CpuIdle => \A r \in Listed : ~damaged[r] =>
    /\ LogLen(r) = IF InLog(r) THEN SizeFrom[buf[off[r]].id] ELSE 0
    /\ NextEntryLen(r) = IF InLog(r) THEN {EntrySize(buf[off[r]].id)} ELSE {0}

(* A read moves its reader to the entry after the one it returned, or to   *)
(* the write head: only the writer and a flush make a reader skip entries. *)
ReadsSkipNothing ==
  [][\A r \in Readers : ReadAdvance(r) /\ ~damaged[r] =>
       IF got[r][1].id = Len(lines) THEN off'[r] = w_off
       ELSE buf[off'[r]] = [id |-> got[r][1].id + 1, pos |-> 0]]_vars

(* A task sleeping in read or poll leaves its sleep when there is          *)
(* something to read, however the write falls between its test and its     *)
(* sleep.                                                                  *)
WokenUp(r) == (pc[r] \in {"sleep", "psleep"} /\ InLog(r)) ~> (pc[r] \notin {"sleep", "psleep"})
NoLostWakeup == \A r \in Readers : WokenUp(r)
=============================================================================
