---------------------------- MODULE KLoggerProofs ----------------------------
(***************************************************************************)
(* What the kernel log keeps for every size of the log and of its entries, *)
(* every number of lines and of readers.                                   *)
(***************************************************************************)
EXTENDS KLogger, SequenceTheorems, WellFoundedInduction, TLAPS

-----------------------------------------------------------------------------
(* The invariant.  Bytes are counted from the first one ever written:      *)
(* P[id] is the place of the first byte of entry id, P[Newest + 1] the end *)
(* of the newest.                                                          *)

Newest == Len(lines)

Laid(P) ==
  /\ P \in [1 .. Newest + 1 -> Nat]
  /\ \A i, j \in 1 .. Newest + 1 : i < j => P[i] + EntrySize(i) <= P[j]
  /\ \A i \in 1 .. Newest : P[i + 1] = P[i] + EntrySize(i)

(* How far the log is written: a write under way has stored its header.    *)
Written(P) == IF wpc \in {"fix", "pull"} THEN P[Newest] + HDR ELSE P[Newest + 1]

(* The last N bytes written are in the buffer.                             *)
Kept(P) ==
  /\ w_off = Written(P) % N
  /\ \A id \in 1 .. Newest, k \in Nat :
       k < EntrySize(id) /\ P[id] + k < Written(P) /\ Written(P) <= P[id] + k + N
         => buf[(P[id] + k) % N] = [id |-> id, pos |-> k]

(* The cursors the code answers for                                        *)
Live(c) == c = HEAD \/ (c \in Readers /\ pc[c] # "closed" /\ ~damaged[c])

Elements(s) == {s[i] : i \in DOMAIN s}

(* Cursor c stands on entry e, or on none if e = Newest + 1.  What a write *)
(* has still to fix is not overwritten; what it has fixed is overwritten   *)
(* neither by it nor by the header of the next one.                        *)
Stands(c, e, P) ==
  /\ e \in 1 .. Newest + 1 /\ off[c] = P[e] % N
  /\ c \in Elements(todo) => e <= Newest /\ Written(P) < P[e] + N
  /\ c \notin Elements(todo) => P[Newest + 1] + HDR < P[e] + N
  /\ wpc = "pull" /\ c = Head(todo) => Written(P) + skipped < P[e] + N

(* The first len cells of entry id                                         *)
Whole(id, len) == [k \in 1 .. len |-> [id |-> id, pos |-> k - 1]]

(* Reader r, on entry e, has read none as new, and what it reads is e.     *)
Reads(r, e) ==
  /\ last[r] < e /\ (mutex = r => wpc = "idle")
  /\ pc[r] \in {"len", "copy1", "copy2", "advance"} => e <= Newest
  /\ pc[r] \in {"copy1", "copy2", "advance"} => n[r] = EntrySize(e)
  /\ pc[r] = "copy2" => N - off[r] < n[r] /\ got[r] = Whole(e, N - off[r])
  /\ pc[r] = "advance" => got[r] = Whole(e, n[r])

Follows(c, P) == \E e \in Nat : Stands(c, e, P) /\ (c \in Readers => Reads(c, e))

LogFollows(P) == Laid(P) /\ Kept(P) /\ \A c \in Cursors : Live(c) => Follows(c, P)

InMutex == {"link", "len", "copy1", "copy2", "advance"}

Distinct(s) == \A i, j \in DOMAIN s : s[i] = s[j] => i = j

(* The lists, and who holds the mutex                                      *)
ListInv ==
  /\ Distinct(readers) /\ Distinct(todo)
  /\ \A r \in Readers : r \in Elements(readers) <=> pc[r] \notin {"closed", "link"}
MutexInv ==
  /\ \A r \in Readers : mutex = r <=> pc[r] \in InMutex
  /\ mutex = FLUSHER <=> ftodo # <<>>

(* What a step of the write, or of a reader, may count on                  *)
WriteInv ==
  /\ wpc \in {"idle", "wake"} => todo = <<>>
  /\ wpc = "pull" => todo # <<>>
  /\ wpc # "idle" => lines # <<>>
  /\ \A i \in Offsets : buf[i].id <= Len(lines)
ReaderInv(r) ==
  /\ pc[r] = "closed" => last[r] = 0
  /\ pc[r] \in {"copy1", "copy2", "advance"} => n[r] \in 2 .. N
  /\ pc[r] = "copy2" => got[r] # <<>> /\ Len(got[r]) < n[r]
  /\ pc[r] = "advance" => got[r] # <<>>

Control == ListInv /\ MutexInv /\ WriteInv /\ \A r \in Readers : ReaderInv(r)

IInv == TypeOK /\ Control /\ \E P : LogFollows(P)

-----------------------------------------------------------------------------
(* The ring: places modulo N                                               *)

LEMMA Ring == N \in Nat \ {0} /\ Offsets = 0 .. N - 1
BY SizesAssumption DEF Offsets

LEMMA ModRange == ASSUME NEW a \in Int PROVE a % N \in Offsets
BY Ring

LEMMA ModIs ==
  ASSUME NEW q \in Int, NEW m \in 0 .. N - 1 PROVE (N * q + m) % N = m
BY Ring

LEMMA ModDiv ==
  ASSUME NEW a \in Int PROVE a = N * (a \div N) + (a % N) /\ a \div N \in Int
BY Ring

(* Going on by no more than a turn wraps at most once.                     *)
LEMMA ModAdd ==
  ASSUME NEW a \in Int, NEW d \in 0 .. N
  PROVE  (a + d) % N = IF (a % N) + d < N THEN (a % N) + d ELSE (a % N) + d - N
<1> DEFINE q == a \div N  m == a % N
<1>1. a = N * q + m /\ q \in Int /\ m \in 0 .. N - 1
  BY ModDiv, ModRange, Ring
<1> HIDE DEF q, m
<1>2. CASE m + d < N
  <2>1. (N * q + (m + d)) % N = m + d
    BY <1>1, <1>2, ModIs, Ring
  <2>2. a + d = N * q + (m + d)
    BY <1>1, Ring
  <2> QED
    BY <1>1, <1>2, <2>1, <2>2 DEF m
<1>3. CASE ~(m + d < N)
  <2>1. (N * (q + 1) + (m + d - N)) % N = m + d - N
    <3>1. q + 1 \in Int /\ m + d - N \in 0 .. N - 1
      BY <1>1, <1>3, Ring
    <3> QED
      BY <3>1, ModIs
  <2>2. a + d = N * (q + 1) + (m + d - N)
    BY <1>1, Ring
  <2> QED
    BY <1>1, <1>3, <2>1, <2>2 DEF m
<1> QED
  BY <1>2, <1>3

LEMMA ModSmall == ASSUME NEW m \in Offsets PROVE m % N = m
BY Ring

(* An offset moved on is the offset of the place moved on.                 *)
LEMMA OffsetMoves ==
  ASSUME NEW a \in Int, NEW d \in 0 .. N
  PROVE  ((a % N) + d) % N = (a + d) % N
<1>1. PICK m \in Offsets : m = a % N
  BY ModRange
<1>2. m % N = m /\ m \in Int
  BY ModSmall, Ring
<1>3. (m + d) % N = IF (m % N) + d < N THEN (m % N) + d ELSE (m % N) + d - N
  BY <1>2, ModAdd
<1>4. (a + d) % N = IF (a % N) + d < N THEN (a % N) + d ELSE (a % N) + d - N
  BY ModAdd
<1> QED
  BY <1>1, <1>2, <1>3, <1>4

(* How far the offset of y is ahead of that of x, for y in the turn after  *)
(* x, and for y in the turn before x                                       *)
LEMMA Ahead ==
  ASSUME NEW x \in Int, NEW y \in Int
  PROVE  /\ x <= y /\ y < x + N => ((y % N) - (x % N)) % N = y - x
         /\ y < x /\ x <= y + N => ((y % N) - (x % N)) % N = y - x + N
<1>1. x % N \in Offsets /\ y % N \in Offsets
  BY ModRange
<1>2. \A i, o \in Offsets : i >= o => (i - o) % N = i - o
  <2> SUFFICES ASSUME NEW i \in Offsets, NEW o \in Offsets, i >= o
               PROVE  (i - o) % N = i - o
    OBVIOUS
  <2>1. i - o \in Offsets
    BY Ring
  <2> QED
    BY <2>1, ModSmall
<1>3. \A i, o \in Offsets : i < o => (i - o) % N = i - o + N
  <2> SUFFICES ASSUME NEW i \in Offsets, NEW o \in Offsets, i < o
               PROVE  (i - o) % N = i - o + N
    OBVIOUS
  <2>1. i - o + N \in 0 .. N - 1 /\ N * (-1) + (i - o + N) = i - o
    BY Ring
  <2>2. (N * (-1) + (i - o + N)) % N = i - o + N
    BY <2>1, ModIs
  <2> QED
    BY <2>1, <2>2
<1>4. ASSUME x <= y, y < x + N
      PROVE  ((y % N) - (x % N)) % N = y - x
  <2>1. y - x \in 0 .. N /\ x + (y - x) = y
    BY <1>4, Ring
  <2>2. y % N = IF (x % N) + (y - x) < N THEN (x % N) + (y - x) ELSE (x % N) + (y - x) - N
    BY <2>1, ModAdd
  <2> QED
    BY <1>1, <1>2, <1>3, <1>4, <2>1, <2>2, Ring
<1>5. ASSUME y < x, x <= y + N
      PROVE  ((y % N) - (x % N)) % N = y - x + N
  <2>1. x - y \in 0 .. N /\ y + (x - y) = x
    BY <1>5, Ring
  <2>2. x % N = IF (y % N) + (x - y) < N THEN (y % N) + (x - y) ELSE (y % N) + (x - y) - N
    BY <2>1, ModAdd
  <2>3. CASE x % N < y % N
    <3>1. (y % N) - (x % N) = y - x + N
      BY <1>1, <1>5, <2>1, <2>2, <2>3, Ring
    <3> QED
      BY <1>1, <1>2, <2>3, <3>1, Ring
  <2>4. CASE x % N = y % N
    <3>1. (y % N) - (x % N) = y - x + N
      BY <1>1, <1>5, <2>1, <2>2, <2>4, Ring
    <3> QED
      BY <1>1, <1>2, <2>4, <3>1, Ring
  <2>5. CASE x % N > y % N
    <3>1. (y % N) - (x % N) + N = y - x + N
      BY <1>1, <1>5, <2>1, <2>2, <2>5, Ring
    <3> QED
      BY <1>1, <1>3, <2>5, <3>1, Ring
  <2> QED
    BY <1>1, <2>3, <2>4, <2>5, Ring
<1> QED
  BY <1>4, <1>5

(* Places less than a turn apart have offsets of their own.                *)
LEMMA Apart ==
  ASSUME NEW x \in Int, NEW y \in Int, x < y, y < x + N
  PROVE  x % N # y % N
<1>1. y - x \in 0 .. N /\ x + (y - x) = y
  BY Ring
<1>2. y % N = IF (x % N) + (y - x) < N THEN (x % N) + (y - x) ELSE (x % N) + (y - x) - N
  BY <1>1, ModAdd
<1>3. x % N \in Offsets
  BY ModRange
<1> QED
  BY <1>2, <1>3, Ring

(* clock_interval says whether a cursor less than a turn behind the write  *)
(* head x will be overtaken by len bytes.                                  *)
LEMMA Overtaken ==
  ASSUME NEW x \in Int, NEW y \in Int, NEW len \in 0 .. N - 1, y < x, x < y + N
  PROVE  clock_interval(x % N, logger_offset((x % N) + len), y % N) <=> y + N <= x + len
<1>1. x % N \in Offsets /\ y % N \in Offsets /\ (x % N) % N = x % N
  BY ModRange, ModSmall
<1>2. logger_offset((x % N) + len) = IF (x % N) + len < N THEN (x % N) + len
                                     ELSE (x % N) + len - N
  <2> len \in 0 .. N
    BY Ring
  <2>1. ((x % N) + len) % N = (x + len) % N
    BY OffsetMoves
  <2>2. (x + len) % N = IF (x % N) + len < N THEN (x % N) + len ELSE (x % N) + len - N
    BY ModAdd
  <2> QED
    BY <2>1, <2>2 DEF logger_offset
<1>3. x - y \in 0 .. N /\ y + (x - y) = x
  BY Ring
<1>4. x % N = IF (y % N) + (x - y) < N THEN (y % N) + (x - y) ELSE (y % N) + (x - y) - N
  BY <1>3, ModAdd
<1> QED
  BY <1>1, <1>2, <1>3, <1>4, Ring DEF clock_interval

-----------------------------------------------------------------------------
(* Entries and lists                                                       *)

(* A line that fits is stored whole, and is as long as its header says.    *)
LEMMA LineSize ==
  ASSUME LinesFit, NEW count \in Counts
  PROVE  /\ HeaderLen(count) \in Nat /\ HeaderLen(count) >= 1 /\ BodyLen(count) = HeaderLen(count)
         /\ HDR + HeaderLen(count) < N
BY SizesAssumption DEF LinesFit, HeaderLen, BodyLen, Lesser

LEMMA Sizes ==
  ASSUME LinesFit, lines \in Seq(Counts), NEW id \in 1 .. Newest
  PROVE  EntrySize(id) \in 3 .. N - 1 /\ EntrySize(id) = HDR + HeaderLen(lines[id])
<1>1. PICK count \in Counts : count = lines[id]
  BY DEF Newest
<1>2. /\ HeaderLen(count) \in Nat /\ HeaderLen(count) >= 1
      /\ HDR + HeaderLen(count) < N
  BY LineSize
<1>3. N \in Nat /\ HDR \in Nat /\ HDR >= 2
  BY SizesAssumption
<1>4. EntrySize(id) = HDR + HeaderLen(count)
  BY <1>1 DEF EntrySize
<1> QED
  BY <1>1, <1>2, <1>3, <1>4

(* A length that get_entry_len returns moves an offset on, by less than a  *)
(* turn or by one.                                                         *)
LEMMA LenRange ==
  ASSUME LinesFit, TypeOK, WriteInv, NEW o \in Offsets, NEW nr \in get_entry_len(o)
  PROVE  nr \in 2 .. N
<1>1. CASE IsHeader(o)
  <2>1. buf[o] \in Cells /\ buf[o].id # 0 /\ buf[o].id <= Newest
    BY <1>1 DEF IsHeader, TypeOK, WriteInv, Newest
  <2>2. Newest \in Nat /\ buf[o].id \in 1 .. Newest
    BY <2>1 DEF TypeOK, Newest, Cells
  <2>3. nr = EntrySize(buf[o].id)
    BY <1>1 DEF get_entry_len
  <2> QED
    BY <2>2, <2>3, Sizes, SizesAssumption DEF TypeOK
<1>2. CASE ~IsHeader(o)
  <2>1. nr = HDR \/ \E j \in Junk : nr = HDR + j
    BY <1>2 DEF get_entry_len
  <2>2. CASE \E j \in Junk : nr = HDR + j
    BY <2>2, SizesAssumption
  <2>3. CASE nr = HDR
    BY <2>3, SizesAssumption
  <2> QED
    BY <2>1, <2>2, <2>3
<1> QED
  BY <1>1, <1>2

(* The entry a cursor stands on, when its header is in the buffer          *)
LEMMA EntryAt ==
  ASSUME LinesFit, TypeOK, NEW P, Laid(P), Kept(P), NEW e \in 1 .. Newest,
         P[e] + 1 < Written(P), Written(P) <= P[e] + N
  PROVE  /\ buf[P[e] % N] = [id |-> e, pos |-> 0] /\ IsHeader(P[e] % N)
         /\ get_entry_len(P[e] % N) = {EntrySize(e)}
<1>1. P[e] \in Nat /\ Newest \in Nat /\ EntrySize(e) \in 3 .. N - 1 /\ Written(P) \in Nat
  <2> Newest \in Nat
    BY DEF TypeOK, Newest
  <2>1. Newest \in Nat /\ P[e] \in Nat /\ P[Newest] \in Nat /\ P[Newest + 1] \in Nat
    BY DEF Laid
  <2>2. EntrySize(e) \in 3 .. N - 1
    BY Sizes DEF TypeOK
  <2> QED
    BY <2>1, <2>2, SizesAssumption DEF Written
<1>2. buf[(P[e] + 0) % N] = [id |-> e, pos |-> 0]
  <2>1. 0 \in Nat /\ 0 < EntrySize(e) /\ P[e] + 0 < Written(P) /\ Written(P) <= P[e] + 0 + N
    BY <1>1
  <2> QED
    BY <2>1 DEF Kept
<1>3. buf[(P[e] + 1) % N] = [id |-> e, pos |-> 1]
  <2>1. 1 \in Nat /\ 1 < EntrySize(e) /\ P[e] + 1 < Written(P) /\ Written(P) <= P[e] + 1 + N
    BY <1>1, Ring
  <2> QED
    BY <2>1 DEF Kept
<1>4. logger_offset((P[e] % N) + 1) = (P[e] + 1) % N /\ P[e] + 0 = P[e]
  <2>1. 1 \in 0 .. N /\ P[e] \in Int
    BY <1>1, Ring
  <2>2. ((P[e] % N) + 1) % N = (P[e] + 1) % N
    BY <2>1, OffsetMoves
  <2> QED
    BY <1>1, <2>2 DEF logger_offset
<1>5. buf[P[e] % N] = [id |-> e, pos |-> 0]
  BY <1>2, <1>4
<1>6. IsHeader(P[e] % N)
  BY <1>3, <1>4, <1>5 DEF IsHeader
<1>7. get_entry_len(P[e] % N) = {EntrySize(e)}
  BY <1>5, <1>6 DEF get_entry_len
<1> QED
  BY <1>5, <1>6, <1>7

(* What is taken off the front is gone from a list without repetitions.    *)
LEMMA TailOf ==
  ASSUME NEW S, NEW s \in Seq(S), s # <<>>, Distinct(s)
  PROVE  /\ Tail(s) \in Seq(S) /\ Distinct(Tail(s))
         /\ Elements(Tail(s)) = Elements(s) \ {Head(s)} /\ Head(s) \in S
<1>1. /\ Tail(s) \in Seq(S) /\ Len(Tail(s)) = Len(s) - 1 /\ Len(s) \in Nat \ {0}
      /\ \A i \in 1 .. Len(s) - 1 : Tail(s)[i] = s[i + 1]
      /\ Head(s) = s[1] /\ Head(s) \in S
      /\ DOMAIN s = 1 .. Len(s) /\ DOMAIN Tail(s) = 1 .. Len(s) - 1
  BY HeadTailProperties
<1>2. Distinct(Tail(s))
  BY <1>1 DEF Distinct
<1>3. Elements(Tail(s)) \subseteq Elements(s) \ {Head(s)}
  BY <1>1 DEF Distinct, Elements
<1>4. ASSUME NEW x \in Elements(s) \ {Head(s)} PROVE x \in Elements(Tail(s))
  <2>1. PICK i \in DOMAIN s : s[i] = x
    BY DEF Elements
  <2>2. i \in 2 .. Len(s)
    BY <1>1, <2>1
  <2>3. i - 1 \in 1 .. Len(s) - 1 /\ (i - 1) + 1 = i
    BY <1>1, <2>2
  <2>4. Tail(s)[i - 1] = x
    BY <1>1, <2>1, <2>3
  <2> QED
    BY <1>1, <2>3, <2>4 DEF Elements
<1> QED
  BY <1>1, <1>2, <1>3, <1>4

(* What is put at the end is in the list, and nothing else is new.         *)
LEMMA AppendTo ==
  ASSUME NEW S, NEW s \in Seq(S), NEW x \in S
  PROVE  /\ Append(s, x) \in Seq(S) /\ Elements(Append(s, x)) = Elements(s) \cup {x}
         /\ Distinct(s) /\ x \notin Elements(s) => Distinct(Append(s, x))
<1>1. /\ Append(s, x) \in Seq(S) /\ Len(s) \in Nat /\ Len(Append(s, x)) = Len(s) + 1
      /\ \A i \in 1 .. Len(s) : Append(s, x)[i] = s[i]
      /\ Append(s, x)[Len(s) + 1] = x
      /\ DOMAIN s = 1 .. Len(s) /\ DOMAIN Append(s, x) = 1 .. Len(s) + 1
  BY AppendProperties
<1> QED
  BY <1>1 DEF Elements, Distinct

(* What is put in front is in the list, and nothing else is new.           *)
LEMMA PutInFront ==
  ASSUME NEW S, NEW s \in Seq(S), NEW x \in S
  PROVE  /\ <<x>> \o s \in Seq(S) /\ Elements(<<x>> \o s) = Elements(s) \cup {x}
         /\ Distinct(s) /\ x \notin Elements(s) => Distinct(<<x>> \o s)
<1>1. <<x>> \in Seq(S) /\ Len(<<x>>) = 1 /\ <<x>>[1] = x
  OBVIOUS
<1>2. /\ <<x>> \o s \in Seq(S) /\ Len(s) \in Nat /\ Len(<<x>> \o s) = Len(s) + 1
      /\ \A i \in 1 .. Len(s) : (<<x>> \o s)[i + 1] = s[i]
      /\ (<<x>> \o s)[1] = x
      /\ DOMAIN s = 1 .. Len(s) /\ DOMAIN (<<x>> \o s) = 1 .. Len(s) + 1
  <2>1. /\ <<x>> \o s \in Seq(S) /\ Len(<<x>> \o s) = 1 + Len(s) /\ Len(s) \in Nat
        /\ \A i \in 1 .. 1 + Len(s) :
             (<<x>> \o s)[i] = IF i <= 1 THEN <<x>>[i] ELSE s[i - 1]
    BY <1>1, ConcatProperties
  <2> QED
    BY <1>1, <2>1
<1>3. Elements(<<x>> \o s) = Elements(s) \cup {x}
  <2>1. ASSUME NEW i \in DOMAIN (<<x>> \o s) PROVE (<<x>> \o s)[i] \in Elements(s) \cup {x}
    <3>1. CASE i = 1
      BY <1>2, <3>1
    <3>2. CASE i # 1
      <4>1. i - 1 \in 1 .. Len(s) /\ (i - 1) + 1 = i
        BY <1>2, <3>2
      <4>2. (<<x>> \o s)[i] = s[i - 1]
        BY <1>2, <4>1
      <4> QED
        BY <1>2, <4>1, <4>2 DEF Elements
    <3> QED
      BY <3>1, <3>2
  <2>2. ASSUME NEW i \in DOMAIN s PROVE s[i] \in Elements(<<x>> \o s)
    <3>1. i + 1 \in DOMAIN (<<x>> \o s) /\ (<<x>> \o s)[i + 1] = s[i]
      BY <1>2
    <3> QED
      BY <3>1 DEF Elements
  <2>3. 1 \in DOMAIN (<<x>> \o s)
    BY <1>2
  <2> QED
    BY <1>2, <2>1, <2>2, <2>3 DEF Elements
<1>4. ASSUME Distinct(s), x \notin Elements(s) PROVE Distinct(<<x>> \o s)
  <2> SUFFICES ASSUME NEW i \in 1 .. Len(s) + 1, NEW j \in 1 .. Len(s) + 1,
                      (<<x>> \o s)[i] = (<<x>> \o s)[j]
               PROVE  i = j
    BY <1>2 DEF Distinct
  <2>1. \A k \in 1 .. Len(s) + 1 : k = 1 \/ (k - 1 \in 1 .. Len(s) /\ (<<x>> \o s)[k] = s[k - 1])
    <3> SUFFICES ASSUME NEW k \in 1 .. Len(s) + 1, k # 1
                 PROVE  k - 1 \in 1 .. Len(s) /\ (<<x>> \o s)[k] = s[k - 1]
      OBVIOUS
    <3>1. k - 1 \in 1 .. Len(s) /\ (k - 1) + 1 = k
      BY <1>2
    <3> QED
      BY <1>2, <3>1
  <2> QED
    BY <1>2, <1>4, <2>1 DEF Distinct, Elements
<1> QED
  BY <1>2, <1>3, <1>4

(* list_del takes out one place, and the list had its reader once.         *)
LEMMA UnlinkedOf ==
  ASSUME readers \in Seq(Readers), Distinct(readers), NEW r \in Elements(readers)
  PROVE  /\ Unlinked(r) \in Seq(Readers) /\ Distinct(Unlinked(r))
         /\ Elements(Unlinked(r)) = Elements(readers) \ {r}
<1> DEFINE i == CHOOSE j \in DOMAIN readers : readers[j] = r
           k == Len(readers)
           front == SubSeq(readers, 1, i - 1)
           back == SubSeq(readers, i + 1, k)
<1>1. k \in Nat /\ DOMAIN readers = 1 .. k /\ i \in 1 .. k /\ readers[i] = r
  BY DEF Elements
<1>2. Unlinked(r) = front \o back
  BY DEF Unlinked
<1> HIDE DEF i, k
<1>3. /\ front \in Seq(Readers) /\ Len(front) = i - 1
      /\ \A m \in 1 .. i - 1 : front[m] = readers[m]
  <2>1. i - 1 \in Int /\ \A m \in 1 .. i - 1 : readers[m] \in Readers
    BY <1>1
  <2> QED
    BY <1>1, <2>1, SubSeqProperties DEF k
<1>4. /\ back \in Seq(Readers) /\ Len(back) = k - i
      /\ \A m \in 1 .. k - i : back[m] = readers[i + m]
  <2>1. i + 1 \in Int /\ \A m \in i + 1 .. k : readers[m] \in Readers
    BY <1>1
  <2>2. /\ back \in Seq(Readers) /\ Len(back) = IF i + 1 <= k THEN k - (i + 1) + 1 ELSE 0
        /\ \A m \in 1 .. k - (i + 1) + 1 : back[m] = readers[(i + 1) + m - 1]
    BY <1>1, <2>1, SubSeqProperties
  <2>3. k - (i + 1) + 1 = k - i /\ \A m \in Int : (i + 1) + m - 1 = i + m
    BY <1>1
  <2>4. i + 1 <= k \/ k - i = 0
    BY <1>1
  <2> HIDE DEF back
  <2>5. Len(back) = k - i
    BY <1>1, <2>2, <2>4
  <2>6. ASSUME NEW m \in 1 .. k - i PROVE back[m] = readers[i + m]
    <3>1. m \in 1 .. k - (i + 1) + 1 /\ (i + 1) + m - 1 = i + m
      BY <1>1, <2>3
    <3> QED
      BY <2>2, <3>1
  <2> QED
    BY <2>2, <2>5, <2>6
<1> HIDE DEF front, back
<1>5. /\ front \o back \in Seq(Readers) /\ Len(front \o back) = k - 1
      /\ DOMAIN (front \o back) = 1 .. k - 1
      /\ \A m \in 1 .. k - 1 : (front \o back)[m] = IF m < i THEN readers[m] ELSE readers[m + 1]
  <2>1. /\ front \o back \in Seq(Readers) /\ Len(front \o back) = Len(front) + Len(back)
        /\ \A m \in 1 .. Len(front) + Len(back) :
             (front \o back)[m] = IF m <= Len(front) THEN front[m] ELSE back[m - Len(front)]
    BY <1>3, <1>4, ConcatProperties
  <2>2. Len(front) + Len(back) = k - 1
    BY <1>1, <1>3, <1>4
  <2>3. ASSUME NEW m \in 1 .. k - 1
        PROVE  (front \o back)[m] = IF m < i THEN readers[m] ELSE readers[m + 1]
    <3>1. CASE m < i
      BY <1>1, <1>3, <2>1, <2>2, <3>1
    <3>2. CASE ~(m < i)
      <4>1. m - (i - 1) \in 1 .. k - i /\ i + (m - (i - 1)) = m + 1
        BY <1>1, <3>2
      <4>2. (front \o back)[m] = back[m - (i - 1)]
        BY <1>1, <1>3, <2>1, <2>2, <3>2
      <4> QED
        BY <1>4, <3>2, <4>1, <4>2
    <3> QED
      BY <3>1, <3>2
  <2> QED
    BY <2>1, <2>2, <2>3
<1> DEFINE s == front \o back
           at(m) == IF m < i THEN m ELSE m + 1
<1>a. /\ DOMAIN s = 1 .. k - 1
      /\ \A m \in 1 .. k - 1 : at(m) \in 1 .. k /\ at(m) # i /\ s[m] = readers[at(m)]
      /\ \A m, l \in 1 .. k - 1 : at(m) = at(l) => m = l
  BY <1>1, <1>5
<1> HIDE DEF s, at
<1>6. Distinct(s)
  BY <1>1, <1>a DEF Distinct
<1>7. Elements(s) \subseteq Elements(readers) \ {r}
  BY <1>1, <1>a DEF Distinct, Elements
<1>8. ASSUME NEW x \in Elements(readers) \ {r} PROVE x \in Elements(s)
  <2>1. PICK j \in 1 .. k : readers[j] = x /\ j # i
    BY <1>1 DEF Elements
  <2>2. CASE j < i
    <3>1. j \in 1 .. k - 1 /\ s[j] = x
      BY <1>1, <1>5, <2>1, <2>2 DEF s
    <3> QED
      BY <1>a, <3>1 DEF Elements
  <2>3. CASE j > i
    <3>1. j - 1 \in 1 .. k - 1 /\ ~(j - 1 < i) /\ (j - 1) + 1 = j
      BY <1>1, <2>3
    <3>2. s[j - 1] = x
      BY <1>5, <2>1, <3>1 DEF s
    <3> QED
      BY <1>a, <3>1, <3>2 DEF Elements
  <2> QED
    BY <1>1, <2>1, <2>2, <2>3
<1> QED
  BY <1>2, <1>5, <1>6, <1>7, <1>8 DEF s

-----------------------------------------------------------------------------
(* The write                                                               *)

LEMMA StoredType ==
  ASSUME NEW b \in [Offsets -> Cells], NEW o \in Offsets, NEW id \in Nat, NEW from \in Nat,
         NEW len \in Nat
  PROVE  Stored(b, o, id, from, len) \in [Offsets -> Cells]
<1> SUFFICES ASSUME NEW i \in Offsets
             PROVE  (IF (i - o) % N < len THEN [id |-> id, pos |-> from + ((i - o) % N)]
                     ELSE b[i]) \in Cells
  BY DEF Stored
<1>1. (i - o) % N \in Nat
  <2>1. i - o \in Int
    BY Ring
  <2> QED
    BY <2>1, ModRange, Ring
<1> QED
  BY <1>1 DEF Cells

(* Storing len cells at the place x changes those places ...              *)
LEMMA StoredNew ==
  ASSUME NEW b \in [Offsets -> Cells], NEW x \in Int, NEW id \in Nat, NEW from \in Nat,
         NEW len \in 0 .. N, NEW y \in Int, x <= y, y < x + len
  PROVE  Stored(b, x % N, id, from, len)[y % N] = [id |-> id, pos |-> from + (y - x)]
<1>1. y % N \in Offsets
  BY ModRange
<1>2. x <= y /\ y < x + N /\ y - x < len
  BY Ring
<1>3. ((y % N) - (x % N)) % N = y - x
  BY <1>2, Ahead
<1> QED
  BY <1>1, <1>2, <1>3 DEF Stored

(* ... and none of the turn before the last of them.                       *)
LEMMA StoredOld ==
  ASSUME NEW b \in [Offsets -> Cells], NEW x \in Int, NEW id \in Nat, NEW from \in Nat,
         NEW len \in 0 .. N, NEW y \in Int, y < x, x + len <= y + N
  PROVE  Stored(b, x % N, id, from, len)[y % N] = b[y % N]
<1>1. y % N \in Offsets
  BY ModRange
<1>2. y < x /\ x <= y + N /\ ~(y - x + N < len)
  BY Ring
<1>3. ((y % N) - (x % N)) % N = y - x + N
  BY <1>2, Ahead
<1> QED
  BY <1>1, <1>2, <1>3 DEF Stored

(* The names of the cells in the log are those of entries.                 *)
LEMMA StoredIds ==
  ASSUME NEW b \in [Offsets -> Cells], NEW o, NEW id \in Nat, NEW from,
         NEW len, NEW top \in Nat, id <= top, \A i \in Offsets : b[i].id <= top
  PROVE  \A i \in Offsets : Stored(b, o, id, from, len)[i].id <= top
<1> SUFFICES ASSUME NEW i \in Offsets
             PROVE  (IF (i - o) % N < len THEN [id |-> id, pos |-> from + ((i - o) % N)]
                     ELSE b[i]).id <= top
  BY DEF Stored
<1>1. CASE (i - o) % N < len
  BY <1>1
<1>2. CASE ~((i - o) % N < len)
  BY <1>2
<1> QED
  BY <1>1, <1>2

LEMMA CursorSeq == readers \in Seq(Readers) => readers \in Seq(Cursors)
BY DEF Cursors

(* The line written is the newest entry, in its place behind the others.   *)
LEMMA HeaderLays ==
  ASSUME LinesFit, IInv, NEW count \in Counts, WriteHeader(count), NEW P, LogFollows(P),
         NEW Q, Q = [i \in 1 .. Newest + 2 |-> IF i <= Newest + 1 THEN P[i]
                                               ELSE P[Newest + 1] + HDR + HeaderLen(count)]
  PROVE  Laid(Q)' /\ Kept(Q)' /\ Written(Q)' = P[Newest + 1] + HDR /\ Newest' = Newest + 1
<1>1. /\ Newest \in Nat /\ Newest' = Newest + 1 /\ lines \in Seq(Counts)
      /\ \A i \in 1 .. Newest : lines'[i] = lines[i]
      /\ lines'[Newest + 1] = count /\ wpc = "idle" /\ wpc' = "fix"
  <2>1. lines' = Append(lines, count) /\ lines \in Seq(Counts)
    BY DEF IInv, TypeOK, WriteHeader
  <2> QED
    BY <2>1, AppendProperties DEF Newest, WriteHeader
<1>2. /\ \A i \in 1 .. Newest : EntrySize(i)' = EntrySize(i) /\ EntrySize(i) \in Nat
      /\ \A i : i = Newest + 1 => EntrySize(i)' = HDR + HeaderLen(count)
      /\ HeaderLen(count) \in Nat
  <2>1. ASSUME NEW i \in 1 .. Newest PROVE EntrySize(i)' = EntrySize(i) /\ EntrySize(i) \in Nat
    <3>1. lines'[i] = lines[i]
      BY <1>1
    <3>2. EntrySize(i)' = EntrySize(i)
      BY <3>1 DEF EntrySize
    <3>3. EntrySize(i) \in 3 .. N - 1
      BY <1>1, Sizes
    <3> QED
      BY <3>2, <3>3, Ring
  <2>2. \A i : i = Newest + 1 => EntrySize(i)' = HDR + HeaderLen(count)
    BY <1>1 DEF EntrySize
  <2>3. HeaderLen(count) \in Nat
    BY LineSize
  <2> QED
    BY <2>1, <2>2, <2>3
<1>3. /\ P \in [1 .. Newest + 1 -> Nat] /\ P[Newest + 1] \in Nat
      /\ \A i, j \in 1 .. Newest + 1 : i < j => P[i] + EntrySize(i) <= P[j]
      /\ \A i \in 1 .. Newest : P[i + 1] = P[i] + EntrySize(i)
  <2>1. /\ P \in [1 .. Newest + 1 -> Nat]
        /\ \A i, j \in 1 .. Newest + 1 : i < j => P[i] + EntrySize(i) <= P[j]
        /\ \A i \in 1 .. Newest : P[i + 1] = P[i] + EntrySize(i)
    BY Zenon DEF LogFollows, Laid
  <2>2. Newest + 1 \in 1 .. Newest + 1
    BY <1>1
  <2>3. P[Newest + 1] \in Nat
    BY <2>1, <2>2
  <2> QED
    BY <2>1, <2>3, Zenon
<1>4. HDR \in 2 .. N /\ N \in Nat
  BY SizesAssumption
<1>5. /\ \A i \in 1 .. Newest + 1 : Q[i] = P[i] /\ Q[i] \in Nat
      /\ Q[Newest + 2] = P[Newest + 1] + HDR + HeaderLen(count) /\ Q[Newest + 2] \in Nat
      /\ Q \in [1 .. Newest + 2 -> Nat]
  <2>1. P[Newest + 1] + HDR + HeaderLen(count) \in Nat
    BY <1>2, <1>3, <1>4
  <2>2. \A i \in 1 .. Newest + 2 : /\ i <= Newest + 1 => i \in 1 .. Newest + 1
                                  /\ ~(i <= Newest + 1) => i = Newest + 2
    BY <1>1
  <2>3. /\ Newest + 2 \in 1 .. Newest + 2 /\ ~(Newest + 2 <= Newest + 1)
        /\ \A i \in 1 .. Newest + 1 : i \in 1 .. Newest + 2 /\ i <= Newest + 1
    BY <1>1
  <2>4. \A i \in 1 .. Newest + 1 : Q[i] = P[i] /\ P[i] \in Nat
    BY <1>3, <2>3
  <2>5. Q[Newest + 2] = P[Newest + 1] + HDR + HeaderLen(count)
    BY <2>3
  <2>6. Q \in [1 .. Newest + 2 -> Nat]
    BY <1>3, <2>1, <2>2
  <2> QED
    BY <2>1, <2>4, <2>5, <2>6
<1>6. Laid(Q)'
  <2>1. \A i, j \in 1 .. Newest + 2 : i < j => Q[i] + EntrySize(i)' <= Q[j]
    <3> SUFFICES ASSUME NEW i \in 1 .. Newest + 2, NEW j \in 1 .. Newest + 2, i < j
                 PROVE  Q[i] + EntrySize(i)' <= Q[j]
      OBVIOUS
    <3>1. CASE j <= Newest + 1
      <4>1. i \in 1 .. Newest /\ j \in 1 .. Newest + 1
        BY <1>1, <3>1
      <4>2. P[i] + EntrySize(i) <= P[j]
        BY <1>1, <1>3, <4>1
      <4>3. EntrySize(i)' = EntrySize(i) /\ Q[i] = P[i] /\ Q[j] = P[j]
        BY <1>1, <1>2, <1>5, <4>1
      <4> QED
        BY <4>2, <4>3
    <3>2. CASE j = Newest + 2 /\ i <= Newest
      <4>1. i \in 1 .. Newest /\ i < Newest + 1 /\ Newest + 1 \in 1 .. Newest + 1
        BY <1>1, <3>2
      <4>2. P[i] + EntrySize(i) <= P[Newest + 1] /\ EntrySize(i)' = EntrySize(i)
            /\ EntrySize(i) \in Nat /\ Q[i] = P[i] /\ Q[i] \in Nat
        BY <1>2, <1>3, <1>5, <4>1
      <4> QED
        BY <1>2, <1>3, <1>4, <1>5, <3>2, <4>2
    <3>3. CASE j = Newest + 2 /\ i = Newest + 1
      <4>1. Q[i] = P[Newest + 1] /\ EntrySize(i)' = HDR + HeaderLen(count)
        <5>1. i \in 1 .. Newest + 1
          BY <1>1, <3>3
        <5> QED
          BY <1>2, <1>5, <3>3, <5>1
      <4> QED
        BY <1>2, <1>3, <1>4, <1>5, <3>3, <4>1
    <3> QED
      BY <1>1, <3>1, <3>2, <3>3
  <2>2. \A i \in 1 .. Newest + 1 : Q[i + 1] = Q[i] + EntrySize(i)'
    <3> SUFFICES ASSUME NEW i \in 1 .. Newest + 1
                 PROVE  Q[i + 1] = Q[i] + EntrySize(i)'
      OBVIOUS
    <3>1. CASE i <= Newest
      <4>1. i \in 1 .. Newest /\ i + 1 \in 1 .. Newest + 1
        BY <1>1, <3>1
      <4> QED
        BY <1>2, <1>3, <1>5, <4>1
    <3>2. CASE i = Newest + 1
      <4>1. i + 1 = Newest + 2 /\ EntrySize(i)' = HDR + HeaderLen(count)
        <5>1. EntrySize(i)' = HDR + HeaderLen(count)
          BY <1>2, <3>2
        <5> QED
          BY <1>1, <3>2, <5>1
      <4> QED
        BY <1>1, <1>2, <1>3, <1>4, <1>5, <3>2, <4>1
    <3> QED
      BY <1>1, <3>1, <3>2
  <2>3. Newest' + 1 = Newest + 2
    BY <1>1
  <2> QED
    BY <1>1, <1>5, <2>1, <2>2, <2>3 DEF Laid
<1>7. Written(Q)' = P[Newest + 1] + HDR
  BY <1>1, <1>5 DEF Written
<1> DEFINE x == P[Newest + 1]
<1>8. w_off = x % N /\ Written(P) = x
  BY <1>1 DEF LogFollows, Kept, Written
<1>9. w_off' = (x + HDR) % N
  <2>1. w_off' = ((x % N) + HDR) % N
    BY <1>8 DEF WriteHeader, logger_offset
  <2>2. HDR \in 0 .. N /\ x \in Int
    BY <1>3, <1>4
  <2> QED
    BY <2>1, <2>2, OffsetMoves
<1>10. buf' = Stored(buf, x % N, Newest + 1, 0, HDR) /\ buf \in [Offsets -> Cells]
  BY <1>8 DEF WriteHeader, Newest, IInv, TypeOK
<1> HIDE DEF x
<1>11. ASSUME NEW id \in 1 .. Newest', NEW k \in Nat, k < EntrySize(id)',
              Q[id] + k < x + HDR, x + HDR <= Q[id] + k + N
       PROVE  buf'[(Q[id] + k) % N] = [id |-> id, pos |-> k]
  <2>1. x \in Nat
    BY <1>3 DEF x
  <2>2. CASE id = Newest + 1
    <3>1. Q[id] = x
      BY <1>1, <1>5, <2>2 DEF x
    <3>2. x + k \in Int /\ x <= x + k /\ x + k < x + HDR /\ 0 + ((x + k) - x) = k
      BY <1>4, <1>11, <2>1, <3>1
    <3>3. buf'[(x + k) % N] = [id |-> Newest + 1, pos |-> 0 + ((x + k) - x)]
      <4>1. HDR \in 0 .. N /\ x \in Int /\ Newest + 1 \in Nat /\ 0 \in Nat
        BY <1>1, <1>4, <2>1
      <4>2. Stored(buf, x % N, Newest + 1, 0, HDR)[(x + k) % N]
              = [id |-> Newest + 1, pos |-> 0 + ((x + k) - x)]
        BY <1>10, <3>2, <4>1, StoredNew
      <4> QED
        BY <1>10, <4>2
    <3> QED
      BY <2>2, <3>1, <3>2, <3>3
  <2>3. CASE id # Newest + 1
    <3>1. id \in 1 .. Newest /\ id < Newest + 1 /\ Newest + 1 \in 1 .. Newest + 1
          /\ id \in 1 .. Newest + 1
      BY <1>1, <2>3
    <3>2. Q[id] = P[id] /\ P[id] \in Nat /\ EntrySize(id)' = EntrySize(id) /\ EntrySize(id) \in Nat
          /\ P[id] + EntrySize(id) <= x
      BY <1>2, <1>3, <1>5, <3>1 DEF x
    <3>3. P[id] + k \in Int /\ P[id] + k < x /\ x + HDR <= P[id] + k + N /\ x <= P[id] + k + N
      BY <1>4, <1>11, <2>1, <3>2
    <3>y. PICK y \in Int : y = P[id] + k
      BY <3>3
    <3>4. buf'[y % N] = buf[y % N]
      <4>1. HDR \in 0 .. N /\ x \in Int /\ Newest + 1 \in Nat /\ 0 \in Nat
        BY <1>1, <1>4, <2>1
      <4>2. y < x /\ x + HDR <= y + N
        BY <3>3, <3>y
      <4>3. Stored(buf, x % N, Newest + 1, 0, HDR)[y % N] = buf[y % N]
        BY <1>10, <4>1, <4>2, StoredOld
      <4> QED
        BY <1>10, <4>3
    <3>5. buf[(P[id] + k) % N] = [id |-> id, pos |-> k]
      BY <1>8, <1>11, <3>1, <3>2, <3>3 DEF LogFollows, Kept
    <3> QED
      BY <3>2, <3>y, <3>4, <3>5
  <2> QED
    BY <2>2, <2>3
<1>12. Kept(Q)'
  BY <1>7, <1>9, <1>11 DEF Kept, x
<1> QED
  BY <1>1, <1>6, <1>7, <1>12

LEMMA WriteHeaderKeeps ==
  ASSUME LinesFit, IInv, NEW count \in Counts, WriteHeader(count)
  PROVE  IInv'
<1> USE DEF rvars
<1>1. /\ lines \in Seq(Counts) /\ lines' = Append(lines, count) /\ lines' \in Seq(Counts)
      /\ Len(lines') = Len(lines) + 1 /\ Len(lines) \in Nat /\ lines' # <<>>
  <2>1. lines' = Append(lines, count) /\ lines \in Seq(Counts)
    BY DEF IInv, TypeOK, WriteHeader
  <2>2. Len(lines) \in Nat /\ Len(lines') = Len(lines) + 1 /\ lines' \in Seq(Counts)
    BY <2>1, AppendProperties, LenProperties
  <2> QED
    BY <2>1, <2>2
<1>2. /\ <<HEAD>> \o readers \in Seq(Cursors)
      /\ Elements(<<HEAD>> \o readers) = Elements(readers) \cup {HEAD}
      /\ Distinct(<<HEAD>> \o readers)
  <2>1. readers \in Seq(Cursors) /\ HEAD \in Cursors /\ HEAD \notin Elements(readers)
    <3>1. readers \in Seq(Readers) /\ HEAD \notin Readers
      BY ActorsAssumption DEF IInv, TypeOK
    <3>2. Elements(readers) \subseteq Readers
      BY <3>1 DEF Elements
    <3> QED
      BY <3>1, <3>2, CursorSeq DEF Cursors
  <2> QED
    BY <2>1, PutInFront DEF IInv, Control, ListInv
<1>3. TypeOK'
  <2>1. buf' \in [Offsets -> Cells]
    <3>1. buf \in [Offsets -> Cells] /\ w_off \in Offsets /\ Len(lines) + 1 \in Nat /\ HDR \in Nat
      BY <1>1, SizesAssumption DEF IInv, TypeOK
    <3> QED
      BY <3>1, StoredType DEF WriteHeader
  <2>2. w_off' \in Offsets
    <3>1. w_off + HDR \in Int
      BY Ring, SizesAssumption DEF IInv, TypeOK
    <3> QED
      BY <3>1, ModRange DEF WriteHeader, logger_offset
  <2>3. damaged' \in [Readers -> BOOLEAN]
    BY DEF WriteHeader, IInv, TypeOK
  <2> QED
    BY <1>1, <1>2, <2>1, <2>2, <2>3 DEF WriteHeader, IInv, TypeOK
<1>4. Control'
  <2>1. ListInv'
    BY <1>2 DEF IInv, Control, ListInv, WriteHeader
  <2>2. MutexInv'
    BY DEF IInv, Control, MutexInv, WriteHeader
  <2>3. WriteInv'
    <3>1. \A i \in Offsets : buf[i].id <= Len(lines) + 1
      <4>1. \A i \in Offsets : buf[i].id \in Nat /\ buf[i].id <= Len(lines)
        BY DEF IInv, TypeOK, Control, WriteInv, Cells
      <4> QED
        BY <1>1, <4>1
    <3>2. buf \in [Offsets -> Cells] /\ Len(lines) + 1 \in Nat /\ Len(lines) + 1 <= Len(lines) + 1
      BY <1>1 DEF IInv, TypeOK
    <3>3. \A i \in Offsets : Stored(buf, w_off, Len(lines) + 1, 0, HDR)[i].id <= Len(lines) + 1
      BY <3>1, <3>2, StoredIds
    <3> QED
      BY <1>1, <3>3 DEF WriteHeader, WriteInv
  <2>4. \A r \in Readers : ReaderInv(r)'
    BY DEF IInv, Control, ReaderInv, WriteHeader
  <2> QED
    BY <2>1, <2>2, <2>3, <2>4 DEF Control
<1>5. PICK P : LogFollows(P)
  BY DEF IInv
<1>6. PICK Q : Q = [i \in 1 .. Newest + 2 |-> IF i <= Newest + 1 THEN P[i]
                                              ELSE P[Newest + 1] + HDR + HeaderLen(count)]
  OBVIOUS
<1>7. Laid(Q)' /\ Kept(Q)' /\ Written(Q)' = P[Newest + 1] + HDR /\ Newest' = Newest + 1
  BY <1>5, <1>6, HeaderLays
<1>8. ASSUME NEW c \in Cursors, Live(c)' PROVE Follows(c, Q)'
  <2>1. Live(c) /\ (c \in Readers => mutex # c)
    <3>1. CASE c = HEAD
      BY <3>1, ActorsAssumption DEF Live
    <3>2. CASE c # HEAD
      <4>1. c \in Readers /\ pc[c] # "closed" /\ ~damaged'[c]
        BY <1>8, <3>2 DEF Live, WriteHeader
      <4>2. ~(damaged[c] \/ mutex = c)
        BY <4>1, Zenon DEF WriteHeader
      <4> QED
        BY <4>1, <4>2 DEF Live
    <3> QED
      BY <3>1, <3>2
  <2>2. PICK e \in Nat : Stands(c, e, P) /\ (c \in Readers => Reads(c, e))
    BY <1>5, <1>8, <2>1 DEF LogFollows, Follows
  <2>3. e \in 1 .. Newest + 1 /\ Newest \in Nat /\ Q[e] = P[e]
    BY <1>1, <1>6, <2>2 DEF Stands, Newest
  <2>4. c \in Elements(todo')
    <3>1. CASE c = HEAD
      BY <1>2, <3>1 DEF WriteHeader
    <3>2. CASE c # HEAD
      <4>1. c \in Readers /\ pc[c] \notin {"closed", "link"}
        BY <1>8, <2>1, <3>2 DEF Cursors, Live, IInv, Control, MutexInv, InMutex
      <4> QED
        BY <1>2, <4>1 DEF WriteHeader, IInv, Control, ListInv
    <3> QED
      BY <3>1, <3>2
  <2>5. c \notin Elements(todo) /\ todo = <<>> /\ wpc = "idle" /\ wpc' = "fix"
    BY DEF IInv, Control, WriteInv, WriteHeader, Elements
  <2>6. P[Newest + 1] + HDR < P[e] + N /\ off[c] = P[e] % N
    BY <2>2, <2>5 DEF Stands
  <2>7. Stands(c, e, Q)'
    <3>1. e \in 1 .. Newest' + 1 /\ e <= Newest'
      BY <1>7, <2>3
    <3>2. off'[c] = Q[e] % N
      BY <2>3, <2>6 DEF WriteHeader
    <3>3. Written(Q)' < Q[e] + N
      BY <1>7, <2>3, <2>6
    <3> QED
      BY <2>4, <2>5, <3>1, <3>2, <3>3 DEF Stands
  <2>8. ASSUME c \in Readers PROVE Reads(c, e)'
    <3>1. mutex # c /\ mutex' = mutex /\ pc' = pc /\ last' = last /\ pc[c] \notin InMutex
      BY <2>1, <2>8 DEF WriteHeader, IInv, Control, MutexInv
    <3>2. last[c] < e
      BY <2>2, <2>8 DEF Reads
    <3> QED
      BY <3>1, <3>2 DEF Reads, InMutex
  <2> QED
    BY <2>7, <2>8 DEF Follows
<1>9. LogFollows(Q)'
  BY <1>7, <1>8 DEF LogFollows
<1> QED
  BY <1>3, <1>4, <1>9 DEF IInv

(* A step that stores nothing                                              *)
LEMMA LogRests ==
  ASSUME NEW P, LogFollows(P), lines' = lines, buf' = buf, w_off' = w_off,
         wpc' \in {"fix", "pull"} <=> wpc \in {"fix", "pull"},
         \A c \in Cursors : Live(c)' => Follows(c, P)'
  PROVE  LogFollows(P)'
<1>1. Newest' = Newest /\ \A i : EntrySize(i)' = EntrySize(i)
  BY DEF Newest, EntrySize
<1>2. Written(P)' = Written(P)
  BY <1>1 DEF Written
<1>3. Laid(P)'
  BY <1>1 DEF Laid, LogFollows
<1>4. Kept(P)'
  BY <1>1, <1>2 DEF Kept, LogFollows
<1> QED
  BY <1>3, <1>4 DEF LogFollows

(* While the readers are fixed: which entry, in numbers                    *)
LEMMA Places ==
  ASSUME LinesFit, TypeOK, WriteInv, NEW P, Laid(P), wpc \in {"fix", "pull"}
  PROVE  /\ Newest \in Nat \ {0} /\ NewLen = EntrySize(Newest) /\ NewLen \in 3 .. N - 1
         /\ Written(P) = P[Newest] + HDR /\ Written(P) + NewLen = P[Newest + 1] + HDR
         /\ \A e \in 1 .. Newest + 1 : P[e] \in Nat
         /\ \A e \in 1 .. Newest : P[e] <= P[Newest] /\ P[e + 1] = P[e] + EntrySize(e)
                                   /\ EntrySize(e) \in 3 .. N - 1
         /\ HDR \in 2 .. N /\ Written(P) \in Nat
<1>1. Newest \in Nat \ {0}
  BY EmptySeq DEF TypeOK, WriteInv, Newest
<1>2. \A e \in 1 .. Newest : EntrySize(e) \in 3 .. N - 1
  BY Sizes DEF TypeOK
<1>3. \A e \in 1 .. Newest + 1 : P[e] \in Nat
  BY DEF Laid
<1>4. \A e \in 1 .. Newest : P[e + 1] = P[e] + EntrySize(e)
  BY DEF Laid
<1>5. ASSUME NEW e \in 1 .. Newest PROVE P[e] <= P[Newest]
  <2>1. CASE e = Newest
    BY <1>1, <1>3, <2>1
  <2>2. CASE e # Newest
    <3>1. e < Newest /\ e \in 1 .. Newest + 1 /\ Newest \in 1 .. Newest + 1
      BY <1>1, <2>2
    <3>2. P[e] + EntrySize(e) <= P[Newest] /\ EntrySize(e) \in Nat
      BY <1>2, <3>1, Ring DEF Laid
    <3> QED
      BY <1>3, <3>1, <3>2
  <2> QED
    BY <2>1, <2>2
<1>6. NewLen = EntrySize(Newest)
  BY DEF NewLen, EntrySize, Newest
<1>7. HDR \in 2 .. N /\ N \in Nat
  BY SizesAssumption
<1>8. Newest \in 1 .. Newest /\ Newest \in 1 .. Newest + 1 /\ Newest + 1 \in 1 .. Newest + 1
  BY <1>1
<1>9. P[Newest + 1] = P[Newest] + NewLen /\ P[Newest] \in Nat /\ NewLen \in 3 .. N - 1
  BY <1>2, <1>3, <1>4, <1>6, <1>8
<1>10. Written(P) = P[Newest] + HDR
  BY DEF Written
<1>11. Written(P) + NewLen = P[Newest + 1] + HDR /\ Written(P) \in Nat
  BY <1>7, <1>9, <1>10
<1> QED
  BY <1>1, <1>2, <1>3, <1>4, <1>5, <1>6, <1>7, <1>9, <1>10, <1>11

(* The entry of a cursor that has still to be looked at                    *)
LEMMA CrossedMeans ==
  ASSUME LinesFit, TypeOK, WriteInv, NEW P, Laid(P), Kept(P), wpc = "fix",
         NEW c \in Cursors, c \in Elements(todo), NEW e \in Nat, Stands(c, e, P)
  PROVE  Crossed(c) <=> P[e] + N <= P[Newest + 1] + HDR
<1>1. e \in 1 .. Newest /\ Written(P) < P[e] + N /\ off[c] = P[e] % N
  BY DEF Stands
<1>2. P[e] \in Nat /\ P[Newest] \in Nat /\ P[e] <= P[Newest]
      /\ Written(P) = P[Newest] + HDR /\ HDR \in 2 .. N
      /\ Written(P) + NewLen = P[Newest + 1] + HDR /\ NewLen \in 3 .. N - 1 /\ Written(P) \in Nat
  <2>1. e \in 1 .. Newest + 1 /\ Newest \in 1 .. Newest + 1
    BY <1>1, Places
  <2> QED
    BY <1>1, <2>1, Places
<1>3. P[e] < Written(P) /\ P[e] \in Int /\ Written(P) \in Int /\ NewLen \in 0 .. N - 1
  BY <1>2, Ring
<1>4. clock_interval(Written(P) % N, logger_offset((Written(P) % N) + NewLen), P[e] % N)
        <=> P[e] + N <= Written(P) + NewLen
  BY <1>1, <1>3, Overtaken
<1> QED
  BY <1>1, <1>2, <1>4 DEF Crossed, Kept

LEMMA FixSkipKeeps ==
  ASSUME LinesFit, IInv, FixSkip
  PROVE  IInv'
<1> USE DEF rvars
<1>1. /\ Tail(todo) \in Seq(Cursors) /\ Distinct(Tail(todo)) /\ Head(todo) \in Cursors
      /\ Elements(Tail(todo)) = Elements(todo) \ {Head(todo)}
  BY TailOf DEF IInv, TypeOK, Control, ListInv, FixSkip
<1>2. TypeOK'
  BY <1>1 DEF IInv, TypeOK, FixSkip
<1>3. Control'
  BY <1>1 DEF IInv, Control, ListInv, MutexInv, WriteInv, ReaderInv, FixSkip
<1>4. PICK P : LogFollows(P)
  BY DEF IInv
<1>5. ASSUME NEW c \in Cursors, Live(c)' PROVE Follows(c, P)'
  <2>1. Live(c) /\ wpc = "fix" /\ wpc' = "fix"
    BY <1>5 DEF Live, FixSkip
  <2>2. PICK e \in Nat : Stands(c, e, P) /\ (c \in Readers => Reads(c, e))
    BY <1>4, <1>5, <2>1 DEF LogFollows, Follows
  <2>3. Newest' = Newest /\ Written(P)' = Written(P)
    BY DEF Newest, Written, FixSkip
  <2>4. Stands(c, e, P)'
    <3>1. CASE c = Head(todo) /\ c \in Elements(todo)
      <4>1. ~(P[e] + N <= P[Newest + 1] + HDR)
        BY <1>4, <2>1, <2>2, <3>1, CrossedMeans DEF FixSkip, IInv, Control, LogFollows
      <4>2. P[e] \in Nat /\ P[Newest + 1] \in Nat /\ HDR \in Nat /\ N \in Nat
        <5>1. TypeOK /\ WriteInv /\ Laid(P) /\ e \in 1 .. Newest
          BY <1>4, <2>1, <2>2, <3>1 DEF IInv, Control, LogFollows, Stands
        <5>2. /\ \A d \in 1 .. Newest + 1 : P[d] \in Nat
              /\ Newest \in Nat \ {0} /\ HDR \in 2 .. N
          BY <2>1, <5>1, Places
        <5> QED
          BY <5>1, <5>2, Ring
      <4>3. P[Newest + 1] + HDR < P[e] + N
        BY <4>1, <4>2
      <4> QED
        BY <1>1, <2>1, <2>2, <2>3, <3>1, <4>3 DEF Stands, FixSkip
    <3>2. CASE ~(c = Head(todo) /\ c \in Elements(todo))
      <4>1. c \in Elements(todo') <=> c \in Elements(todo)
        BY <1>1, <3>2 DEF FixSkip
      <4> QED
        BY <2>1, <2>2, <2>3, <4>1 DEF Stands, FixSkip
    <3> QED
      BY <3>1, <3>2
  <2>5. c \in Readers => Reads(c, e)'
    BY <2>1, <2>2, <2>3 DEF Reads, FixSkip, EntrySize, Newest
  <2> QED
    BY <2>4, <2>5 DEF Follows
<1>6. LogFollows(P)'
  BY <1>4, <1>5, LogRests DEF FixSkip
<1> QED
  BY <1>2, <1>3, <1>6 DEF IInv

LEMMA FixPullKeeps ==
  ASSUME LinesFit, IInv, FixPull
  PROVE  IInv'
<1> USE DEF rvars
<1>1. TypeOK'
  BY DEF IInv, TypeOK, FixPull
<1>2. Control'
  BY DEF IInv, Control, ListInv, MutexInv, WriteInv, ReaderInv, FixPull
<1>3. PICK P : LogFollows(P)
  BY DEF IInv
<1>4. ASSUME NEW c \in Cursors, Live(c)' PROVE Follows(c, P)'
  <2>1. Live(c) /\ wpc = "fix" /\ wpc' = "pull"
    BY <1>4 DEF Live, FixPull
  <2>2. PICK e \in Nat : Stands(c, e, P) /\ (c \in Readers => Reads(c, e))
    BY <1>3, <1>4, <2>1 DEF LogFollows, Follows
  <2>3. Newest' = Newest /\ Written(P)' = Written(P)
    BY DEF Newest, Written, FixPull
  <2>4. c = Head(todo) => Written(P) + 0 < P[e] + N
    <3> SUFFICES ASSUME c = Head(todo) PROVE Written(P) + 0 < P[e] + N
      OBVIOUS
    <3>1. Head(todo) \in Elements(todo)
      <4>1. 1 \in DOMAIN todo /\ Head(todo) = todo[1]
        BY HeadTailProperties DEF FixPull, IInv, TypeOK
      <4> QED
        BY <4>1 DEF Elements
    <3>2. Written(P) < P[e] + N
      BY <2>2, <3>1 DEF Stands
    <3>3. Written(P) \in Nat
      BY <1>3, <2>1, Places DEF IInv, Control, LogFollows
    <3> QED
      BY <3>2, <3>3
  <2>5. Stands(c, e, P)'
    BY <2>1, <2>2, <2>3, <2>4 DEF Stands, FixPull
  <2>6. c \in Readers => Reads(c, e)'
    BY <2>1, <2>2, <2>3 DEF Reads, FixPull, EntrySize, Newest
  <2> QED
    BY <2>5, <2>6 DEF Follows
<1>5. LogFollows(P)'
  BY <1>3, <1>4, LogRests DEF FixPull
<1> QED
  BY <1>1, <1>2, <1>5 DEF IInv

(* One entry on: the cursor stands on the next entry, and is done when it  *)
(* has passed as much as will be stored.                                   *)
LEMMA GetNextEntryKeeps ==
  ASSUME LinesFit, IInv, GetNextEntry
  PROVE  IInv'
<1> USE DEF rvars
<1> DEFINE h == Head(todo)
<1>1. PICK nr \in get_entry_len(off[h]) :
        /\ off' = [off EXCEPT ![h] = logger_offset(@ + nr)]
        /\ \/ skipped + nr < NewLen /\ skipped' = skipped + nr /\ wpc' = wpc /\ todo' = todo
           \/ ~(skipped + nr < NewLen) /\ skipped' = 0 /\ wpc' = "fix" /\ todo' = Tail(todo)
  BY DEF GetNextEntry
<1>2. /\ wpc = "pull" /\ todo # <<>>
      /\ UNCHANGED <<buf, w_off, readers, mutex, lines, ftodo, damaged>> /\ UNCHANGED rvars
  BY DEF GetNextEntry, IInv, Control, WriteInv
<1>3. /\ Tail(todo) \in Seq(Cursors) /\ Distinct(Tail(todo)) /\ h \in Cursors
      /\ Elements(Tail(todo)) = Elements(todo) \ {h} /\ h \in Elements(todo)
  <2>1. 1 \in DOMAIN todo /\ h = todo[1]
    BY <1>2, HeadTailProperties DEF IInv, TypeOK
  <2>2. h \in Elements(todo)
    BY <2>1 DEF Elements
  <2> QED
    BY <1>2, <2>2, TailOf DEF IInv, TypeOK, Control, ListInv
<1>4. off[h] \in Offsets /\ nr \in 2 .. N /\ off' \in [Cursors -> Offsets] /\ skipped' \in Nat
      /\ off'[h] = (off[h] + nr) % N /\ \A c \in Cursors : c # h => off'[c] = off[c]
  <2>1. off[h] \in Offsets /\ off \in [Cursors -> Offsets] /\ skipped \in Nat
    BY <1>3 DEF IInv, TypeOK
  <2>2. nr \in 2 .. N
    BY <2>1, LenRange DEF IInv, Control
  <2>3. (off[h] + nr) % N \in Offsets
    <3>1. off[h] + nr \in Int
      BY <2>1, <2>2, Ring
    <3> QED
      BY <3>1, ModRange
  <2>4. off' \in [Cursors -> Offsets] /\ off'[h] = (off[h] + nr) % N
        /\ \A c \in Cursors : c # h => off'[c] = off[c]
    BY <1>1, <1>3, <2>1, <2>3 DEF logger_offset
  <2>5. skipped' \in Nat
    BY <1>1, <2>1, <2>2
  <2> QED
    BY <2>1, <2>2, <2>4, <2>5
<1>5. TypeOK'
  BY <1>1, <1>2, <1>3, <1>4 DEF IInv, TypeOK
<1>6. Control'
  <2>1. ListInv'
    BY <1>1, <1>2, <1>3 DEF IInv, Control, ListInv
  <2>2. MutexInv' /\ \A r \in Readers : ReaderInv(r)'
    BY <1>2 DEF IInv, Control, MutexInv, ReaderInv
  <2>3. WriteInv'
    BY <1>1, <1>2 DEF IInv, Control, WriteInv
  <2> QED
    BY <2>1, <2>2, <2>3 DEF Control
<1>7. PICK P : LogFollows(P)
  BY DEF IInv
<1>8. /\ Newest \in Nat \ {0} /\ NewLen = EntrySize(Newest) /\ NewLen \in 3 .. N - 1
      /\ Written(P) = P[Newest] + HDR /\ Written(P) + NewLen = P[Newest + 1] + HDR
      /\ HDR \in 2 .. N /\ Written(P) \in Nat /\ skipped \in Nat /\ N \in Nat
  BY <1>2, <1>7, Places, Ring DEF IInv, TypeOK, Control, LogFollows
<1>9. Newest' = Newest /\ Written(P)' = Written(P)
  BY <1>1, <1>2 DEF Newest, Written
<1>10. ASSUME NEW c \in Cursors, Live(c)' PROVE Follows(c, P)'
  <2>1. Live(c)
    BY <1>2, <1>10 DEF Live
  <2>2. PICK e \in Nat : Stands(c, e, P) /\ (c \in Readers => Reads(c, e))
    BY <1>7, <1>10, <2>1 DEF LogFollows, Follows
  <2>3. c \in Readers => mutex # c /\ pc[c] \notin InMutex /\ last[c] < e
    BY <1>2, <2>2 DEF Reads, IInv, Control, MutexInv
  <2>4. CASE c = h
    <3>1. /\ e \in 1 .. Newest /\ off[h] = P[e] % N
          /\ Written(P) < P[e] + N /\ Written(P) + skipped < P[e] + N
      BY <1>2, <1>3, <2>2, <2>4 DEF Stands
    <3>2. /\ P[e] \in Nat /\ P[e] <= P[Newest] /\ EntrySize(e) \in 3 .. N - 1 /\ P[e + 1] \in Nat
          /\ P[e + 1] = P[e] + EntrySize(e)
      <4>1. e \in 1 .. Newest + 1 /\ e + 1 \in 1 .. Newest + 1
        BY <1>8, <3>1
      <4> QED
        BY <1>2, <1>7, <3>1, <4>1, Places DEF IInv, Control, LogFollows
    <3>3. P[e] + 1 < Written(P) /\ Written(P) <= P[e] + N
      <4>1. P[Newest] \in Nat
        <5>1. Newest \in 1 .. Newest + 1
          BY <1>8
        <5> QED
          BY <1>7, <5>1 DEF LogFollows, Laid
      <4> QED
        BY <1>8, <3>1, <3>2, <4>1
    <3>4. nr = EntrySize(e)
      <4>1. get_entry_len(P[e] % N) = {EntrySize(e)}
        BY <1>7, <3>1, <3>3, EntryAt DEF IInv, LogFollows
      <4> QED
        BY <3>1, <4>1
    <3>5. off'[c] = P[e + 1] % N
      <4>1. ((P[e] % N) + nr) % N = (P[e] + nr) % N
        <5>1. P[e] \in Int /\ nr \in 0 .. N
          BY <1>4, <3>2, Ring
        <5> QED
          BY <5>1, OffsetMoves
      <4> QED
        BY <1>4, <2>4, <3>1, <3>2, <3>4, <4>1
    <3>6. ASSUME skipped + nr < NewLen PROVE Stands(c, e + 1, P)'
      <4>1. skipped' = skipped + nr /\ wpc' = "pull" /\ todo' = todo
        BY <1>1, <1>2, <3>6
      <4>2. e # Newest
        BY <1>8, <3>4, <3>6
      <4>3. e + 1 \in 1 .. Newest + 1 /\ e + 1 <= Newest
        BY <1>8, <3>1, <4>2
      <4>4. Written(P) < P[e + 1] + N /\ Written(P) + skipped' < P[e + 1] + N
        BY <1>8, <3>1, <3>2, <3>4, <4>1
      <4> QED
        BY <1>3, <1>9, <2>4, <3>5, <4>1, <4>3, <4>4 DEF Stands
    <3>7. ASSUME ~(skipped + nr < NewLen) PROVE Stands(c, e + 1, P)'
      <4>1. wpc' = "fix" /\ todo' = Tail(todo) /\ c \notin Elements(todo')
        BY <1>1, <1>3, <2>4, <3>7
      <4>2. e + 1 \in 1 .. Newest + 1
        BY <1>8, <3>1
      <4>3. P[Newest + 1] \in Nat
        BY <1>2, <1>7, <1>8, Places DEF IInv, Control, LogFollows
      <4>4. P[Newest + 1] + HDR < P[e + 1] + N
        BY <1>4, <1>8, <3>1, <3>2, <3>4, <3>7, <4>3
      <4> QED
        BY <1>9, <3>5, <4>1, <4>2, <4>4 DEF Stands
    <3>8. Stands(c, e + 1, P)'
      BY <3>6, <3>7
    <3>9. c \in Readers => Reads(c, e + 1)'
      <4>1. c \in Readers => last[c] < e + 1
        BY <2>3, <3>1 DEF IInv, TypeOK
      <4> QED
        BY <1>2, <2>3, <4>1 DEF Reads, InMutex
    <3>10. e + 1 \in Nat
      OBVIOUS
    <3> QED
      BY <3>8, <3>9, <3>10 DEF Follows
  <2>5. CASE c # h
    <3>1. c \in Elements(todo') <=> c \in Elements(todo)
      BY <1>1, <1>3, <2>5
    <3>2. Stands(c, e, P)'
      <4>1. off'[c] = off[c] /\ (wpc' = "pull" /\ c = Head(todo') => FALSE)
        BY <1>1, <1>4, <2>5
      <4> QED
        BY <1>9, <2>2, <3>1, <4>1 DEF Stands
    <3>3. c \in Readers => Reads(c, e)'
      BY <1>2, <2>3 DEF Reads, InMutex
    <3> QED
      BY <3>2, <3>3 DEF Follows
  <2> QED
    BY <2>4, <2>5
<1>11. LogFollows(P)'
  <2>1. wpc' \in {"fix", "pull"} <=> wpc \in {"fix", "pull"}
    BY <1>1, <1>2
  <2> QED
    BY <1>2, <1>7, <1>10, <2>1, LogRests
<1> QED
  BY <1>5, <1>6, <1>11 DEF IInv

(* The payload ends the newest entry, and covers nothing that is kept.     *)
LEMMA PayloadKept ==
  ASSUME LinesFit, IInv, WritePayload, NEW P, LogFollows(P)
  PROVE  Laid(P)' /\ Kept(P)' /\ Newest' = Newest
<1> USE DEF rvars
<1>1. /\ wpc = "fix" /\ wpc' = "wake" /\ lines' = lines /\ Newest' = Newest
      /\ \A i : EntrySize(i)' = EntrySize(i)
  BY DEF WritePayload, Newest, EntrySize
<1>2. Laid(P)'
  BY <1>1 DEF Laid, LogFollows
<1>3. /\ Newest \in Nat \ {0} /\ NewLen = EntrySize(Newest) /\ NewLen \in 3 .. N - 1
      /\ Written(P) = P[Newest] + HDR /\ Written(P) + NewLen = P[Newest + 1] + HDR
      /\ HDR \in 2 .. N /\ Written(P) \in Nat
      /\ \A e \in 1 .. Newest + 1 : P[e] \in Nat
  BY <1>1, Places DEF IInv, Control, LogFollows
<1> DEFINE x == Written(P)
<1>4. PICK len : len = BodyLen(lines[Len(lines)])
  OBVIOUS
<1>5. len \in 0 .. N /\ HDR + len = NewLen
  <2>1. PICK count \in Counts : count = lines[Len(lines)]
    BY <1>3 DEF IInv, TypeOK, Newest
  <2>2. HeaderLen(count) \in Nat /\ BodyLen(count) = HeaderLen(count) /\ HDR + HeaderLen(count) < N
    BY LineSize
  <2> QED
    BY <1>3, <1>4, <2>1, <2>2, Ring DEF NewLen
<1>6. P[Newest + 1] = x + len /\ P[Newest + 1] \in Nat
  BY <1>3, <1>5
<1>7. w_off = x % N /\ w_off' = (x + len) % N
  <2>1. w_off = x % N
    BY DEF LogFollows, Kept
  <2>2. w_off' = ((x % N) + len) % N
    BY <1>4, <2>1 DEF WritePayload, logger_offset
  <2>3. x \in Int
    BY <1>3
  <2>4. ((x % N) + len) % N = (x + len) % N
    BY <1>5, <2>3, OffsetMoves
  <2> QED
    BY <2>1, <2>2, <2>4
<1>m. PICK m \in Nat : m = Newest
  BY <1>3
<1>8. buf' = Stored(buf, x % N, m, HDR, len) /\ buf \in [Offsets -> Cells]
  BY <1>4, <1>7, <1>m DEF WritePayload, Newest, IInv, TypeOK
<1>9. Written(P)' = x + len
  BY <1>1, <1>6 DEF Written
<1> HIDE DEF x
<1>10. ASSUME NEW id \in 1 .. Newest, NEW k \in Nat, k < EntrySize(id),
              P[id] + k < x + len, x + len <= P[id] + k + N
       PROVE  buf'[(P[id] + k) % N] = [id |-> id, pos |-> k]
  <2>1. x \in Nat /\ x \in Int /\ HDR \in Nat /\ Newest \in Nat /\ N \in Nat
    BY <1>3, Ring DEF x
  <2>2. P[id] \in Nat /\ P[Newest] \in Nat /\ EntrySize(id) \in Nat
    <3>1. id \in 1 .. Newest + 1 /\ Newest \in 1 .. Newest + 1
      BY <1>3
    <3>2. EntrySize(id) \in 3 .. N - 1
      BY Sizes DEF IInv, TypeOK
    <3> QED
      BY <1>3, <3>1, <3>2
  <2>3. PICK y \in Int : y = P[id] + k
    BY <2>2
  <2>4. CASE y < x
    <3>1. x + len <= y + N /\ x <= P[id] + k + N /\ P[id] + k < x
      BY <1>5, <1>10, <2>1, <2>2, <2>3, <2>4
    <3>2. Stored(buf, x % N, m, HDR, len)[y % N] = buf[y % N]
      <4>1. /\ buf \in [Offsets -> Cells] /\ x \in Int /\ HDR \in Nat /\ len \in 0 .. N
            /\ y < x /\ x + len <= y + N
        BY <1>5, <1>8, <2>1, <2>4, <3>1
      <4> QED
        BY <4>1, StoredOld
    <3>3. buf[y % N] = [id |-> id, pos |-> k]
      BY <1>10, <2>3, <3>1 DEF LogFollows, Kept, x
    <3> QED
      BY <1>8, <2>3, <3>2, <3>3
  <2>5. CASE ~(y < x)
    <3>1. id = Newest
      <4>1. ASSUME id # Newest PROVE FALSE
        <5>1. id < Newest /\ id \in 1 .. Newest + 1 /\ Newest \in 1 .. Newest + 1
          BY <1>3, <4>1
        <5>2. P[id] + EntrySize(id) <= P[Newest]
          BY <5>1 DEF LogFollows, Laid
        <5>3. x = P[Newest] + HDR
          BY <1>3 DEF x
        <5> QED
          BY <1>10, <2>1, <2>2, <2>3, <2>5, <5>2, <5>3
      <4> QED
        BY <4>1
    <3>2. x <= y /\ y < x + len /\ HDR + (y - x) = k
      <4>1. x = P[Newest] + HDR
        BY <1>3 DEF x
      <4> QED
        BY <1>10, <2>1, <2>2, <2>3, <2>5, <3>1, <4>1
    <3>3. Stored(buf, x % N, m, HDR, len)[y % N] = [id |-> m, pos |-> HDR + (y - x)]
      <4>1. /\ buf \in [Offsets -> Cells] /\ x \in Int /\ HDR \in Nat /\ len \in 0 .. N
            /\ x <= y /\ y < x + len
        BY <1>5, <1>8, <2>1, <3>2
      <4> QED
        BY <4>1, StoredNew
    <3> QED
      BY <1>8, <1>m, <2>3, <3>1, <3>2, <3>3
  <2> QED
    BY <2>4, <2>5
<1>11. Kept(P)'
  BY <1>1, <1>7, <1>9, <1>10 DEF Kept
<1> QED
  BY <1>1, <1>2, <1>11

LEMMA WritePayloadKeeps ==
  ASSUME LinesFit, IInv, WritePayload
  PROVE  IInv'
<1> USE DEF rvars
<1>1. PICK count \in Counts : count = lines[Len(lines)]
  <2>1. Len(lines) \in 1 .. Len(lines) /\ lines \in Seq(Counts)
    BY EmptySeq DEF IInv, TypeOK, Control, WriteInv, WritePayload
  <2> QED
    BY <2>1, ElementOfSeq
<1>2. BodyLen(count) \in Nat /\ Len(lines) \in Nat /\ HDR \in Nat
  BY LineSize, SizesAssumption, LenProperties DEF IInv, TypeOK
<1>3. TypeOK'
  <2>1. buf' \in [Offsets -> Cells]
    BY <1>1, <1>2, StoredType DEF IInv, TypeOK, WritePayload
  <2>2. w_off' \in Offsets
    <3>1. w_off + BodyLen(count) \in Int
      BY <1>2, Ring DEF IInv, TypeOK
    <3> QED
      BY <1>1, <3>1, ModRange DEF WritePayload, logger_offset
  <2> QED
    BY <2>1, <2>2 DEF IInv, TypeOK, WritePayload
<1>4. Control'
  <2>1. \A i \in Offsets : Stored(buf, w_off, Len(lines), HDR, BodyLen(count))[i].id <= Len(lines)
    <3>1. Len(lines) <= Len(lines) /\ \A i \in Offsets : buf[i].id <= Len(lines)
      BY <1>2 DEF IInv, Control, WriteInv
    <3> QED
      BY <1>2, <3>1, StoredIds DEF IInv, TypeOK
  <2>2. WriteInv'
    BY <1>1, <2>1 DEF IInv, Control, WriteInv, WritePayload
  <2>3. ListInv' /\ MutexInv' /\ \A r \in Readers : ReaderInv(r)'
    BY DEF IInv, Control, ListInv, MutexInv, ReaderInv, WritePayload
  <2> QED
    BY <2>2, <2>3 DEF Control
<1>5. PICK P : LogFollows(P)
  BY DEF IInv
<1>6. Laid(P)' /\ Kept(P)' /\ Newest' = Newest
  BY <1>5, PayloadKept
<1>7. ASSUME NEW c \in Cursors, Live(c)' PROVE Follows(c, P)'
  <2>1. Live(c) /\ wpc = "fix" /\ wpc' = "wake" /\ c \notin Elements(todo)
    BY <1>7 DEF Live, WritePayload, Elements
  <2>2. PICK e \in Nat : Stands(c, e, P) /\ (c \in Readers => Reads(c, e))
    BY <1>5, <1>7, <2>1 DEF LogFollows, Follows
  <2>3. Stands(c, e, P)'
    BY <1>6, <2>1, <2>2 DEF Stands, WritePayload
  <2>4. c \in Readers => mutex # c /\ pc[c] \notin InMutex /\ last[c] < e
    BY <2>1, <2>2 DEF Reads, IInv, Control, MutexInv
  <2>5. c \in Readers => Reads(c, e)'
    BY <2>4 DEF Reads, InMutex, WritePayload
  <2> QED
    BY <2>3, <2>5 DEF Follows
<1>8. LogFollows(P)'
  BY <1>6, <1>7 DEF LogFollows
<1> QED
  BY <1>3, <1>4, <1>8 DEF IInv

LEMMA WakeReadersKeeps ==
  ASSUME LinesFit, IInv, WakeReaders
  PROVE  IInv'
<1>1. TypeOK'
  BY DEF IInv, TypeOK, WakeReaders
<1>2. Control'
  BY DEF IInv, Control, ListInv, MutexInv, WriteInv, ReaderInv, WakeReaders
<1>3. PICK P : LogFollows(P)
  BY DEF IInv
<1>4. ASSUME NEW c \in Cursors, Live(c)' PROVE Follows(c, P)'
  <2>1. Live(c) /\ wpc = "wake" /\ wpc' = "idle" /\ todo = <<>> /\ todo' = todo
    BY <1>4 DEF Live, WakeReaders, IInv, Control, WriteInv
  <2>2. PICK e \in Nat : Stands(c, e, P) /\ (c \in Readers => Reads(c, e))
    BY <1>3, <1>4, <2>1 DEF LogFollows, Follows
  <2>3. Newest' = Newest
    BY DEF Newest, WakeReaders
  <2>4. Stands(c, e, P)'
    <3>1. c \notin Elements(todo) /\ c \notin Elements(todo')
      BY <2>1 DEF Elements
    <3> QED
      BY <2>1, <2>2, <2>3, <3>1 DEF Stands, WakeReaders
  <2>5. c \in Readers => Reads(c, e)'
    BY <2>1, <2>2 DEF Reads, WakeReaders, IInv, Control, MutexInv, InMutex
  <2> QED
    BY <2>4, <2>5 DEF Follows
<1>5. LogFollows(P)'
  <2>1. wpc' \in {"fix", "pull"} <=> wpc \in {"fix", "pull"}
    BY DEF WakeReaders
  <2> QED
    BY <1>3, <1>4, <2>1, LogRests DEF WakeReaders
<1> QED
  BY <1>1, <1>2, <1>5 DEF IInv

-----------------------------------------------------------------------------
(* The readers                                                             *)

(* A cursor between two writes, in numbers                                 *)
LEMMA StandsIdle ==
  ASSUME LinesFit, TypeOK, WriteInv, NEW P, Laid(P), wpc = "idle", NEW c, NEW e \in Nat,
         Stands(c, e, P)
  PROVE  /\ e \in 1 .. Newest + 1 /\ Newest \in Nat /\ off[c] = P[e] % N
         /\ P[e] \in Nat /\ P[Newest + 1] \in Nat /\ HDR \in 2 .. N /\ N \in Nat
         /\ P[Newest + 1] + HDR < P[e] + N /\ Written(P) = P[Newest + 1]
         /\ P[e] <= P[Newest + 1]
         /\ e <= Newest => /\ P[e + 1] = P[e] + EntrySize(e) /\ EntrySize(e) \in 3 .. N - 1
                           /\ P[e + 1] <= P[Newest + 1] /\ P[e + 1] \in Nat
<1>1. todo = <<>> /\ c \notin Elements(todo)
  BY DEF WriteInv, Elements
<1>2. e \in 1 .. Newest + 1 /\ off[c] = P[e] % N /\ P[Newest + 1] + HDR < P[e] + N
  BY <1>1 DEF Stands
<1>3. Newest \in Nat /\ HDR \in 2 .. N /\ N \in Nat
  BY SizesAssumption DEF TypeOK, Newest
<1>4. P[e] \in Nat /\ P[Newest + 1] \in Nat
  BY <1>2, <1>3 DEF Laid
<1>5. Written(P) = P[Newest + 1]
  BY DEF Written
<1>6. ASSUME e <= Newest
      PROVE  /\ P[e + 1] = P[e] + EntrySize(e) /\ EntrySize(e) \in 3 .. N - 1
             /\ P[e + 1] <= P[Newest + 1] /\ P[e + 1] \in Nat
  <2>1. e \in 1 .. Newest /\ e \in 1 .. Newest + 1 /\ Newest + 1 \in 1 .. Newest + 1 /\ e < Newest + 1
        /\ e + 1 \in 1 .. Newest + 1
    BY <1>2, <1>3, <1>6
  <2>2. P[e + 1] = P[e] + EntrySize(e) /\ P[e] + EntrySize(e) <= P[Newest + 1] /\ P[e + 1] \in Nat
    BY <2>1 DEF Laid
  <2>3. EntrySize(e) \in 3 .. N - 1
    BY <2>1, Sizes DEF TypeOK
  <2> QED
    BY <2>2, <2>3
<1>7. P[e] <= P[Newest + 1]
  <2>1. CASE e = Newest + 1
    BY <1>4, <2>1
  <2>2. CASE e # Newest + 1
    BY <1>2, <1>3, <1>4, <1>6, <2>2
  <2> QED
    BY <2>1, <2>2
<1> QED
  BY <1>2, <1>3, <1>4, <1>5, <1>6, <1>7

(* The entry a cursor stands on is whole.                                  *)
LEMMA EntryWhole ==
  ASSUME LinesFit, TypeOK, WriteInv, NEW P, Laid(P), Kept(P), wpc = "idle", NEW c, NEW e \in Nat,
         Stands(c, e, P), e <= Newest, NEW k \in Nat, k < EntrySize(e)
  PROVE  buf[(P[e] + k) % N] = [id |-> e, pos |-> k]
<1>1. /\ P[e] \in Nat /\ Written(P) = P[Newest + 1] /\ P[e + 1] = P[e] + EntrySize(e)
      /\ P[e + 1] <= P[Newest + 1] /\ P[Newest + 1] + HDR < P[e] + N /\ e \in 1 .. Newest
      /\ EntrySize(e) \in 3 .. N - 1 /\ P[Newest + 1] \in Nat /\ HDR \in 2 .. N /\ N \in Nat
  BY StandsIdle
<1>2. P[e] + k < Written(P) /\ Written(P) <= P[e] + k + N
  BY <1>1
<1> QED
  BY <1>1, <1>2 DEF Kept

(* There is something to read exactly if the cursor is on an entry.        *)
LEMMA InLogMeans ==
  ASSUME LinesFit, TypeOK, WriteInv, NEW P, Laid(P), Kept(P), wpc = "idle", NEW c, NEW e \in Nat,
         Stands(c, e, P)
  PROVE  InLog(c) <=> e <= Newest
<1>1. /\ e \in 1 .. Newest + 1 /\ Newest \in Nat /\ off[c] = P[e] % N /\ P[e] \in Nat
      /\ P[Newest + 1] \in Nat /\ HDR \in 2 .. N /\ N \in Nat
      /\ P[Newest + 1] + HDR < P[e] + N /\ Written(P) = P[Newest + 1]
      /\ e <= Newest => P[e + 1] = P[e] + EntrySize(e) /\ EntrySize(e) \in 3 .. N - 1
                        /\ P[e + 1] <= P[Newest + 1] /\ P[e + 1] \in Nat
  BY StandsIdle
<1>2. w_off = P[Newest + 1] % N
  BY <1>1 DEF Kept
<1>3. CASE e = Newest + 1
  BY <1>1, <1>2, <1>3 DEF InLog
<1>4. CASE e # Newest + 1
  <2>1. e <= Newest
    BY <1>1, <1>4
  <2>2. P[e] < P[Newest + 1] /\ P[Newest + 1] < P[e] + N /\ P[e] \in Int /\ P[Newest + 1] \in Int
    BY <1>1, <2>1
  <2>3. P[e] % N # P[Newest + 1] % N
    BY <2>2, Apart
  <2> QED
    BY <1>1, <1>2, <2>1, <2>3 DEF InLog
<1> QED
  BY <1>3, <1>4

LEMMA IsSeq ==
  ASSUME NEW S, NEW k \in Nat, NEW f \in [1 .. k -> S]
  PROVE  f \in Seq(S) /\ Len(f) = k /\ DOMAIN f = 1 .. k
<1>1. f \in Seq(S)
  BY SeqDef
<1>2. DOMAIN f = 1 .. k /\ Len(f) \in Nat /\ DOMAIN f = 1 .. Len(f)
  BY <1>1, LenProperties
<1>3. Len(f) = k
  BY <1>2
<1> QED
  BY <1>1, <1>2, <1>3

(* What is copied from inside the buffer are cells.                        *)
LEMMA CopiedType ==
  ASSUME TypeOK, NEW o \in Nat, NEW len \in Nat, o + len <= N
  PROVE  /\ Copied(o, len) \in Seq(Cells) /\ Len(Copied(o, len)) = len
         /\ \A i \in 1 .. len : Copied(o, len)[i] = buf[o + i - 1]
<1>1. Copied(o, len) \in [1 .. len -> Cells]
  <2> SUFFICES ASSUME NEW i \in 1 .. len PROVE buf[o + i - 1] \in Cells
    BY DEF Copied
  <2>1. o + i - 1 \in Offsets
    BY Ring
  <2> QED
    BY <2>1 DEF TypeOK
<1> QED
  BY <1>1, IsSeq DEF Copied

(* The first copy of a read                                                *)
LEMMA FirstCopy ==
  ASSUME LinesFit, TypeOK, WriteInv, NEW P, Laid(P), Kept(P), wpc = "idle", NEW r \in Readers,
         NEW e \in Nat, Stands(r, e, P), e <= Newest,
         NEW len \in Nat, len <= EntrySize(e), off[r] + len <= N
  PROVE  Copied(off[r], len) = Whole(e, len)
<1>1. P[e] \in Nat /\ off[r] = P[e] % N /\ off[r] \in Offsets
  BY StandsIdle DEF TypeOK, Cursors
<1> SUFFICES ASSUME NEW i \in 1 .. len PROVE buf[off[r] + i - 1] = [id |-> e, pos |-> i - 1]
  BY DEF Copied, Whole
<1>2. PICK k \in Nat : k = i - 1 /\ k < len
  OBVIOUS
<1>3. EntrySize(e) \in 3 .. N - 1
  BY StandsIdle
<1>4. k < EntrySize(e) /\ k \in 0 .. N /\ off[r] + k < N /\ off[r] + i - 1 = off[r] + k
  BY <1>1, <1>2, <1>3, Ring
<1>5. buf[(P[e] + k) % N] = [id |-> e, pos |-> k]
  BY <1>4, EntryWhole
<1>6. (P[e] + k) % N = off[r] + k
  <2>1. P[e] \in Int /\ (P[e] % N) + k < N
    BY <1>1, <1>4
  <2> QED
    BY <1>1, <1>4, <2>1, ModAdd
<1> QED
  BY <1>2, <1>4, <1>5, <1>6

(* The second copy of a read goes on at the start of the buffer.           *)
LEMMA SecondCopy ==
  ASSUME LinesFit, TypeOK, WriteInv, NEW P, Laid(P), Kept(P), wpc = "idle", NEW r \in Readers,
         NEW e \in Nat, Stands(r, e, P), e <= Newest,
         NEW m \in Nat, m = N - off[r], m < EntrySize(e)
  PROVE  Whole(e, m) \o Copied(0, EntrySize(e) - m) = Whole(e, EntrySize(e))
<1> DEFINE size == EntrySize(e)
<1>1. P[e] \in Nat /\ off[r] = P[e] % N /\ off[r] \in Offsets /\ size \in 3 .. N - 1
  BY StandsIdle DEF TypeOK, Cursors
<1>2. /\ Copied(0, size - m) \in Seq(Cells) /\ Len(Copied(0, size - m)) = size - m
      /\ \A i \in 1 .. size - m : Copied(0, size - m)[i] = buf[0 + i - 1]
  <2>1. size - m \in Nat /\ 0 + (size - m) <= N /\ 0 \in Nat
    BY <1>1, Ring
  <2> QED
    BY <2>1, CopiedType
<1>3. /\ Whole(e, m) \in Seq(Cells) /\ Len(Whole(e, m)) = m
      /\ \A i \in 1 .. m : Whole(e, m)[i] = [id |-> e, pos |-> i - 1]
  <2>1. Whole(e, m) \in [1 .. m -> Cells]
    BY DEF Whole, Cells
  <2> QED
    BY <2>1, IsSeq DEF Whole
<1>4. size \in Nat
  BY <1>1
<1> HIDE DEF size
<1>5. /\ Whole(e, m) \o Copied(0, size - m) \in Seq(Cells)
      /\ Len(Whole(e, m) \o Copied(0, size - m)) = size
      /\ \A i \in 1 .. size : (Whole(e, m) \o Copied(0, size - m))[i]
           = IF i <= m THEN Whole(e, m)[i] ELSE Copied(0, size - m)[i - m]
  <2> DEFINE a == Whole(e, m)  b == Copied(0, size - m)
  <2>1. m + (size - m) = size
    BY <1>4
  <2>2. a \in Seq(Cells) /\ Len(a) = m /\ b \in Seq(Cells) /\ Len(b) = size - m
    BY <1>2, <1>3
  <2> HIDE DEF a, b
  <2>3. /\ a \o b \in Seq(Cells) /\ Len(a \o b) = Len(a) + Len(b)
        /\ \A i \in 1 .. Len(a) + Len(b) : (a \o b)[i] = IF i <= Len(a) THEN a[i] ELSE b[i - Len(a)]
    BY <2>2, ConcatProperties
  <2>4. /\ a \o b \in Seq(Cells) /\ Len(a \o b) = size
        /\ \A i \in 1 .. size : (a \o b)[i] = IF i <= m THEN a[i] ELSE b[i - m]
    BY <2>1, <2>2, <2>3
  <2> QED
    BY <2>4 DEF a, b
<1>6. ASSUME NEW i \in 1 .. size
      PROVE  (Whole(e, m) \o Copied(0, size - m))[i] = [id |-> e, pos |-> i - 1]
  <2>1. CASE i <= m
    BY <1>3, <1>5, <2>1
  <2>2. CASE ~(i <= m)
    <3>1. i - m \in 1 .. size - m /\ 0 + (i - m) - 1 = i - 1 - m
      BY <1>4, <2>2
    <3>2. (Whole(e, m) \o Copied(0, size - m))[i] = buf[i - 1 - m]
      BY <1>2, <1>5, <2>2, <3>1
    <3>3. PICK k \in Nat : k = i - 1
      OBVIOUS
    <3>4. k < size /\ k \in 0 .. N /\ ~(off[r] + k < N) /\ off[r] + k - N = i - 1 - m
      BY <1>1, <1>4, <2>2, <3>3, Ring DEF size
    <3>5. buf[(P[e] + k) % N] = [id |-> e, pos |-> k]
      BY <3>4, EntryWhole DEF size
    <3>6. (P[e] + k) % N = off[r] + k - N
      <4>1. P[e] \in Int /\ ~((P[e] % N) + k < N)
        BY <1>1, <3>4
      <4> QED
        BY <1>1, <3>4, <4>1, ModAdd
    <3> QED
      BY <3>2, <3>3, <3>4, <3>5, <3>6
  <2> QED
    BY <2>1, <2>2
<1>7. DOMAIN (Whole(e, m) \o Copied(0, size - m)) = 1 .. size
  BY <1>5, LenProperties
<1>8. Whole(e, m) \o Copied(0, size - m) = Whole(e, size)
  <2> DEFINE f == Whole(e, m) \o Copied(0, size - m)
  <2>1. f = [i \in 1 .. size |-> f[i]]
    BY <1>5, <1>7, LenProperties
  <2> QED
    BY <1>6, <2>1 DEF Whole
<1> QED
  BY <1>8 DEF size

(* A reader's step: the rest of the readers keep what they have.           *)
LEMMA ReaderMoves ==
  ASSUME NEW r \in Readers, IInv, wpc = "idle", UNCHANGED wvars, NEW P, LogFollows(P),
         \A c \in Cursors \ {r} : off'[c] = off[c],
         \A q \in Readers \ {r} : /\ pc'[q] = pc[q] /\ damaged'[q] = damaged[q]
                                  /\ last'[q] = last[q] /\ n'[q] = n[q] /\ got'[q] = got[q],
         Live(r)' => Follows(r, P)'
  PROVE  LogFollows(P)'
<1>1. /\ lines' = lines /\ buf' = buf /\ w_off' = w_off /\ wpc' = "idle" /\ todo' = todo
      /\ todo = <<>>
  BY DEF wvars, IInv, Control, WriteInv
<1>2. Newest' = Newest /\ \A i : EntrySize(i)' = EntrySize(i)
  BY <1>1 DEF Newest, EntrySize
<1>3. ASSUME NEW c \in Cursors, c # r, Live(c)' PROVE Follows(c, P)'
  <2>1. Live(c)
    BY <1>3 DEF Live
  <2>2. PICK e \in Nat : Stands(c, e, P) /\ (c \in Readers => Reads(c, e))
    BY <1>3, <2>1 DEF LogFollows, Follows
  <2>3. off'[c] = off[c] /\ c \notin Elements(todo) /\ c \notin Elements(todo')
    BY <1>1, <1>3 DEF Elements
  <2>4. Stands(c, e, P)'
    BY <1>1, <1>2, <2>2, <2>3 DEF Stands
  <2>5. c \in Readers => Reads(c, e)'
    BY <1>1, <1>2, <1>3, <2>2, <2>3 DEF Reads
  <2> QED
    BY <2>4, <2>5 DEF Follows
<1>4. wpc' \in {"fix", "pull"} <=> wpc \in {"fix", "pull"}
  BY <1>1
<1> QED
  BY <1>1, <1>3, <1>4, LogRests

(* The reader's own cursor, if it does not move                            *)
LEMMA StandsStill ==
  ASSUME NEW r, NEW e, NEW P, UNCHANGED wvars, IInv, wpc = "idle", off'[r] = off[r],
         Stands(r, e, P)
  PROVE  Stands(r, e, P)'
<1>1. Newest' = Newest /\ todo' = todo /\ wpc' = wpc /\ todo = <<>>
  BY DEF Newest, wvars, IInv, Control, WriteInv
<1> QED
  BY <1>1 DEF Stands, Elements

Outside == ReaderPcs \ ({"closed"} \cup InMutex)

(* Waiting, testing and polling: the mutex is taken and released within    *)
(* the step, and nothing of the log is touched.                            *)
Walk(r) ==
  /\ wpc = "idle" /\ UNCHANGED wvars
  /\ UNCHANGED <<off, readers, mutex, ftodo, damaged, last>>
  /\ pc[r] \in Outside /\ \E to \in Outside : pc' = [pc EXCEPT ![r] = to]
  /\ armed' \in [Readers -> BOOLEAN] /\ signal' \in [Readers -> BOOLEAN]
  /\ \/ n' = n /\ got' = got
     \/ n' = [n EXCEPT ![r] = 0] /\ got' = [got EXCEPT ![r] = <<>>]

LEMMA WalkKeeps ==
  ASSUME IInv, NEW r \in Readers, Walk(r)
  PROVE  IInv'
<1>1. PICK to \in Outside : pc' = [pc EXCEPT ![r] = to]
  BY DEF Walk
<1>2. /\ pc'[r] = to /\ \A q \in Readers \ {r} : pc'[q] = pc[q]
      /\ pc' \in [Readers -> ReaderPcs]
  BY <1>1 DEF IInv, TypeOK, Outside
<1>3. /\ n' \in [Readers -> Nat] /\ got' \in [Readers -> Seq(Cells)]
      /\ \A q \in Readers \ {r} : n'[q] = n[q] /\ got'[q] = got[q]
  <2>1. <<>> \in Seq(Cells)
    BY EmptySeq
  <2>2. CASE n' = n /\ got' = got
    BY <2>2 DEF IInv, TypeOK
  <2>3. CASE n' = [n EXCEPT ![r] = 0] /\ got' = [got EXCEPT ![r] = <<>>]
    BY <2>1, <2>3 DEF IInv, TypeOK
  <2> QED
    BY <2>2, <2>3 DEF Walk
<1>4. TypeOK'
  BY <1>2, <1>3 DEF IInv, TypeOK, Walk, wvars
<1>5. Control'
  <2>1. ListInv'
    BY <1>2 DEF IInv, Control, ListInv, Walk, wvars, Outside, InMutex
  <2>2. MutexInv'
    BY <1>2 DEF IInv, Control, MutexInv, Walk, Outside, InMutex
  <2>3. WriteInv'
    BY DEF IInv, Control, WriteInv, Walk, wvars
  <2>4. \A q \in Readers : ReaderInv(q)'
    BY <1>2, <1>3 DEF IInv, Control, ReaderInv, Walk, Outside, InMutex
  <2> QED
    BY <2>1, <2>2, <2>3, <2>4 DEF Control
<1>6. PICK P : LogFollows(P)
  BY DEF IInv
<1>7. ASSUME Live(r)' PROVE Follows(r, P)'
  <2>1. Live(r) /\ r \in Cursors
    BY <1>2, <1>7 DEF Live, Walk, Outside, Cursors
  <2>2. PICK e \in Nat : Stands(r, e, P) /\ Reads(r, e)
    BY <1>6, <2>1 DEF LogFollows, Follows
  <2>3. Stands(r, e, P)'
    BY <2>2, StandsStill DEF Walk
  <2>4. Reads(r, e)'
    BY <1>2, <2>2 DEF Reads, Walk, wvars, Outside, InMutex
  <2> QED
    BY <2>3, <2>4 DEF Follows
<1>8. LogFollows(P)'
  BY <1>2, <1>3, <1>6, <1>7, ReaderMoves DEF Walk
<1> QED
  BY <1>4, <1>5, <1>8 DEF IInv

LEMMA Walks ==
  ASSUME IInv, NEW r \in Readers,
         \/ ReadCall(r) \/ PrepareToWait(r) \/ TestBlocked(r) \/ TestReady(r) \/ TestLeave(r)
         \/ TestSleep(r) \/ Schedule(r) \/ Signal(r) \/ (Recheck(r) /\ ~InLog(r))
         \/ PollCall(r) \/ PollTest(r) \/ PollWake(r) \/ PollTimeout(r)
  PROVE  Walk(r)
<1> USE DEF At, CpuIdle, Goto, Arm, Walk, Outside, ReaderPcs, InMutex, wvars
<1>0. /\ armed \in [Readers -> BOOLEAN] /\ signal \in [Readers -> BOOLEAN]
      /\ \A b \in BOOLEAN : [armed EXCEPT ![r] = b] \in [Readers -> BOOLEAN]
      /\ \A b \in BOOLEAN : [signal EXCEPT ![r] = b] \in [Readers -> BOOLEAN]
  BY DEF IInv, TypeOK
<1>1. CASE ReadCall(r)
  BY <1>0, <1>1 DEF ReadCall
<1>2. CASE PrepareToWait(r)
  BY <1>0, <1>2 DEF PrepareToWait
<1>3. CASE TestBlocked(r)
  <2>1. pc' = [pc EXCEPT ![r] = "test"]
    BY <1>3 DEF TestBlocked, IInv, TypeOK
  <2> QED
    BY <1>0, <1>3, <2>1 DEF TestBlocked
<1>4. CASE TestReady(r)
  BY <1>0, <1>4 DEF TestReady
<1>5. CASE TestLeave(r)
  BY <1>0, <1>5 DEF TestLeave, ToUser
<1>6. CASE TestSleep(r)
  BY <1>0, <1>6 DEF TestSleep
<1>7. CASE Schedule(r)
  BY <1>0, <1>7 DEF Schedule
<1>8. CASE Signal(r)
  <2>1. pc' = [pc EXCEPT ![r] = pc[r]]
    BY <1>8 DEF Signal, IInv, TypeOK
  <2> QED
    BY <1>0, <1>8, <2>1 DEF Signal
<1>9. CASE Recheck(r) /\ ~InLog(r)
  BY <1>0, <1>9 DEF Recheck
<1>10. CASE PollCall(r)
  BY <1>0, <1>10 DEF PollCall
<1>11. CASE PollTest(r)
  BY <1>0, <1>11 DEF PollTest, ToUser
<1>12. CASE PollWake(r)
  BY <1>0, <1>12 DEF PollWake
<1>13. CASE PollTimeout(r)
  BY <1>0, <1>13 DEF PollTimeout, ToUser
<1> QED
  BY <1>1, <1>2, <1>3, <1>4, <1>5, <1>6, <1>7, <1>8, <1>9, <1>10, <1>11, <1>12, <1>13, Zenon

(* A new reader starts where the head stands; it is not fixed by a write   *)
(* before it is in the list.                                               *)
LEMMA OpenKeeps ==
  ASSUME IInv, NEW r \in Readers, Open(r)
  PROVE  IInv'
<1> USE DEF At, CpuIdle, Goto, wvars
<1>1. /\ pc[r] = "closed" /\ pc'[r] = "link" /\ \A q \in Readers \ {r} : pc'[q] = pc[q]
      /\ pc' \in [Readers -> ReaderPcs] /\ mutex = NONE /\ mutex' = r
  BY DEF Open, IInv, TypeOK, ReaderPcs
<1>2. /\ off'[r] = off[HEAD] /\ \A c \in Cursors \ {r} : off'[c] = off[c]
      /\ off' \in [Cursors -> Offsets] /\ HEAD # r /\ HEAD \in Cursors /\ r \in Cursors
  BY ActorsAssumption DEF Open, IInv, TypeOK, Cursors
<1>3. /\ damaged' \in [Readers -> BOOLEAN] /\ \A q \in Readers \ {r} : damaged'[q] = damaged[q]
      /\ last' = last /\ n' = n /\ got' = got
  BY DEF Open, IInv, TypeOK
<1>4. TypeOK'
  BY <1>1, <1>2, <1>3 DEF IInv, TypeOK, Open
<1>5. Control'
  <2>1. ListInv'
    BY <1>1 DEF IInv, Control, ListInv, Open
  <2>2. MutexInv'
    BY <1>1, ActorsAssumption DEF IInv, Control, MutexInv, Open, InMutex
  <2>3. WriteInv'
    BY DEF IInv, Control, WriteInv, Open
  <2>4. \A q \in Readers : ReaderInv(q)'
    BY <1>1, <1>3 DEF IInv, Control, ReaderInv
  <2> QED
    BY <2>1, <2>2, <2>3, <2>4 DEF Control
<1>6. PICK P : LogFollows(P)
  BY DEF IInv
<1>7. Follows(r, P)'
  <2>1. PICK e \in Nat : Stands(HEAD, e, P)
    BY <1>2, <1>6 DEF LogFollows, Follows, Live
  <2>2. todo = <<>> /\ todo' = <<>> /\ wpc = "idle" /\ wpc' = "idle" /\ Newest' = Newest
    BY DEF Open, IInv, Control, WriteInv, Newest
  <2>3. HEAD \notin Elements(todo) /\ r \notin Elements(todo')
    BY <2>2 DEF Elements
  <2>4. Stands(r, e, P)'
    BY <1>2, <2>1, <2>2, <2>3 DEF Stands
  <2>5. last'[r] < e
    BY <1>1, <1>3, <2>1 DEF IInv, Control, ReaderInv, Stands
  <2>6. Reads(r, e)'
    BY <1>1, <2>2, <2>5 DEF Reads
  <2> QED
    BY <2>4, <2>6 DEF Follows
<1>8. LogFollows(P)'
  BY <1>1, <1>2, <1>3, <1>6, <1>7, ReaderMoves DEF Open
<1> QED
  BY <1>4, <1>5, <1>8 DEF IInv

(* What a step inside the mutex, or into it or out of it, leaves alone     *)
Inside(r) ==
  /\ wpc = "idle" /\ UNCHANGED wvars /\ UNCHANGED <<ftodo, damaged>>
  /\ pc[r] # "closed" /\ \E to \in ReaderPcs : pc' = [pc EXCEPT ![r] = to]
  /\ armed' \in [Readers -> BOOLEAN] /\ signal' \in [Readers -> BOOLEAN]
  /\ \A c \in Cursors \ {r} : off'[c] = off[c]
  /\ \A q \in Readers \ {r} : last'[q] = last[q] /\ n'[q] = n[q] /\ got'[q] = got[q]
  /\ off' \in [Cursors -> Offsets] /\ last' \in [Readers -> Nat] /\ n' \in [Readers -> Nat]
  /\ got' \in [Readers -> Seq(Cells)] /\ readers' \in Seq(Readers)
  /\ Distinct(readers') /\ Elements(readers') \ {r} = Elements(readers) \ {r}
  /\ mutex \in {r, NONE} /\ mutex' \in {r, NONE}
  /\ ReaderInv(r)' /\ (r \in Elements(readers') <=> pc'[r] \notin {"closed", "link"})
  /\ mutex' = r <=> pc'[r] \in InMutex

LEMMA InsideKeeps ==
  ASSUME IInv, NEW r \in Readers, Inside(r),
         \A P : LogFollows(P) /\ Live(r)' => Follows(r, P)'
  PROVE  IInv'
<1>1. /\ pc' \in [Readers -> ReaderPcs] /\ \A q \in Readers \ {r} : pc'[q] = pc[q]
  BY DEF Inside, IInv, TypeOK
<1>2. TypeOK'
  BY <1>1 DEF IInv, TypeOK, Inside, wvars
<1>3. Control'
  <2>1. ListInv'
    <3>1. ASSUME NEW q \in Readers \ {r}
          PROVE  q \in Elements(readers') <=> pc'[q] \notin {"closed", "link"}
      BY <1>1 DEF IInv, Control, ListInv, Inside
    <3> QED
      BY <3>1 DEF IInv, Control, ListInv, Inside, wvars
  <2>2. MutexInv'
    <3>1. ASSUME NEW q \in Readers \ {r} PROVE mutex' = q <=> pc'[q] \in InMutex
      BY <1>1, ActorsAssumption DEF IInv, Control, MutexInv, Inside
    <3>2. mutex' = FLUSHER <=> ftodo' # <<>>
      BY ActorsAssumption DEF IInv, Control, MutexInv, Inside
    <3> QED
      BY <3>1, <3>2 DEF MutexInv, Inside
  <2>3. WriteInv'
    BY DEF IInv, Control, WriteInv, Inside, wvars
  <2>4. ASSUME NEW q \in Readers PROVE ReaderInv(q)'
    BY <1>1 DEF IInv, Control, ReaderInv, Inside
  <2> QED
    BY <2>1, <2>2, <2>3, <2>4 DEF Control
<1>4. PICK P : LogFollows(P)
  BY DEF IInv
<1>5. LogFollows(P)'
  BY <1>1, <1>4, ReaderMoves DEF Inside
<1> QED
  BY <1>2, <1>3, <1>5 DEF IInv

(* What is known of a reader that follows the log between two writes       *)
LEMMA Following ==
  ASSUME LinesFit, IInv, NEW r \in Readers, wpc = "idle", Live(r), NEW P, LogFollows(P)
  PROVE  \E e \in Nat : Stands(r, e, P) /\ Reads(r, e) /\ (InLog(r) <=> e <= Newest)
<1>1. PICK e \in Nat : Stands(r, e, P) /\ Reads(r, e)
  BY DEF LogFollows, Follows, Cursors
<1>2. InLog(r) <=> e <= Newest
  BY <1>1, InLogMeans DEF IInv, Control, LogFollows
<1> QED
  BY <1>1, <1>2

LEMMA OpenLinkKeeps ==
  ASSUME LinesFit, IInv, NEW r \in Readers, OpenLink(r)
  PROVE  IInv'
<1> USE DEF At, CpuIdle, Goto, wvars
<1>1. pc[r] = "link" /\ pc' = [pc EXCEPT ![r] = "open"] /\ pc'[r] = "open" /\ mutex = r
  BY DEF OpenLink, IInv, TypeOK, Control, MutexInv, InMutex
<1>2. /\ readers' \in Seq(Readers) /\ Distinct(readers')
      /\ Elements(readers') = Elements(readers) \cup {r}
  BY <1>1, AppendTo DEF OpenLink, IInv, TypeOK, Control, ListInv
<1>3. Inside(r)
  <2>1. mutex' = NONE /\ NONE # r /\ pc'[r] \notin InMutex
    BY <1>1, ActorsAssumption DEF OpenLink, InMutex
  <2>2. ReaderInv(r)' /\ r \in Elements(readers')
    BY <1>1, <1>2 DEF ReaderInv
  <2> QED
    BY <1>1, <1>2, <2>1, <2>2 DEF Inside, OpenLink, IInv, TypeOK, ReaderPcs
<1>4. ASSUME NEW P, LogFollows(P), Live(r)' PROVE Follows(r, P)'
  <2>1. PICK e \in Nat : Stands(r, e, P) /\ Reads(r, e)
    BY <1>1, <1>4, Following DEF OpenLink, Live
  <2>2. Stands(r, e, P)'
    BY <2>1, StandsStill DEF OpenLink
  <2>3. Reads(r, e)'
    BY <1>1, <2>1 DEF Reads, OpenLink
  <2> QED
    BY <2>2, <2>3 DEF Follows
<1> QED
  BY <1>3, <1>4, InsideKeeps

LEMMA ReleaseKeeps ==
  ASSUME IInv, NEW r \in Readers, Release(r)
  PROVE  IInv'
<1> USE DEF At, CpuIdle, Goto, wvars
<1>1. pc[r] = "open" /\ pc' = [pc EXCEPT ![r] = "closed"] /\ pc'[r] = "closed" /\ mutex = NONE
  BY DEF Release, IInv, TypeOK
<1>2. /\ readers' \in Seq(Readers) /\ Distinct(readers')
      /\ Elements(readers') = Elements(readers) \ {r}
  BY <1>1, UnlinkedOf DEF Release, IInv, TypeOK, Control, ListInv
<1>3. /\ off' \in [Cursors -> Offsets] /\ \A c \in Cursors \ {r} : off'[c] = off[c]
      /\ last' \in [Readers -> Nat] /\ last'[r] = 0 /\ \A q \in Readers \ {r} : last'[q] = last[q]
      /\ damaged' \in [Readers -> BOOLEAN] /\ \A q \in Readers \ {r} : damaged'[q] = damaged[q]
      /\ pc' \in [Readers -> ReaderPcs] /\ \A q \in Readers \ {r} : pc'[q] = pc[q]
  <2>1. 0 \in Offsets /\ 0 \in Nat /\ r \in Cursors
    BY Ring DEF Cursors
  <2>2. off' \in [Cursors -> Offsets] /\ \A c \in Cursors \ {r} : off'[c] = off[c]
    BY <2>1 DEF Release, IInv, TypeOK
  <2>3. /\ last' \in [Readers -> Nat] /\ last'[r] = 0
        /\ \A q \in Readers \ {r} : last'[q] = last[q]
    BY <2>1 DEF Release, IInv, TypeOK
  <2>4. damaged' \in [Readers -> BOOLEAN] /\ \A q \in Readers \ {r} : damaged'[q] = damaged[q]
    BY DEF Release, IInv, TypeOK
  <2>5. pc' \in [Readers -> ReaderPcs] /\ \A q \in Readers \ {r} : pc'[q] = pc[q]
    BY <1>1 DEF IInv, TypeOK, ReaderPcs
  <2> QED
    BY <2>2, <2>3, <2>4, <2>5
<1>4. TypeOK'
  BY <1>1, <1>2, <1>3 DEF IInv, TypeOK, Release
<1>5. Control'
  <2>1. ListInv'
    BY <1>1, <1>2, <1>3 DEF IInv, Control, ListInv, Release
  <2>2. MutexInv'
    BY <1>1, <1>3, ActorsAssumption DEF IInv, Control, MutexInv, Release, InMutex
  <2>3. WriteInv'
    BY DEF IInv, Control, WriteInv, Release
  <2>4. \A q \in Readers : ReaderInv(q)'
    BY <1>1, <1>3 DEF IInv, Control, ReaderInv, Release
  <2> QED
    BY <2>1, <2>2, <2>3, <2>4 DEF Control
<1>6. PICK P : LogFollows(P)
  BY DEF IInv
<1>7. ~Live(r)'
  BY <1>1, ActorsAssumption DEF Live
<1>8. LogFollows(P)'
  BY <1>1, <1>3, <1>6, <1>7, ReaderMoves DEF Release
<1> QED
  BY <1>4, <1>5, <1>8 DEF IInv

LEMMA RecheckKeeps ==
  ASSUME LinesFit, IInv, NEW r \in Readers, Recheck(r), InLog(r)
  PROVE  IInv'
<1> USE DEF At, CpuIdle, Goto, wvars
<1>1. pc[r] = "lock" /\ pc' = [pc EXCEPT ![r] = "len"] /\ pc'[r] = "len" /\ mutex = NONE /\ mutex' = r
  BY DEF Recheck, IInv, TypeOK
<1>2. r \in Elements(readers)
  BY <1>1 DEF IInv, Control, ListInv
<1>3. Inside(r)
  BY <1>1, <1>2 DEF Inside, Recheck, IInv, TypeOK, Control, ListInv, ReaderPcs, ReaderInv, InMutex
<1>4. ASSUME NEW P, LogFollows(P), Live(r)' PROVE Follows(r, P)'
  <2>1. PICK e \in Nat : Stands(r, e, P) /\ Reads(r, e) /\ e <= Newest
    BY <1>1, <1>4, Following DEF Recheck, Live
  <2>2. Stands(r, e, P)'
    BY <2>1, StandsStill DEF Recheck
  <2>3. Reads(r, e)'
    BY <1>1, <2>1 DEF Reads, Recheck, Newest
  <2> QED
    BY <2>2, <2>3 DEF Follows
<1> QED
  BY <1>3, <1>4, InsideKeeps

LEMMA ReadLenKeeps ==
  ASSUME LinesFit, IInv, NEW r \in Readers, ReadLen(r)
  PROVE  IInv'
<1> USE DEF At, CpuIdle, Goto, wvars
<1>1. PICK ret \in get_entry_len(off[r]) : n' = [n EXCEPT ![r] = ret]
  BY DEF ReadLen
<1>2. /\ pc[r] = "len" /\ pc' = [pc EXCEPT ![r] = "copy1"] /\ pc'[r] = "copy1"
      /\ mutex = r /\ mutex' = r /\ r \in Elements(readers)
  BY DEF ReadLen, IInv, TypeOK, Control, ListInv, MutexInv, InMutex
<1>3. ret \in 2 .. N /\ n'[r] = ret /\ n' \in [Readers -> Nat]
  <2>1. off[r] \in Offsets
    BY DEF IInv, TypeOK, Cursors
  <2>2. ret \in 2 .. N
    BY <2>1, LenRange DEF IInv, Control
  <2> QED
    BY <1>1, <2>2, Ring DEF IInv, TypeOK
<1>4. Inside(r)
  <2>1. ReaderInv(r)'
    BY <1>2, <1>3 DEF ReaderInv
  <2>2. \A q \in Readers \ {r} : n'[q] = n[q]
    BY <1>1 DEF IInv, TypeOK
  <2> QED
    BY <1>2, <1>3, <2>1, <2>2
       DEF Inside, ReadLen, IInv, TypeOK, Control, ListInv, ReaderPcs, InMutex
<1>5. ASSUME NEW P, LogFollows(P), Live(r)' PROVE Follows(r, P)'
  <2>1. PICK e \in Nat : Stands(r, e, P) /\ Reads(r, e)
    BY <1>2, <1>5, Following DEF ReadLen, Live
  <2>2. Stands(r, e, P)'
    BY <2>1, StandsStill DEF ReadLen
  <2>3. ret = EntrySize(e)
    <3>1. /\ e \in 1 .. Newest /\ off[r] = P[e] % N /\ P[e] \in Nat /\ Written(P) = P[Newest + 1]
          /\ P[Newest + 1] + HDR < P[e] + N /\ P[e + 1] = P[e] + EntrySize(e)
          /\ EntrySize(e) \in 3 .. N - 1 /\ P[e + 1] <= P[Newest + 1]
          /\ HDR \in 2 .. N /\ P[Newest + 1] \in Nat /\ N \in Nat
      BY <1>2, <1>5, <2>1, StandsIdle DEF ReadLen, IInv, Control, LogFollows, Reads
    <3>2. P[e] + 1 < Written(P) /\ Written(P) <= P[e] + N
      BY <3>1
    <3>3. get_entry_len(P[e] % N) = {EntrySize(e)}
      BY <1>5, <3>1, <3>2, EntryAt DEF IInv, LogFollows
    <3> QED
      BY <3>1, <3>3
  <2>4. Reads(r, e)'
    BY <1>2, <1>3, <2>1, <2>3 DEF Reads, ReadLen, EntrySize, Newest
  <2> QED
    BY <2>2, <2>4 DEF Follows
<1> QED
  BY <1>4, <1>5, InsideKeeps

(* Leaving the call                                                        *)
LEMMA ToUserType ==
  ASSUME TypeOK, NEW r \in Readers, ToUser(r)
  PROVE  /\ pc' = [pc EXCEPT ![r] = "open"] /\ pc'[r] = "open"
         /\ armed' \in [Readers -> BOOLEAN] /\ signal' \in [Readers -> BOOLEAN]
         /\ n' \in [Readers -> Nat] /\ got' \in [Readers -> Seq(Cells)]
         /\ \A q \in Readers \ {r} : n'[q] = n[q] /\ got'[q] = got[q]
<1>1. <<>> \in Seq(Cells)
  BY EmptySeq
<1> QED
  BY <1>1 DEF ToUser, TypeOK, Goto, Arm

LEMMA ReadFailsKeeps ==
  ASSUME LinesFit, IInv, NEW r \in Readers, ReadFails(r)
  PROVE  IInv'
<1> USE DEF CpuIdle, wvars
<1>1. /\ pc' = [pc EXCEPT ![r] = "open"] /\ pc'[r] = "open"
      /\ armed' \in [Readers -> BOOLEAN] /\ signal' \in [Readers -> BOOLEAN]
      /\ n' \in [Readers -> Nat] /\ got' \in [Readers -> Seq(Cells)]
      /\ \A q \in Readers \ {r} : n'[q] = n[q] /\ got'[q] = got[q]
  BY ToUserType DEF ReadFails, IInv
<1>2. pc[r] \in {"copy1", "copy2"} /\ mutex = r /\ mutex' = NONE /\ r \in Elements(readers)
  BY DEF ReadFails, IInv, Control, ListInv, MutexInv, InMutex
<1>3. Inside(r)
  BY <1>1, <1>2, ActorsAssumption
     DEF Inside, ReadFails, IInv, TypeOK, Control, ListInv, ReaderPcs, ReaderInv, InMutex
<1>4. ASSUME NEW P, LogFollows(P), Live(r)' PROVE Follows(r, P)'
  <2>1. PICK e \in Nat : Stands(r, e, P) /\ Reads(r, e)
    BY <1>2, <1>4, Following DEF ReadFails, Live
  <2>2. Stands(r, e, P)'
    BY <2>1, StandsStill DEF ReadFails
  <2>3. Reads(r, e)'
    BY <1>1, <2>1 DEF Reads, ReadFails
  <2> QED
    BY <2>2, <2>3 DEF Follows
<1> QED
  BY <1>3, <1>4, InsideKeeps


LEMMA Copy1Keeps ==
  ASSUME LinesFit, IInv, NEW r \in Readers, Copy1(r)
  PROVE  IInv'
<1> DEFINE len == Lesser(n[r], N - off[r])
<1> USE DEF At, CpuIdle, Goto, wvars
<1>1. /\ pc[r] = "copy1" /\ mutex = r /\ mutex' = r /\ r \in Elements(readers)
      /\ n[r] \in 2 .. N /\ off[r] \in Offsets /\ UNCHANGED <<n, off, readers, last>>
  BY DEF Copy1, IInv, TypeOK, Control, ListInv, MutexInv, ReaderInv, InMutex, Cursors
<1>2. /\ len \in Nat /\ len <= n[r] /\ off[r] + len <= N /\ len > 0 /\ off[r] \in Nat
      /\ n[r] # len => len = N - off[r] /\ len < n[r]
  BY <1>1, Ring DEF Lesser
<1>3. /\ Copied(off[r], len) \in Seq(Cells) /\ Len(Copied(off[r], len)) = len
      /\ Copied(off[r], len) # <<>>
  <2>1. Copied(off[r], len) \in Seq(Cells) /\ Len(Copied(off[r], len)) = len
    BY <1>2, CopiedType DEF IInv
  <2>2. Len(<<>>) = 0
    BY EmptySeq
  <2> QED
    BY <1>2, <2>1, <2>2
<1>4. /\ got'[r] = Copied(off[r], len) /\ got' \in [Readers -> Seq(Cells)]
      /\ \A q \in Readers \ {r} : got'[q] = got[q]
  BY <1>3 DEF Copy1, IInv, TypeOK
<1>5. PICK to \in {"copy2", "advance"} :
        /\ pc' = [pc EXCEPT ![r] = to] /\ pc'[r] = to
        /\ to = "copy2" <=> n[r] # len
  BY DEF Copy1, IInv, TypeOK
<1> HIDE DEF len
<1>6. Inside(r)
  <2>1. ReaderInv(r)'
    BY <1>1, <1>2, <1>3, <1>4, <1>5 DEF ReaderInv
  <2>2. to \in ReaderPcs /\ to \in InMutex /\ to \notin {"closed", "link"}
    BY DEF ReaderPcs, InMutex
  <2>3. r \in Elements(readers')
    BY <1>1
  <2> QED
    BY <1>1, <1>4, <1>5, <2>1, <2>2, <2>3
       DEF Inside, Copy1, IInv, TypeOK, Control, ListInv
<1>7. ASSUME NEW P, LogFollows(P), Live(r)' PROVE Follows(r, P)'
  <2>1. PICK e \in Nat : Stands(r, e, P) /\ Reads(r, e)
    BY <1>1, <1>7, Following DEF Copy1, Live
  <2>2. Stands(r, e, P)'
    BY <2>1, StandsStill DEF Copy1
  <2>3. e <= Newest /\ n[r] = EntrySize(e)
    BY <1>1, <2>1 DEF Reads
  <2>4. Copied(off[r], len) = Whole(e, len)
    BY <1>2, <1>7, <2>1, <2>3, FirstCopy DEF Copy1, IInv, Control, LogFollows
  <2>5. Newest' = Newest /\ EntrySize(e)' = EntrySize(e) /\ wpc' = "idle"
    BY DEF Copy1, Newest, EntrySize
  <2>6. last'[r] < e
    BY <1>1, <2>1 DEF Reads
  <2>7. /\ pc'[r] = "copy2" => N - off'[r] < n'[r] /\ got'[r] = Whole(e, N - off'[r])
        /\ pc'[r] = "advance" => got'[r] = Whole(e, n'[r])
    BY <1>1, <1>2, <1>4, <1>5, <2>4
  <2>8. Reads(r, e)'
    BY <1>1, <1>5, <2>3, <2>5, <2>6, <2>7 DEF Reads
  <2> QED
    BY <2>2, <2>8 DEF Follows
<1> QED
  BY <1>6, <1>7, InsideKeeps

LEMMA Copy2Keeps ==
  ASSUME LinesFit, IInv, NEW r \in Readers, Copy2(r)
  PROVE  IInv'
<1> DEFINE len == n[r] - Len(got[r])
<1> USE DEF At, CpuIdle, Goto, wvars
<1>1. /\ pc[r] = "copy2" /\ pc' = [pc EXCEPT ![r] = "advance"] /\ pc'[r] = "advance"
      /\ mutex = r /\ mutex' = r /\ r \in Elements(readers)
      /\ n[r] \in 2 .. N /\ off[r] \in Offsets /\ got[r] \in Seq(Cells)
      /\ got[r] # <<>> /\ Len(got[r]) < n[r] /\ UNCHANGED <<n, off, readers, last>>
  BY DEF Copy2, IInv, TypeOK, Control, ListInv, MutexInv, ReaderInv, InMutex, Cursors
<1>2. len \in Nat /\ 0 + len <= N /\ Len(got[r]) \in Nat /\ Len(got[r]) > 0
  <2>1. Len(got[r]) \in Nat /\ Len(got[r]) # 0
    BY <1>1, LenProperties, EmptySeq
  <2> QED
    BY <1>1, <2>1, Ring
<1>3. Copied(0, len) \in Seq(Cells)
  BY <1>2, CopiedType DEF IInv
<1> HIDE DEF len
<1>4. got[r] \o Copied(0, len) \in Seq(Cells) /\ got[r] \o Copied(0, len) # <<>>
  <2> DEFINE a == got[r]  b == Copied(0, len)
  <2>1. a \in Seq(Cells) /\ b \in Seq(Cells) /\ Len(a) > 0 /\ Len(a) \in Nat
    BY <1>1, <1>2, <1>3
  <2> HIDE DEF a, b
  <2>2. a \o b \in Seq(Cells) /\ Len(a \o b) = Len(a) + Len(b) /\ Len(b) \in Nat
    BY <2>1, ConcatProperties, LenProperties
  <2>3. Len(<<>>) = 0
    BY EmptySeq
  <2>4. a \o b \in Seq(Cells) /\ a \o b # <<>>
    BY <2>1, <2>2, <2>3
  <2> QED
    BY <2>4 DEF a, b
<1>5. /\ got'[r] = got[r] \o Copied(0, len) /\ got' \in [Readers -> Seq(Cells)]
      /\ \A q \in Readers \ {r} : got'[q] = got[q]
  BY <1>4 DEF Copy2, IInv, TypeOK, len
<1>6. Inside(r)
  <2>1. ReaderInv(r)'
    BY <1>1, <1>4, <1>5 DEF ReaderInv
  <2>2. "advance" \in ReaderPcs /\ "advance" \in InMutex
    BY DEF ReaderPcs, InMutex
  <2>3. r \in Elements(readers')
    BY <1>1
  <2> QED
    BY <1>1, <1>5, <2>1, <2>2, <2>3 DEF Inside, Copy2, IInv, TypeOK, Control, ListInv
<1>7. ASSUME NEW P, LogFollows(P), Live(r)' PROVE Follows(r, P)'
  <2>1. PICK e \in Nat : Stands(r, e, P) /\ Reads(r, e)
    BY <1>1, <1>7, Following DEF Copy2, Live
  <2>2. Stands(r, e, P)'
    BY <2>1, StandsStill DEF Copy2
  <2>3. /\ e <= Newest /\ n[r] = EntrySize(e)
        /\ N - off[r] < n[r] /\ got[r] = Whole(e, N - off[r])
    BY <1>1, <2>1 DEF Reads
  <2>4. PICK m \in Nat : m = N - off[r]
    BY <1>1, Ring
  <2>5. Len(Whole(e, m)) = m
    <3>1. Whole(e, m) \in [1 .. m -> Cells]
      BY DEF Whole, Cells
    <3> QED
      BY <3>1, IsSeq
  <2>6. Whole(e, m) \o Copied(0, EntrySize(e) - m) = Whole(e, EntrySize(e))
    BY <1>7, <2>1, <2>3, <2>4, SecondCopy DEF Copy2, IInv, Control, LogFollows
  <2>7. got'[r] = Whole(e, n'[r])
    BY <1>1, <1>5, <2>3, <2>4, <2>5, <2>6 DEF len
  <2>8. Newest' = Newest /\ EntrySize(e)' = EntrySize(e) /\ wpc' = "idle"
    BY DEF Copy2, Newest, EntrySize
  <2>9. last'[r] < e
    BY <1>1, <2>1 DEF Reads
  <2>10. Reads(r, e)'
    BY <1>1, <2>3, <2>7, <2>8, <2>9 DEF Reads
  <2> QED
    BY <2>2, <2>10 DEF Follows
<1> QED
  BY <1>6, <1>7, InsideKeeps

(* What a read that ends has copied, and where it goes                     *)
LEMMA Advanced ==
  ASSUME LinesFit, IInv, NEW r \in Readers, At(r, "advance"), Live(r), NEW P, LogFollows(P)
  PROVE  \E e \in Nat :
           /\ Stands(r, e, P) /\ e \in 1 .. Newest /\ last[r] < e /\ n[r] = EntrySize(e)
           /\ got[r] = Whole(e, EntrySize(e)) /\ got[r][1].id = e
           /\ logger_offset(off[r] + n[r]) = P[e + 1] % N
           /\ P[e + 1] \in Nat /\ P[e] <= P[e + 1]
<1> USE DEF At, CpuIdle
<1>1. PICK e \in Nat : Stands(r, e, P) /\ Reads(r, e)
  BY Following
<1>2. e <= Newest /\ n[r] = EntrySize(e) /\ got[r] = Whole(e, n[r]) /\ last[r] < e
  BY <1>1 DEF Reads
<1>3. /\ e \in 1 .. Newest + 1 /\ Newest \in Nat /\ off[r] = P[e] % N /\ P[e] \in Nat
      /\ P[e + 1] = P[e] + EntrySize(e) /\ EntrySize(e) \in 3 .. N - 1 /\ P[e + 1] \in Nat
  BY <1>1, <1>2, StandsIdle DEF IInv, Control, LogFollows
<1>4. got[r][1] = [id |-> e, pos |-> 0]
  BY <1>2, <1>3 DEF Whole
<1>5. logger_offset(off[r] + n[r]) = P[e + 1] % N
  <2>1. PICK d \in 0 .. N : d = EntrySize(e)
    BY <1>3, Ring
  <2>2. P[e] \in Int
    BY <1>3
  <2>3. ((P[e] % N) + d) % N = (P[e] + d) % N
    BY <2>2, OffsetMoves
  <2> QED
    BY <1>2, <1>3, <2>1, <2>3 DEF logger_offset
<1> QED
  BY <1>1, <1>2, <1>3, <1>4, <1>5

LEMMA ReadAdvanceKeeps ==
  ASSUME LinesFit, IInv, NEW r \in Readers, ReadAdvance(r)
  PROVE  IInv'
<1> USE DEF At, CpuIdle, wvars
<1>1. /\ pc' = [pc EXCEPT ![r] = "open"] /\ pc'[r] = "open"
      /\ armed' \in [Readers -> BOOLEAN] /\ signal' \in [Readers -> BOOLEAN]
      /\ n' \in [Readers -> Nat] /\ got' \in [Readers -> Seq(Cells)]
      /\ \A q \in Readers \ {r} : n'[q] = n[q] /\ got'[q] = got[q]
  BY ToUserType DEF ReadAdvance, IInv
<1>2. /\ pc[r] = "advance" /\ mutex = r /\ mutex' = NONE /\ r \in Elements(readers)
      /\ got[r] # <<>> /\ got[r] \in Seq(Cells) /\ n[r] \in 2 .. N /\ off[r] \in Offsets
  BY DEF ReadAdvance, IInv, TypeOK, Control, ListInv, MutexInv, ReaderInv, InMutex, Cursors
<1>3. got[r][1].id \in Nat
  <2>1. got[r][1] \in Cells
    BY <1>2, ElementOfSeq, EmptySeq, LenProperties
  <2> QED
    BY <2>1 DEF Cells
<1>4. logger_offset(off[r] + n[r]) \in Offsets
  <2>1. off[r] + n[r] \in Int
    BY <1>2, Ring
  <2> QED
    BY <2>1, ModRange DEF logger_offset
<1>5. /\ off' \in [Cursors -> Offsets] /\ off'[r] = logger_offset(off[r] + n[r])
      /\ \A c \in Cursors \ {r} : off'[c] = off[c]
  BY <1>4 DEF ReadAdvance, IInv, TypeOK, Cursors
<1>6. /\ last' \in [Readers -> Nat] /\ last'[r] = got[r][1].id
      /\ \A q \in Readers \ {r} : last'[q] = last[q]
  BY <1>3 DEF ReadAdvance, IInv, TypeOK
<1>7. Inside(r)
  <2>1. NONE # r /\ "open" \notin InMutex /\ "open" \in ReaderPcs
    BY ActorsAssumption DEF InMutex, ReaderPcs
  <2>2. ReaderInv(r)'
    BY <1>1 DEF ReaderInv
  <2>3. readers' = readers /\ ftodo' = ftodo /\ damaged' = damaged /\ wpc = "idle" /\ UNCHANGED wvars
    BY DEF ReadAdvance
  <2> QED
    BY <1>1, <1>2, <1>5, <1>6, <2>1, <2>2, <2>3 DEF Inside, IInv, TypeOK, Control, ListInv
<1>8. ASSUME NEW P, LogFollows(P), Live(r)' PROVE Follows(r, P)'
  <2>1. PICK e \in Nat :
          /\ Stands(r, e, P) /\ e \in 1 .. Newest /\ last[r] < e /\ n[r] = EntrySize(e)
          /\ got[r] = Whole(e, EntrySize(e)) /\ got[r][1].id = e
          /\ logger_offset(off[r] + n[r]) = P[e + 1] % N
          /\ P[e + 1] \in Nat /\ P[e] <= P[e + 1]
    <3>1. Live(r)
      BY <1>2, <1>8 DEF ReadAdvance, Live
    <3> QED
      BY <1>8, <3>1, Advanced DEF ReadAdvance
  <2>2. Stands(r, e + 1, P)'
    <3>1. /\ P[e] \in Nat /\ P[Newest + 1] \in Nat /\ HDR \in Nat /\ N \in Nat /\ Newest \in Nat
          /\ P[Newest + 1] + HDR < P[e] + N
      BY <1>8, <2>1, StandsIdle DEF ReadAdvance, IInv, Control, LogFollows
    <3>2. Newest' = Newest /\ todo' = <<>> /\ wpc' = "idle" /\ r \notin Elements(todo')
      BY DEF ReadAdvance, IInv, Control, WriteInv, Newest, Elements
    <3>3. P[Newest + 1] + HDR < P[e + 1] + N /\ e + 1 \in 1 .. Newest + 1
      BY <2>1, <3>1
    <3> QED
      BY <1>5, <2>1, <3>2, <3>3 DEF Stands
  <2>3. Reads(r, e + 1)'
    <3>1. last'[r] < e + 1 /\ pc'[r] = "open" /\ wpc' = "idle"
      BY <1>1, <1>6, <2>1 DEF ReadAdvance
    <3> QED
      BY <3>1 DEF Reads
  <2> QED
    BY <2>2, <2>3 DEF Follows
<1> QED
  BY <1>7, <1>8, InsideKeeps

-----------------------------------------------------------------------------
(* The flush, the start, and the whole step                                *)

LEMMA FlushBeginKeeps ==
  ASSUME IInv, FlushBegin
  PROVE  IInv'
<1>1. wpc = "idle" /\ mutex = NONE /\ mutex' = FLUSHER
  BY DEF FlushBegin, CpuIdle
<1>2. ftodo' \in Seq(Cursors) /\ ftodo' # <<>>
  <2> DEFINE s == Append(readers, HEAD)
  <2>1. readers \in Seq(Cursors) /\ HEAD \in Cursors
    BY CursorSeq DEF IInv, TypeOK, Cursors
  <2>2. s \in Seq(Cursors) /\ Len(s) = Len(readers) + 1 /\ Len(readers) \in Nat
    BY <2>1, AppendProperties, LenProperties
  <2> HIDE DEF s
  <2>3. s # <<>>
    BY <2>2, EmptySeq
  <2> QED
    BY <2>2, <2>3 DEF FlushBegin, s
<1>3. TypeOK'
  BY <1>1, <1>2 DEF IInv, TypeOK, FlushBegin, wvars, rvars
<1>4. Control'
  <2>1. ListInv'
    BY DEF IInv, Control, ListInv, FlushBegin, wvars, rvars
  <2>2. MutexInv'
    BY <1>1, <1>2, ActorsAssumption DEF IInv, Control, MutexInv, FlushBegin, rvars
  <2>3. WriteInv' /\ \A r \in Readers : ReaderInv(r)'
    BY DEF IInv, Control, WriteInv, ReaderInv, FlushBegin, wvars, rvars
  <2> QED
    BY <2>1, <2>2, <2>3 DEF Control
<1>5. PICK P : LogFollows(P)
  BY DEF IInv
<1>6. ASSUME NEW c \in Cursors, Live(c)' PROVE Follows(c, P)'
  <2>1. Live(c)
    BY <1>6 DEF Live, FlushBegin, rvars
  <2>2. PICK e \in Nat : Stands(c, e, P) /\ (c \in Readers => Reads(c, e))
    BY <1>5, <1>6, <2>1 DEF LogFollows, Follows
  <2>3. Stands(c, e, P)'
    BY <1>1, <2>2, StandsStill DEF FlushBegin
  <2>4. ASSUME c \in Readers PROVE Reads(c, e)'
    <3>1. Newest' = Newest /\ EntrySize(e)' = EntrySize(e) /\ wpc' = "idle"
      BY <1>1 DEF FlushBegin, wvars, Newest, EntrySize
    <3>2. Reads(c, e)
      BY <2>2, <2>4
    <3> QED
      BY <3>1, <3>2 DEF Reads, FlushBegin, rvars
  <2> QED
    BY <2>3, <2>4 DEF Follows
<1>7. LogFollows(P)'
  BY <1>5, <1>6, LogRests DEF FlushBegin, wvars
<1> QED
  BY <1>3, <1>4, <1>7 DEF IInv

(* A cursor that is flushed stands behind the newest entry.                *)
LEMMA FlushStepKeeps ==
  ASSUME LinesFit, IInv, FlushStep
  PROVE  IInv'
<1> DEFINE x == Head(ftodo)
<1>1. /\ wpc = "idle" /\ mutex = FLUSHER /\ ftodo # <<>> /\ todo = <<>> /\ UNCHANGED wvars
      /\ \A r \in Readers : pc[r] \notin InMutex
  BY ActorsAssumption DEF FlushStep, CpuIdle, IInv, Control, MutexInv, WriteInv
<1>2. x \in Cursors /\ ftodo' \in Seq(Cursors)
  BY <1>1, HeadTailProperties DEF FlushStep, IInv, TypeOK
<1> HIDE DEF x
<1>3. /\ off'[x] = w_off /\ off' \in [Cursors -> Offsets]
      /\ \A c \in Cursors \ {x} : off'[c] = off[c]
  BY <1>2 DEF FlushStep, IInv, TypeOK, x
<1>4. mutex' \in {FLUSHER, NONE} /\ (mutex' = FLUSHER <=> ftodo' # <<>>)
  BY <1>1, ActorsAssumption DEF FlushStep
<1>5. TypeOK'
  BY <1>2, <1>3, <1>4 DEF IInv, TypeOK, FlushStep, wvars, rvars
<1>6. Control'
  <2>1. ListInv'
    BY DEF IInv, Control, ListInv, FlushStep, wvars, rvars
  <2>2. MutexInv'
    <3>1. \A r \in Readers : mutex' # r /\ pc'[r] \notin InMutex
      BY <1>1, <1>4, ActorsAssumption DEF FlushStep, rvars
    <3> QED
      BY <1>4, <3>1 DEF MutexInv
  <2>3. WriteInv' /\ \A r \in Readers : ReaderInv(r)'
    BY DEF IInv, Control, WriteInv, ReaderInv, FlushStep, wvars, rvars
  <2> QED
    BY <2>1, <2>2, <2>3 DEF Control
<1>7. PICK P : LogFollows(P)
  BY DEF IInv
<1>8. ASSUME NEW c \in Cursors, Live(c)' PROVE Follows(c, P)'
  <2>1. Live(c)
    BY <1>8 DEF Live, FlushStep, rvars
  <2>2. PICK e \in Nat : Stands(c, e, P) /\ (c \in Readers => Reads(c, e))
    BY <1>7, <1>8, <2>1 DEF LogFollows, Follows
  <2>3. CASE c # x
    <3>1. Stands(c, e, P)'
      BY <1>1, <1>3, <1>8, <2>2, <2>3, StandsStill
    <3>2. c \in Readers => Reads(c, e)'
      BY <1>1, <2>2, <2>3, <1>3, <1>8 DEF Reads, FlushStep, wvars, rvars, InMutex
    <3> QED
      BY <3>1, <3>2 DEF Follows
  <2>4. CASE c = x
    <3>1. /\ e \in 1 .. Newest + 1 /\ P[Newest + 1] \in Nat /\ HDR \in 2 .. N /\ N \in Nat
          /\ Newest \in Nat /\ Written(P) = P[Newest + 1] /\ P[Newest + 1] + HDR < P[e] + N
          /\ P[e] \in Nat /\ P[e] <= P[Newest + 1]
      BY <1>1, <1>7, <2>2, StandsIdle DEF IInv, Control, LogFollows
    <3>2. Newest' = Newest /\ todo' = <<>> /\ wpc' = "idle" /\ c \notin Elements(todo')
      BY <1>1 DEF Newest, wvars, Elements
    <3>3. off'[c] = P[Newest + 1] % N
      BY <1>3, <1>7, <2>4, <3>1 DEF LogFollows, Kept
    <3>4. PICK i \in Nat : i = Newest + 1
      BY <3>1
    <3>5. Stands(c, i, P)'
      <4>1. i \in 1 .. Newest + 1 /\ P[Newest + 1] + HDR < P[i] + N
        BY <3>1, <3>4
      <4>2. off'[c] = P[i] % N
        BY <3>3, <3>4
      <4> QED
        BY <3>2, <4>1, <4>2 DEF Stands
    <3>6. ASSUME c \in Readers PROVE Reads(c, i)'
      <4>1. last[c] < e /\ last[c] \in Nat /\ e <= i
        BY <2>2, <3>1, <3>4, <3>6 DEF Reads, IInv, TypeOK
      <4>2. last'[c] < i
        BY <4>1 DEF FlushStep, rvars
      <4>3. pc'[c] \notin {"len", "copy1", "copy2", "advance"}
        BY <1>1, <3>6 DEF FlushStep, rvars, InMutex
      <4> QED
        BY <3>2, <4>2, <4>3 DEF Reads
    <3> QED
      BY <3>5, <3>6 DEF Follows
  <2> QED
    BY <2>3, <2>4
<1>9. LogFollows(P)'
  BY <1>1, <1>7, <1>8, LogRests DEF wvars
<1> QED
  BY <1>5, <1>6, <1>9 DEF IInv

LEMMA InitInv == ASSUME LinesFit, Init PROVE IInv
<1>1. TypeOK
  <2>1. 0 \in Offsets /\ Nul \in Cells
    BY Ring DEF Nul, Cells
  <2>2. /\ <<>> \in Seq(Readers) /\ <<>> \in Seq(Counts) /\ <<>> \in Seq(Cursors)
        /\ <<>> \in Seq(Cells)
    BY EmptySeq
  <2> QED
    BY <2>1, <2>2 DEF Init, TypeOK, ReaderPcs
<1>2. Elements(readers) = {} /\ Elements(todo) = {} /\ Newest = 0
  BY EmptySeq DEF Init, Elements, Newest
<1>3. Control
  <2>1. ListInv
    BY <1>2 DEF Init, ListInv, Distinct
  <2>2. MutexInv
    BY ActorsAssumption DEF Init, MutexInv, InMutex
  <2>3. WriteInv
    BY <1>2 DEF Init, WriteInv, Nul, Newest
  <2>4. \A r \in Readers : ReaderInv(r)
    BY DEF Init, ReaderInv
  <2> QED
    BY <2>1, <2>2, <2>3, <2>4 DEF Control
<1>4. \E P : LogFollows(P)
  <2> DEFINE P == [i \in {1} |-> 0]
  <2>1. Laid(P)
    BY <1>2 DEF Laid
  <2>2. Written(P) = 0 /\ 0 % N = 0
    BY <1>2, Ring DEF Init, Written
  <2>3. Kept(P)
    BY <1>2, <2>2 DEF Kept, Init
  <2>4. ASSUME NEW c \in Cursors, Live(c) PROVE Follows(c, P)
    <3>1. c = HEAD /\ c \notin Readers
      BY <2>4, ActorsAssumption DEF Live, Init
    <3>2. HDR < N
      BY SizesAssumption
    <3>3. Stands(c, 1, P)
      BY <1>2, <2>2, <2>4, <3>2, SizesAssumption DEF Stands, Init
    <3> QED
      BY <3>1, <3>3 DEF Follows
  <2> QED
    BY <2>1, <2>3, <2>4 DEF LogFollows
<1> QED
  BY <1>1, <1>3, <1>4 DEF IInv

LEMMA NextKeeps == ASSUME LinesFit, IInv, [Next]_vars PROVE IInv'
<1>1. ASSUME NEW count \in Counts, WriteHeader(count) PROVE IInv'
  BY <1>1, WriteHeaderKeeps
<1>2. ASSUME WriteStep PROVE IInv'
  BY <1>2, FixSkipKeeps, FixPullKeeps, GetNextEntryKeeps, WritePayloadKeeps, WakeReadersKeeps
     DEF WriteStep
<1>3. ASSUME NEW r \in Readers, ReaderCall(r) \/ ReaderStep(r) \/ Signal(r) \/ PollTimeout(r)
      PROVE  IInv'
  <2>1. CASE \/ ReadCall(r) \/ PrepareToWait(r) \/ TestBlocked(r) \/ TestReady(r) \/ TestLeave(r)
             \/ TestSleep(r) \/ Schedule(r) \/ Signal(r) \/ (Recheck(r) /\ ~InLog(r))
             \/ PollCall(r) \/ PollTest(r) \/ PollWake(r) \/ PollTimeout(r)
    BY <2>1, Walks, WalkKeeps
  <2>2. CASE Open(r) \/ OpenLink(r) \/ Release(r)
    BY <2>2, OpenKeeps, OpenLinkKeeps, ReleaseKeeps
  <2>3. CASE (Recheck(r) /\ InLog(r)) \/ ReadLen(r) \/ ReadFails(r)
    BY <2>3, RecheckKeeps, ReadLenKeeps, ReadFailsKeeps
  <2>4. CASE Copy1(r) \/ Copy2(r) \/ ReadAdvance(r)
    BY <2>4, Copy1Keeps, Copy2Keeps, ReadAdvanceKeeps
  <2> QED
    BY <1>3, <2>1, <2>2, <2>3, <2>4 DEF ReaderCall, ReaderStep
<1>4. ASSUME UNCHANGED vars PROVE IInv'
  <2>1. /\ buf' = buf /\ w_off' = w_off /\ off' = off /\ readers' = readers /\ mutex' = mutex
        /\ lines' = lines /\ wpc' = wpc /\ todo' = todo /\ skipped' = skipped /\ ftodo' = ftodo
        /\ pc' = pc /\ armed' = armed /\ signal' = signal /\ n' = n /\ got' = got
        /\ damaged' = damaged /\ last' = last
    BY <1>4 DEF vars
  <2>2. TypeOK'
    BY <2>1 DEF IInv, TypeOK
  <2>3. Control'
    BY <2>1 DEF IInv, Control, ListInv, MutexInv, WriteInv, ReaderInv
  <2>4. PICK P : LogFollows(P)
    BY DEF IInv
  <2>5. Newest' = Newest /\ \A i : EntrySize(i)' = EntrySize(i)
    BY <2>1 DEF Newest, EntrySize
  <2>6. ASSUME NEW c \in Cursors, Live(c)' PROVE Follows(c, P)'
    <3>1. PICK e \in Nat : Stands(c, e, P) /\ (c \in Readers => Reads(c, e))
      BY <2>1, <2>4, <2>6 DEF LogFollows, Follows, Live
    <3>2. Stands(c, e, P)'
      BY <2>1, <2>5, <3>1 DEF Stands, Written
    <3>3. c \in Readers => Reads(c, e)'
      BY <2>1, <2>5, <3>1 DEF Reads
    <3> QED
      BY <3>2, <3>3 DEF Follows
  <2>7. LogFollows(P)'
    BY <2>1, <2>4, <2>6, LogRests
  <2> QED
    BY <2>2, <2>3, <2>7 DEF IInv
<1> QED
  BY <1>1, <1>2, <1>3, <1>4, FlushBeginKeeps, FlushStepKeeps DEF Next

-----------------------------------------------------------------------------
(* What it says of the cursors and of the reads                            *)

LEMMA StandsOnEntry ==
  ASSUME LinesFit, IInv, wpc = "idle", NEW c \in Cursors, Live(c)
  PROVE  OnEntry(c)
<1>1. PICK P : LogFollows(P)
  BY DEF IInv
<1>2. PICK e \in Nat : Stands(c, e, P)
  BY <1>1 DEF LogFollows, Follows
<1>3. TypeOK /\ WriteInv /\ Laid(P) /\ Kept(P)
  BY <1>1 DEF IInv, Control, LogFollows
<1>4. CASE ~(e <= Newest)
  BY <1>2, <1>3, <1>4, InLogMeans DEF InLog, OnEntry
<1>5. CASE e <= Newest
  <2>1. /\ e \in 1 .. Newest /\ off[c] = P[e] % N /\ P[e] \in Nat /\ N \in Nat
        /\ Written(P) = P[Newest + 1] /\ P[e + 1] = P[e] + EntrySize(e)
        /\ EntrySize(e) \in 3 .. N - 1 /\ P[e + 1] <= P[Newest + 1]
        /\ P[Newest + 1] + HDR < P[e] + N /\ P[Newest + 1] \in Nat /\ HDR \in Nat
    BY <1>2, <1>3, <1>5, StandsIdle
  <2>2. P[e] + 1 < Written(P) /\ Written(P) <= P[e] + N
    BY <2>1
  <2>3. buf[off[c]] = [id |-> e, pos |-> 0] /\ IsHeader(off[c])
    BY <1>3, <2>1, <2>2, EntryAt
  <2>4. ASSUME NEW k \in 0 .. EntrySize(e) - 1
        PROVE  buf[logger_offset(off[c] + k)] = [id |-> e, pos |-> k]
    <3>1. k \in Nat /\ k < EntrySize(e) /\ k \in 0 .. N /\ P[e] \in Int
      BY <2>1
    <3>2. buf[(P[e] + k) % N] = [id |-> e, pos |-> k]
      BY <1>2, <1>3, <1>5, <3>1, EntryWhole
    <3>3. ((P[e] % N) + k) % N = (P[e] + k) % N
      BY <3>1, OffsetMoves
    <3> QED
      BY <2>1, <3>2, <3>3 DEF logger_offset
  <2>5. Intact(off[c], e)
    BY <2>4 DEF Intact
  <2> QED
    BY <2>3, <2>5 DEF OnEntry
<1> QED
  BY <1>4, <1>5

LEMMA OffsetsFollow == ASSUME LinesFit, IInv PROVE OffsetsHold
<1>1. ASSUME CpuIdle, NEW c \in Listed \cup {HEAD}, Sound(c) PROVE OnEntry(c)
  <2>1. c \in Cursors /\ Live(c)
    <3>1. CASE c = HEAD
      BY <3>1 DEF Cursors, Live
    <3>2. CASE c # HEAD
      <4>1. c \in Elements(readers) /\ ~damaged[c]
        BY <1>1, <3>2 DEF Listed, Elements, Sound
      <4>2. c \in Readers
        BY <4>1 DEF Elements, IInv, TypeOK
      <4> QED
        BY <4>1, <4>2 DEF Cursors, Live, IInv, Control, ListInv
    <3> QED
      BY <3>1, <3>2
  <2> QED
    BY <1>1, <2>1, StandsOnEntry DEF CpuIdle
<1> QED
  BY <1>1 DEF OffsetsHold, CursorsOnEntries, IInv

LEMMA ReadIsEntry == ASSUME LinesFit, IInv PROVE ReadsOneEntry
<1> SUFFICES ASSUME NEW r \in Readers, pc[r] = "advance", ~damaged[r]
             PROVE  LET id == got[r][1].id IN
                      /\ id > last[r]
                      /\ got[r] = [k \in 1 .. EntrySize(id) |-> [id |-> id, pos |-> k - 1]]
  BY DEF ReadsOneEntry
<1>1. Live(r) /\ mutex = r /\ r \in Cursors
  BY DEF Live, IInv, Control, MutexInv, InMutex, Cursors
<1>2. PICK P : LogFollows(P)
  BY DEF IInv
<1>3. At(r, "advance")
  BY <1>1, <1>2 DEF At, CpuIdle, LogFollows, Follows, Reads
<1>4. PICK e \in Nat : /\ last[r] < e /\ got[r] = Whole(e, EntrySize(e)) /\ got[r][1].id = e
  BY <1>1, <1>2, <1>3, Advanced
<1>5. last[r] \in Nat
  BY DEF IInv, TypeOK
<1> QED
  BY <1>4, <1>5 DEF Whole

LEMMA NoneSkipped ==
  ASSUME LinesFit, IInv, NEW r \in Readers, ReadAdvance(r), ~damaged[r]
  PROVE  IF got[r][1].id = Len(lines) THEN off'[r] = w_off
         ELSE buf[off'[r]] = [id |-> got[r][1].id + 1, pos |-> 0]
<1>1. At(r, "advance") /\ Live(r) /\ wpc = "idle"
  BY DEF ReadAdvance, Live, At, CpuIdle
<1>2. PICK P : LogFollows(P)
  BY DEF IInv
<1>3. PICK e \in Nat : /\ Stands(r, e, P) /\ e \in 1 .. Newest /\ got[r][1].id = e
                       /\ logger_offset(off[r] + n[r]) = P[e + 1] % N
                       /\ P[e + 1] \in Nat /\ P[e] <= P[e + 1]
  BY <1>1, <1>2, Advanced
<1>4. off'[r] = P[e + 1] % N
  BY <1>3 DEF ReadAdvance, IInv, TypeOK, Cursors
<1>5. /\ Written(P) = P[Newest + 1] /\ Newest \in Nat /\ P[Newest + 1] \in Nat
      /\ P[Newest + 1] + HDR < P[e] + N /\ P[e] \in Nat /\ HDR \in 2 .. N /\ N \in Nat
  BY <1>1, <1>2, <1>3, StandsIdle DEF IInv, Control, LogFollows
<1>6. CASE e = Newest
  BY <1>2, <1>3, <1>4, <1>5, <1>6 DEF LogFollows, Kept, Newest
<1>7. CASE e # Newest
  <2>1. PICK i \in 1 .. Newest : i = e + 1
    BY <1>3, <1>5, <1>7
  <2>2. i \in 1 .. Newest + 1 /\ Newest + 1 \in 1 .. Newest + 1 /\ i < Newest + 1
    BY <1>5
  <2>3. P[i] + EntrySize(i) <= P[Newest + 1] /\ P[i] \in Nat
    BY <1>2, <2>2 DEF LogFollows, Laid
  <2>4. EntrySize(i) \in 3 .. N - 1
    BY Sizes DEF IInv, TypeOK
  <2>5. P[i] + 1 < Written(P) /\ Written(P) <= P[i] + N
    BY <1>3, <1>5, <2>1, <2>3, <2>4
  <2>6. buf[P[i] % N] = [id |-> i, pos |-> 0]
    BY <1>2, <2>5, EntryAt DEF IInv, LogFollows
  <2> QED
    BY <1>3, <1>4, <1>7, <2>1, <2>6 DEF Newest
<1> QED
  BY <1>6, <1>7

-----------------------------------------------------------------------------
(* The length of the log.  SizeFrom is recursive: that its equation has a  *)
(* solution and only one is shown by the places of the entries.            *)

LEMMA LeastNat ==
  ASSUME NEW T \in SUBSET Nat, T # {} PROVE \E k \in T : \A j \in T : k <= j
<1> DEFINE R == OpToRel(<, Nat)
<1>1. IsWellFoundedOn(R, Nat)
  BY NatLessThanWellFounded, Zenon
<1> HIDE DEF R
<1>2. PICK k \in T : \A j \in T : ~(<<j, k>> \in R)
  BY <1>1, WFMin
<1>3. \A j, i \in Nat : j < i => <<j, i>> \in R
  BY DEF R, OpToRel
<1>4. \A j \in T : ~(j < k)
  BY <1>2, <1>3
<1>5. \A j \in T : j \in Nat /\ k \in Nat
  OBVIOUS
<1> QED
  BY <1>4, <1>5

LEMMA SizeFromIs ==
  ASSUME LinesFit, TypeOK, NEW P, Laid(P), NEW e \in 1 .. Newest
  PROVE  SizeFrom[e] = P[Newest + 1] - P[e]
<1> DEFINE Left(id) == IF id > Newest THEN 0 ELSE P[Newest + 1] - P[id]
           g == [id \in Nat \ {0} |-> Left(id)]
<1>1. Newest \in Nat /\ \A id \in 1 .. Newest + 1 : P[id] \in Nat
  <2>1. Newest \in Nat
    BY DEF TypeOK, Newest
  <2> QED
    BY <2>1 DEF Laid
<1>2. \A id \in 1 .. Newest : P[id + 1] = P[id] + EntrySize(id) /\ EntrySize(id) \in Nat
  BY Sizes, SizesAssumption DEF TypeOK, Laid
<1>3. ASSUME NEW id \in Nat \ {0}, id <= Newest
      PROVE  Left(id) = EntrySize(id) + Left(id + 1)
  <2>1. id \in 1 .. Newest /\ id + 1 \in 1 .. Newest + 1 /\ id \in 1 .. Newest + 1
    BY <1>1, <1>3
  <2>2. CASE id + 1 > Newest
    BY <1>1, <1>2, <1>3, <2>1, <2>2
  <2>3. CASE ~(id + 1 > Newest)
    BY <1>1, <1>2, <1>3, <2>1, <2>3
  <2> QED
    BY <2>2, <2>3
<1>4. g = [id \in Nat \ {0} |-> IF id > Newest THEN 0 ELSE EntrySize(id) + g[id + 1]]
  <2> SUFFICES ASSUME NEW id \in Nat \ {0}
               PROVE  g[id] = IF id > Newest THEN 0 ELSE EntrySize(id) + g[id + 1]
    OBVIOUS
  <2>1. g[id] = Left(id) /\ g[id + 1] = Left(id + 1)
    OBVIOUS
  <2>2. CASE id > Newest
    BY <2>1, <2>2
  <2>3. CASE ~(id > Newest)
    <3>1. id <= Newest
      BY <1>1, <2>3
    <3> QED
      BY <1>3, <2>1, <2>3, <3>1
  <2> QED
    BY <2>2, <2>3
<1> HIDE DEF g
<1>5. SizeFrom = [id \in Nat \ {0} |-> IF id > Newest THEN 0 ELSE EntrySize(id) + SizeFrom[id + 1]]
  BY <1>4 DEF SizeFrom, Newest
<1>6. SizeFrom[Newest + 1] = 0 /\ \A id \in 1 .. Newest : SizeFrom[id] = EntrySize(id) + SizeFrom[id + 1]
  <2>1. \A id \in Nat \ {0} : SizeFrom[id] = IF id > Newest THEN 0 ELSE EntrySize(id) + SizeFrom[id + 1]
    BY <1>5
  <2> QED
    BY <1>1, <2>1
<1> DEFINE T == {k \in 0 .. Newest - 1 : SizeFrom[Newest - k] # Left(Newest - k)}
<1>7. T = {}
  <2> SUFFICES ASSUME T # {} PROVE FALSE
    OBVIOUS
  <2>1. PICK k \in T : \A j \in T : k <= j
    <3>1. T \in SUBSET Nat
      BY <1>1
    <3> HIDE DEF T
    <3> QED
      BY <3>1, LeastNat
  <2>2. PICK id \in 1 .. Newest : id = Newest - k
    BY <1>1
  <2>3. SizeFrom[id + 1] = Left(id + 1)
    <3>1. CASE k = 0
      BY <1>1, <1>6, <2>2, <3>1
    <3>2. CASE k # 0
      <4>1. k - 1 \in 0 .. Newest - 1 /\ Newest - (k - 1) = id + 1 /\ ~(k <= k - 1)
        BY <1>1, <2>2, <3>2
      <4>2. k - 1 \notin T
        BY <2>1, <4>1
      <4> HIDE DEF Left
      <4> QED
        BY <4>1, <4>2
    <3> QED
      BY <3>1, <3>2
  <2>4. SizeFrom[id] # Left(id)
    BY <2>2
  <2>5. id \in Nat \ {0} /\ id <= Newest
    BY <1>1
  <2> HIDE DEF Left
  <2> QED
    BY <1>3, <1>6, <2>3, <2>4, <2>5
<1>8. Newest - e \in 0 .. Newest - 1 /\ Newest - (Newest - e) = e /\ ~(e > Newest)
  BY <1>1
<1> QED
  BY <1>7, <1>8

LEMMA LengthIsUnread == ASSUME LinesFit, IInv PROVE LogLenIsUnread
<1> SUFFICES ASSUME wpc = "idle", NEW r \in Listed, ~damaged[r]
             PROVE  /\ LogLen(r) = IF InLog(r) THEN SizeFrom[buf[off[r]].id] ELSE 0
                    /\ NextEntryLen(r) = IF InLog(r) THEN {EntrySize(buf[off[r]].id)} ELSE {0}
  BY DEF LogLenIsUnread, CpuIdle
<1>1. r \in Readers /\ Live(r) /\ TypeOK /\ WriteInv
  <2>1. r \in Elements(readers) /\ r \in Readers
    BY DEF Listed, Elements, IInv, TypeOK
  <2> QED
    BY <2>1 DEF Live, IInv, Control, ListInv
<1>2. PICK P : LogFollows(P)
  BY DEF IInv
<1>3. PICK e \in Nat : Stands(r, e, P) /\ (InLog(r) <=> e <= Newest)
  BY <1>1, <1>2, Following
<1>4. /\ off[r] = P[e] % N /\ P[e] \in Nat /\ P[Newest + 1] \in Nat /\ HDR \in 2 .. N /\ N \in Nat
      /\ e \in 1 .. Newest + 1 /\ Newest \in Nat /\ Written(P) = P[Newest + 1]
      /\ P[e] <= P[Newest + 1] /\ P[Newest + 1] + HDR < P[e] + N /\ off[r] \in Offsets
      /\ e <= Newest => /\ EntrySize(e) \in 3 .. N - 1 /\ P[e + 1] = P[e] + EntrySize(e)
                        /\ P[e + 1] <= P[Newest + 1]
  BY <1>1, <1>2, <1>3, StandsIdle DEF LogFollows, TypeOK, Cursors
<1>5. w_off = P[Newest + 1] % N
  BY <1>2, <1>4 DEF LogFollows, Kept
<1>6. CASE ~InLog(r)
  BY <1>4, <1>6, Ring DEF InLog, LogLen, NextEntryLen
<1>7. CASE InLog(r)
  <2>1. e \in 1 .. Newest /\ P[e] + 1 < Written(P) /\ Written(P) <= P[e] + N
    BY <1>3, <1>4, <1>7
  <2>2. buf[off[r]].id = e /\ get_entry_len(off[r]) = {EntrySize(e)}
    <3>1. TypeOK /\ Laid(P) /\ Kept(P)
      BY <1>1, <1>2 DEF LogFollows
    <3>2. /\ buf[P[e] % N] = [id |-> e, pos |-> 0]
          /\ get_entry_len(P[e] % N) = {EntrySize(e)}
      BY <2>1, <3>1, EntryAt
    <3> QED
      BY <1>4, <3>2
  <2>3. SizeFrom[e] = P[Newest + 1] - P[e]
    BY <1>1, <1>2, <2>1, SizeFromIs DEF LogFollows
  <2>4. PICK d \in 0 .. N : d = P[Newest + 1] - P[e]
    BY <1>4
  <2>5. P[e] \in Int /\ P[e] + d = P[Newest + 1] /\ 0 < d /\ d < N
    BY <1>4, <2>1, <2>4
  <2>6. w_off = IF off[r] + d < N THEN off[r] + d ELSE off[r] + d - N
    BY <1>4, <1>5, <2>5, ModAdd
  <2>7. LogLen(r) = d
    BY <1>4, <2>5, <2>6, Ring DEF LogLen
  <2> QED
    BY <1>7, <2>2, <2>3, <2>4, <2>7 DEF NextEntryLen
<1> QED
  BY <1>6, <1>7

-----------------------------------------------------------------------------
(* The theorems: for lines that the kernel's buffer holds (LinesFit)       *)

LEMMA LogKept == ASSUME LinesFit PROVE Spec => []IInv
<1>1. Init => IInv
  BY InitInv
<1>2. IInv /\ [Next]_vars => IInv'
  BY NextKeeps
<1> QED
  BY <1>1, <1>2, PTL DEF Spec

(* fix_up_readers: between two writes log->head and every reader that no   *)
(* write has cut into stand at the write head or at the first byte of an   *)
(* entry all of whose bytes are still in the buffer, and every offset is   *)
(* inside the log, however often the writer laps the readers.              *)
THEOREM OffsetsCorrect == ASSUME LinesFit PROVE Spec => []OffsetsHold
<1>1. IInv => OffsetsHold
  BY OffsetsFollow
<1> QED
  BY <1>1, LogKept, PTL

(* klogger_read and do_read_log_to_user: what a read returns is one entry, *)
(* whole and unmixed, whether or not it wraps around the end of the        *)
(* buffer, and a later one than the read before returned.                  *)
THEOREM ReadsCorrect == ASSUME LinesFit PROVE Spec => []ReadsOneEntry
<1>1. IInv => ReadsOneEntry
  BY ReadIsEntry
<1> QED
  BY <1>1, LogKept, PTL

(* do_read_log_to_user moves r_off to the entry after the one it returned, *)
(* or to the write head if that was the newest: a read skips no entry.     *)
THEOREM SkipsCorrect == ASSUME LinesFit PROVE Spec => ReadsSkipNothing
<1>1. IInv /\ [Next]_vars =>
        [\A r \in Readers : ReadAdvance(r) /\ ~damaged[r] =>
           IF got[r][1].id = Len(lines) THEN off'[r] = w_off
           ELSE buf[off'[r]] = [id |-> got[r][1].id + 1, pos |-> 0]]_vars
  BY NoneSkipped
<1> QED
  BY <1>1, LogKept, PTL DEF Spec, ReadsSkipNothing

(* LOGGER_GET_LOG_LEN: what it returns, w_off - r_off with its wrap, is    *)
(* the size of the entries not yet read; LOGGER_GET_NEXT_ENTRY_LEN returns *)
(* the size of the next one, or 0 if there is none.                        *)
THEOREM LengthsCorrect == ASSUME LinesFit PROVE Spec => []LogLenIsUnread
<1>1. IInv => LogLenIsUnread
  BY LengthIsUnread
<1> QED
  BY <1>1, LogKept, PTL
=============================================================================
