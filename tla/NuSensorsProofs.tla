-------------------------- MODULE NuSensorsProofs --------------------------
(***************************************************************************)
(* What NuSensors keeps for every number of drivers, every length of the   *)
(* readers' buffers, every room in the framework's array and every bound.  *)
(***************************************************************************)
EXTENDS NuSensors, SequenceTheorems, TLAPS

-----------------------------------------------------------------------------
(* The circular reader is a queue, for every length of its buffer.         *)

Readers(E) == [buf  : [Slots -> E],         head : 0 .. NumEvents,
               curr : 0 .. NumEvents - 1,   free : 0 .. NumEvents]

(* What a reader of events in E may be                                     *)
IsReader(r, E) == r \in Readers(E) /\ ReaderOK(r)

(* curr and head are a apart in a circle of NumEvents slots.               *)
Apart(curr, a, head) == curr + a - head \in {0, NumEvents, -NumEvents}

-----------------------------------------------------------------------------
(* Arithmetic of the slots                                                 *)

(* A slot is in the first half of the buffer.                              *)
LEMMA SlotInBuffer ==
  ASSUME NEW at \in 0 .. NumEvents - 1, NEW i \in 0 .. NumEvents - 1
  PROVE  Slot(at, i) \in 0 .. NumEvents - 1 /\ Slot(at, i) \in Slots
BY ReaderAssumption DEF Slot, Slots

(* One step on, every slot is the next one.                                *)
LEMMA NextSlots ==
  ASSUME NEW at \in 0 .. NumEvents - 1, NEW a \in 1 .. NumEvents, NEW h \in 0 .. NumEvents,
         Apart(at, a, h), NEW d, d = IF at + 1 >= NumEvents THEN 0 ELSE at + 1
  PROVE  /\ d \in 0 .. NumEvents - 1 /\ Apart(d, a - 1, h)
         /\ \A i \in 1 .. a - 1 : Slot(d, i - 1) = Slot(at, i)
<1>1. d \in 0 .. NumEvents - 1 /\ Apart(d, a - 1, h)
  BY ReaderAssumption DEF Apart
<1>2. \A i \in 1 .. a - 1 : Slot(d, i - 1) = Slot(at, i)
  BY ReaderAssumption DEF Slot
<1> QED
  BY <1>1, <1>2

Copied(h, k, s) == h + k > NumEvents /\ s < h + k - NumEvents

(* What is read behind the queue meets none of its slots.                  *)
LEMMA OldSlots ==
  ASSUME NEW at \in 0 .. NumEvents - 1, NEW a \in 0 .. NumEvents, NEW h \in 0 .. NumEvents,
         Apart(at, a, h), NEW k \in Nat, a + k <= NumEvents, NEW i \in 0 .. a - 1
  PROVE  Slot(at, i) \notin h .. h + k - 1 /\ ~Copied(h, k, Slot(at, i))
BY ReaderAssumption DEF Apart, Slot, Copied

(* What is read ends in the slots behind the queue.                        *)
LEMMA NewSlots ==
  ASSUME NEW at \in 0 .. NumEvents - 1, NEW a \in 0 .. NumEvents, NEW h \in 0 .. NumEvents,
         Apart(at, a, h), NEW k \in Nat, a + k <= NumEvents, NEW i \in 1 .. k
  PROVE  /\ h + i - 1 \in Slots /\ h + i - 1 \in h .. h + k - 1
         /\ \/ Slot(at, a + i - 1) = h + i - 1 /\ ~Copied(h, k, Slot(at, a + i - 1))
            \/ NumEvents + Slot(at, a + i - 1) = h + i - 1 /\ Copied(h, k, Slot(at, a + i - 1))
<1>1. h + i - 1 \in Slots /\ h + i - 1 \in h .. h + k - 1
  BY ReaderAssumption DEF Slots
<1>2. \/ Slot(at, a + i - 1) = h + i - 1 /\ ~Copied(h, k, Slot(at, a + i - 1))
      \/ NumEvents + Slot(at, a + i - 1) = h + i - 1 /\ Copied(h, k, Slot(at, a + i - 1))
  BY ReaderAssumption DEF Apart, Slot, Copied
<1> QED
  BY <1>1, <1>2

LEMMA FillHead ==
  ASSUME NEW at \in 0 .. NumEvents - 1, NEW a \in 0 .. NumEvents, NEW h \in 0 .. NumEvents,
         Apart(at, a, h), NEW k \in Nat, a + k <= NumEvents,
         NEW g, g = IF h + k - NumEvents > 0 THEN h + k - NumEvents ELSE h + k
  PROVE  g \in 0 .. NumEvents /\ Apart(at, a + k, g)
BY ReaderAssumption DEF Apart

-----------------------------------------------------------------------------
(* The numbers of a reader, and its queue as a sequence                    *)

LEMMA ReaderNumbers ==
  ASSUME NEW E, NEW r, IsReader(r, E)
  PROVE  /\ r.buf \in [Slots -> E] /\ r.head \in 0 .. NumEvents /\ r.curr \in 0 .. NumEvents - 1
         /\ r.free \in 0 .. NumEvents /\ Available(r) \in 0 .. NumEvents
         /\ Available(r) = NumEvents - r.free /\ Apart(r.curr, Available(r), r.head)
<1>1. r.buf \in [Slots -> E] /\ r.head \in 0 .. NumEvents /\ r.curr \in 0 .. NumEvents - 1
      /\ r.free \in 0 .. NumEvents
  BY DEF IsReader, Readers
<1>2. Available(r) \in 0 .. NumEvents /\ Available(r) = NumEvents - r.free
  BY <1>1, ReaderAssumption DEF Available
<1>3. Apart(r.curr, Available(r), r.head)
  BY DEF IsReader, ReaderOK, Apart
<1> QED
  BY <1>1, <1>2, <1>3

LEMMA ContentsIsSeq ==
  ASSUME NEW E, NEW r, IsReader(r, E)
  PROVE  /\ Contents(r) \in Seq(E) /\ Len(Contents(r)) = Available(r)
         /\ \A i \in 1 .. Available(r) : Contents(r)[i] = r.buf[Slot(r.curr, i - 1)]
<1>1. PICK a \in Nat : a = Available(r) /\ a <= NumEvents
  BY ReaderNumbers, ReaderAssumption
<1>2. \A i \in 1 .. a : r.buf[Slot(r.curr, i - 1)] \in E
  <2> TAKE i \in 1 .. a
  <2>1. i - 1 \in 0 .. NumEvents - 1
    BY <1>1, ReaderAssumption
  <2>2. Slot(r.curr, i - 1) \in Slots
    BY <2>1, ReaderNumbers, SlotInBuffer
  <2> QED
    BY <2>2, ReaderNumbers
<1>3. Contents(r) = [i \in 1 .. a |-> r.buf[Slot(r.curr, i - 1)]]
  BY <1>1 DEF Contents
<1>4. Contents(r) \in [1 .. a -> E]
  BY <1>2, <1>3
<1>5. Contents(r) \in Seq(E) /\ Len(Contents(r)) = a
  BY <1>4
<1> QED
  BY <1>1, <1>3, <1>5

(* The reader that the constructor makes is empty.                         *)
LEMMA NewIsEmpty ==
  ASSUME NEW E, NoEvent \in E
  PROVE  IsReader(NewReader, E) /\ Contents(NewReader) = <<>>
<1>1. NewReader.free = NumEvents /\ NewReader.curr = 0 /\ NewReader.head = 0
  BY DEF NewReader
<1>2. Available(NewReader) = 0
  BY <1>1, ReaderAssumption DEF Available
<1>3. NewReader \in Readers(E)
  BY ReaderAssumption DEF NewReader, Readers
<1>4. ReaderOK(NewReader)
  BY <1>1, <1>2, ReaderAssumption DEF ReaderOK
<1>5. IsReader(NewReader, E)
  BY <1>3, <1>4 DEF IsReader
<1>6. Contents(NewReader) \in Seq(E) /\ Len(Contents(NewReader)) = 0
  BY <1>2, <1>5, ContentsIsSeq
<1>7. Contents(NewReader) = <<>>
  BY <1>6, EmptySeq
<1> QED
  BY <1>5, <1>7

-----------------------------------------------------------------------------
(* The two operations                                                      *)

(* next takes the oldest event off the queue.                              *)
LEMMA NextTakesHead ==
  ASSUME NEW E, NEW r, IsReader(r, E), Available(r) > 0
  PROVE  /\ IsReader(NextEvent(r), E)
         /\ Contents(r) # <<>>
         /\ Contents(NextEvent(r)) = Tail(Contents(r))
         /\ ReadEvent(r) = Head(Contents(r))
<1>1. PICK n : n = NextEvent(r)
  OBVIOUS
<1>2. PICK a \in 1 .. NumEvents : a = Available(r) /\ a = NumEvents - r.free
  BY ReaderNumbers, ReaderAssumption
<1>3. /\ n.buf = r.buf /\ n.head = r.head /\ n.free = r.free + 1
      /\ n.curr = IF r.curr + 1 >= NumEvents THEN 0 ELSE r.curr + 1
  BY <1>1 DEF NextEvent, IsReader, Readers
<1>4. /\ n.curr \in 0 .. NumEvents - 1 /\ Apart(n.curr, a - 1, r.head)
      /\ \A i \in 1 .. a - 1 : Slot(n.curr, i - 1) = Slot(r.curr, i)
  BY <1>2, <1>3, ReaderNumbers, NextSlots
<1>5. n.free \in 0 .. NumEvents /\ Available(n) = a - 1
  BY <1>2, <1>3, ReaderNumbers, ReaderAssumption DEF Available
<1>6. IsReader(n, E)
  <2>1. n \in Readers(E)
    <3>1. n = [buf |-> n.buf, head |-> n.head, curr |-> n.curr, free |-> n.free]
      BY <1>1 DEF NextEvent, IsReader, Readers
    <3>2. n.buf \in [Slots -> E] /\ n.head \in 0 .. NumEvents
      BY <1>3, ReaderNumbers
    <3> QED
      BY <3>1, <3>2, <1>4, <1>5 DEF Readers
  <2>2. ReaderOK(n)
    BY <1>3, <1>4, <1>5, ReaderNumbers DEF ReaderOK, Apart
  <2> QED
    BY <2>1, <2>2 DEF IsReader
<1>7. /\ Contents(r) \in Seq(E) /\ Len(Contents(r)) = a
      /\ \A i \in 1 .. a : Contents(r)[i] = r.buf[Slot(r.curr, i - 1)]
  BY <1>2, ContentsIsSeq
<1>8. /\ Contents(n) \in Seq(E) /\ Len(Contents(n)) = a - 1
      /\ \A i \in 1 .. a - 1 : Contents(n)[i] = r.buf[Slot(n.curr, i - 1)]
  BY <1>3, <1>5, <1>6, ContentsIsSeq
<1>9. Contents(r) # <<>>
  BY <1>7
<1>10. /\ Tail(Contents(r)) \in Seq(E) /\ Len(Tail(Contents(r))) = a - 1
       /\ \A i \in 1 .. a - 1 : Tail(Contents(r))[i] = Contents(r)[i + 1]
  BY <1>7, <1>9, HeadTailProperties
<1>11. \A i \in 1 .. a - 1 : Contents(n)[i] = Tail(Contents(r))[i]
  <2> TAKE i \in 1 .. a - 1
  <2>1. i + 1 \in 1 .. a /\ (i + 1) - 1 = i
    OBVIOUS
  <2>2. Contents(r)[i + 1] = r.buf[Slot(r.curr, i)]
    BY <2>1, <1>7
  <2> QED
    BY <2>2, <1>4, <1>8, <1>10
<1>12. Contents(n) = Tail(Contents(r))
  BY <1>8, <1>10, <1>11, SeqEqual
<1>13. ReadEvent(r) = Head(Contents(r))
  <2>1. Slot(r.curr, 1 - 1) = r.curr
    BY ReaderNumbers, ReaderAssumption DEF Slot
  <2>2. Contents(r)[1] = r.buf[r.curr]
    BY <2>1, <1>7
  <2> QED
    BY <2>2, <1>7, <1>9 DEF ReadEvent
<1> QED
  BY <1>1, <1>6, <1>9, <1>12, <1>13

(* fill puts what was read behind the queue, wherever it falls in the      *)
(* buffer, and disturbs nothing that waits there.                          *)
LEMMA FillAppends ==
  ASSUME NEW E, NEW r, IsReader(r, E), NEW evs \in Seq(E), Len(evs) <= r.free
  PROVE  /\ IsReader(Fill(r, evs), E)
         /\ Contents(Fill(r, evs)) = Contents(r) \o evs
<1>1. PICK f : f = Fill(r, evs)
  OBVIOUS
<1>2. PICK a \in 0 .. NumEvents : a = Available(r) /\ a = NumEvents - r.free
  BY ReaderNumbers
<1>3. PICK k \in Nat : k = Len(evs) /\ a + k <= NumEvents
  BY <1>2, ReaderNumbers, ReaderAssumption
<1>4. PICK h \in 0 .. NumEvents : h = r.head
  BY ReaderNumbers
<1>5. PICK buf : buf = ReadInto(r, evs)
  OBVIOUS
<1>6. \A i \in Slots : buf[i] = IF i \in h .. h + k - 1 THEN evs[i - h + 1] ELSE r.buf[i]
  BY <1>3, <1>4, <1>5 DEF ReadInto
<1>7. \A i \in Slots : buf[i] \in E
  <2> TAKE i \in Slots
  <2>1. CASE i \in h .. h + k - 1
    <3>1. i - h + 1 \in 1 .. k
      BY <2>1
    <3> QED
      BY <2>1, <3>1, <1>3, <1>6
  <2>2. CASE i \notin h .. h + k - 1
    BY <2>2, <1>6, ReaderNumbers
  <2> QED
    BY <2>1, <2>2
<1>8. /\ f.curr = r.curr /\ f.free = r.free - k
      /\ f.head = IF h + k - NumEvents > 0 THEN h + k - NumEvents ELSE h + k
      /\ f.buf = IF h + k - NumEvents > 0
                 THEN CopyOver(buf, h + k - NumEvents) ELSE buf
      /\ f = [buf |-> f.buf, head |-> f.head, curr |-> f.curr, free |-> f.free]
  <2>1. k = Len(evs) /\ h = r.head
    BY <1>3, <1>4
  <2>2. f = [buf |-> f.buf, head |-> f.head, curr |-> f.curr, free |-> f.free]
    BY <1>1 DEF Fill
  <2>3. f.curr = r.curr /\ f.free = r.free - Len(evs)
    BY <1>1 DEF Fill
  <2>4. f.head = IF r.head + Len(evs) - NumEvents > 0 THEN r.head + Len(evs) - NumEvents ELSE r.head + Len(evs)
    BY <1>1, <2>1, ReaderAssumption DEF Fill
  <2>5. f.buf = IF r.head + Len(evs) - NumEvents > 0
                THEN CopyOver(ReadInto(r, evs), r.head + Len(evs) - NumEvents) ELSE ReadInto(r, evs)
    BY <1>1, <2>1, ReaderAssumption DEF Fill
  <2> QED
    BY <1>5, <2>1, <2>2, <2>3, <2>4, <2>5
<1>9. Available(f) = a + k /\ f.free \in 0 .. NumEvents
  BY <1>2, <1>3, <1>8, ReaderNumbers, ReaderAssumption DEF Available
<1>10. \A i \in Slots : /\ Copied(h, k, i) => NumEvents + i \in Slots /\ f.buf[i] = buf[NumEvents + i]
                        /\ ~Copied(h, k, i) => f.buf[i] = buf[i]
  <2>1. \A i \in Slots : Copied(h, k, i) => NumEvents + i \in Slots
    BY <1>3, ReaderAssumption DEF Copied, Slots
  <2>2. CASE h + k - NumEvents > 0
    <3>1. h + k > NumEvents
      BY <2>2, ReaderAssumption
    <3> QED
      BY <2>1, <2>2, <3>1, <1>8 DEF Copied, CopyOver
  <2>3. CASE ~(h + k - NumEvents > 0)
    <3>1. ~(h + k > NumEvents)
      BY <2>3, ReaderAssumption
    <3> QED
      BY <2>3, <3>1, <1>8 DEF Copied
  <2> QED
    BY <2>1, <2>2, <2>3
<1>11. f.buf \in [Slots -> E]
  <2>1. f.buf = [i \in Slots |-> f.buf[i]]
    BY <1>5, <1>8 DEF ReadInto, CopyOver
  <2> QED
    BY <2>1, <1>7, <1>10
<1>12. IsReader(f, E)
  <2>1. f.head \in 0 .. NumEvents /\ Apart(f.curr, a + k, f.head)
    BY <1>2, <1>3, <1>4, <1>8, ReaderNumbers, FillHead
  <2>2. f \in Readers(E)
    BY <2>1, <1>8, <1>9, <1>11, ReaderNumbers DEF Readers
  <2> QED
    BY <2>1, <2>2, <1>8, <1>9, ReaderNumbers DEF IsReader, ReaderOK, Apart
<1>13. /\ Contents(r) \in Seq(E) /\ Len(Contents(r)) = a
       /\ \A i \in 1 .. a : Contents(r)[i] = r.buf[Slot(r.curr, i - 1)]
  BY <1>2, ContentsIsSeq
<1>14. /\ Contents(f) \in Seq(E) /\ Len(Contents(f)) = a + k
       /\ \A i \in 1 .. a + k : Contents(f)[i] = f.buf[Slot(r.curr, i - 1)]
  BY <1>8, <1>9, <1>12, ContentsIsSeq
<1>15. /\ Contents(r) \o evs \in Seq(E) /\ Len(Contents(r) \o evs) = a + k
       /\ \A i \in 1 .. a + k : (Contents(r) \o evs)[i] = IF i <= a THEN Contents(r)[i] ELSE evs[i - a]
  BY <1>3, <1>13, ConcatProperties
<1>16. ASSUME NEW i \in 1 .. a + k
       PROVE  Contents(f)[i] = (Contents(r) \o evs)[i]
  <2>1. CASE i <= a
    <3>1. i - 1 \in 0 .. a - 1 /\ i - 1 \in 0 .. NumEvents - 1
      BY <2>1, ReaderAssumption
    <3>2. PICK s \in Slots : s = Slot(r.curr, i - 1)
      BY <3>1, ReaderNumbers, SlotInBuffer
    <3>3. s \notin h .. h + k - 1 /\ ~Copied(h, k, s)
      BY <3>1, <3>2, <1>2, <1>3, <1>4, ReaderNumbers, OldSlots
    <3>4. f.buf[s] = r.buf[s]
      BY <3>3, <1>6, <1>10
    <3> QED
      BY <2>1, <3>2, <3>4, <1>13, <1>14, <1>15
  <2>2. CASE ~(i <= a)
    <3>1. PICK j \in 1 .. k : j = i - a /\ a + j - 1 = i - 1
      BY <2>2
    <3>2. i - 1 \in 0 .. NumEvents - 1
      BY <1>3, ReaderAssumption
    <3>3. PICK s \in Slots : s = Slot(r.curr, i - 1)
      BY <3>2, ReaderNumbers, SlotInBuffer
    <3>4. PICK w \in Slots : w = h + j - 1
      <4>1. r.curr \in 0 .. NumEvents - 1 /\ Apart(r.curr, a, h)
        BY <1>2, <1>4, ReaderNumbers
      <4> QED
        BY <3>1, <4>1, <1>3, NewSlots
    <3>5. /\ w \in h .. h + k - 1
          /\ \/ s = w /\ ~Copied(h, k, s)
             \/ NumEvents + s = w /\ Copied(h, k, s)
      <4>1. s = Slot(r.curr, a + j - 1)
        BY <3>1, <3>3
      <4>2. r.curr \in 0 .. NumEvents - 1 /\ Apart(r.curr, a, h)
        BY <1>2, <1>4, ReaderNumbers
      <4>3. j \in 1 .. k /\ k \in Nat /\ a + k <= NumEvents /\ a \in 0 .. NumEvents
            /\ h \in 0 .. NumEvents
        BY <3>1, <1>3
      <4>4. /\ h + j - 1 \in h .. h + k - 1
            /\ \/ Slot(r.curr, a + j - 1) = h + j - 1 /\ ~Copied(h, k, Slot(r.curr, a + j - 1))
               \/ /\ NumEvents + Slot(r.curr, a + j - 1) = h + j - 1
                  /\ Copied(h, k, Slot(r.curr, a + j - 1))
        BY <4>2, <4>3, NewSlots, Zenon
      <4> QED
        BY <3>4, <4>1, <4>4, Zenon
    <3>6. w - h + 1 = j
      BY <3>4
    <3>7. buf[w] = evs[j]
      BY <3>5, <3>6, <1>6
    <3>8. f.buf[s] = buf[w]
      BY <3>5, <1>10
    <3> QED
      BY <2>2, <3>1, <3>3, <3>7, <3>8, <1>14, <1>15
  <2> QED
    BY <2>1, <2>2
<1>17. Contents(f) = Contents(r) \o evs
  BY <1>14, <1>15, <1>16, SeqEqual
<1> QED
  BY <1>1, <1>12, <1>17

-----------------------------------------------------------------------------
(* Sequences                                                               *)

(* A sequence is what comes before and what comes after any place in it.   *)
LEMMA SplitSeq ==
  ASSUME NEW S, NEW s \in Seq(S), NEW k \in 0 .. Len(s)
  PROVE  /\ SubSeq(s, 1, k) \in Seq(S) /\ Len(SubSeq(s, 1, k)) = k
         /\ SubSeq(s, k + 1, Len(s)) \in Seq(S)
         /\ SubSeq(s, 1, k) \o SubSeq(s, k + 1, Len(s)) = s
<1> DEFINE a == SubSeq(s, 1, k)
           b == SubSeq(s, k + 1, Len(s))
<1>1. Len(s) \in Nat /\ k \in Int /\ k + 1 \in Int
  BY LenProperties
<1>2. \A i \in 1 .. Len(s) : s[i] \in S
  BY ElementOfSeq
<1>3. a \in Seq(S) /\ Len(a) = k /\ \A i \in 1 .. k : a[i] = s[i]
  <2>1. \A i \in 1 .. k : s[i] \in S
    BY <1>1, <1>2
  <2>2. /\ a \in Seq(S) /\ Len(a) = IF 1 <= k THEN k - 1 + 1 ELSE 0
        /\ \A i \in 1 .. k - 1 + 1 : a[i] = s[1 + i - 1]
    BY <1>1, <2>1, SubSeqProperties
  <2> QED
    BY <1>1, <2>2
<1>4. b \in Seq(S) /\ Len(b) = Len(s) - k /\ \A i \in 1 .. Len(s) - k : b[i] = s[k + i]
  <2>1. \A i \in k + 1 .. Len(s) : s[i] \in S
    BY <1>1, <1>2
  <2>2. /\ b \in Seq(S) /\ Len(b) = IF k + 1 <= Len(s) THEN Len(s) - (k + 1) + 1 ELSE 0
        /\ \A i \in 1 .. Len(s) - (k + 1) + 1 : b[i] = s[(k + 1) + i - 1]
    BY <1>1, <2>1, SubSeqProperties
  <2> QED
    BY <1>1, <2>2
<1> HIDE DEF a, b
<1>5. /\ a \o b \in Seq(S) /\ Len(a \o b) = Len(s)
      /\ \A i \in 1 .. Len(s) : (a \o b)[i] = IF i <= k THEN a[i] ELSE b[i - k]
  <2>1. /\ a \o b \in Seq(S) /\ Len(a \o b) = Len(a) + Len(b)
        /\ \A i \in 1 .. Len(a) + Len(b) : (a \o b)[i] = IF i <= Len(a) THEN a[i] ELSE b[i - Len(a)]
    BY <1>3, <1>4, ConcatProperties
  <2>2. Len(a) + Len(b) = Len(s)
    BY <1>1, <1>3, <1>4
  <2> QED
    BY <2>1, <2>2, <1>3
<1>6. ASSUME NEW i \in 1 .. Len(s) PROVE (a \o b)[i] = s[i]
  <2>1. CASE i <= k
    <3>1. i \in 1 .. k
      BY <2>1, <1>1
    <3> QED
      BY <2>1, <3>1, <1>3, <1>5
  <2>2. CASE ~(i <= k)
    <3>1. i - k \in 1 .. Len(s) - k /\ k + (i - k) = i
      BY <2>2, <1>1
    <3>2. b[i - k] = s[i]
      BY <3>1, <1>4
    <3> QED
      BY <2>2, <3>2, <1>5
  <2> QED
    BY <2>1, <2>2
<1>7. a \o b = s
  BY <1>5, <1>6, SeqEqual
<1> QED
  BY <1>3, <1>4, <1>7 DEF a, b

LEMMA TailOfConcat ==
  ASSUME NEW S, NEW s \in Seq(S), NEW t \in Seq(S), s # <<>>
  PROVE  s \o t # <<>> /\ Head(s \o t) = Head(s) /\ Tail(s \o t) = Tail(s) \o t
<1>1. PICK m \in Nat, n \in Nat : m = Len(s) /\ n = Len(t) /\ m > 0
  BY LenProperties, EmptySeq
<1>2. /\ s \o t \in Seq(S) /\ Len(s \o t) = m + n
      /\ \A i \in 1 .. m + n : (s \o t)[i] = IF i <= m THEN s[i] ELSE t[i - m]
  BY <1>1, ConcatProperties
<1>3. s \o t # <<>>
  BY <1>1, <1>2
<1>4. Head(s \o t) = Head(s)
  BY <1>1, <1>2, <1>3
<1>5. Tail(s) \in Seq(S) /\ Len(Tail(s)) = m - 1 /\ \A i \in 1 .. m - 1 : Tail(s)[i] = s[i + 1]
  BY <1>1, HeadTailProperties
<1>6. /\ Tail(s \o t) \in Seq(S) /\ Len(Tail(s \o t)) = m + n - 1
      /\ \A i \in 1 .. m + n - 1 : Tail(s \o t)[i] = (s \o t)[i + 1]
  BY <1>1, <1>2, <1>3, HeadTailProperties
<1>7. /\ Tail(s) \o t \in Seq(S) /\ Len(Tail(s) \o t) = m + n - 1
      /\ \A i \in 1 .. m + n - 1 : (Tail(s) \o t)[i] = IF i <= m - 1 THEN Tail(s)[i] ELSE t[i - (m - 1)]
  <2>1. (m - 1) + n = m + n - 1
    BY <1>1
  <2> QED
    BY <1>1, <1>5, <2>1, ConcatProperties
<1>8. ASSUME NEW i \in 1 .. m + n - 1 PROVE Tail(s \o t)[i] = (Tail(s) \o t)[i]
  <2>1. i + 1 \in 1 .. m + n /\ i - (m - 1) = (i + 1) - m /\ (i + 1 <= m <=> i <= m - 1)
    BY <1>1
  <2>2. CASE i <= m - 1
    BY <2>1, <2>2, <1>2, <1>5, <1>6, <1>7
  <2>3. CASE ~(i <= m - 1)
    BY <2>1, <2>3, <1>2, <1>6, <1>7
  <2> QED
    BY <2>2, <2>3
<1>9. Tail(s \o t) = Tail(s) \o t
  BY <1>6, <1>7, <1>8, SeqEqual
<1> QED
  BY <1>3, <1>4, <1>9

-----------------------------------------------------------------------------
(* The inductive invariant: the type of every variable, said of the whole  *)
(* variable, that what waits in a reader are events, that a driver which   *)
(* is being read is one, and that no call is waking for nothing.           *)

Devices    == [D -> [value : Values, on : BOOLEAN, queue : Seq(Events)]]
SlotValues == Events \cup {NoEvent}
States     == [D -> [enabled : BOOLEAN, has : BOOLEAN, value : Values \cup {NoEvent}]]
Places     == 1 .. Len(Drivers) + 1
Threads    == [pc : {"out", "scan", "copy", "drain", "read"}, i : Places, room : 0 .. Count]
Calling    == [pc : {"ioctl", "enabled", "look", "wake"}, d : D, en : BOOLEAN]
Storing    == [pc : {"store"}, d : D, value : Values, todo : SUBSET {"has", "value"}]

IDev == dev \in Devices
IRdr == /\ rdr \in [D -> Readers(SlotValues)]
        /\ \A d \in D : IsReader(rdr[d], SlotValues) /\ Contents(rdr[d]) \in Seq(Events)
IDrv == drv \in States
IThread == /\ p \in Threads
           /\ p.pc \in {"copy", "drain", "read"} => p.i <= Len(Drivers)
           /\ p.pc = "copy" => p.room > 0
ICall == c \in {Idle} \cup Calling \cup Storing
IPipe == /\ pipe \in Nat /\ calls \in 0 .. MaxCalls
         /\ pipe <= calls /\ (c.pc # "idle" => pipe + 1 <= calls)
IRest == /\ revents \subseteq D /\ crossed \subseteq D /\ changes \in 0 .. MaxChanges
         /\ got \in [D -> Values \cup {NoEvent}]

IInv == IDev /\ IRdr /\ IDrv /\ IThread /\ ICall /\ IPipe /\ IRest

LEMMA IInvIsTyped == IInv => TypeOK
<1> SUFFICES ASSUME IInv PROVE TypeOK
  OBVIOUS
<1>1. ASSUME NEW d \in D
      PROVE  /\ dev[d].value \in Values /\ dev[d].on \in BOOLEAN /\ dev[d].queue \in Seq(Events)
             /\ ReaderOK(rdr[d]) /\ rdr[d].buf \in [Slots -> Events \cup {NoEvent}]
             /\ drv[d].enabled \in BOOLEAN /\ drv[d].has \in BOOLEAN
             /\ drv[d].value \in Values \cup {NoEvent} /\ got[d] \in Values \cup {NoEvent}
  BY DEF IInv, IDev, IRdr, IDrv, IRest, Devices, States, IsReader, Readers, SlotValues
<1>2. pipe \in 0 .. MaxCalls
  BY NuSensorsAssumption DEF IInv, IPipe
<1> QED
  BY <1>1, <1>2 DEF TypeOK, IInv, IThread, IPipe, IRest, Threads, Places

LEMMA DriverAt ==
  ASSUME NEW i \in 1 .. Len(Drivers)
  PROVE  Drivers[i] \in D
BY NuSensorsAssumption DEF D

LEMMA ManyDrivers == Len(Drivers) \in Nat /\ Drivers \in Seq({"light", "proximity", "lis"})
BY NuSensorsAssumption

LEMMA InitIInv == Init => IInv
<1> SUFFICES ASSUME Init PROVE IInv
  OBVIOUS
<1> DEFINE asked(on, answers) == {d \in Pends : d = "light" \/ (answers /\ d \in on)}
           initial(seen, on, v, answers) ==
             /\ dev = [d \in D |-> [value |-> v, on |-> d = "light" \/ d \in on, queue |-> <<>>]]
             /\ drv = [d \in D |->
                  [enabled |-> IF d = "proximity" THEN answers ELSE d \in on,
                   has     |-> d \in seen,
                   value   |-> IF d \in seen \/ d \in on \ Pends THEN v ELSE NoEvent]]
             /\ crossed = asked(on, answers) \ seen
<1>a. PICK on \in SUBSET (D \ {"light"}), v \in Values, answers \in BOOLEAN :
        \E seen \in SUBSET asked(on, answers) : initial(seen, on, v, answers)
  BY Zenon DEF Init
<1>0. PICK seen \in SUBSET asked(on, answers) : initial(seen, on, v, answers)
  BY <1>a
<1>1. seen \in SUBSET Pends /\ crossed \subseteq Pends
  BY <1>0
<1> HIDE DEF asked
<1>2. IDev
  <2>1. <<>> \in Seq(Events)
    BY EmptySeq
  <2> QED
    BY <1>0, <2>1 DEF IDev, Devices
<1>3. IDrv
  <2> DEFINE enabled(d) == IF d = "proximity" THEN answers ELSE d \in on
             has(d)     == d \in seen
             value(d)   == IF d \in seen \/ d \in on \ Pends THEN v ELSE NoEvent
  <2>1. ASSUME NEW d \in D PROVE enabled(d) \in BOOLEAN /\ has(d) \in BOOLEAN
    <3>1. (d \in on) \in BOOLEAN /\ (d \in seen) \in BOOLEAN
      OBVIOUS
    <3> QED
      BY <3>1, Zenon
  <2>2. ASSUME NEW d \in D PROVE value(d) \in Values \cup {NoEvent}
    OBVIOUS
  <2>3. drv = [d \in D |-> [enabled |-> enabled(d), has |-> has(d), value |-> value(d)]]
    BY <1>0, Zenon
  <2> HIDE DEF enabled, has, value
  <2> QED
    BY <2>1, <2>2, <2>3 DEF IDrv, States
<1>4. IRdr
  <2>1. IsReader(NewReader, SlotValues) /\ Contents(NewReader) = <<>>
    BY NewIsEmpty DEF SlotValues
  <2>2. <<>> \in Seq(Events)
    BY EmptySeq
  <2> QED
    BY <2>1, <2>2 DEF Init, IRdr, IsReader
<1>5. IThread
  <2>1. 1 \in Places /\ Count \in 0 .. Count
    BY ManyDrivers, NuSensorsAssumption DEF Places
  <2> QED
    BY <2>1 DEF Init, Out, IThread, Threads
<1>6. ICall /\ IPipe /\ IRest
  BY <1>1, NuSensorsAssumption DEF Init, ICall, IPipe, IRest, Idle, Pends
<1> QED
  BY <1>2, <1>3, <1>4, <1>5, <1>6 DEF IInv

(* Which step may change what                                              *)
LEMMA Frames ==
  ASSUME [Next]_vars
  PROVE  /\ dev' = dev \/ FillReader \/ SetEnable \/ \E d \in D, v \in Values : Change(d, v)
         /\ rdr' = rdr \/ FillReader \/ DrainEvent
         /\ drv' = drv \/ ReadPending \/ DrainEvent \/ SetEnabled \/ StoreInitial
         /\ revents' = revents \/ NextSensor \/ Poll
         /\ crossed' = crossed \/ CopyPending \/ DrainEvent \/ LookAtDevice \/ LookFails
                              \/ \E d \in D, v \in Values : Change(d, v)
         /\ changes' = changes \/ \E d \in D, v \in Values : Change(d, v)
         /\ got' = got \/ CopyPending \/ DrainEvent
         /\ p' = p \/ Polling
         /\ UNCHANGED <<c, pipe, calls>> \/ Activating \/ (Poll /\ UNCHANGED <<c, calls>>)
<1>1. CASE UNCHANGED vars
  BY <1>1 DEF vars
<1>2. CASE Polling
  BY <1>2 DEF Polling, pollEvents, SkipSensor, ReadPending, CopyPending, FillReader,
              DrainEvent, DrainEnds, NextSensor, Poll, RoomUsedUp
<1>3. CASE Activating
  BY <1>3 DEF Activating, activate, IoctlFails, SetEnable, NothingToAsk, SetEnabled,
              LookAtDevice, LookFails, StoreInitial, Wake
<1>4. CASE \E d \in D, v \in Values : Change(d, v)
  BY <1>4 DEF Change
<1> QED
  BY <1>1, <1>2, <1>3, <1>4 DEF Next

LEMMA CurIsDriver ==
  ASSUME IThread, p.pc \in {"copy", "drain", "read"} \/ p.i <= Len(Drivers)
  PROVE  Cur \in D /\ p.i \in 1 .. Len(Drivers)
<1>1. p.i \in 1 .. Len(Drivers)
  BY ManyDrivers DEF IThread, Threads, Places
<1> QED
  BY <1>1, DriverAt DEF Cur

LEMMA CallOfDriver ==
  ASSUME ICall
  PROVE  /\ c.pc \in {"ioctl", "enabled", "look", "wake"} => c \in Calling
         /\ c.pc = "store" => c \in Storing
         /\ c.pc \in {"ioctl", "enabled", "look", "wake", "store"} => c.d \in D /\ c # Idle
BY DEF ICall, Idle, Calling, Storing

(* A read moves the oldest events of the device behind those of the        *)
(* reader: what no driver has seen stays the same sequence.                *)
LEMMA FillStep ==
  ASSUME IInv, FillReader
  PROVE  /\ Cur \in D
         /\ dev'[Cur].queue \in Seq(Events)
         /\ IsReader(rdr'[Cur], SlotValues) /\ Contents(rdr'[Cur]) \in Seq(Events)
         /\ Contents(rdr'[Cur]) \o dev'[Cur].queue = Contents(rdr[Cur]) \o dev[Cur].queue
         /\ rdr' = [rdr EXCEPT ![Cur] = rdr'[Cur]]
         /\ dev' = [dev EXCEPT ![Cur].queue = dev'[Cur].queue]
<1>1. Cur \in D
  BY CurIsDriver DEF FillReader, Fills, Scanning, IInv
<1>2. PICK d \in D : d = Cur
  BY <1>1
<1>3. PICK q \in Seq(Events) : q = dev[d].queue
  BY DEF IInv, IDev, Devices
<1>4. PICK r : r = rdr[d]
  OBVIOUS
<1>5. IsReader(r, SlotValues) /\ Contents(r) \in Seq(Events) /\ r.free \in 0 .. NumEvents
  BY <1>4, ReaderNumbers DEF IInv, IRdr
<1>6. PICK k : /\ k = IF r.free < Len(q) THEN r.free ELSE Len(q)
               /\ rdr' = [rdr EXCEPT ![d] = Fill(r, SubSeq(q, 1, k))]
               /\ dev' = [dev EXCEPT ![d].queue = SubSeq(q, k + 1, Len(q))]
  BY <1>2, <1>3, <1>4 DEF FillReader
<1>7. Len(q) \in Nat
  BY <1>3, LenProperties
<1>8. k \in 0 .. Len(q) /\ k <= r.free
  BY <1>5, <1>6, <1>7, ReaderAssumption
<1>9. PICK read, rest : read = SubSeq(q, 1, k) /\ rest = SubSeq(q, k + 1, Len(q))
  OBVIOUS
<1>10. /\ read \in Seq(Events) /\ Len(read) = k /\ rest \in Seq(Events) /\ read \o rest = q
  BY <1>3, <1>8, <1>9, SplitSeq
<1>11. read \in Seq(SlotValues)
  <2>1. Events \subseteq SlotValues
    BY DEF SlotValues
  <2> QED
    BY <1>10, <2>1, SeqMonotonic
<1>12. PICK f : f = Fill(r, read) /\ IsReader(f, SlotValues) /\ Contents(f) = Contents(r) \o read
  BY <1>5, <1>8, <1>10, <1>11, FillAppends
<1>13. Contents(f) \in Seq(Events)
  BY <1>5, <1>10, <1>12, ConcatProperties
<1>14. Contents(f) \o rest = Contents(r) \o q
  <2>1. PICK s \in Seq(Events) : s = Contents(r)
    BY <1>5
  <2>2. (s \o read) \o rest = s \o (read \o rest)
    <3>1. s \in Seq(Events) /\ read \in Seq(Events) /\ rest \in Seq(Events)
      BY <1>10
    <3> QED
      BY <3>1, ConcatAssociative, SMTT(30)
  <2>3. Contents(f) = s \o read
    BY <1>12, <2>1
  <2> QED
    BY <2>1, <2>2, <2>3, <1>10, Zenon
<1>15. rdr'[d] = f /\ rdr' = [rdr EXCEPT ![d] = f]
  BY <1>6, <1>9, <1>12 DEF IInv, IRdr
<1>16. dev'[d].queue = rest /\ dev' = [dev EXCEPT ![d].queue = rest]
  BY <1>6, <1>9 DEF IInv, IDev, Devices
<1> QED
  BY <1>2, <1>3, <1>4, <1>10, <1>12, <1>13, <1>14, <1>15, <1>16

(* A driver sees the oldest event that it has not seen.                    *)
LEMMA DrainStep ==
  ASSUME IInv, DrainEvent
  PROVE  /\ Cur \in D
         /\ IsReader(rdr'[Cur], SlotValues) /\ Contents(rdr'[Cur]) \in Seq(Events)
         /\ Contents(rdr[Cur]) # <<>> /\ Contents(rdr'[Cur]) = Tail(Contents(rdr[Cur]))
         /\ ReadEvent(rdr[Cur]) = Head(Contents(rdr[Cur])) /\ ReadEvent(rdr[Cur]) \in Events
         /\ rdr' = [rdr EXCEPT ![Cur] = rdr'[Cur]]
<1>1. Cur \in D
  BY CurIsDriver DEF DrainEvent, Draining, IInv
<1>2. PICK d \in D : d = Cur
  BY <1>1
<1>3. PICK r : r = rdr[d]
  OBVIOUS
<1>4. IsReader(r, SlotValues) /\ Contents(r) \in Seq(Events) /\ Available(r) > 0
  BY <1>2, <1>3 DEF IInv, IRdr, DrainEvent, Draining
<1>5. PICK n : n = NextEvent(r)
  OBVIOUS
<1>6. /\ IsReader(n, SlotValues) /\ Contents(r) # <<>> /\ Contents(n) = Tail(Contents(r))
      /\ ReadEvent(r) = Head(Contents(r))
  BY <1>4, <1>5, NextTakesHead
<1>7. Contents(n) \in Seq(Events) /\ ReadEvent(r) \in Events
  BY <1>4, <1>6, HeadTailProperties
<1>8. rdr' = [rdr EXCEPT ![d] = n] /\ rdr'[d] = n
  BY <1>2, <1>3, <1>5 DEF DrainEvent, IInv, IRdr
<1> QED
  BY <1>2, <1>3, <1>6, <1>7, <1>8

-----------------------------------------------------------------------------
(* Every step keeps every part of the invariant.                           *)

LEMMA StepDev == ASSUME IInv, [Next]_vars PROVE IDev'
<1>1. CASE dev' = dev
  BY <1>1 DEF IInv, IDev
<1>2. CASE FillReader
  BY <1>2, FillStep DEF IInv, IDev, Devices
<1>3. CASE SetEnable
  <2>1. c \in Calling /\ c.d \in D /\ c.en \in BOOLEAN
    BY <1>3, CallOfDriver DEF SetEnable, IInv, Calling
  <2> QED
    BY <1>3, <2>1 DEF SetEnable, IInv, IDev, Devices
<1>4. CASE \E d \in D, v \in Values : Change(d, v)
  <2>1. PICK d \in D, v \in Values : Change(d, v)
    BY <1>4
  <2>2. ABS(v) \in Events /\ SYN \in Events
    BY DEF Events
  <2>3. dev[d].queue \o <<ABS(v), SYN>> \in Seq(Events)
    <3>1. <<ABS(v), SYN>> \in Seq(Events)
      BY <2>2
    <3>2. dev[d].queue \in Seq(Events)
      BY DEF IInv, IDev, Devices
    <3> QED
      BY <3>1, <3>2, ConcatProperties
  <2>4. dev' = [dev EXCEPT ![d].value = v, ![d].queue = dev[d].queue \o <<ABS(v), SYN>>]
    BY <2>1 DEF Change, IInv, IDev, Devices
  <2> QED
    BY <2>3, <2>4 DEF IInv, IDev, Devices
<1> QED
  BY <1>1, <1>2, <1>3, <1>4, Frames

LEMMA StepRdr == ASSUME IInv, [Next]_vars PROVE IRdr'
<1> USE DEF IRdr
<1>1. CASE rdr' = rdr
  BY <1>1 DEF IInv
<1>2. CASE FillReader
  <2>1. /\ Cur \in D /\ IsReader(rdr'[Cur], SlotValues) /\ Contents(rdr'[Cur]) \in Seq(Events)
        /\ rdr' = [rdr EXCEPT ![Cur] = rdr'[Cur]]
    BY <1>2, FillStep
  <2> QED
    BY <2>1 DEF IInv, IsReader
<1>3. CASE DrainEvent
  <2>1. /\ Cur \in D /\ IsReader(rdr'[Cur], SlotValues) /\ Contents(rdr'[Cur]) \in Seq(Events)
        /\ rdr' = [rdr EXCEPT ![Cur] = rdr'[Cur]]
    BY <1>3, DrainStep
  <2> QED
    BY <2>1 DEF IInv, IsReader
<1> QED
  BY <1>1, <1>2, <1>3, Frames

LEMMA StepDrv == ASSUME IInv, [Next]_vars PROVE IDrv'
<1> USE DEF IDrv, States
<1>1. CASE drv' = drv
  BY <1>1 DEF IInv
<1>2. CASE ReadPending
  <2>1. Cur \in D
    BY <1>2, CurIsDriver DEF ReadPending, Scanning, IInv
  <2> QED
    BY <1>2, <2>1 DEF ReadPending, IInv
<1>3. CASE DrainEvent
  <2>1. Cur \in D /\ ReadEvent(rdr[Cur]) \in Events
    BY <1>3, DrainStep
  <2>2. PICK e : e = ReadEvent(rdr[Cur])
    OBVIOUS
  <2>3. e.type = "EV_ABS" => e.value \in Values
    <3>1. ASSUME NEW v \in Values, e = ABS(v) PROVE e.value \in Values
      BY <3>1 DEF ABS
    <3>2. ASSUME e = SYN PROVE e.type # "EV_ABS"
      BY <3>2 DEF SYN
    <3> QED
      BY <2>1, <2>2, <3>1, <3>2 DEF Events
  <2>4. drv' = drv \/ (e.type = "EV_ABS" /\ drv' = [drv EXCEPT ![Cur].value = e.value])
    BY <1>3, <2>2 DEF DrainEvent
  <2> QED
    BY <2>1, <2>3, <2>4 DEF IInv
<1>4. CASE SetEnabled
  <2>1. c \in Calling /\ c.d \in D /\ c.en \in BOOLEAN
    BY <1>4, CallOfDriver DEF SetEnabled, IInv, Calling
  <2> QED
    BY <1>4, <2>1 DEF SetEnabled, IInv
<1>5. CASE StoreInitial
  <2>1. c \in Storing /\ c.d \in D /\ c.value \in Values
    BY <1>5, CallOfDriver DEF StoreInitial, IInv, Storing
  <2>2. \/ drv' = [drv EXCEPT ![c.d] = [@ EXCEPT !.has = TRUE]]
        \/ drv' = [drv EXCEPT ![c.d] = [@ EXCEPT !.value = c.value]]
    BY <1>5 DEF StoreInitial
  <2> QED
    BY <2>1, <2>2 DEF IInv
<1> QED
  BY <1>1, <1>2, <1>3, <1>4, <1>5, Frames

(* What readEvents writes to the framework's array is taken from its room. *)
LEMMA DeliverStep ==
  ASSUME IThread, IDrv, IRest, p.pc \in {"copy", "drain"}, p.room > 0,
         NEW to \in {"drain", "read"}, Deliver(Cur, to)
  PROVE  IThread' /\ got' \in [D -> Values \cup {NoEvent}]
<1>1. Cur \in D /\ p.i \in 1 .. Len(Drivers)
  BY CurIsDriver
<1>2. CASE ~Reports(Cur)
  <2>1. p' = [p EXCEPT !.pc = to] /\ got' = got
    BY <1>2 DEF Deliver
  <2> QED
    BY <1>1, <2>1 DEF IThread, Threads, IRest
<1>3. CASE Reports(Cur)
  <2>1. got' \in [D -> Values \cup {NoEvent}]
    BY <1>1, <1>3 DEF Deliver, IDrv, States, IRest
  <2>2. PICK room : room = p.room - 1
    OBVIOUS
  <2>3. room \in 0 .. Count
    <3>1. p.room \in 0 .. Count
      BY DEF IThread, Threads
    <3> QED
      BY <2>2, <3>1, NuSensorsAssumption
  <2>4. p' = [p EXCEPT !.pc = to, !.room = room]
    BY <1>3, <2>2 DEF Deliver
  <2>5. p' \in Threads /\ p'.pc = to /\ p'.i = p.i
    BY <2>3, <2>4 DEF IThread, Threads
  <2> QED
    BY <1>1, <2>1, <2>5 DEF IThread
<1> QED
  BY <1>2, <1>3

LEMMA StepThread == ASSUME IInv, [Next]_vars PROVE IThread'
<1>1. CASE p' = p
  BY <1>1 DEF IInv, IThread
<1>2. CASE pollEvents
  BY <1>2 DEF pollEvents, IInv, IThread, Threads
<1>3. CASE SkipSensor
  <2>1. p.i \in Places /\ p.i <= Len(Drivers) /\ p.pc = "scan"
    BY <1>3 DEF SkipSensor, Scanning, IInv, IThread, Threads
  <2>2. p.i + 1 \in Places
    BY <2>1, ManyDrivers DEF Places
  <2>3. p' = [p EXCEPT !.i = p.i + 1]
    BY <1>3 DEF SkipSensor
  <2> QED
    BY <2>1, <2>2, <2>3 DEF IInv, IThread, Threads
<1>4. CASE ReadPending
  BY <1>4 DEF ReadPending, Scanning, IInv, IThread, Threads
<1>5. CASE CopyPending
  <2>1. p.pc = "copy" /\ p.room > 0 /\ Deliver(Cur, "read")
    BY <1>5 DEF CopyPending, IInv, IThread
  <2> QED
    BY <2>1, DeliverStep DEF IInv
<1>6. CASE FillReader
  <2>1. p' = [p EXCEPT !.pc = "drain"] /\ p.i <= Len(Drivers) /\ p.pc = "scan"
    BY <1>6 DEF FillReader, Fills, Scanning
  <2> QED
    BY <2>1 DEF IInv, IThread, Threads
<1>7. CASE DrainEvent
  <2>1. p' = p \/ Deliver(Cur, "drain")
    BY <1>7 DEF DrainEvent
  <2>2. p.pc = "drain" /\ p.room > 0
    BY <1>7 DEF DrainEvent, Draining
  <2> QED
    BY <1>1, <2>1, <2>2, DeliverStep DEF IInv
<1>8. CASE DrainEnds
  BY <1>8 DEF DrainEnds, IInv, IThread, Threads
<1>9. CASE NextSensor
  <2>1. p.pc = "read" /\ p.i \in 1 .. Len(Drivers)
    BY <1>9, CurIsDriver DEF NextSensor, IInv
  <2>2. p.i + 1 \in Places
    BY <2>1, ManyDrivers DEF Places
  <2>3. p' = [p EXCEPT !.pc = "scan", !.i = p.i + 1]
    BY <1>9 DEF NextSensor
  <2> QED
    BY <2>1, <2>2, <2>3 DEF IInv, IThread, Threads
<1>10. CASE Poll \/ RoomUsedUp
  <2>1. p.pc = "scan" /\ (p' = [p EXCEPT !.i = 1] \/ p' = Out)
    BY <1>10 DEF Poll, Scanned, RoomUsedUp
  <2>2. 1 \in Places /\ Count \in 0 .. Count
    BY ManyDrivers, NuSensorsAssumption DEF Places
  <2> QED
    BY <2>1, <2>2 DEF Out, IInv, IThread, Threads
<1>11. p' = p \/ Polling
  BY Frames
<1> QED
  BY <1>1, <1>2, <1>3, <1>4, <1>5, <1>6, <1>7, <1>8, <1>9, <1>10, <1>11 DEF Polling

LEMMA StepCall == ASSUME IInv, [Next]_vars PROVE ICall'
<1> USE DEF ICall
<1>1. CASE c' = c
  BY <1>1 DEF IInv
<1>2. CASE \E d \in D, en \in BOOLEAN : activate(d, en)
  BY <1>2 DEF activate, Calling
<1>3. CASE IoctlFails \/ Wake
  BY <1>3 DEF IoctlFails, Wake
<1>4. CASE SetEnable \/ NothingToAsk \/ SetEnabled
  <2>1. c \in Calling
    BY <1>4, CallOfDriver DEF SetEnable, NothingToAsk, SetEnabled, IInv
  <2>2. c' = Idle \/ \E pc \in {"enabled", "look", "wake"} : c' = [c EXCEPT !.pc = pc]
    BY <1>4 DEF SetEnable, NothingToAsk, SetEnabled
  <2> QED
    BY <2>1, <2>2 DEF Calling
<1>5. CASE LookAtDevice
  <2>1. c.d \in D
    BY <1>5, CallOfDriver DEF LookAtDevice, IInv
  <2>2. dev[c.d].value \in Values
    BY <2>1 DEF IInv, IDev, Devices
  <2>3. c' = [pc |-> "store", d |-> c.d, value |-> dev[c.d].value, todo |-> {"has", "value"}]
    BY <1>5 DEF LookAtDevice
  <2> QED
    BY <2>1, <2>2, <2>3 DEF Storing
<1>6. CASE StoreInitial
  <2>1. c \in Storing
    BY <1>6, CallOfDriver DEF StoreInitial, IInv
  <2>2. PICK f \in c.todo : \/ c' = [pc |-> "wake", d |-> c.d, en |-> TRUE]
                           \/ c' = [c EXCEPT !.todo = c.todo \ {f}]
    BY <1>6 DEF StoreInitial
  <2>3. CASE c' = [pc |-> "wake", d |-> c.d, en |-> TRUE]
    BY <2>1, <2>3 DEF Storing, Calling
  <2>4. CASE c' = [c EXCEPT !.todo = c.todo \ {f}]
    <3>1. c.todo \ {f} \in SUBSET {"has", "value"}
      BY <2>1 DEF Storing
    <3>2. c' \in Storing
      BY <2>1, <2>4, <3>1 DEF Storing
    <3> QED
      BY <3>2
  <2> QED
    BY <2>2, <2>3, <2>4
<1>7. CASE LookFails
  <2>1. c.d \in D
    BY <1>7, CallOfDriver DEF LookFails, IInv
  <2> QED
    BY <1>7, <2>1 DEF LookFails, Calling
<1>8. c' = c \/ Activating
  BY Frames
<1> QED
  BY <1>1, <1>2, <1>3, <1>4, <1>5, <1>6, <1>7, <1>8 DEF Activating

LEMMA StepPipe == ASSUME IInv, [Next]_vars PROVE IPipe'
<1>1. pipe \in Nat /\ calls \in Nat /\ calls <= MaxCalls /\ MaxCalls \in Nat
  BY NuSensorsAssumption DEF IInv, IPipe
<1>2. pipe <= calls /\ (c.pc # "idle" => pipe + 1 <= calls)
  BY <1>1 DEF IInv, IPipe
<1>3. /\ calls' = calls /\ pipe' \in Nat
      /\ pipe' <= calls /\ (c'.pc # "idle" => pipe' + 1 <= calls)
      => IPipe'
  <2>1. calls \in 0 .. MaxCalls
    BY DEF IInv, IPipe
  <2> QED
    BY <2>1, Zenon DEF IPipe
<1>4. CASE UNCHANGED <<c, pipe, calls>>
  BY <1>1, <1>2, <1>3, <1>4
<1>5. CASE Poll /\ UNCHANGED <<c, calls>>
  <2>1. pipe' = IF pipe > 0 THEN pipe - 1 ELSE 0
    BY <1>5 DEF Poll
  <2> QED
    BY <1>1, <1>2, <1>3, <1>5, <2>1
<1>6. CASE \E d \in D, en \in BOOLEAN : activate(d, en)
  <2>1. pipe' = pipe /\ calls' = calls + 1 /\ calls < MaxCalls
    BY <1>6 DEF activate
  <2> QED
    BY <1>1, <1>2, <2>1 DEF IPipe
<1>7. CASE \/ IoctlFails \/ SetEnable \/ NothingToAsk \/ SetEnabled
          \/ LookAtDevice \/ LookFails \/ StoreInitial
  <2>1. c.pc # "idle" /\ pipe' = pipe /\ calls' = calls
    BY <1>7 DEF IoctlFails, SetEnable, NothingToAsk, SetEnabled,
              LookAtDevice, LookFails, StoreInitial, Idle
  <2> QED
    BY <1>1, <1>2, <1>3, <2>1
<1>8. CASE Wake
  <2>1. c.pc # "idle" /\ c'.pc = "idle" /\ pipe' = pipe + 1 /\ calls' = calls
    BY <1>8 DEF Wake, Idle
  <2> QED
    BY <1>1, <1>2, <1>3, <2>1
<1> QED
  BY <1>4, <1>5, <1>6, <1>7, <1>8, Frames DEF Activating

LEMMA StepRest == ASSUME IInv, [Next]_vars PROVE IRest'
<1>1. revents' \subseteq D
  <2>1. CASE revents' = revents \/ NextSensor \/ Poll
    BY <2>1 DEF NextSensor, Poll, HasInput, IInv, IRest
  <2> QED
    BY <2>1, Frames
<1>2. crossed' \subseteq D
  <2>1. CASE CopyPending
    <3>1. Cur \in D
      BY <2>1, CurIsDriver DEF CopyPending, IInv
    <3> QED
      BY <2>1, <3>1 DEF CopyPending, Cross, IInv, IRest
  <2>2. CASE DrainEvent
    <3>1. Cur \in D
      BY <2>2, DrainStep
    <3> QED
      BY <2>2, <3>1 DEF DrainEvent, Cross, IInv, IRest
  <2>3. CASE LookAtDevice \/ LookFails
    <3>1. c.d \in D
      BY <2>3, CallOfDriver DEF LookAtDevice, LookFails, IInv
    <3> QED
      BY <2>3, <3>1 DEF LookAtDevice, LookFails, IInv, IRest
  <2>4. CASE crossed' = crossed \/ \E d \in D, v \in Values : Change(d, v)
    BY <2>4 DEF Change, IInv, IRest
  <2> QED
    BY <2>1, <2>2, <2>3, <2>4, Frames
<1>3. changes' \in 0 .. MaxChanges
  <2>1. CASE changes' = changes
    BY <2>1 DEF IInv, IRest
  <2>2. CASE \E d \in D, v \in Values : Change(d, v)
    <3>1. changes' = changes + 1 /\ changes < MaxChanges
      BY <2>2 DEF Change
    <3> QED
      BY <3>1, NuSensorsAssumption DEF IInv, IRest
  <2> QED
    BY <2>1, <2>2, Frames
<1>4. got' \in [D -> Values \cup {NoEvent}]
  <2>1. CASE got' = got
    BY <2>1 DEF IInv, IRest
  <2>2. CASE CopyPending
    <3>1. p.pc = "copy" /\ p.room > 0 /\ Deliver(Cur, "read")
      BY <2>2 DEF CopyPending, IInv, IThread
    <3> QED
      BY <3>1, DeliverStep DEF IInv
  <2>3. CASE DrainEvent
    <3>1. got' = got \/ Deliver(Cur, "drain")
      BY <2>3 DEF DrainEvent
    <3>2. p.pc = "drain" /\ p.room > 0
      BY <2>3 DEF DrainEvent, Draining
    <3> QED
      BY <2>1, <3>1, <3>2, DeliverStep DEF IInv
  <2> QED
    BY <2>1, <2>2, <2>3, Frames
<1> QED
  BY <1>1, <1>2, <1>3, <1>4 DEF IRest

LEMMA StepIInv == IInv /\ [Next]_vars => IInv'
BY StepDev, StepRdr, StepDrv, StepThread, StepCall, StepPipe, StepRest DEF IInv

LEMMA Invariance == Spec => []IInv
<1>1. Init => IInv
  BY InitIInv
<1>2. IInv /\ [Next]_vars => IInv'
  BY StepIInv
<1> QED
  BY <1>1, <1>2, PTL DEF Spec

(* Every variable of the library keeps its type: no index of a circular    *)
(* reader leaves its buffer, the room left in the framework's array is     *)
(* what has not been written, and the wake pipe holds no more messages     *)
(* than there were calls.                                                  *)
THEOREM TypeCorrect == Spec => []TypeOK
<1>1. IInv => TypeOK
  BY IInvIsTyped
<1> QED
  BY <1>1, Invariance, PTL

(* What a step does to the events of driver d that it has not seen         *)
Kept(d)  == Unread(d)' = Unread(d)
Taken(d) == Unread(d) # <<>> /\ Unread(d)' = Tail(Unread(d)) /\ ReadEvent(rdr[d]) = Head(Unread(d))
Sent(d)  == Unread(d)' = Unread(d) \o <<ABS(dev'[d].value), SYN>>

LEMMA UntouchedDriver ==
  ASSUME NEW d \in D, rdr'[d] = rdr[d], dev'[d].queue = dev[d].queue
  PROVE  Kept(d)
BY DEF Kept, Unread

LEMMA FillKeeps ==
  ASSUME IInv, FillReader, NEW d \in D
  PROVE  Kept(d)
<1>1. /\ Contents(rdr'[Cur]) \o dev'[Cur].queue = Contents(rdr[Cur]) \o dev[Cur].queue
      /\ rdr' = [rdr EXCEPT ![Cur] = rdr'[Cur]]
      /\ dev' = [dev EXCEPT ![Cur].queue = dev'[Cur].queue]
  BY FillStep
<1>2. CASE d = Cur
  BY <1>1, <1>2 DEF Kept, Unread
<1>3. CASE d # Cur
  <2>1. rdr'[d] = rdr[d]
    BY <1>1, <1>3 DEF IInv, IRdr
  <2>2. dev'[d] = dev[d]
    BY <1>1, <1>3 DEF IInv, IDev, Devices
  <2> QED
    BY <2>1, <2>2, UntouchedDriver
<1> QED
  BY <1>2, <1>3

LEMMA DrainTakes ==
  ASSUME IInv, DrainEvent, NEW d \in D
  PROVE  IF d = Cur THEN Taken(d) ELSE Kept(d)
<1>1. /\ Contents(rdr[Cur]) # <<>> /\ Contents(rdr'[Cur]) = Tail(Contents(rdr[Cur]))
      /\ ReadEvent(rdr[Cur]) = Head(Contents(rdr[Cur]))
      /\ rdr' = [rdr EXCEPT ![Cur] = rdr'[Cur]] /\ Cur \in D
  BY DrainStep
<1>2. dev' = dev
  BY DEF DrainEvent
<1>3. CASE d = Cur
  <2>1. Contents(rdr[d]) \in Seq(Events) /\ dev[d].queue \in Seq(Events)
    BY DEF IInv, IRdr, IDev, Devices
  <2>2. /\ Unread(d) # <<>> /\ Head(Unread(d)) = Head(Contents(rdr[d]))
        /\ Tail(Unread(d)) = Tail(Contents(rdr[d])) \o dev[d].queue
    BY <1>1, <1>3, <2>1, TailOfConcat DEF Unread
  <2>3. Unread(d)' = Tail(Contents(rdr[d])) \o dev[d].queue
    BY <1>1, <1>2, <1>3 DEF Unread
  <2> QED
    BY <1>1, <1>3, <2>2, <2>3 DEF Taken
<1>4. CASE d # Cur
  BY <1>1, <1>2, <1>4, UntouchedDriver DEF IInv, IRdr
<1> QED
  BY <1>3, <1>4

LEMMA ChangeSends ==
  ASSUME IInv, NEW e \in D, NEW v \in Values, Change(e, v), NEW d \in D
  PROVE  IF d = e THEN Sent(d) ELSE Kept(d)
<1>1. rdr' = rdr /\ dev' = [dev EXCEPT ![e].value = v, ![e].queue = dev[e].queue \o <<ABS(v), SYN>>]
  BY DEF Change, IInv, IDev, Devices
<1>2. CASE d = e
  <2>1. PICK s \in Seq(Events), q \in Seq(Events) : s = Contents(rdr[d]) /\ q = dev[d].queue
    BY DEF IInv, IRdr, IDev, Devices
  <2>2. PICK t \in Seq(Events) : t = <<ABS(v), SYN>>
    <3>1. ABS(v) \in Events /\ SYN \in Events
      BY DEF Events
    <3>2. <<ABS(v), SYN>> \in Seq(Events)
      BY <3>1
    <3> QED
      BY <3>2
  <2>3. s \o (q \o t) = (s \o q) \o t
    BY ConcatAssociative, SMTT(30)
  <2>4. dev'[d].value = v /\ dev'[d].queue = q \o t
    BY <1>1, <1>2, <2>1, <2>2 DEF IInv, IDev, Devices
  <2>5. Unread(d)' = s \o (q \o t)
    BY <1>1, <2>1, <2>4 DEF Unread
  <2>6. Unread(d) = s \o q /\ t = <<ABS(dev'[d].value), SYN>>
    BY <2>1, <2>2, <2>4 DEF Unread
  <2>7. Sent(d)
    BY <2>3, <2>5, <2>6, Zenon DEF Sent
  <2> QED
    BY <1>2, <2>7
<1>3. CASE d # e
  <2>1. dev'[d] = dev[d]
    BY <1>1, <1>3 DEF IInv, IDev, Devices
  <2> QED
    BY <1>1, <1>3, <2>1, UntouchedDriver
<1> QED
  BY <1>2, <1>3

LEMMA StepEvents ==
  ASSUME IInv, [Next]_vars, NEW d \in D
  PROVE  Kept(d) \/ Taken(d) \/ Sent(d)
<1>1. CASE FillReader
  BY <1>1, FillKeeps
<1>2. CASE DrainEvent
  BY <1>2, DrainTakes
<1>3. CASE \E e \in D, v \in Values : Change(e, v)
  BY <1>3, ChangeSends
<1>4. CASE dev' = dev /\ rdr' = rdr
  BY <1>4, UntouchedDriver
<1>5. CASE SetEnable /\ rdr' = rdr
  <2>1. dev'[d].queue = dev[d].queue
    BY <1>5 DEF SetEnable, IInv, IDev, Devices
  <2> QED
    BY <1>5, <2>1, UntouchedDriver
<1> QED
  BY <1>1, <1>2, <1>3, <1>4, <1>5, Frames

(* For every length of the buffer and every number of events, whatever the *)
(* reads cut them into: a driver sees each event of its device once, and   *)
(* in the order in which the device sent them.                             *)
THEOREM EventsCorrect == Spec => EventsInOrder
<1>1. ASSUME IInv, [Next]_vars
      PROVE  \A d \in D :
               \/ Unread(d)' = Unread(d)
               \/ Unread(d) # <<>> /\ Unread(d)' = Tail(Unread(d)) /\ ReadEvent(rdr[d]) = Head(Unread(d))
               \/ Unread(d)' = Unread(d) \o <<ABS(dev'[d].value), SYN>>
  <2> TAKE d \in D
  <2>1. Kept(d) \/ Taken(d) \/ Sent(d)
    BY <1>1, StepEvents
  <2> QED
    BY <2>1, Zenon DEF Kept, Taken, Sent
<1> QED
  BY <1>1, Invariance, PTL DEF Spec, EventsInOrder

-----------------------------------------------------------------------------
(* What the framework is told.  The invariant follows a value on its way   *)
(* from the device through the events, the driver and the array.           *)

(* The last of the events u is a report of value v.                        *)
Ends(u, v) == /\ u # <<>> => u[Len(u)] = SYN
              /\ Len(u) > 1 => u[Len(u) - 1] = ABS(v)

StoringFor(d)  == c.pc = "store" /\ c.d = d
ToStore(d)   == StoringFor(d) /\ "value" \in c.todo
Telling(d)   == (c.pc = "look" /\ c.d = d) \/ (StoringFor(d) /\ "has" \in c.todo)
Owed(d)      == drv[d].has \/ (p.pc = "copy" /\ Cur = d)
Few(d)       == Len(Unread(d)) <= 1

(* What setInitialState saw, what the driver holds, what the framework has *)
SawNow(d)  == StoringFor(d) /\ Few(d) => c.value = dev[d].value
HoldsNow(d) ==
  Few(d) /\ (Len(Unread(d)) = 1 \/ Owed(d) \/ StoringFor(d))
  => drv[d].value = dev[d].value \/ ToStore(d)
HasNow(d) ==
  Unread(d) = <<>> /\ dev[d].on /\ Reports(d)
  => Telling(d) \/ Owed(d) \/ got[d] = dev[d].value

Follows(d) == /\ Ends(Unread(d), dev[d].value)
              /\ d \notin crossed => SawNow(d) /\ HoldsNow(d) /\ HasNow(d)

LEMMA TailEnds ==
  ASSUME NEW u \in Seq(Events), u # <<>>, NEW v, Ends(u, v)
  PROVE  /\ Tail(u) \in Seq(Events) /\ Len(Tail(u)) = Len(u) - 1 /\ Len(u) \in Nat
         /\ Ends(Tail(u), v)
         /\ Len(u) = 1 => Head(u) = SYN
         /\ Len(u) = 2 => Head(u) = ABS(v)
<1>1. PICK n \in Nat : n = Len(u) /\ n > 0
  BY LenProperties, EmptySeq
<1>t. PICK t : t = Tail(u)
  OBVIOUS
<1>2. t \in Seq(Events) /\ t = Tail(u) /\ Len(t) = n - 1 /\ \A i \in 1 .. n - 1 : t[i] = u[i + 1]
  BY <1>1, <1>t, HeadTailProperties
<1>3. Head(u) = u[1]
  <2>1. 1 \in 1 .. Len(u) /\ Len(u) \in 1 .. Len(u)
    BY <1>1
  <2>2. Head(SubSeq(u, 1, Len(u))) = u[1]
    BY <2>1, HeadTailOfSubSeq
  <2>3. SubSeq(u, 1, Len(u)) = u
    BY SubSeqFull
  <2> QED
    BY <2>2, <2>3
<1>4. t # <<>> => t[n - 1] = SYN
  <2>1. t # <<>> => n - 1 \in 1 .. n - 1 /\ (n - 1) + 1 = n
    BY <1>1, <1>2, EmptySeq
  <2> QED
    BY <1>1, <1>2, <2>1 DEF Ends
<1>5. n - 1 > 1 => t[n - 1 - 1] = ABS(v)
  <2>1. n - 1 > 1 => n - 1 - 1 \in 1 .. n - 1 /\ (n - 1 - 1) + 1 = n - 1
    BY <1>1
  <2> QED
    BY <1>1, <1>2, <2>1 DEF Ends
<1>6. Ends(t, v)
  BY <1>2, <1>4, <1>5 DEF Ends
<1> QED
  BY <1>1, <1>2, <1>3, <1>6 DEF Ends

LEMMA SendEnds ==
  ASSUME NEW u \in Seq(Events), NEW v \in Values
  PROVE  /\ Ends(u \o <<ABS(v), SYN>>, v)
         /\ Len(u \o <<ABS(v), SYN>>) > 1 /\ u \o <<ABS(v), SYN>> # <<>>
<1>1. PICK n \in Nat : n = Len(u)
  BY LenProperties
<1>2. ABS(v) \in Events /\ SYN \in Events
  BY DEF Events
<1>p. PICK a \in Events, b \in Events : a = ABS(v) /\ b = SYN
  BY <1>2
<1>q. PICK t : t = <<a, b>>
  OBVIOUS
<1>3. a = ABS(v) /\ b = SYN /\ t = <<a, b>>
  BY <1>p, <1>q
<1>s. t \in Seq(Events) /\ Len(t) = 2
  BY <1>3
<1>e. t[1] = a /\ t[2] = b
  BY <1>3
<1>t. t \in Seq(Events) /\ Len(t) = 2 /\ t[1] = ABS(v) /\ t[2] = SYN
  BY <1>s, <1>e, <1>3
<1>w. PICK w : w = u \o t
  OBVIOUS
<1>4. Len(w) = n + 2 /\ \A i \in 1 .. n + 2 : w[i] = IF i <= n THEN u[i] ELSE t[i - n]
  <2>1. /\ u \o t \in Seq(Events) /\ Len(u \o t) = Len(u) + Len(t)
        /\ \A i \in 1 .. Len(u) + Len(t) : (u \o t)[i] = IF i <= Len(u) THEN u[i] ELSE t[i - Len(u)]
    BY <1>t, ConcatProperties
  <2> QED
    BY <2>1, <1>1, <1>t, <1>w
<1>5. w[n + 2] = SYN
  <2>1. n + 2 \in 1 .. n + 2 /\ ~(n + 2 <= n) /\ (n + 2) - n = 2
    BY <1>1
  <2> QED
    BY <1>t, <1>4, <2>1
<1>6. w[n + 1] = ABS(v)
  <2>1. n + 1 \in 1 .. n + 2 /\ ~(n + 1 <= n) /\ (n + 1) - n = 1
    BY <1>1
  <2> QED
    BY <1>t, <1>4, <2>1
<1>7. n + 2 > 1 /\ (n + 2) - 1 = n + 1
  BY <1>1
<1>8. w # <<>>
  BY <1>1, <1>4
<1> QED
  BY <1>3, <1>w, <1>4, <1>5, <1>6, <1>7, <1>8 DEF Ends

IFollows == \A d \in Pends : Follows(d)

LEMMA UnreadIsSeq ==
  ASSUME IInv, NEW d \in D
  PROVE  Unread(d) \in Seq(Events) /\ Len(Unread(d)) \in Nat
<1>1. Contents(rdr[d]) \in Seq(Events) /\ dev[d].queue \in Seq(Events)
  BY DEF IInv, IRdr, IDev, Devices
<1>2. Unread(d) \in Seq(Events)
  BY <1>1, ConcatProperties DEF Unread
<1> QED
  BY <1>2, LenProperties

(* A step that leaves alone what is said of driver d, or only begins to    *)
(* tell it, or excuses it.                                                 *)
LEMMA SameFollows ==
  ASSUME NEW d \in D, Follows(d), Kept(d),
         dev'[d].value = dev[d].value, drv'[d].value = drv[d].value, got'[d] = got[d],
         StoringFor(d)' <=> StoringFor(d), ToStore(d)' <=> ToStore(d),
         StoringFor(d) => c'.value = c.value,
         Owed(d)' <=> Owed(d), Telling(d) => Telling(d)',
         dev'[d].on /\ Reports(d)' => (dev[d].on /\ Reports(d)) \/ Telling(d)',
         d \in crossed => d \in crossed'
  PROVE  Follows(d)'
<1>1. PICK u : u = Unread(d) /\ Unread(d)' = u
  BY DEF Kept
<1>2. Ends(u, dev'[d].value)
  BY <1>1 DEF Follows
<1>3. SawNow(d) => SawNow(d)'
  BY <1>1, Zenon DEF SawNow, Few
<1>4. HoldsNow(d) => HoldsNow(d)'
  BY <1>1, Zenon DEF HoldsNow, Few
<1>5. HasNow(d) => HasNow(d)'
  BY <1>1, Zenon DEF HasNow
<1>6. Ends(Unread(d), dev[d].value)'
  BY <1>1, <1>2, Zenon
<1> QED
  BY <1>3, <1>4, <1>5, <1>6, Zenon DEF Follows

LEMMA SameCall ==
  ASSUME c' = c, NEW d \in D
  PROVE  /\ StoringFor(d)' <=> StoringFor(d)
         /\ ToStore(d)' <=> ToStore(d)
         /\ StoringFor(d) => c'.value = c.value
         /\ Telling(d) => Telling(d)'
BY DEF StoringFor, ToStore, Telling

(* The polling thread moves on without reading from any driver.            *)
LEMMA MoveFollows ==
  ASSUME UNCHANGED <<dev, rdr, drv, c, got, crossed>>, p' = p \/ (p.pc # "copy" /\ p'.pc # "copy"),
         NEW d \in D, Follows(d)
  PROVE  Follows(d)'
<1>1. Kept(d)
  BY DEF Kept, Unread
<1>2. Owed(d)' <=> Owed(d)
  BY DEF Owed, Cur
<1>3. Reports(d)' <=> Reports(d)
  BY DEF Reports
<1> QED
  BY <1>1, <1>2, <1>3, SameCall, SameFollows

LEMMA ReadPendingFollows ==
  ASSUME IInv, ReadPending, NEW d \in D, Follows(d)
  PROVE  Follows(d)'
<1>1. Cur \in D /\ p' = [p EXCEPT !.pc = "copy"] /\ drv' = [drv EXCEPT ![Cur].has = FALSE]
  BY CurIsDriver DEF ReadPending, Scanning, IInv
<1>2. UNCHANGED <<dev, rdr, c, got, crossed>> /\ drv[Cur].has /\ p.pc = "scan"
  BY DEF ReadPending, Scanning
<1>3. Kept(d)
  BY <1>2 DEF Kept, Unread
<1>4. drv'[d].value = drv[d].value /\ drv'[d].enabled = drv[d].enabled
  BY <1>1 DEF IInv, IDrv, States
<1>5. p'.pc = "copy" /\ p'.i = p.i
  BY <1>1 DEF IInv, IThread, Threads
<1>6. Owed(d)' <=> Owed(d)
  <2>1. CASE d = Cur
    BY <1>2, <1>5, <2>1 DEF Owed, Cur
  <2>2. CASE d # Cur
    <3>1. drv'[d] = drv[d]
      BY <1>1, <2>2 DEF IInv, IDrv, States
    <3> QED
      BY <1>2, <1>5, <2>2, <3>1 DEF Owed, Cur
  <2> QED
    BY <2>1, <2>2
<1>7. Reports(d)' <=> Reports(d)
  BY <1>4 DEF Reports
<1> QED
  BY <1>2, <1>3, <1>4, <1>6, <1>7, SameCall, SameFollows

(* What Deliver does to driver d                                           *)
LEMMA DeliverTells ==
  ASSUME IInv, Cur \in D, NEW to \in {"drain", "read"}, Deliver(Cur, to), NEW d \in D
  PROVE  /\ p'.pc = to
         /\ d # Cur => got'[d] = got[d]
         /\ d = Cur /\ Reports(d) => got'[d] = drv[d].value
<1>1. CASE Reports(Cur)
  <2>1. got' = [got EXCEPT ![Cur] = drv[Cur].value]
    BY <1>1 DEF Deliver
  <2>2. p'.pc = to
    BY <1>1 DEF Deliver, IInv, IThread, Threads
  <2> QED
    BY <2>1, <2>2 DEF IInv, IRest
<1>2. CASE ~Reports(Cur)
  BY <1>2 DEF Deliver, IInv, IThread, Threads
<1> QED
  BY <1>1, <1>2

(* An excused driver: only what waits for it matters.                      *)
LEMMA ExcusedFollows ==
  ASSUME NEW d \in D, Ends(Unread(d), dev[d].value)', d \in crossed'
  PROVE  Follows(d)'
BY Zenon DEF Follows

LEMMA CopyFollows ==
  ASSUME IInv, CopyPending, NEW d \in D, Follows(d)
  PROVE  Follows(d)'
<1>1. Cur \in D /\ p.pc = "copy" /\ Deliver(Cur, "read") /\ Cross(Cur)
  BY CurIsDriver DEF CopyPending, IInv
<1>2. UNCHANGED <<dev, rdr, drv, c>>
  BY DEF CopyPending
<1>3. /\ p'.pc = "read"
      /\ d # Cur => got'[d] = got[d]
      /\ d = Cur /\ Reports(d) => got'[d] = drv[d].value
  BY <1>1, DeliverTells
<1>4. Kept(d)
  BY <1>2 DEF Kept, Unread
<1>5. Reports(d)' <=> Reports(d)
  BY <1>2 DEF Reports
<1>6. CASE d # Cur
  <2>1. Owed(d)' <=> Owed(d)
    BY <1>2, <1>3, <1>6 DEF Owed
  <2>2. d \in crossed => d \in crossed'
    BY <1>1 DEF Cross
  <2> QED
    BY <1>2, <1>3, <1>4, <1>5, <1>6, <2>1, <2>2, SameCall, SameFollows
<1>7. CASE d = Cur /\ StoringFor(d)
  <2>1. d \in crossed'
    BY <1>1, <1>7 DEF Cross, StoringFor
  <2>2. Ends(Unread(d), dev[d].value)'
    BY <1>2, <1>4, Zenon DEF Follows, Kept
  <2> QED
    BY <2>1, <2>2, ExcusedFollows
<1>8. CASE d = Cur /\ ~StoringFor(d)
  <2>1. crossed' = crossed
    BY <1>1, <1>8 DEF Cross, StoringFor
  <2>2. Ends(Unread(d), dev[d].value)'
    BY <1>2, <1>4, Zenon DEF Follows, Kept
  <2>3. PICK u : u = Unread(d) /\ Unread(d)' = u
    BY <1>4 DEF Kept
  <2>4. Owed(d) /\ (Owed(d)' => drv'[d].has)
    BY <1>1, <1>3, <1>8 DEF Owed
  <2>5. ~StoringFor(d)' /\ ~ToStore(d) /\ SawNow(d)'
    BY <1>2, <1>8 DEF StoringFor, ToStore, SawNow
  <2>6. ASSUME d \notin crossed PROVE HoldsNow(d)'
    <3>1. HoldsNow(d)
      BY <2>6 DEF Follows
    <3> QED
      BY <1>2, <2>3, <2>4, <2>5, <3>1, Zenon DEF HoldsNow, Few
  <2>7. ASSUME d \notin crossed PROVE HasNow(d)'
    <3>1. HoldsNow(d)
      BY <2>7 DEF Follows
    <3>2. u = <<>> => drv[d].value = dev[d].value
      <4>1. u = <<>> => Few(d)
        BY <2>3, EmptySeq DEF Few
      <4> QED
        BY <3>1, <4>1, <2>4, <2>5, Zenon DEF HoldsNow
    <3>3. Reports(d)' => got'[d] = drv[d].value
      BY <1>3, <1>5, <1>8
    <3> QED
      BY <1>2, <2>3, <3>2, <3>3 DEF HasNow
  <2> QED
    BY <2>1, <2>2, <2>5, <2>6, <2>7, Zenon DEF Follows
<1> QED
  BY <1>6, <1>7, <1>8

LEMMA FillFollows ==
  ASSUME IInv, FillReader, NEW d \in D, Follows(d)
  PROVE  Follows(d)'
<1>1. Cur \in D /\ dev' = [dev EXCEPT ![Cur].queue = dev'[Cur].queue]
  BY FillStep
<1>2. dev'[d].value = dev[d].value /\ dev'[d].on = dev[d].on
  BY <1>1 DEF IInv, IDev, Devices
<1>3. UNCHANGED <<drv, c, got, crossed>> /\ p.pc = "scan" /\ p' = [p EXCEPT !.pc = "drain"]
  BY DEF FillReader, Fills, Scanning
<1>4. p'.pc = "drain"
  BY <1>3 DEF IInv, IThread, Threads
<1>5. Owed(d)' <=> Owed(d)
  BY <1>3, <1>4 DEF Owed
<1>6. Reports(d)' <=> Reports(d)
  BY <1>3 DEF Reports
<1>7. Kept(d)
  BY FillKeeps
<1> QED
  BY <1>2, <1>3, <1>5, <1>6, <1>7, SameCall, SameFollows

(* The oldest event of a driver's own device                               *)
LEMMA DrainOwn ==
  ASSUME IInv, DrainEvent, NEW d \in Pends, d = Cur, Follows(d)
  PROVE  Follows(d)'
<1>1. d \in D /\ Cur \in D
  BY DEF Pends
<1>p. PICK u \in Seq(Events) : u = Unread(d)
  BY <1>1, UnreadIsSeq
<1>q. PICK t : t = Tail(u)
  OBVIOUS
<1>2. u \in Seq(Events) /\ u = Unread(d) /\ t = Tail(u)
  BY <1>p, <1>q
<1>3. u # <<>> /\ Unread(d)' = t /\ ReadEvent(rdr[d]) = Head(u)
  BY <1>1, <1>2, DrainTakes DEF Taken
<1>4. UNCHANGED <<dev, c>> /\ Cross(d) /\ p.pc = "drain"
  BY DEF DrainEvent, Draining
<1>5. PICK v : v = dev[d].value /\ dev'[d].value = v
  BY <1>4
<1>6. Ends(u, v)
  BY <1>2, <1>5, Zenon DEF Follows
<1>7. /\ Len(t) = Len(u) - 1 /\ Len(u) \in Nat /\ Ends(t, v)
      /\ Len(u) = 1 => Head(u) = SYN
      /\ Len(u) = 2 => Head(u) = ABS(v)
  BY <1>2, <1>3, <1>6, TailEnds
<1>8. Ends(Unread(d), dev[d].value)'
  BY <1>3, <1>5, <1>7, Zenon
<1>9. CASE StoringFor(d)
  <2>1. d \in crossed'
    BY <1>4, <1>9 DEF Cross, StoringFor
  <2> QED
    BY <1>1, <1>8, <2>1, ExcusedFollows
<1>10. CASE ~StoringFor(d)
  <2>1. crossed' = crossed
    BY <1>4, <1>10 DEF Cross, StoringFor
  <2>2. ~StoringFor(d)' /\ ~ToStore(d) /\ SawNow(d)'
    BY <1>4, <1>10 DEF StoringFor, ToStore, SawNow
  <2>3. Len(u) = 2 => drv'[d].value = v
    <3>1. ABS(v).type = "EV_ABS" /\ ABS(v).value = v
      BY DEF ABS
    <3>2. Len(u) = 2 => drv' = [drv EXCEPT ![d].value = v]
      BY <1>3, <1>7, <3>1 DEF DrainEvent
    <3> QED
      BY <1>1, <3>2 DEF IInv, IDrv, States
  <2>4. Len(u) = 1 => drv' = drv /\ Deliver(d, "drain")
    <3>1. SYN.type = "EV_SYN"
      BY DEF SYN
    <3> QED
      BY <1>3, <1>7, <3>1 DEF DrainEvent
  <2>5. ASSUME d \notin crossed, Len(u) = 1 PROVE drv[d].value = v
    <3>1. HoldsNow(d) /\ Few(d) /\ Len(Unread(d)) = 1
      BY <1>2, <2>5 DEF Follows, Few
    <3> QED
      BY <1>5, <2>2, <3>1, Zenon DEF HoldsNow
  <2>6. ASSUME d \notin crossed PROVE HoldsNow(d)'
    <3>1. Len(t) <= 1 => Len(u) = 1 \/ Len(u) = 2
      <4>1. Len(u) # 0
        BY <1>2, <1>3, EmptySeq
      <4> QED
        BY <1>7, <4>1
    <3>2. Len(t) <= 1 => drv'[d].value = v
      BY <2>3, <2>4, <2>5, <2>6, <3>1
    <3> QED
      BY <1>3, <1>5, <3>2, Zenon DEF HoldsNow, Few
  <2>7. ASSUME d \notin crossed PROVE HasNow(d)'
    <3>1. t = <<>> => Len(u) = 1
      BY <1>7
    <3>2. t = <<>> => drv' = drv /\ drv[d].value = v
      BY <2>4, <2>5, <2>7, <3>1
    <3>3. t = <<>> /\ Reports(d)' => got'[d] = drv[d].value
      <4>1. t = <<>> => (Reports(d)' <=> Reports(d))
        BY <3>2 DEF Reports
      <4>2. t = <<>> /\ Reports(d) => got'[d] = drv[d].value
        BY <1>1, <2>4, <3>1, DeliverTells
      <4> QED
        BY <4>1, <4>2
    <3> QED
      BY <1>3, <1>5, <3>2, <3>3 DEF HasNow
  <2> QED
    BY <1>8, <2>1, <2>2, <2>6, <2>7, Zenon DEF Follows
<1> QED
  BY <1>9, <1>10

LEMMA DrainFollows ==
  ASSUME IInv, DrainEvent, NEW d \in Pends, Follows(d)
  PROVE  Follows(d)'
<1>1. d \in D /\ Cur \in D
  BY DrainStep DEF Pends
<1>2. CASE d # Cur
  <2>1. Kept(d)
    BY <1>1, <1>2, DrainTakes
  <2>2. UNCHANGED <<dev, c>> /\ Cross(Cur) /\ p.pc = "drain"
    BY DEF DrainEvent, Draining
  <2>3. d \in crossed => d \in crossed'
    BY <2>2 DEF Cross
  <2>4. PICK e : e = ReadEvent(rdr[Cur])
    OBVIOUS
  <2>5. drv'[d] = drv[d]
    <3>1. drv' = [drv EXCEPT ![Cur].value = e.value] \/ drv' = drv
      BY <2>4 DEF DrainEvent
    <3> QED
      BY <1>1, <1>2, <3>1 DEF IInv, IDrv, States
  <2>6. got'[d] = got[d] /\ p'.pc = "drain"
    <3>1. (p' = p /\ got' = got) \/ Deliver(Cur, "drain")
      BY DEF DrainEvent
    <3>2. Deliver(Cur, "drain") => got'[d] = got[d] /\ p'.pc = "drain"
      BY <1>1, <1>2, DeliverTells
    <3> QED
      BY <2>2, <3>1, <3>2
  <2>7. Owed(d)' <=> Owed(d)
    BY <2>2, <2>5, <2>6 DEF Owed
  <2>8. Reports(d)' <=> Reports(d)
    BY <2>5 DEF Reports
  <2> QED
    BY <1>1, <2>1, <2>2, <2>3, <2>5, <2>6, <2>7, <2>8, SameCall, SameFollows
<1> QED
  BY <1>2, DrainOwn

LEMMA ChangeFollows ==
  ASSUME IInv, NEW e \in D, NEW v \in Values, Change(e, v), NEW d \in D, Follows(d)
  PROVE  Follows(d)'
<1>1. /\ UNCHANGED <<rdr, drv, p, c, got>> /\ crossed' = crossed \ {e}
      /\ dev' = [dev EXCEPT ![e].value = v, ![e].queue = dev[e].queue \o <<ABS(v), SYN>>]
  BY DEF Change, IInv, IDev, Devices
<1>2. CASE d = e
  <2>a. PICK u \in Seq(Events) : u = Unread(d)
    BY UnreadIsSeq
  <2>b. PICK w : w = u \o <<ABS(v), SYN>>
    OBVIOUS
  <2>1. u = Unread(d) /\ w = u \o <<ABS(v), SYN>>
    BY <2>a, <2>b
  <2>2. dev'[d].value = v
    BY <1>1, <1>2 DEF IInv, IDev, Devices
  <2>3. Sent(d)
    BY <1>2, ChangeSends
  <2>4. Unread(d)' = w
    BY <2>1, <2>2, <2>3 DEF Sent
  <2>5. Ends(w, v) /\ Len(w) > 1 /\ w # <<>>
    BY <2>1, SendEnds
  <2>6. Ends(Unread(d), dev[d].value)'
    BY <2>2, <2>4, <2>5, Zenon
  <2>7. ~Few(d)' /\ ~(Unread(d)' = <<>>)
    <3>1. w \in Seq(Events)
      <4>1. ABS(v) \in Events /\ SYN \in Events
        BY DEF Events
      <4>2. <<ABS(v), SYN>> \in Seq(Events)
        BY <4>1
      <4> QED
        BY <2>1, <4>2, ConcatProperties
    <3>2. Len(w) \in Nat
      BY <3>1, LenProperties
    <3> QED
      BY <2>4, <2>5, <3>2 DEF Few
  <2>8. SawNow(d)' /\ HoldsNow(d)' /\ HasNow(d)'
    BY <2>7, Zenon DEF SawNow, HoldsNow, HasNow
  <2> QED
    BY <2>6, <2>8, Zenon DEF Follows
<1>3. CASE d # e
  <2>1. Kept(d)
    BY <1>3, ChangeSends
  <2>2. dev'[d] = dev[d]
    BY <1>1, <1>3 DEF IInv, IDev, Devices
  <2>3. Owed(d)' <=> Owed(d)
    BY <1>1 DEF Owed, Cur
  <2>4. Reports(d)' <=> Reports(d)
    BY <1>1 DEF Reports
  <2>5. d \in crossed => d \in crossed'
    BY <1>1, <1>3
  <2> QED
    BY <1>1, <2>1, <2>2, <2>3, <2>4, <2>5, SameCall, SameFollows
<1> QED
  BY <1>2, <1>3

(* A call before and after setInitialState, or for another driver          *)
LEMMA OtherCall ==
  ASSUME NEW d \in D,
         \/ c.pc \notin {"look", "store"} /\ c'.pc # "store"
         \/ c.d # d /\ (c'.d # d \/ c'.pc \notin {"look", "store"})
  PROVE  /\ StoringFor(d)' <=> StoringFor(d)
         /\ ToStore(d)' <=> ToStore(d)
         /\ StoringFor(d) => c'.value = c.value
         /\ Telling(d) => Telling(d)'
BY DEF StoringFor, ToStore, Telling

LEMMA SameDriver ==
  ASSUME NEW d \in D, p' = p, drv'[d].has = drv[d].has
  PROVE  Owed(d)' <=> Owed(d)
BY DEF Owed, Cur

LEMMA SetEnableFollows ==
  ASSUME IInv, SetEnable, NEW d \in Pends, Follows(d)
  PROVE  Follows(d)'
<1>1. d \in D /\ d # "lis"
  BY DEF Pends
<1>2. c \in Calling /\ c.pc = "ioctl" /\ c.d \in D /\ c.en \in BOOLEAN
  BY CallOfDriver DEF SetEnable, IInv, Calling
<1>3. UNCHANGED <<rdr, drv, p, got, crossed>> /\ dev' = [dev EXCEPT ![c.d].on = c.en]
  BY DEF SetEnable
<1>4. c'.pc = "enabled"
  BY <1>2 DEF SetEnable, Calling
<1>5. dev'[d].queue = dev[d].queue /\ dev'[d].value = dev[d].value
  BY <1>1, <1>2, <1>3 DEF IInv, IDev, Devices
<1>6. Kept(d)
  BY <1>1, <1>3, <1>5, UntouchedDriver
<1>7. Reports(d)' <=> Reports(d)
  BY <1>3 DEF Reports
<1>8. dev'[d].on /\ Reports(d) => dev[d].on
  <2>1. CASE d # c.d
    BY <1>1, <1>2, <1>3, <2>1 DEF IInv, IDev, Devices
  <2>2. CASE d = c.d
    <3>1. dev'[d].on <=> c.en
      BY <1>1, <1>2, <1>3, <2>2 DEF IInv, IDev, Devices
    <3>2. d = "proximity" /\ c.en # drv[d].enabled
      BY <1>1, <2>2 DEF SetEnable, Asks
    <3>3. drv[d].enabled \in BOOLEAN
      BY <1>1 DEF IInv, IDrv, States
    <3> QED
      BY <1>2, <3>1, <3>2, <3>3 DEF Reports
  <2> QED
    BY <2>1, <2>2
<1>9. Owed(d)' <=> Owed(d)
  BY <1>1, <1>3, SameDriver
<1> QED
  BY <1>1, <1>2, <1>3, <1>4, <1>5, <1>6, <1>7, <1>8, <1>9, OtherCall, SameFollows

LEMMA SetEnabledFollows ==
  ASSUME IInv, SetEnabled, NEW d \in Pends, Follows(d)
  PROVE  Follows(d)'
<1>1. d \in D
  BY DEF Pends
<1>2. c \in Calling /\ c.pc = "enabled" /\ c.d \in D /\ c.en \in BOOLEAN
  BY CallOfDriver DEF SetEnabled, IInv, Calling
<1>3. UNCHANGED <<dev, rdr, p, got, crossed>> /\ drv' = [drv EXCEPT ![c.d].enabled = c.en]
  BY DEF SetEnabled
<1>4. /\ c'.pc # "store"
      /\ c.en /\ c.d = d => c'.pc = "look" /\ c'.d = d
  BY <1>2 DEF SetEnabled, Calling, Idle
<1>5. drv'[d].value = drv[d].value /\ drv'[d].has = drv[d].has
  BY <1>1, <1>2, <1>3 DEF IInv, IDrv, States
<1>6. Kept(d)
  BY <1>3 DEF Kept, Unread
<1>7. Reports(d)' => Reports(d) \/ Telling(d)'
  <2>1. CASE d # c.d
    <3>1. drv'[d] = drv[d]
      BY <1>1, <1>2, <1>3, <2>1 DEF IInv, IDrv, States
    <3> QED
      BY <3>1 DEF Reports
  <2>2. CASE d = c.d /\ c.en
    BY <1>4, <2>2 DEF Telling
  <2>3. CASE d = c.d /\ ~c.en
    <3>1. drv'[d].enabled = c.en
      BY <1>1, <1>2, <1>3, <2>3 DEF IInv, IDrv, States
    <3> QED
      BY <2>3, <3>1 DEF Reports
  <2> QED
    BY <1>2, <2>1, <2>2, <2>3
<1>8. Owed(d)' <=> Owed(d)
  BY <1>1, <1>3, <1>5, SameDriver
<1> QED
  BY <1>1, <1>2, <1>3, <1>4, <1>5, <1>6, <1>7, <1>8, OtherCall, SameFollows

(* The steps of a call that touch neither devices nor drivers              *)
LEMMA CallFollows ==
  ASSUME IInv, NEW d \in D, Follows(d), UNCHANGED <<dev, rdr, drv, p, got>>,
         \/ c.pc \notin {"look", "store"} /\ c'.pc # "store"
         \/ c.d # d /\ (c'.d # d \/ c'.pc \notin {"look", "store"}),
         d \in crossed => d \in crossed'
  PROVE  Follows(d)'
<1>1. Kept(d)
  BY DEF Kept, Unread
<1>2. Reports(d)' <=> Reports(d)
  BY DEF Reports
<1>3. Owed(d)' <=> Owed(d)
  BY SameDriver
<1> QED
  BY <1>1, <1>2, <1>3, OtherCall, SameFollows

LEMMA LookFollows ==
  ASSUME IInv, LookAtDevice, NEW d \in D, Follows(d)
  PROVE  Follows(d)'
<1>1. /\ UNCHANGED <<dev, rdr, drv, p, got>> /\ crossed' = crossed \ {c.d}
      /\ c.pc = "look" /\ c'.pc = "store" /\ c'.d = c.d /\ c'.value = dev[c.d].value
      /\ c'.todo = {"has", "value"}
  BY DEF LookAtDevice
<1>2. CASE d # c.d
  BY <1>1, <1>2, CallFollows
<1>3. CASE d = c.d
  <2>1. Kept(d)
    BY <1>1 DEF Kept, Unread
  <2>2. Ends(Unread(d), dev[d].value)'
    BY <1>1, <2>1, Zenon DEF Follows, Kept
  <2>3. StoringFor(d)' /\ ToStore(d)' /\ Telling(d)'
    BY <1>1, <1>3 DEF StoringFor, ToStore, Telling
  <2>4. SawNow(d)'
    BY <1>1, <1>3 DEF SawNow
  <2>5. HoldsNow(d)' /\ HasNow(d)'
    BY <2>3, Zenon DEF HoldsNow, HasNow
  <2> QED
    BY <2>2, <2>4, <2>5, Zenon DEF Follows
<1> QED
  BY <1>2, <1>3

LEMMA LookFailsFollows ==
  ASSUME IInv, LookFails, NEW d \in D, Follows(d)
  PROVE  Follows(d)'
<1>1. /\ UNCHANGED <<dev, rdr, drv, p, got>> /\ crossed' = crossed \cup {c.d}
      /\ c.pc = "look" /\ c'.pc = "wake"
  BY DEF LookFails
<1>2. CASE d # c.d
  BY <1>1, <1>2, CallFollows
<1>3. CASE d = c.d
  <2>1. Kept(d)
    BY <1>1 DEF Kept, Unread
  <2>2. Ends(Unread(d), dev[d].value)'
    BY <1>1, <2>1, Zenon DEF Follows, Kept
  <2> QED
    BY <1>1, <1>3, <2>2, ExcusedFollows
<1> QED
  BY <1>2, <1>3

(* One of the two stores of setInitialState                                *)
LEMMA StoreFollows ==
  ASSUME IInv, StoreInitial, NEW d \in D, Follows(d)
  PROVE  Follows(d)'
<1>1. c \in Storing /\ c.pc = "store" /\ c.d \in D
  BY CallOfDriver DEF StoreInitial, IInv, Storing
<1>2. UNCHANGED <<dev, rdr, p, got, crossed>>
  BY DEF StoreInitial
<1>3. PICK f \in c.todo :
        /\ drv' = [drv EXCEPT ![c.d] = IF f = "has" THEN [@ EXCEPT !.has = TRUE] ELSE [@ EXCEPT !.value = c.value]]
        /\ c' = IF c.todo = {f} THEN [pc |-> "wake", d |-> c.d, en |-> TRUE] ELSE [c EXCEPT !.todo = @ \ {f}]
  BY DEF StoreInitial
<1>4. /\ c.todo = {f} => c'.pc = "wake"
      /\ c.todo # {f} => c'.pc = "store" /\ c'.todo = c.todo \ {f} /\ c'.value = c.value
      /\ c'.d = c.d
  BY <1>1, <1>3 DEF Storing
<1>5. Kept(d)
  BY <1>2 DEF Kept, Unread
<1>6. drv'[d].enabled = drv[d].enabled
  BY <1>1, <1>3 DEF IInv, IDrv, States
<1>7. Reports(d)' <=> Reports(d)
  BY <1>6 DEF Reports
<1>8. CASE d # c.d
  <2>1. drv'[d] = drv[d]
    BY <1>1, <1>3, <1>8 DEF IInv, IDrv, States
  <2>2. Owed(d)' <=> Owed(d)
    BY <1>2, <2>1, SameDriver
  <2> QED
    BY <1>2, <1>4, <1>5, <1>7, <1>8, <2>1, <2>2, OtherCall, SameFollows
<1>9. CASE d = c.d
  <2> USE <1>9
  <2>1. PICK u : u = Unread(d) /\ Unread(d)' = u
    BY <1>5 DEF Kept
  <2>2. Ends(Unread(d), dev[d].value)'
    BY <1>2, <2>1, Zenon DEF Follows
  <2>3. f \in {"has", "value"} /\ StoringFor(d)
    BY <1>1, <1>3 DEF Storing, StoringFor
  <2>4. CASE f = "has"
    <3>1. drv'[d].has /\ drv'[d].value = drv[d].value
      BY <1>1, <1>3, <2>4 DEF IInv, IDrv, States
    <3>2. Owed(d)'
      BY <3>1, Zenon DEF Owed
    <3>3. ToStore(d) => ToStore(d)'
      BY <1>1, <1>4, <2>4 DEF ToStore, StoringFor
    <3>4. SawNow(d) => SawNow(d)'
      BY <1>2, <1>4, <2>1, <2>3 DEF SawNow, StoringFor, Few
    <3>5. HoldsNow(d) => HoldsNow(d)'
      BY <1>2, <2>1, <2>3, <3>1, <3>3, Zenon DEF HoldsNow, Few
    <3>6. HasNow(d)'
      BY <3>2, Zenon DEF HasNow
    <3> QED
      BY <1>2, <2>2, <3>4, <3>5, <3>6, Zenon DEF Follows
  <2>5. CASE f = "value"
    <3>1. drv'[d].has = drv[d].has /\ drv'[d].value = c.value
      BY <1>1, <1>3, <2>5 DEF IInv, IDrv, States
    <3>2. Owed(d)' <=> Owed(d)
      BY <1>2, <3>1, SameDriver
    <3>3. SawNow(d) => SawNow(d)'
      BY <1>2, <1>4, <2>1, <2>3 DEF SawNow, StoringFor, Few
    <3>4. SawNow(d) => HoldsNow(d)'
      <4>1. SawNow(d) /\ Few(d)' => drv'[d].value = dev'[d].value
        BY <1>2, <2>1, <2>3, <3>1 DEF SawNow, Few
      <4> QED
        BY <4>1, Zenon DEF HoldsNow
    <3>5. Telling(d) => Telling(d)'
      BY <1>1, <1>3, <1>4, <2>5 DEF Telling, StoringFor
    <3>6. HasNow(d) => HasNow(d)'
      BY <1>2, <1>7, <2>1, <3>2, <3>5, Zenon DEF HasNow
    <3> QED
      BY <1>2, <2>2, <3>3, <3>4, <3>6, Zenon DEF Follows
  <2> QED
    BY <2>3, <2>4, <2>5
<1> QED
  BY <1>8, <1>9

LEMMA InitFollows == Init => IFollows
<1> SUFFICES ASSUME Init, NEW d \in Pends PROVE Follows(d)
  BY DEF IFollows
<1>1. d \in D /\ d # "lis" /\ d \in {"light", "proximity", "lis"}
  BY NuSensorsAssumption DEF Pends, D
<1> DEFINE asked(on, answers) == {e \in Pends : e = "light" \/ (answers /\ e \in on)}
           initial(seen, on, v, answers) ==
             /\ dev = [e \in D |-> [value |-> v, on |-> e = "light" \/ e \in on, queue |-> <<>>]]
             /\ drv = [e \in D |->
                  [enabled |-> IF e = "proximity" THEN answers ELSE e \in on,
                   has     |-> e \in seen,
                   value   |-> IF e \in seen \/ e \in on \ Pends THEN v ELSE NoEvent]]
             /\ crossed = asked(on, answers) \ seen
<1>2. PICK on \in SUBSET (D \ {"light"}), v \in Values, answers \in BOOLEAN :
        \E seen \in SUBSET asked(on, answers) : initial(seen, on, v, answers)
  BY Zenon DEF Init
<1>3. PICK seen \in SUBSET asked(on, answers) : initial(seen, on, v, answers)
  BY <1>2
<1>4. dev[d].value = v /\ dev[d].queue = <<>> /\ (dev[d].on <=> d = "light" \/ d \in on)
  BY <1>1, <1>3
<1>5. /\ d = "proximity" => drv[d].enabled = answers
      /\ drv[d].has <=> d \in seen
      /\ d \in seen => drv[d].value = v
  BY <1>1, <1>3
<1>6. Contents(rdr[d]) = <<>>
  BY <1>1, NewIsEmpty DEF Init
<1>7. Unread(d) = <<>>
  BY <1>4, <1>6 DEF Unread
<1>8. c.pc = "idle" /\ p.pc = "out"
  BY DEF Init, Idle, Out
<1>9. Ends(Unread(d), dev[d].value) /\ Len(Unread(d)) = 0
  BY <1>7 DEF Ends
<1>10. Owed(d) => d \in seen
  BY <1>5, <1>8 DEF Owed
<1>11. ~StoringFor(d)
  BY <1>8 DEF StoringFor
<1>12. SawNow(d) /\ HoldsNow(d)
  BY <1>4, <1>5, <1>9, <1>10, <1>11 DEF SawNow, HoldsNow
<1>13. d \notin crossed => HasNow(d)
  <2>1. dev[d].on /\ Reports(d) => d \in asked(on, answers)
    BY <1>1, <1>4, <1>5 DEF Reports
  <2>2. d \in asked(on, answers) /\ d \notin crossed => drv[d].has
    BY <1>3, <1>5
  <2> HIDE DEF asked
  <2> QED
    BY <2>1, <2>2, Zenon DEF HasNow, Owed
<1> QED
  BY <1>9, <1>12, <1>13, Zenon DEF Follows

LEMMA StepFollows == IInv /\ IFollows /\ [Next]_vars => IFollows'
<1> SUFFICES ASSUME IInv, [Next]_vars, NEW d \in Pends, Follows(d)
             PROVE  Follows(d)'
  BY DEF IFollows, Pends
<1>1. d \in D
  BY DEF Pends
<1>2. CASE UNCHANGED vars
  BY <1>1, <1>2, MoveFollows DEF vars
<1>3. CASE Polling
  <2>1. CASE pollEvents \/ SkipSensor \/ DrainEnds \/ NextSensor \/ Poll \/ RoomUsedUp
    <3>1. p \in Threads
      BY DEF IInv, IThread
    <3>2. p.pc # "copy" /\ UNCHANGED <<dev, rdr, drv, c, got, crossed>>
      BY <2>1 DEF pollEvents, SkipSensor, Scanning, DrainEnds, NextSensor, Poll, Scanned, RoomUsedUp
    <3>3. ASSUME pollEvents \/ DrainEnds \/ RoomUsedUp PROVE p'.pc # "copy"
      BY <3>1, <3>3 DEF pollEvents, DrainEnds, RoomUsedUp, Out, Threads
    <3>4. ASSUME SkipSensor PROVE p'.pc # "copy"
      BY <3>1, <3>4 DEF SkipSensor, Scanning, Threads
    <3>5. ASSUME NextSensor PROVE p'.pc # "copy"
      BY <3>1, <3>5 DEF NextSensor, Threads
    <3>6. ASSUME Poll PROVE p'.pc # "copy"
      <4>1. p' = [p EXCEPT !.i = 1] \/ p' = Out
        BY <3>6 DEF Poll
      <4> QED
        BY <3>1, <3>2, <4>1 DEF Out, Threads
    <3> QED
      BY <1>1, <2>1, <3>2, <3>3, <3>4, <3>5, <3>6, MoveFollows
  <2> QED
    BY <1>1, <1>3, <2>1, ReadPendingFollows, CopyFollows, FillFollows, DrainFollows DEF Polling
<1>4. CASE Activating
  <2>1. CASE \/ \E e \in D, en \in BOOLEAN : activate(e, en)
             \/ IoctlFails \/ NothingToAsk \/ Wake
    <3>1. NothingToAsk => c \in Calling
      BY CallOfDriver DEF NothingToAsk, IInv
    <3>2. /\ UNCHANGED <<dev, rdr, drv, p, got, crossed>>
          /\ c.pc \notin {"look", "store"} /\ c'.pc # "store"
      BY <2>1, <3>1 DEF activate, IoctlFails, NothingToAsk, Wake, Idle, Calling
    <3> QED
      BY <1>1, <3>2, CallFollows
  <2> QED
    BY <1>1, <1>4, <2>1, SetEnableFollows, SetEnabledFollows, LookFollows, LookFailsFollows,
       StoreFollows DEF Activating
<1>5. CASE \E e \in D, v \in Values : Change(e, v)
  BY <1>1, <1>5, ChangeFollows
<1> QED
  BY <1>2, <1>3, <1>4, <1>5 DEF Next

LEMMA FollowsIsCurrent == IFollows => ValueIsCurrent
<1> SUFFICES ASSUME NEW d \in Pends, Follows(d), Reports(d), dev[d].on, Settled(d), d \notin crossed
             PROVE  got[d] = dev[d].value
  BY DEF IFollows, ValueIsCurrent
<1>1. Unread(d) = <<>> /\ ~Telling(d) /\ ~Owed(d)
  BY DEF Settled, Telling, StoringFor, Owed
<1>2. HasNow(d)
  BY DEF Follows
<1> QED
  BY <1>1, <1>2, Zenon DEF HasNow

(* The framework is told right: for every set of drivers, values and       *)
(* buffer length, and however polling, activating and changes interleave,  *)
(* a sensor that reports and has nothing unread last told its present      *)
(* value, unless its setInitialState failed or the polling thread got      *)
(* between its look at the device and its stores.                          *)
THEOREM ValueCorrect == Spec => []ValueIsCurrent
<1>1. Init => IFollows
  BY InitFollows
<1>2. IInv /\ IFollows /\ [Next]_vars => IFollows'
  BY StepFollows
<1>3. IFollows => ValueIsCurrent
  BY FollowsIsCurrent
<1> QED
  BY <1>1, <1>2, <1>3, Invariance, PTL DEF Spec
=============================================================================
