-------------------------- MODULE InputEventReader --------------------------
(***************************************************************************)
(* libsensors/InputEventReader.cpp: the circular reader that each sensor   *)
(* driver puts between its input device and its readEvents.  The buffer is *)
(* twice as long as the events it may hold, so that one read(2) can run    *)
(* over the end; what ran over is copied to the front.                     *)
(*                                                                         *)
(* A reader is a record: mBuffer, and mHead, mCurr as indexes into it.     *)
(***************************************************************************)
EXTENDS Integers, Sequences

CONSTANTS
  NumEvents,   \* what the reader is constructed for: mBufferEnd - mBuffer
  NoEvent      \* what a slot holds that was never read into

ASSUME ReaderAssumption == NumEvents \in Nat \ {0}

Slots == 0 .. 2 * NumEvents - 1

NewReader == [buf |-> [i \in Slots |-> NoEvent], head |-> 0, curr |-> 0, free |-> NumEvents]

Available(r) == NumEvents - r.free

(* What read(2) leaves in the buffer when it returns the events evs.       *)
ReadInto(r, evs) ==
  [i \in Slots |-> IF i \in r.head .. r.head + Len(evs) - 1 THEN evs[i - r.head + 1] ELSE r.buf[i]]

(* The memcpy of the events that ran over mBufferEnd to the front.         *)
CopyOver(buf, over) == [i \in Slots |-> IF i < over THEN buf[NumEvents + i] ELSE buf[i]]

(* Seeded fault: what ran over the end is not copied to the front.         *)
Fill_uncopied(r, evs) ==
  LET h == r.head + Len(evs) IN
  [r EXCEPT !.buf = ReadInto(r, evs), !.free = @ - Len(evs),
            !.head = IF h > NumEvents THEN h - NumEvents ELSE h]

Fill(r, evs) ==
  LET end  == r.head + Len(evs)
      over == end - NumEvents
      read == ReadInto(r, evs)
  IN [buf  |-> IF over > 0 THEN CopyOver(read, over) ELSE read,
      head |-> IF over > 0 THEN over ELSE end,
      curr |-> r.curr,
      free |-> r.free - Len(evs)]

ReadEvent(r) == r.buf[r.curr]

(* Seeded fault: mCurr wraps one event too late.                           *)
NextEvent_late(r) ==
  [r EXCEPT !.curr = IF r.curr + 1 > NumEvents THEN 0 ELSE r.curr + 1, !.free = @ + 1]

NextEvent(r) ==
  [r EXCEPT !.curr = IF r.curr + 1 >= NumEvents THEN 0 ELSE r.curr + 1, !.free = @ + 1]

-----------------------------------------------------------------------------
(* What the reader promises: it is a queue of at most NumEvents events.    *)

Slot(curr, i) == IF curr + i < NumEvents THEN curr + i ELSE curr + i - NumEvents

Contents(r) == [i \in 1 .. Available(r) |-> r.buf[Slot(r.curr, i - 1)]]

(* mHead is where the queue ends; it may rest on mBufferEnd.               *)
ReaderOK(r) ==
  /\ r.free \in 0 .. NumEvents /\ r.curr \in 0 .. NumEvents - 1 /\ r.head \in 0 .. NumEvents
  /\ r.curr + Available(r) - r.head \in {0, NumEvents, -NumEvents}
=============================================================================
