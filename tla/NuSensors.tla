----------------------------- MODULE NuSensors -----------------------------
(***************************************************************************)
(* libsensors: sensors_poll_context_t (nusensors.cpp) over its sensor      *)
(* drivers.  One thread of the framework calls pollEvents over and over;   *)
(* another one activates and deactivates sensors.  They share the drivers' *)
(* fields without a lock, and the wake pipe.  The input devices send       *)
(* events at any moment.                                                   *)
(*                                                                         *)
(* The drivers are told apart by what they do: "proximity" has an event    *)
(* pending after it was enabled and reports nothing while disabled,        *)
(* "light" has the pending event and is always on, "lis" has neither.      *)
(***************************************************************************)
EXTENDS InputEventReader, FiniteSets, SequencesExt

CONSTANTS
  Drivers,      \* mSensors, in order: a sequence of driver names
  Values,       \* what a sensor measures
  Count,        \* the room in the array the framework polls into
  MaxChanges,   \* bound: changes of a measured value
  MaxCalls      \* bound: calls of activate

D == {Drivers[i] : i \in DOMAIN Drivers}
Pends == D \ {"lis"}    \* the drivers with mHasPendingEvent

ASSUME NuSensorsAssumption ==
  /\ Drivers \in Seq({"light", "proximity", "lis"}) /\ IsInjective(Drivers)
  /\ NoEvent \notin Values /\ Values # {}
  /\ Count \in Nat \ {0} /\ MaxChanges \in Nat /\ MaxCalls \in Nat

VARIABLES
  dev,      \* the input devices: measured value, switched on, events not read yet
  rdr,      \* each driver's mInputReader
  drv,      \* each driver's mEnabled, mHasPendingEvent and value of mPendingEvent
  revents,  \* the drivers whose mPollFds[i].revents has POLLIN
  pipe,     \* messages in the wake pipe
  p,        \* the polling thread
  c,        \* the activating thread
  got,      \* for each driver, the value last written to the framework's array
  crossed,  \* history: drivers whose last setInitialState failed, or that were
            \* read while it ran, and that have not changed since
  changes, calls

vars == <<dev, rdr, drv, revents, pipe, p, c, got, crossed, changes, calls>>

SYN == [type |-> "EV_SYN"]
ABS(v) == [type |-> "EV_ABS", value |-> v]
Events == {ABS(v) : v \in Values} \cup {SYN}

Cur == Drivers[p.i]    \* the driver that pollEvents is at

(* The polling thread uses the pending event of driver d; crossed if the   *)
(* activating thread has looked at the device and not stored it yet.       *)
Cross(d) == crossed' = IF c.pc = "store" /\ c.d = d THEN crossed \cup {d} ELSE crossed

-----------------------------------------------------------------------------
(* pollEvents.  room is what is left of the framework's array (count), n   *)
(* what poll returned.                                                     *)

Out == [pc |-> "out", i |-> 1, room |-> Count]

pollEvents ==
  /\ p.pc = "out" /\ p' = [p EXCEPT !.pc = "scan"]
  /\ UNCHANGED <<dev, rdr, drv, revents, pipe, c, got, crossed, changes, calls>>

Scanning == p.pc = "scan" /\ p.room > 0 /\ p.i <= Len(Drivers)
Ready(d) == d \in revents \/ drv[d].has

SkipSensor ==
  /\ Scanning /\ ~Ready(Cur)
  /\ p' = [p EXCEPT !.i = @ + 1]
  /\ UNCHANGED <<dev, rdr, drv, revents, pipe, c, got, crossed, changes, calls>>

(* readEvents of a driver with a pending event: the flag is cleared, then  *)
(* the event is copied; a disabled proximity sensor's is thrown away.      *)
ReadPending ==
  /\ Scanning /\ Ready(Cur) /\ drv[Cur].has
  /\ drv' = [drv EXCEPT ![Cur].has = FALSE]
  /\ p' = [p EXCEPT !.pc = "copy"]
  /\ UNCHANGED <<dev, rdr, revents, pipe, c, got, crossed, changes, calls>>

Reports(d) == d = "proximity" => drv[d].enabled

Deliver(d, to) ==
  IF Reports(d)
  THEN p' = [p EXCEPT !.pc = to, !.room = @ - 1] /\ got' = [got EXCEPT ![d] = drv[d].value]
  ELSE p' = [p EXCEPT !.pc = to] /\ UNCHANGED got

CopyPending ==
  /\ p.pc = "copy"
  /\ Deliver(Cur, "read")
  /\ Cross(Cur)
  /\ UNCHANGED <<dev, rdr, drv, revents, pipe, c, changes, calls>>

(* readEvents of any other driver starts with mInputReader.fill: the read  *)
(* waits for an event if the device has none.                              *)
Fills == Scanning /\ Ready(Cur) /\ ~drv[Cur].has

FillReader ==
  /\ Fills
  /\ LET k == IF rdr[Cur].free < Len(dev[Cur].queue) THEN rdr[Cur].free ELSE Len(dev[Cur].queue) IN
       /\ k > 0 \/ rdr[Cur].free = 0
       /\ rdr' = [rdr EXCEPT ![Cur] = Fill(@, SubSeq(dev[Cur].queue, 1, k))]
       /\ dev' = [dev EXCEPT ![Cur].queue = SubSeq(@, k + 1, Len(@))]
  /\ p' = [p EXCEPT !.pc = "drain"]
  /\ UNCHANGED <<drv, revents, pipe, c, got, crossed, changes, calls>>

Draining == p.pc = "drain" /\ p.room > 0 /\ Available(rdr[Cur]) > 0

DrainEvent ==
  /\ Draining
  /\ LET event == ReadEvent(rdr[Cur]) IN
       \/ /\ event.type = "EV_ABS"
          /\ drv' = [drv EXCEPT ![Cur].value = event.value]
          /\ UNCHANGED <<p, got>>
       \/ /\ event.type = "EV_SYN"
          /\ Deliver(Cur, "drain")
          /\ UNCHANGED drv
  /\ rdr' = [rdr EXCEPT ![Cur] = NextEvent(@)]
  /\ Cross(Cur)
  /\ UNCHANGED <<dev, revents, pipe, c, changes, calls>>

DrainEnds ==
  /\ p.pc = "drain" /\ ~Draining
  /\ p' = [p EXCEPT !.pc = "read"]
  /\ UNCHANGED <<dev, rdr, drv, revents, pipe, c, got, crossed, changes, calls>>

(* Back in pollEvents: POLLIN is forgotten unless the room was used up.    *)
NextSensor ==
  /\ p.pc = "read"
  /\ revents' = IF p.room > 0 THEN revents \ {Cur} ELSE revents
  /\ p' = [p EXCEPT !.pc = "scan", !.i = @ + 1]
  /\ UNCHANGED <<dev, rdr, drv, pipe, c, got, crossed, changes, calls>>

Scanned == p.pc = "scan" /\ p.room > 0 /\ p.i > Len(Drivers)
HasInput == {d \in D : dev[d].queue # <<>>}

(* poll(2) waits only if there is nothing to return; one wake message is   *)
(* read; another round starts if any descriptor was ready.                 *)
Poll ==
  LET n == Cardinality(HasInput) + (IF pipe > 0 THEN 1 ELSE 0) IN
  /\ Scanned /\ (n > 0 \/ p.room < Count)
  /\ revents' = HasInput
  /\ pipe' = IF pipe > 0 THEN pipe - 1 ELSE 0
  /\ p' = IF n > 0 THEN [p EXCEPT !.i = 1] ELSE Out
  /\ UNCHANGED <<dev, rdr, drv, c, got, crossed, changes, calls>>

RoomUsedUp ==
  /\ p.pc = "scan" /\ p.room = 0 /\ p' = Out
  /\ UNCHANGED <<dev, rdr, drv, revents, pipe, c, got, crossed, changes, calls>>

Polling ==
  \/ pollEvents \/ SkipSensor \/ ReadPending \/ CopyPending \/ FillReader
  \/ DrainEvent \/ DrainEnds \/ NextSensor \/ Poll \/ RoomUsedUp

-----------------------------------------------------------------------------
(* activate and the drivers' enable                                        *)

Idle == [pc |-> "idle"]

activate(d, en) ==
  /\ c.pc = "idle" /\ calls < MaxCalls /\ calls' = calls + 1
  /\ c' = [pc |-> "ioctl", d |-> d, en |-> en]
  /\ UNCHANGED <<dev, rdr, drv, revents, pipe, p, got, crossed, changes>>

(* Does this driver's enable ask the device?  The light sensor has none;   *)
(* the proximity sensor asks only for a new state.                         *)
Asks == c.d = "lis" \/ (c.d = "proximity" /\ c.en # drv[c.d].enabled)

IoctlFails ==
  /\ c.pc = "ioctl" /\ Asks /\ c' = Idle
  /\ UNCHANGED <<dev, rdr, drv, revents, pipe, p, got, crossed, changes, calls>>

SetEnable ==
  /\ c.pc = "ioctl" /\ Asks
  /\ dev' = [dev EXCEPT ![c.d].on = c.en]
  /\ c' = [c EXCEPT !.pc = "enabled"]
  /\ UNCHANGED <<rdr, drv, revents, pipe, p, got, crossed, changes, calls>>

NothingToAsk ==
  /\ c.pc = "ioctl" /\ ~Asks
  /\ c' = IF c.en THEN [c EXCEPT !.pc = IF c.d = "light" THEN "look" ELSE "wake"] ELSE Idle
  /\ UNCHANGED <<dev, rdr, drv, revents, pipe, p, got, crossed, changes, calls>>

SetEnabled ==
  /\ c.pc = "enabled"
  /\ drv' = [drv EXCEPT ![c.d].enabled = c.en]
  /\ c' = IF c.en THEN [c EXCEPT !.pc = IF c.d \in Pends THEN "look" ELSE "wake"] ELSE Idle
  /\ UNCHANGED <<dev, rdr, revents, pipe, p, got, crossed, changes, calls>>

(* setInitialState: the device is asked for its value; the flag and the    *)
(* value are then stored in an order that nothing fixes.                   *)
LookAtDevice ==
  /\ c.pc = "look"
  /\ c' = [pc |-> "store", d |-> c.d, value |-> dev[c.d].value, todo |-> {"has", "value"}]
  /\ crossed' = crossed \ {c.d}
  /\ UNCHANGED <<dev, rdr, drv, revents, pipe, p, got, changes, calls>>

(* The device does not answer: nothing is stored, and nobody is told.      *)
LookFails ==
  /\ c.pc = "look"
  /\ c' = [pc |-> "wake", d |-> c.d, en |-> TRUE]
  /\ crossed' = crossed \cup {c.d}
  /\ UNCHANGED <<dev, rdr, drv, revents, pipe, p, got, changes, calls>>

(* Seeded fault: the flag is set, the value is not stored.              *)
StoreInitial_flag ==
  /\ c.pc = "store"
  /\ drv' = [drv EXCEPT ![c.d].has = TRUE]
  /\ c' = [pc |-> "wake", d |-> c.d, en |-> TRUE]
  /\ UNCHANGED <<dev, rdr, revents, pipe, p, got, crossed, changes, calls>>

StoreInitial ==
  /\ c.pc = "store"
  /\ \E f \in c.todo :
       /\ drv' = [drv EXCEPT ![c.d] = IF f = "has" THEN [@ EXCEPT !.has = TRUE] ELSE [@ EXCEPT !.value = c.value]]
       /\ c' = IF c.todo = {f} THEN [pc |-> "wake", d |-> c.d, en |-> TRUE] ELSE [c EXCEPT !.todo = @ \ {f}]
  /\ UNCHANGED <<dev, rdr, revents, pipe, p, got, crossed, changes, calls>>

(* Seeded fault: the polling thread is not woken.                          *)
Wake_silent ==
  /\ c.pc = "wake" /\ c' = Idle
  /\ UNCHANGED <<dev, rdr, drv, revents, pipe, p, got, crossed, changes, calls>>

Wake ==
  /\ c.pc = "wake" /\ c' = Idle /\ pipe' = pipe + 1
  /\ UNCHANGED <<dev, rdr, drv, revents, p, got, crossed, changes, calls>>

Activating ==
  \/ \E d \in D, en \in BOOLEAN : activate(d, en)
  \/ IoctlFails \/ SetEnable \/ NothingToAsk \/ SetEnabled \/ LookAtDevice \/ LookFails
  \/ StoreInitial \/ Wake

-----------------------------------------------------------------------------
(* The devices                                                             *)

Change(d, v) ==
  /\ changes < MaxChanges /\ changes' = changes + 1
  /\ dev[d].on /\ v # dev[d].value
  /\ dev' = [dev EXCEPT ![d].value = v, ![d].queue = @ \o <<ABS(v), SYN>>]
  /\ crossed' = crossed \ {d}
  /\ UNCHANGED <<rdr, drv, revents, pipe, p, c, got, calls>>

(* The constructors.  The proximity sensor counts as enabled as soon as    *)
(* the device answers, whether it is on or off.  asked are the drivers     *)
(* that run setInitialState, seen those that it succeeds for.              *)
Init ==
  /\ \E on \in SUBSET (D \ {"light"}), v \in Values, answers \in BOOLEAN :
       LET asked == {d \in Pends : d = "light" \/ (answers /\ d \in on)} IN
       \E seen \in SUBSET asked :
         /\ dev = [d \in D |-> [value |-> v, on |-> d = "light" \/ d \in on, queue |-> <<>>]]
         /\ drv = [d \in D |->
              [enabled |-> IF d = "proximity" THEN answers ELSE d \in on,
               has     |-> d \in seen,
               value   |-> IF d \in seen \/ d \in on \ Pends THEN v ELSE NoEvent]]
         /\ crossed = asked \ seen
  /\ rdr = [d \in D |-> NewReader] /\ revents = {} /\ pipe = 0
  /\ p = Out /\ c = Idle
  /\ got = [d \in D |-> NoEvent] /\ changes = 0 /\ calls = 0

Next == Polling \/ Activating \/ \E d \in D, v \in Values : Change(d, v)

Spec == Init /\ [][Next]_vars

(* The framework's thread keeps polling; a call of activate comes to its   *)
(* end.  Nobody has to call it, and no device has to send anything.        *)
FairSpec == Spec /\ WF_vars(Polling) /\ WF_vars(c.pc # "idle" /\ Activating)

-----------------------------------------------------------------------------
(* Properties *)

(* Every variable has its type.                                            *)
TypeOK ==
  /\ \A d \in D : /\ dev[d].value \in Values /\ dev[d].on \in BOOLEAN /\ dev[d].queue \in Seq(Events)
                  /\ ReaderOK(rdr[d]) /\ rdr[d].buf \in [Slots -> Events \cup {NoEvent}]
                  /\ drv[d].enabled \in BOOLEAN /\ drv[d].has \in BOOLEAN
                  /\ drv[d].value \in Values \cup {NoEvent} /\ got[d] \in Values \cup {NoEvent}
  /\ revents \subseteq D /\ pipe \in 0 .. MaxCalls /\ crossed \subseteq D
  /\ p.pc \in {"out", "scan", "copy", "drain", "read"} /\ p.i \in 1 .. Len(Drivers) + 1
  /\ p.room \in 0 .. Count
  /\ changes \in 0 .. MaxChanges /\ calls \in 0 .. MaxCalls

(* The events of a device that no driver has seen yet                      *)
Unread(d) == Contents(rdr[d]) \o dev[d].queue

(* Through the device's queue and the circular buffer the events of a      *)
(* device reach its driver once each, in the order they were sent, however *)
(* the reads cut them and wherever in the buffer they fall.                *)
EventsInOrder ==
  [][\A d \in D : \/ Unread(d)' = Unread(d)
                  \/ Unread(d) # <<>> /\ Unread(d)' = Tail(Unread(d)) /\ ReadEvent(rdr[d]) = Head(Unread(d))
                  \/ Unread(d)' = Unread(d) \o <<ABS(dev'[d].value), SYN>>]_vars

Settled(d) ==
  /\ c.pc = "idle" /\ Unread(d) = <<>> /\ ~drv[d].has /\ ~(p.pc = "copy" /\ Cur = d)

(* A sensor that reports, and whose events are all read, has told the     *)
(* framework its present value: an input device sends a value only when it *)
(* changes, so a wrong one would stay.  The exceptions are a sensor whose  *)
(* setInitialState failed, and one that was read after setInitialState had *)
(* looked at the device and before it had stored what it saw.              *)
ValueIsCurrent ==
  \A d \in Pends : Reports(d) /\ dev[d].on /\ Settled(d) /\ d \notin crossed
                   => got[d] = dev[d].value

(* The polling thread waits in the read of a device without events.        *)
Blocked == Fills /\ rdr[Cur].free > 0 /\ dev[Cur].queue = <<>>

(* "make sure to report an event immediately": a pending event is picked   *)
(* up, even if it was made while the polling thread went to sleep, as long *)
(* as no read waits for ever.                                              *)
PendingIsReported == []<>~Blocked => \A d \in Pends : drv[d].has ~> ~drv[d].has

(* "or just wait if we don't have anything to return": the polling thread  *)
(* does not wait while it has events to return.                            *)
WaitsOnlyWithoutEvents == Blocked => p.room = Count
=============================================================================
