------------------------------ MODULE SioSched ------------------------------
(***************************************************************************)
(* The I/O scheduler src/modules/overclock/sio-iosched.c: four fifos, of   *)
(* synchronous and asynchronous reads and writes; in batches the scheduler *)
(* prefers synchronous requests and reads, after a batch what has expired, *)
(* asynchronous requests and writes first.                                 *)
(*                                                                         *)
(* The block layer calls it under the queue's lock, so each function is a  *)
(* step.  A request may be submitted again after it has been dispatched.   *)
(***************************************************************************)
EXTENDS Integers, Sequences

CONSTANTS
  Requests,
  Class,        \* <<sync, dir>> of a request: "sync" or "async", "read" or "write"
  FIFO_BATCH,   \* fifo_batch
  Settings,     \* values of writes_starved, all below HUGE
  HUGE          \* stands for numbers that starved does not reach

VARIABLES
  fifo,     \* fifo_list, of each class
  expired,  \* requests whose fifo_time has passed
  batched, starved, writes_starved,
  passed    \* history: reads dispatched while a write was waiting all along

siovars == <<fifo, expired, batched, starved, writes_starved, passed>>

Classes == {"sync", "async"} \X {"read", "write"}

(* The code's fifo_batch is 8.  With 0 every second dispatch would look    *)
(* for what has expired, and an expired read is found before the writes.   *)
SioAssumption ==
  /\ Class \in [Requests -> Classes] /\ FIFO_BATCH \in Nat \ {0}
  /\ HUGE \in Nat /\ Settings \subseteq 0..(HUGE - 1)

Fifo(r) == fifo[Class[r]]
Queued(r) == \E k \in 1..Len(Fifo(r)) : Fifo(r)[k] = r
Without(s, r) ==
  LET k == CHOOSE j \in 1..Len(s) : s[j] = r
  IN  SubSeq(s, 1, k - 1) \o SubSeq(s, k + 1, Len(s))
Other(dir) == IF dir = "read" THEN "write" ELSE "read"
WritesWait == fifo[<<"sync", "write">>] # <<>> \/ fifo[<<"async", "write">>] # <<>>

-----------------------------------------------------------------------------
AddRequest(r) ==
  /\ ~Queued(r) /\ fifo' = [fifo EXCEPT ![Class[r]] = Append(@, r)]
  /\ UNCHANGED <<expired, batched, starved, writes_starved, passed>>

(* Requests of a fifo expire in any order: fifo_expire can be changed.     *)
Expire(r) ==
  /\ Queued(r) /\ r \notin expired /\ expired' = expired \cup {r}
  /\ UNCHANGED <<fifo, batched, starved, writes_starved, passed>>

(* sio_former_request, sio_latter_request give the block layer two         *)
(* neighbours of a fifo; it merges the later into the earlier one, which   *)
(* takes over its expiry if that is sooner (sio_merged_requests).          *)
Neighbours(r, next) ==
  \E k \in 1..(Len(Fifo(r)) - 1) : Fifo(r)[k] = r /\ Fifo(r)[k + 1] = next
Merge(r, next) ==
  /\ Class[r] = Class[next] /\ Neighbours(r, next)
  /\ fifo' = [fifo EXCEPT ![Class[r]] = Without(@, next)]
  /\ expired' = (IF next \in expired THEN expired \cup {r} ELSE expired) \ {next}
  /\ UNCHANGED <<batched, starved, writes_starved, passed>>

-----------------------------------------------------------------------------
FirstOf(cs) ==
  LET full == {k \in 1..Len(cs) : fifo[cs[k]] # <<>>}
  IN  IF full = {} THEN {} ELSE {Head(fifo[cs[CHOOSE k \in full : \A j \in full : k <= j]])}

(* sio_choose_request                                                      *)
Chosen(dir) == FirstOf(<<<<"sync", dir>>, <<"async", dir>>,
                         <<"sync", Other(dir)>>, <<"async", Other(dir)>>>>)
(* sio_choose_expired_request                                              *)
ExpiredHead(c) == IF fifo[c] # <<>> /\ Head(fifo[c]) \in expired THEN {Head(fifo[c])} ELSE {}
(* Seeded fault: reads come first here as well.                            *)
ChosenExpired_reads ==
  IF ExpiredHead(<<"sync", "read">>) # {} THEN ExpiredHead(<<"sync", "read">>)
  ELSE IF ExpiredHead(<<"async", "read">>) # {} THEN ExpiredHead(<<"async", "read">>)
  ELSE IF ExpiredHead(<<"sync", "write">>) # {} THEN ExpiredHead(<<"sync", "write">>)
  ELSE ExpiredHead(<<"async", "write">>)
ChosenExpired ==
  IF ExpiredHead(<<"async", "write">>) # {} THEN ExpiredHead(<<"async", "write">>)
  ELSE IF ExpiredHead(<<"async", "read">>) # {} THEN ExpiredHead(<<"async", "read">>)
  ELSE IF ExpiredHead(<<"sync", "write">>) # {} THEN ExpiredHead(<<"sync", "write">>)
  ELSE ExpiredHead(<<"sync", "read">>)

BatchOver == batched > FIFO_BATCH
(* Seeded fault: reads are not counted.                                    *)
Starving_never == FALSE
Starving == starved > writes_starved
Pick ==
  IF BatchOver /\ ChosenExpired # {} THEN ChosenExpired
  ELSE Chosen(IF Starving THEN "write" ELSE "read")

(* sio_dispatch_requests and sio_dispatch_request                          *)
Dispatch(r) ==
  /\ r \in Pick
  /\ fifo' = [fifo EXCEPT ![Class[r]] = Without(@, r)] /\ expired' = expired \ {r}
  /\ batched' = (IF BatchOver THEN 0 ELSE batched) + 1
  /\ starved' = IF Class[r][2] = "write" THEN 0 ELSE IF starved < HUGE THEN starved + 1 ELSE HUGE
  /\ passed' = IF Class[r][2] = "write" \/ ~WritesWait THEN 0
               ELSE IF passed < HUGE THEN passed + 1 ELSE HUGE
  /\ UNCHANGED writes_starved

(* A dispatch that finds nothing has ended the batch all the same.         *)
DispatchNone ==
  /\ BatchOver /\ Pick = {} /\ batched' = 0
  /\ UNCHANGED <<fifo, expired, starved, writes_starved, passed>>

(* Store of writes_starved through sysfs.                                  *)
Store(n) ==
  /\ writes_starved' = n /\ n # writes_starved /\ passed' = 0
  /\ UNCHANGED <<fifo, expired, batched, starved>>

(* sio_init_queue leaves starved and writes_starved as it finds them.      *)
Init ==
  /\ fifo = [c \in Classes |-> <<>>] /\ expired = {} /\ batched = 0
  /\ starved \in {0, HUGE} /\ writes_starved \in Settings \cup {HUGE} /\ passed = 0

Next ==
  \/ \E r \in Requests : AddRequest(r) \/ Expire(r) \/ Dispatch(r) \/ \E x \in Requests : Merge(r, x)
  \/ DispatchNone \/ \E n \in Settings : Store(n)

Spec == Init /\ [][Next]_siovars
(* The driver takes requests as long as there are any, and time passes.    *)
FairSpec == Spec /\ WF_siovars(\E r \in Requests : Dispatch(r)) /\ \A r \in Requests : WF_siovars(Expire(r))

-----------------------------------------------------------------------------
(* Properties *)

(* No synchronous read and no asynchronous write waits for ever, however   *)
(* many other requests keep coming and whatever writes_starved is: reads   *)
(* for being preferred in a batch, writes for being preferred after it.    *)
IsServed(r) == Queued(r) ~> ~Queued(r)
Served ==
  \A r \in Requests : Class[r] \in {<<"sync", "read">>, <<"async", "write">>} => IsServed(r)

(* Once writes_starved has a value, reads pass a waiting write that often  *)
(* and twice more: the comparison lets one more pass, and an expired read  *)
(* may come in between.                                                    *)
ReadsBounded == writes_starved # HUGE => passed <= writes_starved + 2
=============================================================================
