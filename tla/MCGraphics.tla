----------------------------- MODULE MCGraphics -----------------------------
(***************************************************************************)
(* For TLC: the graphics driver's flip queues, power management,           *)
(* processes' resources and mappings, and the I/O scheduler's fifos.  What *)
(* the first four share is the bridge lock, which each of them models; so  *)
(* one part moves in each behaviour (turn) and the others rest: the states *)
(* are the sum of theirs, not the product.                                 *)
(***************************************************************************)
EXTENDS FlipQueue, TLC

CONSTANTS CCB, LOCKUP,                                  \* of the power management
          p1, p2, Contexts, PB, MaxRefs, MaxTimeouts,   \* of the resources
          t1, t2, t3, Threads, Proc, Areas, Addresses,  \* of the mappings
          r1, r2, r3, r4,                               \* of the fifos
          Requests, Class, FIFO_BATCH, Settings, HUGE

VARIABLES
  gbridge, glock, sys, dev, clocks, active, armed, queued, count, gmisr, reproc, gstatus, flag,
  clr, ccb, awake, hung, hwr, work, gpc, ret, kicked, leaked, ggaveup, left,
  data, rcs, pbs, creator, pb, bridge, rpc, exiting, what, forced, timing, elapsed,
  requests, status, using, gone, gaveup, unheard, leftover,
  registered, structs, vmas, lock, mpc, want, addr,
  fifo, expired, batched, starved, writes_starved, passed,
  turn

(* Kicks, sleeps, lockups, failed power-ups, work that becomes ready.      *)
Budget(k, s, h, f, r) == [kicks |-> k, sleeps |-> s, hangs |-> h, fails |-> f, ready |-> r]
MCBudgets == {Budget(2, 0, 0, 0, 1), Budget(1, 1, 0, 0, 1), Budget(2, 1, 0, 1, 0),
              Budget(1, 1, 1, 0, 0), Budget(1, 0, 1, 1, 0)}

G == INSTANCE SgxPower WITH
       bridge <- gbridge, lock <- glock, misr <- gmisr, status <- gstatus, pc <- gpc,
       gaveup <- ggaveup, Budgets <- MCBudgets
R == INSTANCE ResMan WITH pc <- rpc
M == INSTANCE MMap WITH pc <- mpc
MCProc == t1 :> p1 @@ t2 :> p1 @@ t3 :> p2     \* two threads of a process, one of another
S == INSTANCE SioSched
MCClass == r1 :> <<"sync", "read">> @@ r2 :> <<"sync", "read">>
        @@ r3 :> <<"async", "write">> @@ r4 :> <<"sync", "write">>

ASSUME MCGraphicsAssumption ==
  G!SgxAssumption /\ R!ResManAssumption /\ M!MMapAssumption /\ S!SioAssumption

power     == <<gbridge, glock, sys, dev, clocks, active, armed, queued, count, gmisr, reproc,
               gstatus, flag, clr, ccb, awake, hung, hwr, work, gpc, ret, kicked, leaked, ggaveup, left>>
resources == <<data, rcs, pbs, creator, pb, bridge, rpc, exiting, what, forced, timing, elapsed,
               requests, status, using, gone, gaveup, unheard, leftover>>
mappings  == <<registered, structs, vmas, lock, mpc, want, addr>>
fifos     == <<fifo, expired, batched, starved, writes_starved, passed>>

GfxInit ==
  /\ Init /\ G!Init /\ R!Init /\ M!Init /\ S!Init
  /\ turn \in {"flips", "power", "resources", "mappings", "fifos"}
  /\ turn # "power" => left = Budget(2, 0, 0, 0, 1)
  /\ turn # "fifos" => starved = 0 /\ writes_starved = HUGE
GfxNext ==
  \/ turn = "flips" /\ Next /\ UNCHANGED <<power, resources, mappings, fifos, turn>>
  \/ turn = "power" /\ G!Next /\ UNCHANGED <<vars, resources, mappings, fifos, turn>>
  \/ turn = "resources" /\ R!Next /\ UNCHANGED <<vars, power, mappings, fifos, turn>>
  \/ turn = "mappings" /\ M!Next /\ UNCHANGED <<vars, power, resources, fifos, turn>>
  \/ turn = "fifos" /\ S!Next /\ UNCHANGED <<vars, power, resources, mappings, turn>>

(* The fairness of the modules.  Only one moves in a behaviour, so one     *)
(* condition of strong fairness can stand for one of each: TLC's work      *)
(* doubles with every one of them.                                         *)
all == <<vars, power, resources, mappings, fifos, turn>>
InFlips(A)     == turn = "flips" /\ A /\ UNCHANGED <<power, resources, mappings, fifos, turn>>
InPower(A)     == turn = "power" /\ A /\ UNCHANGED <<vars, resources, mappings, fifos, turn>>
InResources(A) == turn = "resources" /\ A /\ UNCHANGED <<vars, power, mappings, fifos, turn>>

StrongFair ==
  /\ SF_all(InFlips(Walk("misr")) \/ InPower(G!App) \/ InResources(R!Step(p1)))
  /\ SF_all(InPower(G!Pm) \/ InResources(R!Step(p2)))
FlipFair ==
  /\ WF_vars(turn = "flips" /\ FlipDone) /\ WF_vars(turn = "flips" /\ RenderDone)
  /\ WF_vars(turn = "flips" /\ Ioctl) /\ WF_vars(turn = "flips" /\ Enter("misr"))
PowerFair ==
  /\ WF_power(turn = "power" /\ G!Misr) /\ WF_power(turn = "power" /\ G!TimerFires)
  /\ WF_power(turn = "power" /\ G!Timer) /\ WF_power(turn = "power" /\ G!UkRead)
  /\ WF_power(turn = "power" /\ G!UkFinish) /\ WF_power(turn = "power" /\ G!UkClear)
ResourceFair ==
  /\ WF_resources(turn = "resources" /\ R!UkAnswer)
  /\ WF_resources(turn = "resources" /\ R!TimeIsUp)
FifoFair ==
  /\ WF_fifos(turn = "fifos" /\ \E r \in Requests : S!Dispatch(r))
  /\ \A r \in Requests : WF_fifos(turn = "fifos" /\ S!Expire(r))

GfxSpec == GfxInit /\ [][GfxNext]_all /\ StrongFair /\ FlipFair /\ PowerFair /\ ResourceFair /\ FifoFair

(* SgxPower, ResMan, MMap and SioSched state these; of processes that are  *)
(* alike, and of the two reads, one stands for both.                       *)
PowerIsSafe    == G!PowerIsSafe
IdleIsFresh    == G!IdleIsFresh
WorkIsDone     == G!WorkIsDone
FreedWhenDone  == R!FreedWhenDone
BufferIsOwned  == R!BufferIsOwned
EveryoneLeaves == R!Leaves(p1)
MappingsHold   == M!MappingsHold
Served         == S!IsServed(r1) /\ S!IsServed(r3)
ReadsBounded   == S!ReadsBounded
=============================================================================
