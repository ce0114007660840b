SPECIFICATION GfxSpec
CONSTANTS
  CCB = 1  LOCKUP = 2
  p1 = p1  p2 = p2  Procs = {p1, p2}  NONE = NONE
  Chains = {c1, c2}  Buffers = {1, 2}  Walkers = {"misr"}  QUEUE = 2  MaxOrders = 2  MaxOpens = 2
  Contexts = {h1}  PB = PB  MaxRefs = 2  MaxTimeouts = 1
  t1 = t1  t2 = t2  t3 = t3  Threads = {t1, t2, t3}  Proc <- MCProc  Areas = {a1, a2}  Addresses = {1, 2, 3}
  r1 = r1  r2 = r2  r3 = r3  r4 = r4  Requests = {r1, r2, r3, r4}  Class <- MCClass  FIFO_BATCH = 3  Settings = {0, 1}  HUGE = 5
INVARIANTS
  PowerIsSafe ShowsWhatWasOrdered ListIsSafe FreedWhenDone BufferIsOwned MappingsHold ReadsBounded
PROPERTIES IdleIsFresh WorkIsDone FlipsHappen EveryoneLeaves Served
CHECK_DEADLOCK FALSE
