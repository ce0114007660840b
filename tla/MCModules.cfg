SPECIFICATION ModSpec
CONSTANTS
  p1 = p1  p2 = p2  u1 = u1  u2 = u2  wifi = wifi  NONE = NONE
  Procs <- MCProcs  Uids = {u1, u2}  Uid <- TwoUids  Priv = {p2}
  ATags = {z}  ZERO = z  Socks = {s1}  MaxTags = 1
  i1 = i1  root = root  StatProcs <- MCProc  StatUids = {u1, root}  StatUid <- MCUid1  StatPriv = {}
  StatTags = {z, wifi}  SockUid <- MCSockUid  Ifaces = {i1}  TagOrder <- MCTagOrder  Readable = {u1}  Pages = {1, 2}
  MaxPackets = 2  MaxTraffic = 3  MaxEvents = 12
  r1 = r1  r2 = r2  r3 = r3  r4 = r4  q = q  Rules = {r1, r2, r3, r4}
  Table <- MCTable  Name <- MCName  Kind <- MCKind  Fixed = {r4}  Quota <- MCQuota
  Lengths = {1, 2}  Writes = {3}  ANON = ANON  MaxCounters = 3  MaxQuota = 3
  Writers = {p1, p2}  Times = {0, 1, 2}  MaxStores = 3
CONSTRAINT Explored
INVARIANTS
  CountsExact AccountsHold ListingWhole TrafficCounted CountersHold KeypadFollows
CHECK_DEADLOCK FALSE
