SPECIFICATION Spec
CONSTANTS
  p1 = p1  p2 = p2  u1 = u1  u2 = u2
  Procs <- MCProcs  Uids = {u1}  Uid <- OneUid  Priv = {}
  ATags = {z, a}  ZERO = z  Socks = {s1}  MaxTags = 2  NONE = NONE
CONSTRAINT Explored
INVARIANTS TypeOK CountsExact FilePinned ListsTrackTags NoOops
PROPERTY ImplementsSockTags
