SPECIFICATION Spec
CONSTANTS
  Procs = {p1}  Contexts = {c1, c2}  PB = PB  NONE = NONE
  MaxRefs = 1  MaxTimeouts = 0
INVARIANT NoneLeft
