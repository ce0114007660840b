SPECIFICATION DeviceSpec
CONSTANTS
  ANIMATION = 1  HOLD = 2  BRIGHT = 3  DIM = 4
  RebootOk = {TRUE, FALSE}  MaxUevents = 2  MaxKeys = 2
  Levels = {0, 1, 2}  MIN = 1  MID = 2  MAX = 3
  N = 8  r1 = r1  r2 = r2  MaxWrites = 1
  p1 = p1  u1 = u1  s1 = s1  z = z  wifi = wifi  NONE = NONE
INVARIANTS AlarmsBelong ButtonsAsBelieved OneLed StopsClean
PROPERTIES LitGoesDark BusyGetsSpeed NoLostWakeup FileReleased
CHECK_DEADLOCK FALSE
