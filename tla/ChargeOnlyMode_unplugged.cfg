SPECIFICATION FairSpec
CONSTANTS
  ANIMATION = 1  HOLD = 2  BRIGHT = 3  DIM = 4
  RebootOk = {TRUE}  MaxUevents = 2  MaxKeys = 0
PROPERTY UnplugShutsDown
