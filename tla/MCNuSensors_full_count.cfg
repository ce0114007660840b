SPECIFICATION Spec
CONSTANTS
  NumEvents = 3  NoEvent = NoEvent  Drivers <- MCLightLis  Values = {0, 1}
  Count = 2  MaxChanges = 2  MaxCalls = 1
INVARIANT WaitsOnlyWithoutEvents
CHECK_DEADLOCK FALSE
