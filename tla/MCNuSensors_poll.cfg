SPECIFICATION FairSpec
CONSTANTS
  NumEvents = 3  NoEvent = NoEvent  Drivers <- MCProximityLis  Values = {0, 1}
  Count = 2  MaxChanges = 3  MaxCalls = 2
INVARIANTS TypeOK ValueIsCurrent
PROPERTIES EventsInOrder PendingIsReported
CHECK_DEADLOCK FALSE
