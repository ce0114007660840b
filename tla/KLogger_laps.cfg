SPECIFICATION Spec
CONSTANTS
  N = 16  HDR = 2  PREFIX = 1  MaxPayload = 9
  Counts = {1, 2}  Junk = {0, 3}
  Readers = {r1}  HEAD = HEAD  FLUSHER = FLUSHER  NONE = NONE
  MaxWrites = 6
INVARIANTS OffsetsHold ReadsOneEntry LogLenIsUnread
PROPERTY ReadsSkipNothing
