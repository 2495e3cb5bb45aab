SPECIFICATION FairSpec
CONSTANTS
  b1 = b1
  b2 = b2
  None = None
  MaxCalls = 5
  RA_MAX_PENDING = 2
  Badge = {b1, b2}
  BADGE_MAX = 2
  BADGE_TRIES = 2
  ThreadMayFail = TRUE
CHECK_DEADLOCK FALSE
INVARIANTS EachCallItsAnswer ReadyHasPixels
PROPERTIES AnsweredInOrder EveryRequestEnds
