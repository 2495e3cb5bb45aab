SPECIFICATION FairSpec
CONSTANTS
  a1 = a1
  a2 = a2
  None = None
  Account = {a1, a2}
  RA_LOAD_RETRY_FRAMES = 2
  RA_LOAD_MAX_ATTEMPTS = 2
  MaxTouches = 4
CHECK_DEADLOCK FALSE
INVARIANTS SavedIsLoggedIn
PROPERTIES OneInFlight AsksOnlyWhenItMay OffGoesQuiet SessionSettles
