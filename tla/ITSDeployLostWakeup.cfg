SPECIFICATION FairSpec
CONSTANTS
  r1 = r1
  r2 = r2
  Strategy <- JustDegrade
  NoStrategy = NoStrategy
  Request <- NoRequest
  WAKEUP = WAKEUP
  MaxRetry = 1
  MaxOffers = 1
  MaxCrashes = 0
PROPERTIES
  SignalIsTaken
CHECK_DEADLOCK FALSE
