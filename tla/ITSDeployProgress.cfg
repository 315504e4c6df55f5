SPECIFICATION FairSpec
CONSTANTS
  r1 = r1
  r2 = r2
  Strategy <- OtherShapes
  NoStrategy = NoStrategy
  Request <- OneRequest
  WAKEUP = WAKEUP
  MaxRetry = 1
  MaxOffers = 1
  MaxCrashes = 1
PROPERTIES
  DeploymentEnds
  WakeupReachesBlockedEngine
  DeathIsSignalled
  MailboxSpec
CHECK_DEADLOCK FALSE
