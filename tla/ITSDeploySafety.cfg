SPECIFICATION Spec
CONSTANTS
  r1 = r1
  r2 = r2
  Strategy <- EveryType
  NoStrategy = NoStrategy
  Request <- OneRequest
  WAKEUP = WAKEUP
  MaxRetry = 1
  MaxOffers = 2
  MaxCrashes = 1
INVARIANTS
  TypeOK
  NoStrategySkipped
  NoFalseAlarm
  FailureNotForgotten
  ModeFollowsStrategy
  IdleAnnounced
  IdleHoldsNoRequest
CHECK_DEADLOCK FALSE
