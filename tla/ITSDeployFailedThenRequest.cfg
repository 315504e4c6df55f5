SPECIFICATION Spec
CONSTANTS
  r1 = r1
  r2 = r2
  Strategy <- JustDegrade
  NoStrategy = NoStrategy
  Request <- OneRequest
  WAKEUP = WAKEUP
  MaxRetry = 1
  MaxOffers = 1
  MaxCrashes = 0
INVARIANTS
  FailedDeploymentSurvives
CHECK_DEADLOCK FALSE
