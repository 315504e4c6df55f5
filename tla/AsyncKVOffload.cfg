SPECIFICATION FairSpec
CONSTANTS
  Saves = 3
  Callers = 2
  MaxInflight = 1
  DefaultWorkers = 1
  WorkerStep = 2
  MaxWorkers = 2
  RejectLimit = 0
  MaxShutdowns = 1
INVARIANTS
  TypeOK
  InflightBounded
  NoStrayPool
  StatsBalance
PROPERTIES
  AcceptedSaveRuns
  CallReturns
CHECK_DEADLOCK FALSE
