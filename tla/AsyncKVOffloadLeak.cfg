SPECIFICATION Spec
CONSTANTS
  Saves = 2
  Callers = 1
  MaxInflight = 1
  DefaultWorkers = 1
  WorkerStep = 2
  MaxWorkers = 2
  RejectLimit = 10
  MaxShutdowns = 0
PROPERTIES
  RefusedUnderLoad
CHECK_DEADLOCK FALSE
