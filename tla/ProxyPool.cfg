SPECIFICATION Spec
CONSTANTS
    a = a
    b = b
    r1 = r1
    r2 = r2
    None = None
    Server <- MCServer
    Request <- MCTwo
    Initial <- MCSingles
    Offered <- MCOffered
    MaxFailures = 1
    MaxGroups = 3
    MaxFlips = 1
    MaxErrors = 1
    MaxLost = 0
    MaxCalls = 2
INVARIANTS TypeOK UnwatchedWasForgotten WaiterIsAnnounced LoadIsExact
PROPERTIES ShiftedByTheListener LifecycleSpec
SYMMETRY MCSymmetry
