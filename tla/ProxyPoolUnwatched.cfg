SPECIFICATION Spec
CONSTANTS
    a = a
    b = b
    r1 = r1
    r2 = r2
    None = None
    Server <- MCServer
    Request <- MCOne
    Initial <- MCSingles
    Offered <- MCOffered
    MaxFailures = 1
    MaxGroups = 2
    MaxFlips = 2
    MaxErrors = 1
    MaxLost = 0
    MaxCalls = 0
INVARIANT IsolatedIsWatched
