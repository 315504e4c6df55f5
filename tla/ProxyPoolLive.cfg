SPECIFICATION Spec
CONSTANTS
    a = a
    b = b
    r1 = r1
    r2 = r2
    None = None
    Server <- MCServer
    Request <- MCOne
    Initial <- MCPair
    Offered <- MCPairs
    MaxFailures = 2
    MaxGroups = 2
    MaxFlips = 2
    MaxErrors = 0
    MaxLost = 1
    MaxCalls = 2
PROPERTIES PendingIsRemoved WaiterIsWoken GroupRecovers
