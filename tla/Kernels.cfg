SPECIFICATION Spec
CONSTANTS
    None = None
    Backends = 5
    Weights <- MCWeights
    MaxHeld = 3
    CR = CR
    LF = LF
    D = D
    T = T
    MaxStream = 6
    Open = Open
    Close = Close
    NL = NL
    A = A
    MaxText = 3
    hostA = hostA
    portA = portA
    portB = portB
    badPort = badPort
    Hosts <- MCHosts
    Ports <- MCPorts
    BadPorts <- MCBadPorts
    Zero = Zero
    Local = Local
    MaxGroups = 2
    MaxRanks = 2
    c1 = c1
    c2 = c2
    NumEngines = 2
    Clients <- MCClients
    Counted <- MCCounted
    MaxWire = 2
    hp = hp
    hd = hd
    PdHosts <- MCPdHosts
    PrefillHosts <- MCPrefillHosts
    Rebuilds <- MCRebuilds
    FirstLinks <- MCFirstLinks
    NumWorkers = 2
    MaxRebuilds = 2
    Dp = 3
    Tp = 2
    Npu <- MCNpu
    Digits = 10
    BadLists <- MCBadLists
    MaxStrategies = 3
    r1 = r1
    r2 = r2
    d1 = d1
    p1 = p1
    p2 = p2
    Requests <- MCRequests
    Weight <- MCWeight
    Decoders <- MCDecoders
    Prefillers <- MCPrefillers
    MaxTokens = 2
    MaxRetries = 2
    Modes <- MCModes
    Bound <- MCBound
    MaxParts = 5
    MaxErrors = 1
    MaxTp = 8
    MaxUnit = 2
PROPERTY LeastIsChosen
INVARIANTS AnswerIsContinued GroupsAreAsWritten
INVARIANTS MarksFollowTheEngines LinksFollowTheMapping ExecutorsFormOneGroup AnswersAreWhole
INVARIANTS AnswersAreTranslated ShardsFitTogether
CHECK_DEADLOCK FALSE
