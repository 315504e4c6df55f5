SPECIFICATION Spec
CONSTANTS
    p1 = p1
    p2 = p2
    d1 = d1
    d2 = d2
    m1 = m1
    m2 = m2
    r1 = r1
    r2 = r2
    None = None
    Request <- MCOne
    Prefiller <- MCP
    Decoder <- MCDecoder
    Mixer <- MCM
    MaxTokens = 2
    MaxFaults = 2
    MaxTaints = 1
INVARIANTS LoadMatchesHolders QuietMeansUnused RoundUsesFreshKv StreamIsGapless
PROPERTIES RequestEnds
CHECK_DEADLOCK FALSE
