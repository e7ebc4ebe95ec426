SPECIFICATION Spec
CONSTANTS
    doc = doc
    a = a
    b = b
    calc = calc
    ip = ip
    NoKey = NoKey
    NoId = NoId
    Id <- Nodes
    Kind <- NodeKind
    Key = {ip}
    KeyOf <- NodeKey
    Sourced = {doc}
    DepChoices <- NodeDepChoices
    InitDeps <- NodeDeps
    MaxCascade = 2
    MaxDepth = 1
    DrainLimit = 4
    AutoEscalate = TRUE
    MaxEscalations = 1
    MaxRetries = 1
    MaxCalls = 2
INVARIANTS
    PromptIsOfThisRound
    UnretriedKeepsItsGround
    StaleReadsExplained
PROPERTIES
    TurnEnds
