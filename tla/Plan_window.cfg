SPECIFICATION Spec
CONSTANTS
    e1 = e1
    e2 = e2
    a = a
    b = b
    d = d
    c = c
    ip = ip
    NoKey = NoKey
    NoId = NoId
    NoPlan = NoPlan
    Id <- Nodes
    Kind <- NodeKind
    Key = {ip}
    KeyOf <- NodeKey
    Sourced = {e1, e2, c}
    DepChoices <- NodeDepChoices
    InitDeps <- NodeDeps
    Order <- NodeOrder
    Long = {e1}
    Cost <- NodeCost
    Worth <- NodeWorth
    SeedHits <- Hits
    SpanHits <- Spans
    Queries = {"quote_exact", "value_lookup", "justify"}
    Budgets = {2, 5, 12}
    Pins <- PinChoices
    MaxCascade = 6
    GraphDepth = 3
    DrainLimit = 4
    MaxDepth = 2
    MaxFanout = 2
    MaxCandidates = 4
    MaxDpBuckets = 8
    MaxChanges = 2
INVARIANTS
    HistoryStaysOut
    MandatoryAdmitted
    BudgetIsSpent
CHECK_DEADLOCK FALSE
