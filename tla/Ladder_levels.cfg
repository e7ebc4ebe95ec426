SPECIFICATION Spec
CONSTANTS
    e1 = e1
    e2 = e2
    a = a
    b = b
    c1 = c1
    c2 = c2
    k = k
    f = f
    s1 = s1
    s2 = s2
    lo = lo
    hi = hi
    NoKey = NoKey
    NoId = NoId
    None = None
    Id <- Nodes
    Stored = {e1, e2, a, b}
    Kind <- NodeKind
    Key = {k, f}
    KeyOf <- NodeKey
    Sourced = {e1, e2, a, b}
    DepChoices <- NodeDepChoices
    Restated <- NodeRestated
    InitDeps <- NodeDeps
    SpansOf <- NodeSpans
    ValueOf <- NodeValue
    Long = {s1}
    Input = {lo, hi}
    Result <- Versions
    CalcOf <- Values
    Reach <- Reached
    PrefetchBudget = 1
    MaxCascade = 6
    MaxDepth = 3
    DrainLimit = 4
    MaxCalls = 6
INVARIANTS
    LevelsAreCurrent
    SpeculationInBudget
PROPERTIES
    MemoAnswersThisCall
CHECK_DEADLOCK FALSE
