SPECIFICATION Spec
CONSTANTS
    e1 = e1
    e2 = e2
    e3 = e3
    e4 = e4
    a = a
    b = b
    c = c
    p = p
    ip = ip
    v1 = v1
    v2 = v2
    v3 = v3
    NoKey = NoKey
    NoId = NoId
    Id <- Argued
    Kind <- ArguedKind
    Key = {ip}
    KeyOf <- ArguedKey
    Sourced <- Argued
    Mentions <- ArguedMentions
    ValueOf <- ArguedValue
    Extracted <- ArguedFacts
    Corrections = {a, p}
    CommitDeps <- ArguedCommits
    MaxCascade = 1
    MaxDepth = 1
    DrainLimit = 1
    SupersedeOnConflict = TRUE
INVARIANTS
    RivalsAreAccountedFor
    IndexMatchesGraph
PROPERTIES
    CorrectionStands
    CallsGraphAsAssumed
CHECK_DEADLOCK FALSE
