SPECIFICATION Spec
CONSTANTS
    e1 = e1
    e2 = e2
    a = a
    b = b
    calc = calc
    ip = ip
    NoKey = NoKey
    NoId = NoId
    Id <- Revision
    Kind <- RevisionKind
    Key = {ip}
    KeyOf <- RevisionKey
    Sourced = {e1, e2}
    DepChoices <- RevisionDeps
    Restated <- RevisionRestated
    Mentions <- RevisionMentions
    MaxCascade = 2
    MaxDepth = 1
    DrainLimit = 1
INVARIANTS
    LiveIndexExact
    GroundedInEvidence
    CorrectionsAreKept
    CorrectionReachesEvidence
PROPERTIES
    CascadeReachesDependents
CHECK_DEADLOCK FALSE
