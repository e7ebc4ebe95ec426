SPECIFICATION SignedSpec
CONSTANTS
    NoKey = NoKey
    Object = {1, 2, 3}
    LabelOf <- Labels
    Key = {k1}
    MaxTree = 6
    MaxGeneration = 2
    MaxFaults = 2
INVARIANTS
    SealIsExact
    SignedStaysSigned
    PutWaitsForCommit
CHECK_DEADLOCK FALSE
