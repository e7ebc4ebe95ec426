SPECIFICATION Spec
CONSTANTS
    o1 = o1
    o2 = o2
    NoGen = NoGen
    Object = {o1, o2}
    MaxGeneration = 2
    Scenarios = {{"crash", "io", "role", "rot"}, {"crash", "role"}, {"rot"}}
SYMMETRY Addresses
INVARIANTS
    CommitOrder
    SealedStays
    StoreAtRest
PROPERTIES
    HistoryIsAppendOnly
CHECK_DEADLOCK FALSE
