SPECIFICATION Spec
CONSTANTS
    o1 = o1
    o2 = o2
    NoGen = NoGen
    Object = {o1, o2}
    MaxGeneration = 2
    Scenarios = {{"crash"}}
SYMMETRY Addresses
INVARIANTS
    CrashLeavesOpenable
CHECK_DEADLOCK FALSE
