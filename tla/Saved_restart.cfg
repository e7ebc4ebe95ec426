SPECIFICATION Spec
CONSTANTS
    Id = {a, b}
    NoFile = NoFile
    Torn = Torn
    Budget = 1
    MaxCalls = 8
SYMMETRY Rivals
INVARIANTS
    IndexesAgree
    ClockIsAhead
PROPERTIES
    SavedIsRestored
CHECK_DEADLOCK FALSE
