SPECIFICATION PromptSpec
CONSTANTS
    Node = {1, 2, 3}
    KindOf <- Kinds
    SkillKind = 3
    SpansOf <- Spans
    DepsOf <- Deps
    Doc = {"x", "y"}
    TokensOf <- Tokens
    Budget = 6
    Overhead = 1
    MaxTurns = 2
    MaxIngests = 2
INVARIANTS
    CoverageWasShown
PROPERTIES
    PrefixIsShared
    BypassShowsAll
CHECK_DEADLOCK FALSE
