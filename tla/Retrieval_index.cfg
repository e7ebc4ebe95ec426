SPECIFICATION RetrievalSpec
CONSTANTS
    Word = {"a", "b"}
    Doc = {"x", "y"}
    TextOf <- Texts
    MaxSpanChars = 2
    Table <- Tables
    Plane <- Planes
    MinForAnn = 2
    MinCandidates = 1
    LexicalWeight = 55
    MaxNodes = 3
    NodeText <- NodeTexts
    VectorOf <- Vectors
    Query <- Queries
    MaxCalls = 3
    MaxRestarts = 1
INVARIANTS
    SpansTileTheText
    IndexDescribesTheState
    BestIsKept
PROPERTIES
    SpansStayPut
CHECK_DEADLOCK FALSE
