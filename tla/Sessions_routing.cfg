SPECIFICATION Spec
CONSTANTS
    t1 = t1
    t2 = t2
    s1 = s1
    s2 = s2
    s3 = s3
    Thread = {t1, t2}
    Session = {s1, s2, s3}
    Capacity = 1
    NoThread = NoThread
    NoRuntime = NoRuntime
    NoSession = NoSession
INVARIANTS
    NeverSplit
    CacheIsBounded
    AcknowledgedIsRemembered
PROPERTIES
    LocksAreFreed
