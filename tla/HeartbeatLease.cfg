SPECIFICATION FairSpec
CONSTANTS
    Workers = {w1, w2}
    LeaseSeconds = 5
    Interval = 1
    Timeout = 1
    ShutdownTimeout = 2
    MaxToken = 2
    MaxWait = 1
INVARIANTS
    WorksUnderLease
PROPERTIES
    LateCallsAreFenced
    OrphansExpire
