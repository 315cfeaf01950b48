SPECIFICATION FairSpec
CONSTANTS
    Runs = {r1}
    MaxRuns = 1
    MaxRetries = 2
    MaxAsks = 0
    MaxRestarts = 0
PROPERTY
    CancelOwnsTheTransition
CHECK_DEADLOCK FALSE
