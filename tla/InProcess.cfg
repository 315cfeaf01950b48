SPECIFICATION FairSpec
CONSTANTS
    Runs = {r1}
    MaxRuns = 2
    MaxRetries = 2
    MaxAsks = 2
    MaxRestarts = 1
INVARIANTS
    RunsHaveTasks
    ConversationHasTask
PROPERTIES
    ImplementsContract
    ImplementsTurns
    RunsMoveOn
CHECK_DEADLOCK FALSE
