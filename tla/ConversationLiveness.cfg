SPECIFICATION FairSpec
CONSTANTS
    Workers = {w1}
    NoWorker = NoWorker
    MaxRuns = 2
    MaxAsks = 1
    MaxDisturbances = 2
PROPERTIES
    RunningRunsEnd
    QueuedRunsStart
    AnswersAreDelivered
CHECK_DEADLOCK FALSE
