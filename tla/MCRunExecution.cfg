SPECIFICATION FairSpec
CONSTANTS
    Runs = {r1}
    Workers = {w1, w2}
    NoWorker = NoWorker
    MaxConcurrency = 1
    MaxRetries = 1
    MaxDisturbances = 1
INVARIANTS
    RunAgreesWithAttempts
    NoAutomaticReplay
    OneAttemptPerGrant
    OnlyApprovedPlansExecute
    WaitingHasPendingAction
    NotSentMeansNoPrompt
PROPERTIES
    InterruptedIsFinal
    ImplementsContract
    RunningRunsEnd
    QueuedRunsStart
CHECK_DEADLOCK FALSE
