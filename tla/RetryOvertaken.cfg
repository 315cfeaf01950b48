SPECIFICATION Spec
CONSTANTS
    Runs = {r1}
    Workers = {w1}
    NoWorker = NoWorker
    MaxConcurrency = 1
    MaxRetries = 1
    MaxDisturbances = 0
PROPERTIES
    RetryStartsAttempt
CHECK_DEADLOCK FALSE
