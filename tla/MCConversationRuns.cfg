SPECIFICATION Spec
CONSTANTS
    Workers = {w1, w2}
    NoWorker = NoWorker
    MaxRuns = 2
    MaxAsks = 1
    MaxDisturbances = 1
SYMMETRY Symmetry
INVARIANTS
    TablesAgree
    EachAnswerOneTurn
    OnePrompt
PROPERTIES
    SettledTurnsStay
    ImplementsTurns
CHECK_DEADLOCK FALSE
