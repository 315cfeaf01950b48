SPECIFICATION Spec
SYMMETRY Symmetry
CONSTANTS
    Calls = {tool1, ask1, ask2}
    AskCalls = {ask1, ask2}
    MayOutlive = {tool1}
    NoCall = NoCall
    MaxAttempts = 2
    MaxToolCalls = 2
    Requests = {q1, q2}
    NoRequest = NoRequest
    NumAttempts = 2
INVARIANTS
    BoundTogether
    OperationsAreUnique
    OneRetrievalPerAttempt
PROPERTIES
    QuestionIsLast
CHECK_DEADLOCK FALSE
