SPECIFICATION Spec
SYMMETRY Symmetry
CONSTANTS
    StepIds = {s1, s2, s3, s4}
    MaxSteps = 3
    WriteTools = {update}
    UnknownTool = UnknownTool
    Calls = {c1, c2}
    Templates = {1, 2}
INVARIANTS
    ValidationIsExact
    OneSubmissionStands
    StepsInOrder
    ExecutesAsApproved
CHECK_DEADLOCK FALSE
