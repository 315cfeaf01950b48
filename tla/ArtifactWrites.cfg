SPECIFICATION Spec
SYMMETRY Symmetry
CONSTANTS
    Artifacts = {a1, a2}
INVARIANTS
    RowsNameBodies
CHECK_DEADLOCK FALSE
