SPECIFICATION Spec
SYMMETRY Symmetry
CONSTANTS
    Runs = {r1, r2}
    Txns = {t1, t2, t3}
    None = None
    MaxToken = 2
INVARIANTS
    CyclesNeedAnOutsider
    CommitsStand
CHECK_DEADLOCK FALSE
