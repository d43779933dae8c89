SPECIFICATION Spec
CONSTANTS
    Rows = {1, 2, 3}
    MaxTime = 3
    PerMilli = 2
    Limits = {1, 2}
    Callers = {c1, c2}
SYMMETRY Symmetry
INVARIANTS
    TypeOK
    NothingMissed
    NothingTwice
    CursorMovesOn
PROPERTIES
    BootstrapOnlyFirst
CHECK_DEADLOCK FALSE
