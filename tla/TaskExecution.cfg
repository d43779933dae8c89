SPECIFICATION Spec
CONSTANTS
    Runs = {r1, r2}
    Jobs = {j1, j2}
    Machines = {m1}
    Slugs = {s1}
    MaxChanges = 2
SYMMETRY Symmetry
INVARIANTS
    TypeOK
    SuccessCarriesTheWork
    FailedLeavesNothing
PROPERTIES
    NothingOverwritten
CHECK_DEADLOCK FALSE
