CONSTANTS
    c1 = c1
    c2 = c2
    r1 = r1
    r2 = r2
    r3 = r3
    r4 = r4
    r5 = r5
    None = None
    Contracts <- MCContracts
    Requests <- MCRequests
    SetStatus <- MCSetStatus
SPECIFICATION Spec
CHECK_DEADLOCK FALSE
INVARIANTS
    OneActive
    RefusedForAReason
PROPERTIES
    CancelStands
