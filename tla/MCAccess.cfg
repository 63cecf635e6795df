SPECIFICATION Spec
CONSTANTS
    u1 = u1
    s1 = s1
    g1 = g1
    k1 = k1
    k2 = k2
    r1 = r1
    r2 = r2
    r3 = r3
    None = None
    Gone = Gone
    Users <- MCUsers
    Shadow = s1
    Groups <- MCGroups
    Keys <- MCKeys
    Requests <- MCRequests
    Changes <- MCChanges
    MaxKeys = 1
SYMMETRY Symmetry
CHECK_DEADLOCK FALSE
INVARIANTS
    ExcludedStaysOut
    GroupsInUse
    KeysBounded
