SPECIFICATION Spec
CONSTANTS
    c1 = c1
    c2 = c2
    g1 = g1
    g2 = g2
    r1 = r1
    r2 = r2
    n1 = n1
    n2 = n2
    n3 = n3
    t1 = t1
    u1 = u1
    p1 = p1
    p2 = p2
    None = None
    Manual = Manual
    Companies <- MCCompanies
    Events <- MCEvents
    Groups <- MCGroups
    Requests <- MCRequests
    Edits <- MCEdits
    Notices <- MCNotices
    Things <- MCThings
    Ids <- MCIds
    Phones <- MCPhones
    Users <- MCUsers
    Procs <- MCProcs
    MaxRows = 4
    MaxDay = 2
SYMMETRY Symmetry
CONSTRAINT OnePartAtATime
CHECK_DEADLOCK FALSE
INVARIANTS
    FiltersKept
    CreatingIsUnderway
    DigestOnce
    OnePinned
    NoneForgotten
    CountsTrue
    AnnouncedOnce
