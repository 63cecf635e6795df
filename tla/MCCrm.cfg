CONSTANTS
    l1 = l1
    d1 = d1
    r1 = r1
    r2 = r2
    r3 = r3
    r4 = r4
    None = None
    Gone = Gone
    Leads <- MCLeads
    Deals <- MCDeals
    Requests <- MCRequests
    SetState <- MCSetState
SPECIFICATION Spec
SYMMETRY RequestSymmetry
CHECK_DEADLOCK FALSE
INVARIANTS
    EventsReportFacts
    
PROPERTIES
    DeletionStands
