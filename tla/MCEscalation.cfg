CONSTANTS
    c1 = c1
    c2 = c2
    w1 = w1
    w2 = w2
    p1 = p1
    CallIds <- MCCalls
    Caller <- MCSameCustomer
    Workers <- MCTwoWorkers
    Threshold <- MCThreshold
    Cutoff = 3
    KeyTTL = 4
    MaxTime = 4
    MaxMisses = 2
    MaxFaults = 1
SPECIFICATION EscalationSpec
SYMMETRY MCSymmetry
CHECK_DEADLOCK FALSE
INVARIANTS
    AlarmsAreDue
    EscalatedInTime
PROPERTIES
    TiersRise
