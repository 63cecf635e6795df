SPECIFICATION Spec
CONSTANTS
    u1 = u1
    u2 = u2
    o1 = o1
    c1 = c1
    s1 = s1
    s2 = s2
    v1 = v1
    v2 = v2
    p1 = p1
    p3 = p3
    p2 = p2
    None = None
    Users <- MCUsers
    Owners <- MCOwners
    Challenges <- MCChallenges
    Starts <- MCStarts
    Verifications <- MCVerifications
    Passwords <- MCPasswords
    MaxInFlight = 2
    MaxRequests = 4
    MaxAttempts = 1
    Threshold = 2
    LinkTTL = 1
    CodeTTL = 1
    RateTTL = 1
    Window = 2
    LockTTL = 1
    MaxTime = 2
SYMMETRY Symmetry
CONSTRAINT CodesOrPasswords
CHECK_DEADLOCK FALSE
INVARIANTS
    LoginIsTheirs
    ChallengeSpent
    FailuresLock
    CodesAreSent
