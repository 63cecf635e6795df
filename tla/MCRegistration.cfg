CONSTANTS
    i1 = i1
    i2 = i2
    h1 = h1
    h2 = h2
    a1 = a1
    a2 = a2
    p1 = p1
    p2 = p2
    r1 = r1
    r2 = r2
    r3 = r3
    NoPhone = NoPhone
    None = None
    Invites <- MCInvites
    Challenges <- MCChallenges
    Accounts <- MCAccounts
    Phones <- MCPhones
    InvitePhones <- MCInvitePhones
    FormPhones <- MCFormPhones
    Requests <- MCRequests
    MaxSeats = 1
SPECIFICATION Spec
CHECK_DEADLOCK FALSE
INVARIANTS
    DistinctUsers
    UsedOnceAlone
PROPERTIES
    RevocationHolds
