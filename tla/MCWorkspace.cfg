SPECIFICATION MCSpec
CONSTANTS
    c1 = c1
    c2 = c2
    u1 = u1
    u2 = u2
    m1 = m1
    w1 = w1
    s1 = s1
    f1 = f1
    f2 = f2
    n1 = n1
    n2 = n2
    None = None
    Gone = Gone
    Owner = Owner
    NoField = NoField
    Ids = {1, 2, 3}
    Companies = {c1, c2}
    Users = {u1, u2}
    Admins = {u2}
    Emails = {m1}
    Batches <- MCBatches
    DueDates = {1, 2}
    Edits <- MCEdits
    Jobs = {1, 2, 3}
    Walks = {w1}
    Sizes = {1}
    CompanyOf <- MCCompanyOf
    Queries = {1, 2, 3}
    Questions <- MCQuestions
    Stores = {s1}
    Counted <- MCCounted
    CountedOfAll <- MCCountedOfAll
    PeriodStart <- MCPeriodStart
    TicksPerDay = 2
    TrendDays = 2
    MaxTime = 2
    TTL_SHORT = 0
    TTL_MEDIUM = 1
    FieldIds = {f1, f2}
    Names = {n1, n2}
    Orders <- MCOrders
    Places = {0, 2}
    Editors = {1, 2, 3, 4}
    MaxFields = 2
CONSTRAINT Bounds
CHECK_DEADLOCK FALSE
INVARIANTS
    EmailsUnique
    WalkComplete
    ReorderWhole
    AnswersTheQuestion
    ClearedIsFresh
