CONSTANTS
    i1 = i1
    o1 = o1
    h1 = h1
    h2 = h2
    Calls <- MCOnlyInbound
    Outbound <- MCNone
    ApiCalls <- MCNone
    Customer <- MCCustomer
    Handlers <- MCTwoHandlers
    Unordered = TRUE
    Redelivers = TRUE
    Hangups <- MCAllHangups
    Transferable <- MCOnlyInbound
SPECIFICATION Spec
CHECK_DEADLOCK FALSE
SYMMETRY MCHandlerSymmetry
INVARIANTS
    MissedIsTracked
    OneOutcome
    HangupKept
PROPERTIES
    RecordSpec
