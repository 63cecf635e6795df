CONSTANTS
    i1 = i1
    o1 = o1
    h1 = h1
    h2 = h2
    Calls <- MCBoth
    Outbound <- MCOnlyOutbound
    ApiCalls <- MCOnlyOutbound
    Customer <- MCCustomer
    Handlers <- MCTwoHandlers
    Unordered = FALSE
    Redelivers = FALSE
    Hangups <- MCPlainHangups
    Transferable <- MCNone
SPECIFICATION Spec
CHECK_DEADLOCK FALSE
SYMMETRY MCHandlerSymmetry
INVARIANTS
    CallbackWasMade
    MadeCallOwned
    OrphanMeansSilent
