CONSTANTS
    i1 = i1
    o1 = o1
    h1 = h1
    h2 = h2
    Calls <- MCBoth
    Outbound <- MCOnlyOutbound
    ApiCalls <- MCOnlyOutbound
    Customer <- MCCustomer
    Handlers <- MCTwoHandlers
    Unordered = TRUE
    Redelivers = FALSE
    Hangups <- MCPlainHangups
    Transferable <- MCNone
SPECIFICATION MCMissedSpec
CHECK_DEADLOCK FALSE
PROPERTIES
    HandlersFinish
    CallsSettle
