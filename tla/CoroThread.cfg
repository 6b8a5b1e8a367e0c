SPECIFICATION FairSpec
CONSTANTS
    c1 = c1
    c2 = c2
    c3 = c3
    Calls <- MCCalls
    Polls = 2
    MaxInterrupts = 1
    None = None
INVARIANTS SequentialOwnResult NoLeftovers DeliveredOnce AsyncOwnResult
PROPERTIES CallsEnd
CHECK_DEADLOCK FALSE
