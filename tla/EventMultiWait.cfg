SPECIFICATION FairSpec
CONSTANTS
    m = m
    t1 = t1
    a = a
    b = b
    None = None
    Threads <- MCThreads
    Events <- MCEvents
    WaitOn <- MCWaitOn
    NotifySet = {a, b}
    NotifyClear = {a}
    Order <- MCOrder
    Signalled <- MCSignalled
    Callers = {m}
    Others = {t1}
INVARIANTS WokenHasSeen NoLostWakeup MetInOneScan
PROPERTIES SignalledEndsCalls
