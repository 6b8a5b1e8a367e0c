SPECIFICATION FairSpec
CONSTANTS
    t1 = t1
    t2 = t2
    k1 = k1
    k2 = k2
    Threads <- MCThreads
    Keys = {k1}
    None = None
    MaxFail = 1
PROPERTIES CallsEnd
