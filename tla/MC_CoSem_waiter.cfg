CONSTANTS
    AddressFirst = TRUE
    NULL = NULL
    th1 = th1
    th2 = th2
    t1 = t1
    t2 = t2
    t3 = t3
    s1 = s1
    Threads = {th1}
    Tasks = {t1, t2}
    WaitLists = {s1}
    Home <- HomeOne
    Count = 1
    MaxPosts = 1
    MaxDebt = 4
SPECIFICATION FairSpec
PROPERTIES PermitReachesWaiter
CHECK_DEADLOCK FALSE
