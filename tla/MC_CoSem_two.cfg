CONSTANTS
    AddressFirst = TRUE
    NULL = NULL
    th1 = th1
    th2 = th2
    t1 = t1
    t2 = t2
    t3 = t3
    s1 = s1
    Threads = {th1, th2}
    Tasks = {t1, t2, t3}
    WaitLists = {s1}
    Home <- HomeTwo
    Count = 1
    MaxPosts = 3
    MaxDebt = 4
SPECIFICATION Spec
INVARIANTS TypeOK SafePermits
PROPERTIES ClientSpec
CHECK_DEADLOCK FALSE
