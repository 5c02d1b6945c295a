CONSTANTS
    AddressFirst = TRUE
    NULL = NULL
    th1 = th1
    th2 = th2
    t1 = t1
    t2 = t2
    t3 = t3
    t4 = t4
    w1 = w1
    w2 = w2
    Threads = {th1}
    Tasks = {t1, t2, t3, t4}
    WaitLists = {w1, w2}
    Home <- HomeOne
SPECIFICATION FairSpec
INVARIANTS TypeOK LinksIntact RunningUnlinked TouchesLiveTasks
PROPERTIES ResumedRuns
CHECK_DEADLOCK FALSE
