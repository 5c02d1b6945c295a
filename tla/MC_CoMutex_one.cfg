CONSTANTS
    AddressFirst = TRUE
    NULL = NULL
    th1 = th1
    th2 = th2
    t1 = t1
    t2 = t2
    t3 = t3
    m1 = m1
    Threads = {th1}
    Tasks = {t1, t2, t3}
    WaitLists = {m1}
    Mutexes = {m1}
    Home <- HomeOne
SPECIFICATION FairSpec
INVARIANTS TypeOK
PROPERTIES WaitersFifo ClientSpec WaiterServed
CHECK_DEADLOCK FALSE
