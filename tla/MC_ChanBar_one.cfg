CONSTANTS
    AddressFirst = TRUE
    NULL = NULL
    th1 = th1
    th2 = th2
    t1 = t1
    t2 = t2
    t3 = t3
    t4 = t4
    t5 = t5
    bm = bm
    bc = bc
    cm = cm
    nf = nf
    ne = ne
    Threads = {th1}
    WaitLists = {bm, bc, cm, nf, ne}
    Mutexes = {bm, cm}
    chan_mutex = cm
    not_full = nf
    not_empty = ne
    bar_mutex = bm
    bar_cond = bc
    Home <- HomeOne
    Tasks = {t1, t2, t3}
    Senders = {t1, t2}
    Receivers = {t2, t3}
    Closers = {t3}
    Destroyers = {t1}
    Parties = 2
    Capacities = {0, 1, 2}
SPECIFICATION GoFairSpec
INVARIANTS GoTypeOK CapacityKept SendHandsOver BufferedNotStuck BarrierHolds
PROPERTIES CondClientSpec BarrierReleases
CHECK_DEADLOCK FALSE
