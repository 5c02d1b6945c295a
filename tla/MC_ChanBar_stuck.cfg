CONSTANTS
    AddressFirst = TRUE
    NULL = NULL
    th1 = th1
    th2 = th2
    t1 = t1
    t2 = t2
    t3 = t3
    t4 = t4
    t5 = t5
    bm = bm
    bc = bc
    cm = cm
    nf = nf
    ne = ne
    Threads = {th1}
    WaitLists = {bm, bc, cm, nf, ne}
    Mutexes = {bm, cm}
    chan_mutex = cm
    not_full = nf
    not_empty = ne
    bar_mutex = bm
    bar_cond = bc
    Home <- HomeOne
    Tasks = {t1, t2, t3, t4, t5}
    Senders = {t1, t2, t3, t4}
    Receivers = {t5}
    Closers = {}
    Destroyers = {}
    Parties = 1
    Capacities = {0}
SPECIFICATION GoSpec
INVARIANTS UnbufferedNotStuck
CHECK_DEADLOCK FALSE
