SPECIFICATION Spec
CONSTANTS
    t1 = t1
    t2 = t2
    t3 = t3
    t4 = t4
    t5 = t5
    Tasks = {t1, t2, t3, t4, t5}
    SpecUsers = {t1}
    Values = {1, 2}
    Keys <- MCKeys
    NULL = NULL
    MIN_ARRAY_CAPCITY = 2
    HASH_MAP_DEFALUT_CAPCITY = 2
    HASH_BITS = 16
    max_id = 4
    SIZE_BITS = 8
    INT_BITS = 4
    Fds = {0, 1, 2}
    Files = {file1, file2}
    O_RDWR = O_RDWR
    O_NONBLOCK = O_NONBLOCK
    OtherBits = {}
    NONE = NONE
    Awaiters = {t1, t2}
    active = active
    rq = rq
    S = S
    MaxCalls <- MCMaxCalls
    AddressFirst = TRUE
INVARIANTS SpecsKept MapSound WithinCapacity NeverBlocksThread QueueSound AwaitFrameLive NoSleepOnWork
PROPERTIES IdPoolSpec
CHECK_DEADLOCK FALSE
