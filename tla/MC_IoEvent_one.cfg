CONSTANTS
    NULL = NULL
    t1 = t1
    t2 = t2
    tf1 = tf1
    tf2 = tf2
    Tasks = {t1, t2}
    timer_task = tt
    Fds = {f1, f2}
    tick_fd = tick
    TimerFd <- TimerFdTwo
    FD_TIMEOUT = 1
    WheelSize = 3
    Arrivals <- ArrivalsTwo
    Does <- DoesTwo
    Sleepers = {t1}
    f1 = f1
    f2 = f2
    Bytes = 2
SPECIFICATION Spec
INVARIANTS TypeOK WokenForCause QuietWhenIdle CanBeWoken TimeoutNotEarly WritesOnce TimeoutComes
