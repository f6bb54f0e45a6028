SPECIFICATION Spec
CONSTANTS
    p1 = p1
    t1 = t1
    p2 = p2
    t2 = t2
    NoTask = NoTask
    Tasks = {p1, t1, p2}
    Owner <- MCOwner
    SEMAPHORE_MAX = 2
    SEM_WAITER_MAX = 2
    COUNT_MAX = 2
    SEQ_MOD = 1
    OtherTokens = {0}
    Cores = 2
    Woken = {p2}
    Requests <- WakesCalls
    Faulty = {p1}
    Servers = {p2}
VIEW WithoutHistory
INVARIANTS
    TypeOK
    GrantedIsAwake
    SleeperIsQueued
    OneSlotPerTask
CHECK_DEADLOCK FALSE
