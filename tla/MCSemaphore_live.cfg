SPECIFICATION FairSpec
CONSTANTS
    p1 = p1
    t1 = t1
    p2 = p2
    t2 = t2
    NoTask = NoTask
    Tasks = {p1, t1, p2}
    Owner <- MCOwner
    SEMAPHORE_MAX = 1
    SEM_WAITER_MAX = 3
    COUNT_MAX = 2
    SEQ_MOD = 4
    OtherTokens = {}
    Cores = 1
    Woken = {}
    Requests <- LockCalls
    Faulty = {t1}
    Servers = {}
PROPERTIES
    FifoHandoff
    WaiterServed
CHECK_DEADLOCK FALSE
