SPECIFICATION Spec
CONSTANTS
    p1 = p1
    t1 = t1
    p2 = p2
    t2 = t2
    NoTask = NoTask
    Tasks = {p1, t1, p2, t2}
    Owner <- MCOwner
    SEMAPHORE_MAX = 1
    SEM_WAITER_MAX = 2
    COUNT_MAX = 2
    SEQ_MOD = 2
    OtherTokens = {}
    Cores = 2
    Woken = {}
    Requests <- LockCalls
    Faulty = {p1, t1, p2, t2}
    Servers = {}
INVARIANTS
    MutualExclusion
CHECK_DEADLOCK FALSE
