SPECIFICATION Spec
CONSTANTS
    c1 = c1
    c2 = c2
    c3 = c3
    s1 = s1
    s2 = s2
    NoProc = NoProc
    Procs = {c1, c2, c3, s1}
    Servers = {s1}
    Cores = {0, 1}
    Core <- TwoCores
    MainCalls <- ClientsCallS1
    HandlerCalls <- NoNestedCalls
    Kinds = {TRUE, FALSE}
    NonBlock = {s1}
    MainOps = {"step", "usleep", "disable"}
    Mortal = {}
    MaxUuid = 1
    Watchdog = FALSE
    IPC_CTX_MAX = 2
    IPC_WAKE_BATCH_LIMIT = 2
    MaxCalls = 3
    MaxSteps = 1
SYMMETRY Symmetry
INVARIANTS
    MainContextKept
    AtMostOnce
    SleepNotCut
    NoForgottenWaiter
CHECK_DEADLOCK FALSE
