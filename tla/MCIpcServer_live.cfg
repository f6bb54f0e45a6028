SPECIFICATION FairSpec
CONSTANTS
    c1 = c1
    c2 = c2
    c3 = c3
    s1 = s1
    s2 = s2
    NoProc = NoProc
    Procs = {c1, s1, s2}
    Servers = {s1, s2}
    Cores = {0, 1}
    Core <- TwoCores
    MainCalls <- ClientsCallS1
    HandlerCalls <- HandlerOfS1CallsS2
    Kinds = {TRUE, FALSE}
    NonBlock = {}
    MainOps = {}
    Mortal = {s1, s2}
    MaxUuid = 1
    Watchdog = FALSE
    IPC_CTX_MAX = 2
    IPC_WAKE_BATCH_LIMIT = 2
    MaxCalls = 3
    MaxSteps = 0
PROPERTIES
    CallReturns
CHECK_DEADLOCK FALSE
