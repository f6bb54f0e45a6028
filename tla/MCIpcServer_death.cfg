SPECIFICATION Spec
CONSTANTS
    c1 = c1
    c2 = c2
    c3 = c3
    s1 = s1
    s2 = s2
    NoProc = NoProc
    Procs = {c1, c2, s1}
    Servers = {s1}
    Cores = {0}
    Core <- OneCore
    MainCalls <- ClientsCallS1
    HandlerCalls <- NoNestedCalls
    Kinds = {TRUE}
    NonBlock = {}
    MainOps = {"waitpid", "block"}
    Mortal = {c1, s1}
    MaxUuid = 2
    Watchdog = TRUE
    IPC_CTX_MAX = 1
    IPC_WAKE_BATCH_LIMIT = 2
    MaxCalls = 2
    MaxSteps = 0
INVARIANTS
    HandlerOwnsHead
    CallerAttended
    ReplyToAsker
    AnsweredNotFailed
    WaitsForLiving
CHECK_DEADLOCK FALSE
