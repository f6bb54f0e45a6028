SPECIFICATION FairSpec
CONSTANTS
    c1 = c1
    c2 = c2
    c3 = c3
    w1 = w1
    w2 = w2
    NoProc = NoProc
    Clients = {c1, c2}
    Pids = {w1}
    Core <- TwoCores
    Modes = {TRUE, FALSE}
    Kinds = {TRUE, FALSE}
    PoolNum = 2
    Stacks = 1
    IPC_CTX_MAX = 2
    IPC_WAKE_BATCH_LIMIT = 1
    Watchdog = FALSE
    Events = {"shrink", "exit", "sleep"}
    MaxCalls = 3
PROPERTY CallReturns
CHECK_DEADLOCK FALSE
