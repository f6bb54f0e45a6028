SPECIFICATION Spec
CONSTANTS
    c1 = c1
    c2 = c2
    c3 = c3
    w1 = w1
    w2 = w2
    NoProc = NoProc
    Clients = {c1, c2}
    Pids = {w1, w2}
    Core <- TwoCores
    Modes = {TRUE, FALSE}
    Kinds = {TRUE, FALSE}
    PoolNum = 2
    Stacks = 2
    IPC_CTX_MAX = 2
    IPC_WAKE_BATCH_LIMIT = 2
    Watchdog = TRUE
    Events = {"sleep", "shrink", "disable", "exit", "die", "wake"}
    MaxCalls = 2
SYMMETRY PidSymmetry
INVARIANT HandlerAgreement
INVARIANT MembersRegistered
INVARIANT OneAtATime
INVARIANT CallerAttended
INVARIANT RepliesDelivered
INVARIANT NoForgottenWaiter
PROPERTY NotStartedOver
CHECK_DEADLOCK FALSE
