SPECIFICATION Spec
CONSTANTS
    k0 = k0
    k1 = k1
    o1 = o1
    o2 = o2
    o3 = o3
    o4 = o4
    MAX_TASK_NUM = 3
    MAX_PROC_NUM = 2
    MAX_TASK_PER_PROC = 2
    Objs = {o1, o2, o3}
    Nil = Nil
    Idle = Idle
    Cores = {k0, k1}
    Core0 = k0
    Calls <- LifeCalls
    Faulty = {k1}
    MaxBirths = 3
SYMMETRY Symmetry
INVARIANTS
    RefsExact
    SpaceKept
    WaiterAttended
    OwnTask

    
CHECK_DEADLOCK FALSE
