------------------------------ MODULE ProcLife ------------------------------
(***************************************************************************)
(* Birth and death of tasks (src/kernel/kernel/src/proc.c): the task table, *)
(* fork and thread creation, exit, kill and fatal faults (proc_terminate),  *)
(* waitpid, and the burial of zombies (proc_funeral).                       *)
(*                                                                         *)
(* A core knows what it runs only as a pid (_current_proc), which it looks  *)
(* up in the table; what the cpu really executes and the page tables it     *)
(* really walks are the variables exec and ttbr.  System calls and irqs run *)
(* under kernel_lock, with the schedule() they end in.  The abort handlers  *)
(* do not take it: a fault on another core may terminate the caller of a    *)
(* system call after svc_handler() has found it alive, and between the two  *)
(* halves of an abort handler's proc_exit() the other cores go on.          *)
(***************************************************************************)
EXTENDS Naturals, FiniteSets

CONSTANTS
    MAX_TASK_NUM,       \* slots of the task table
    MAX_PROC_NUM,       \* page directories
    MAX_TASK_PER_PROC,  \* thread stacks of an address space
    Objs,               \* blocks the allocator hands out for a proc_t
    Nil,                \* NULL
    Idle,               \* the idle task of a core, which is always there
    Cores,              \* cpus
    Core0,              \* the one that has the timer
    Calls,              \* the system calls the tasks of each core make
    Faulty,             \* cores whose user code may fault
    MaxBirths           \* bound: tasks created after the first

Pids == 1 .. MAX_TASK_NUM
NoPid == 0
IdlePid == MAX_TASK_NUM + 1

ASSUME ProcLifeAssumption ==
    /\ {MAX_TASK_NUM, MAX_PROC_NUM, MAX_TASK_PER_PROC} \subseteq Nat \ {0}
    /\ IsFiniteSet(Objs) /\ Objs # {} /\ Nil \notin Objs /\ Idle \notin Objs \cup {Nil}
    /\ MaxBirths \in Nat /\ Core0 \in Cores /\ Faulty \subseteq Cores
    /\ Calls \in [Cores -> SUBSET {"fork", "thread", "exit", "kill", "waitpid",
                                  "detach", "setup"}]

VARIABLES
    mem,       \* kernel memory: the proc_ts, the table, the address spaces
    current,   \* _current_proc: the pid each core takes for its task
    exec,      \* the task whose registers each cpu holds
    ttbr,      \* the address space each cpu walks
    dying,     \* the task an abort handler of the core is tearing down
    call,      \* the system call that holds kernel_lock: its core, its caller
               \* (cproc), how far it is, the pid waitpid() was given
    halted,    \* the kernel has stopped
    births,    \* history: tasks created
    hasty      \* history: a task left the table that a core still ran or tore down

vars == <<mem, current, exec, ttbr, dying, call, halted, births, hasty>>

\* space: the task that created the address space stands for it.
NoProc == [pid |-> NoPid, type |-> "PROC", state |-> "FREE", father_pid |-> NoPid,
           wait_for |-> NoPid, core |-> Core0, space |-> Nil]
NoSpace == [used |-> FALSE, refs |-> 0, entry |-> FALSE]
NoCall == [core |-> Core0, proc |-> Nil, step |-> "none", pid |-> NoPid]

Procs == [pid: Pids \cup {NoPid}, type: {"PROC", "THREAD"},
          state: {"FREE", "READY", "RUNNING", "BLOCK", "WAIT", "ZOMBIE"},
          father_pid: Pids \cup {NoPid}, wait_for: Pids \cup {NoPid},
          core: Cores, space: Objs \cup {Nil}]

Spaces == [used: BOOLEAN, refs: 0 .. MAX_TASK_PER_PROC, entry: BOOLEAN]

Memory == [proc: [Objs -> Procs], table: [Pids -> Objs \cup {Nil}],
           space: [Objs -> Spaces], last: 1 .. MAX_TASK_NUM + 1]

SvcCalls == [core: Cores, proc: Objs \cup {Nil}, pid: Pids \cup {NoPid},
             step: {"none", "called", "forked", "parked", "take"}]

TypeOK ==
    /\ mem \in Memory
    /\ current \in [Cores -> Pids \cup {IdlePid}]
    /\ exec \in [Cores -> Objs \cup {Idle}]
    /\ ttbr \in [Cores -> Objs \cup {Idle}]
    /\ dying \in [Cores -> Objs \cup {Nil}] /\ call \in SvcCalls
    /\ halted \in BOOLEAN /\ hasty \in BOOLEAN /\ births \in 0 .. MaxBirths

\* The first process runs on the boot core, with its signal handler set up.
Init ==
    \E o \in Objs :
        /\ mem = [proc  |-> [x \in Objs |->
                      IF x = o THEN [NoProc EXCEPT !.pid = 1, !.state = "RUNNING",
                                                   !.space = o]
                      ELSE NoProc],
                  table |-> [n \in Pids |-> IF n = 1 THEN o ELSE Nil],
                  space |-> [x \in Objs |->
                      IF x = o THEN [used |-> TRUE, refs |-> 0, entry |-> TRUE]
                      ELSE NoSpace],
                  last  |-> 2]
        /\ current = [k \in Cores |-> IF k = Core0 THEN 1 ELSE IdlePid]
        /\ exec = [k \in Cores |-> IF k = Core0 THEN o ELSE Idle]
        /\ ttbr = exec
        /\ dying = [k \in Cores |-> Nil] /\ call = NoCall
        /\ halted = FALSE /\ hasty = FALSE /\ births = 0

-----------------------------------------------------------------------------
(* Looking up.  m is a state of kernel memory.                              *)

InTable(m) == {o \in Objs : m.proc[o].pid # NoPid /\ m.table[m.proc[o].pid] = o}
Zombies(m) == {o \in InTable(m) : m.proc[o].state = "ZOMBIE"}

proc_get(m, pid) ==
    IF pid = NoPid \/ m.table[pid] = Nil THEN Nil
    ELSE IF m.proc[m.table[pid]].state = "ZOMBIE" THEN Nil
    ELSE m.table[pid]

get_current_proc(m, k) ==
    IF current[k] = IdlePid THEN Idle ELSE proc_get(m, current[k])

\* proc_get_proc(): up the chain of fathers to the first PROC.
proc_get_proc(m, o) ==
    LET chain[n \in 0 .. MAX_TASK_NUM] ==
            IF n = 0 THEN o
            ELSE IF chain[n - 1] = Nil \/ m.proc[chain[n - 1]].type = "PROC" THEN chain[n - 1]
            ELSE proc_get(m, m.proc[chain[n - 1]].father_pid)
        top == chain[MAX_TASK_NUM]
    IN  IF top # Nil /\ m.proc[top].type = "PROC" THEN top ELSE Nil

-----------------------------------------------------------------------------
(* schedule() and proc_switch() on core k.                                  *)

\* Mutant: the state of a queued task is not looked at.
Ready_any(m, k) == {o \in InTable(m) : m.proc[o].state \in {"READY", "ZOMBIE"} /\ m.proc[o].core = k}

\* The ready queue of core k.
Ready(m, k) == {o \in InTable(m) : m.proc[o].state = "READY" /\ m.proc[o].core = k}

\* proc_get_next_ready(), or the idle task.
proc_get_next_ready(m, k) ==
    LET ready == Ready(m, k)
        c == get_current_proc(m, k)
    IN  IF ready # {} THEN ready
        ELSE IF c \in Objs /\ m.proc[c].state = "RUNNING" THEN {c}
        ELSE {Idle}

\* Mutant: a core that goes idle keeps the pid of its last task.
set_current_proc_idle(m, k, n) ==
    IF n \in {Idle, get_current_proc(m, k)} THEN current[k] ELSE m.proc[n].pid

set_current_proc(m, k, n) ==
    IF n = Idle THEN IdlePid
    ELSE IF n = get_current_proc(m, k) THEN current[k]
    ELSE m.proc[n].pid

SpaceOf(m, o) == IF o = Idle THEN Idle ELSE m.proc[o].space

\* A switch from a task to itself resumes the registers it came with.
schedule(m, k) ==
    LET c == get_current_proc(m, k) IN
    \E n \in proc_get_next_ready(m, k) :
        /\ mem' = [m EXCEPT !.proc = [o \in Objs |->
               IF o = n THEN [@[o] EXCEPT !.state = "RUNNING"]
               ELSE IF o = c /\ @[o].state = "RUNNING" THEN [@[o] EXCEPT !.state = "READY"]
               ELSE @[o]]]
        /\ exec' = [exec EXCEPT ![k] = IF n = c THEN @ ELSE n]
        /\ ttbr' = [ttbr EXCEPT ![k] =
               IF c # Nil /\ SpaceOf(m, c) = SpaceOf(m, n) THEN @ ELSE SpaceOf(m, n)]
        /\ current' = [current EXCEPT ![k] = set_current_proc(m, k, n)]

-----------------------------------------------------------------------------
(* Death: proc_terminate() in two halves.                                   *)

Marked(m, o) == [m EXCEPT !.proc[o].state = "ZOMBIE"]

Children(m, pid) == {c \in InTable(m) : m.proc[c].father_pid = pid}

\* Its threads are terminated with a process ...
TerminatedWith(m, pid, type) ==
    {c \in Children(m, pid) : type = "PROC" /\ m.proc[c].type = "THREAD"
                              /\ m.proc[c].state # "ZOMBIE"}

\* ... and its child processes get SYS_SIG_STOP: proc_signal_send() makes ready
\* every one that has a signal entry, whatever its state.
Signalled(m, pid, type) ==
    {c \in Children(m, pid) : type = "PROC" /\ m.proc[c].type = "PROC"
                              /\ m.space[m.proc[c].space].entry}

\* Mutant: only the waiters for the process itself are woken.
Mourned_one(m, pid, type) == {pid}

\* The pids whose waiters proc_wakeup_waiting() releases.
Mourned(m, pid, type) == {pid} \cup {m.proc[c].pid : c \in TerminatedWith(m, pid, type)}

\* What proc_terminate() does after the mark, for a task with this pid and type.
Bereaved(m, pid, type) ==
    LET threads == TerminatedWith(m, pid, type)
        signalled == Signalled(m, pid, type)
        mourned == Mourned(m, pid, type)
        woken == {c \in InTable(m) : m.proc[c].state = "WAIT" /\ m.proc[c].wait_for \in mourned}
    IN
    [m EXCEPT !.proc = [c \in Objs |->
        IF c \in threads
        THEN [@[c] EXCEPT !.state = "ZOMBIE", !.father_pid = NoPid, !.wait_for = NoPid]
        ELSE IF c \in signalled \cup woken
        THEN [@[c] EXCEPT !.state = "READY", !.wait_for = NoPid]
        ELSE IF type = "THREAD" /\ m.table[pid] = c
        THEN [@[c] EXCEPT !.father_pid = NoPid]
        ELSE @[c]]]

proc_terminate(m, o) ==
    Bereaved(Marked(m, o), m.proc[o].pid, m.proc[o].type)

-----------------------------------------------------------------------------
(* Burial: proc_take_zombie_by_pid(), proc_take_next_zombie(),              *)
(* proc_funeral().                                                         *)

\* Mutant: a process is buried while it still has threads.
Left_none(m, B, s) == 0

\* space->refs once the threads of B are buried.
Left(m, B, s) ==
    m.space[s].refs - Cardinality({o \in B : m.proc[o].type = "THREAD" /\ m.proc[o].space = s})

\* proc_funeral() on core k of the tasks B, which are no longer in the table.
\* Nothing is done when the core's current task is itself dead.
proc_funeral(m, k, B) ==
    LET procs == {o \in B : m.proc[o].type = "PROC"}
        out == [m EXCEPT !.table = [n \in Pids |-> IF @[n] \in B THEN Nil ELSE @[n]]]
    IN  IF get_current_proc(m, k) = Nil THEN out
        ELSE [out EXCEPT
                !.proc = [o \in Objs |-> IF o \in B THEN NoProc ELSE @[o]],
                !.space = [s \in Objs |-> IF s \in procs THEN NoSpace
                                          ELSE [@[s] EXCEPT !.refs = Left(m, B, s)]]]

\* Within the grace time a zombie is kept for its father's waitpid().
Claimed(m, o) ==
    /\ m.proc[o].father_pid \in Pids
    /\ proc_get(m, m.proc[o].father_pid) # Nil

\* proc_zombie_funeral(): dead threads first, then the processes that have none
\* left.  expired: the zombies older than ZOMBIE_TIMEOUT.
Reaped(m, k, force, expired) ==
    LET threads == {o \in Zombies(m) : m.proc[o].type = "THREAD"}
        buried == IF get_current_proc(m, k) = Nil THEN {} ELSE threads
    IN  threads \cup
        {o \in Zombies(m) : /\ m.proc[o].type = "PROC"
                            /\ Left(m, buried, m.proc[o].space) = 0
                            /\ force \/ o \in expired \/ ~Claimed(m, o)}

InUse == {exec[k] : k \in Cores} \cup {dying[k] : k \in Cores}

\* Does a task of B leave the table too early?
Hasty(B) == hasty \/ B \cap InUse # {}

-----------------------------------------------------------------------------
(* System calls of the current task of core k.                              *)

\* The kernel is up.  What a core does that runs or tears down a task that has
\* left the table depends on what becomes of the memory: it is not followed.
Up == ~halted /\ ~hasty

\* No system call holds kernel_lock.
Unlocked == call.step = "none"

UserMode(k) == Up /\ dying[k] = Nil /\ exec[k] # Idle /\ (Unlocked \/ call.core # k)

\* svc_handler() finds its caller alive and enters the system call.
svc_handler(k) ==
    LET c == get_current_proc(mem, k) IN
    /\ UserMode(k) /\ Unlocked /\ c \in Objs
    /\ call' = [core |-> k, proc |-> c, step |-> "called", pid |-> NoPid]
    /\ UNCHANGED <<mem, current, exec, ttbr, dying, halted, births, hasty>>

InStep(k, step) == Up /\ call.step = step /\ call.core = k

\* The handler of system call op has cproc = c, which may be dead by now.
Caller(k, op, c) == op \in Calls[k] /\ InStep(k, "called") /\ c = call.proc

\* A system call that has no effect on tasks.
svc_return(k) ==
    /\ InStep(k, "called")
    /\ call' = NoCall
    /\ UNCHANGED <<mem, current, exec, ttbr, dying, halted, births, hasty>>

\* The caller died before the handler looked it up again: proc_exit() and
\* proc_waitpid() test for NULL, the others fault on it, in the kernel.
CallerGone(k) ==
    /\ InStep(k, "called") /\ Calls[k] \ {"exit", "waitpid"} # {}
    /\ get_current_proc(mem, k) = Nil
    /\ call' = NoCall /\ halted' = TRUE
    /\ UNCHANGED <<mem, current, exec, ttbr, dying, births, hasty>>

\* The slot proc_create() takes: the first free one from _last_create_pid on.
FreeSlots(m) == {n \in Pids : m.table[n] = Nil}
Distance(m, n) == (n + MAX_TASK_NUM + 1 - m.last) % MAX_TASK_NUM
Slot(m) == CHOOSE n \in FreeSlots(m) : \A x \in FreeSlots(m) : Distance(m, n) <= Distance(m, x)

\* A page directory for a process, a thread stack for a thread.
Room(m, type, c) ==
    IF type = "PROC" THEN Cardinality({s \in Objs : m.space[s].used}) < MAX_PROC_NUM
    ELSE m.space[m.proc[c].space].refs < MAX_TASK_PER_PROC

\* A creation that fails after it chose a slot has moved _last_create_pid.
Failed(m) == IF FreeSlots(m) = {} THEN m ELSE [m EXCEPT !.last = Slot(m) + 1]

\* Mutant: a thread is not counted.
Created_uncounted(m, type, c, o, core) ==
    LET s == IF type = "PROC" THEN o ELSE m.proc[c].space IN
    [m EXCEPT !.table[Slot(m)] = o, !.last = Slot(m) + 1,
              !.proc[o] = [pid |-> Slot(m), type |-> type, state |-> "READY", wait_for |-> NoPid,
                           father_pid |-> m.proc[c].pid, core |-> core, space |-> s],
              !.space[s] = IF type = "PROC" THEN [NoSpace EXCEPT !.used = TRUE] ELSE @]

Created(m, type, c, o, core) ==
    LET s == IF type = "PROC" THEN o ELSE m.proc[c].space IN
    [m EXCEPT !.table[Slot(m)] = o, !.last = Slot(m) + 1,
              !.proc[o] = [pid |-> Slot(m), type |-> type, state |-> "READY", wait_for |-> NoPid,
                           father_pid |-> m.proc[c].pid, core |-> core, space |-> s],
              !.space[s] = IF type = "PROC" THEN [NoSpace EXCEPT !.used = TRUE]
                           ELSE [@ EXCEPT !.refs = m.space[s].refs + 1]]

\* The kernel memory in which kfork_raw() creates the task: when there is no
\* room it buries every zombie and tries once more.
Reap(m, k) == Reaped(m, k, TRUE, {})
ForkMemory(k, type, c) ==
    IF FreeSlots(mem) # {} /\ Room(mem, type, c) THEN mem
    ELSE proc_funeral(Failed(mem), k, Reap(mem, k))

\* Blocks of memory that nothing refers to (one freed in the same call is not
\* handed out again at once).
Unused == {o \in Objs : mem.proc[o].state = "FREE"} \ (InUse \cup {ttbr[k] : k \in Cores})

\* kfork() reads the type of a task that could not be created.
kfork_fails(k, type, c) ==
    LET m == ForkMemory(k, type, c) IN
    /\ FreeSlots(m) = {} \/ ~Room(m, type, c)
    /\ mem' = Failed(m)
    /\ halted' = TRUE /\ call' = NoCall
    /\ hasty' = Hasty(Reap(mem, k))
    /\ UNCHANGED <<current, exec, ttbr, dying, births>>

\* SYS_THREAD: the thread is ready at once.
sys_thread(k, c) ==
    /\ Caller(k, "thread", c) /\ births < MaxBirths
    /\ \/ kfork_fails(k, "THREAD", c)
       \/ LET m == ForkMemory(k, "THREAD", c) IN
          /\ FreeSlots(m) # {} /\ Room(m, "THREAD", c)
          /\ \E o \in Unused, core \in Cores : mem' = Created(m, "THREAD", c, o, core)
          /\ hasty' = IF m = mem THEN hasty ELSE Hasty(Reap(mem, k))
          /\ births' = births + 1 /\ call' = NoCall
          /\ UNCHANGED <<current, exec, ttbr, dying, halted>>

\* SYS_FORK: kfork(), then sys_fork() looks its caller up again.  The child is
\* not scheduled before the core daemon has cloned the user-space half.
sys_fork(k, c) ==
    /\ Caller(k, "fork", c) /\ births < MaxBirths
    /\ \/ kfork_fails(k, "PROC", c)
       \/ LET m == ForkMemory(k, "PROC", c) IN
          /\ FreeSlots(m) # {} /\ Room(m, "PROC", c)
          /\ \E o \in Unused, core \in Cores :
                mem' = [Created(m, "PROC", c, o, core) EXCEPT !.proc[o].state = "BLOCK"]
          /\ hasty' = IF m = mem THEN hasty ELSE Hasty(Reap(mem, k))
          /\ births' = births + 1
          /\ halted' = (get_current_proc(mem, k) = Nil)
          /\ call' = IF halted' THEN NoCall ELSE [call EXCEPT !.step = "forked"]
          /\ UNCHANGED <<current, exec, ttbr, dying>>

\* ... and parks it, without a look at its state.
sys_fork_park(k) ==
    /\ InStep(k, "forked")
    /\ schedule([mem EXCEPT !.proc[call.proc].state = "BLOCK"], k)
    /\ call' = NoCall
    /\ UNCHANGED <<dying, halted, births, hasty>>

\* The core daemon wakes a parked task.
DaemonWake(o) ==
    /\ Up /\ Unlocked /\ o \in InTable(mem) /\ mem.proc[o].state = "BLOCK"
    /\ mem' = [mem EXCEPT !.proc[o].state = "READY"]
    /\ UNCHANGED <<current, exec, ttbr, dying, call, halted, births, hasty>>

\* SYS_EXIT: proc_exit(current), which leaves a dead task alone.
sys_exit(k, c) ==
    /\ Caller(k, "exit", c)
    /\ schedule(IF c \in Zombies(mem) THEN mem ELSE proc_terminate(mem, c), k)
    /\ call' = NoCall
    /\ UNCHANGED <<dying, halted, births, hasty>>

\* SYS_SIGNAL with KILL or STOP, to a task that neither runs nor is ready (the
\* others get the signal delivered and exit by themselves).
sys_signal(k, c, pid) ==
    LET o == proc_get(mem, pid) IN
    /\ Caller(k, "kill", c)
    /\ o \notin {Nil, c} /\ mem.proc[o].state \notin {"RUNNING", "READY"}
    /\ schedule(proc_terminate(mem, o), k)
    /\ call' = NoCall
    /\ UNCHANGED <<dying, halted, births, hasty>>

\* SYS_PROC_DETACH.
sys_detach(k, c) ==
    /\ Caller(k, "detach", c)
    /\ mem' = [mem EXCEPT !.proc[c].father_pid = NoPid]
    /\ call' = NoCall
    /\ UNCHANGED <<current, exec, ttbr, dying, halted, births, hasty>>

\* SYS_SIGNAL_SETUP, which libc does when a program starts.
proc_signal_setup(k, c) ==
    /\ Caller(k, "setup", c)
    /\ mem' = [mem EXCEPT !.space[mem.proc[c].space].entry = TRUE]
    /\ call' = NoCall
    /\ UNCHANGED <<current, exec, ttbr, dying, halted, births, hasty>>

\* SYS_WAIT_PID of a task that is there, under the proc lock: a zombie is left
\* for the burial; for a task that lives cproc is made to wait, without a look at
\* its own state.
proc_waitpid(k, c, pid) ==
    LET o == mem.table[pid] IN
    /\ Caller(k, "waitpid", c)
    /\ o # Nil
    /\ IF o \in Zombies(mem)
       THEN /\ call' = [call EXCEPT !.step = "take", !.pid = pid]
            /\ UNCHANGED mem
       ELSE /\ call' = [call EXCEPT !.step = "parked", !.pid = pid]
            /\ mem' = [mem EXCEPT !.proc[c].state = "WAIT", !.proc[c].wait_for = pid]
    /\ UNCHANGED <<current, exec, ttbr, dying, halted, births, hasty>>

\* The lock is released, the caller scheduled away ...
waitpid_schedule(k) ==
    /\ InStep(k, "parked")
    /\ schedule(mem, k)
    /\ call' = [call EXCEPT !.step = "take"]
    /\ UNCHANGED <<dying, halted, births, hasty>>

\* ... and the zombie buried, if it is one that can be.
waitpid_take(k) ==
    LET o == mem.table[call.pid]
        B == IF o \in Zombies(mem) /\ (mem.proc[o].type = "PROC" => mem.space[mem.proc[o].space].refs = 0)
             THEN {o} ELSE {}
    IN
    /\ InStep(k, "take")
    /\ mem' = proc_funeral(mem, k, B)
    /\ hasty' = Hasty(B)
    /\ call' = NoCall
    /\ UNCHANGED <<current, exec, ttbr, dying, halted, births>>

\* svc_handler(), or an irq, of a task that another core has terminated.
svc_handler_dead(k) ==
    /\ UserMode(k) /\ Unlocked /\ get_current_proc(mem, k) = Nil
    /\ schedule(mem, k)
    /\ UNCHANGED <<dying, call, halted, births, hasty>>

-----------------------------------------------------------------------------
(* Interrupts and faults.                                                  *)

\* The timer of the boot core; once a second it buries the dead.
irq_do_timer0(second, expired) ==
    LET B == IF second THEN Reaped(mem, Core0, FALSE, expired) ELSE {} IN
    /\ Up /\ Unlocked /\ dying[Core0] = Nil
    /\ schedule(proc_funeral(mem, Core0, B), Core0)
    /\ hasty' = Hasty(B)
    /\ UNCHANGED <<dying, call, halted, births>>

\* The other cores reschedule when a task of theirs was made ready.
Ipi(k) ==
    /\ Up /\ Unlocked /\ k # Core0 /\ dying[k] = Nil
    /\ Ready(mem, k) # {}
    /\ schedule(mem, k)
    /\ UNCHANGED <<dying, call, halted, births, hasty>>

\* A fatal fault: the abort handler terminates the process of the task, or the
\* task when it has none.  A fault of a dead task is taken for one of the kernel.
FaultBegin(k) ==
    LET c == get_current_proc(mem, k)
        v == IF proc_get_proc(mem, c) # Nil THEN proc_get_proc(mem, c) ELSE c
    IN
    /\ k \in Faulty /\ UserMode(k)
    /\ IF c = Nil
       THEN halted' = TRUE /\ UNCHANGED <<mem, dying>>
       ELSE /\ mem' = Marked(mem, v)
            /\ dying' = [dying EXCEPT ![k] = v]
            /\ UNCHANGED halted
    /\ UNCHANGED <<current, exec, ttbr, call, births, hasty>>

\* The rest of the teardown.
FaultEnd(k) ==
    LET v == dying[k] IN
    /\ Up /\ v # Nil
    /\ schedule(Bereaved(mem, mem.proc[v].pid, mem.proc[v].type), k)
    /\ dying' = [dying EXCEPT ![k] = Nil]
    /\ UNCHANGED <<call, halted, births, hasty>>

-----------------------------------------------------------------------------
Next ==
    \/ \E o \in Objs : DaemonWake(o)
    \/ \E k \in Cores :
          \/ svc_handler(k) \/ svc_return(k) \/ CallerGone(k)
          \/ \E c \in Objs \cap {call.proc} :
                \/ sys_fork(k, c) \/ sys_thread(k, c) \/ sys_exit(k, c)
                \/ sys_detach(k, c) \/ proc_signal_setup(k, c)
                \/ \E pid \in Pids : sys_signal(k, c, pid) \/ proc_waitpid(k, c, pid)
          \/ sys_fork_park(k) \/ waitpid_schedule(k) \/ waitpid_take(k)
          \/ svc_handler_dead(k) \/ Ipi(k) \/ FaultBegin(k) \/ FaultEnd(k)
    \/ irq_do_timer0(FALSE, {})
    \/ \E expired \in SUBSET {o \in Zombies(mem) : Claimed(mem, o)} : irq_do_timer0(TRUE, expired)

Spec == Init /\ [][Next]_vars

-----------------------------------------------------------------------------
(* Properties.                                                             *)

Allocated == {o \in Objs : mem.proc[o].state # "FREE"}

\* The count that keeps an address space from being freed is the number of its
\* threads, those included that left the table and were not freed.
RefsExact ==
    \A s \in Objs : mem.space[s].used =>
        mem.space[s].refs = Cardinality({o \in Allocated : mem.proc[o].type = "THREAD"
                                                           /\ mem.proc[o].space = s})

\* A task that may still be scheduled has its address space and its slot.
SpaceKept ==
    \A o \in Allocated : mem.proc[o].state # "ZOMBIE" =>
        mem.space[mem.proc[o].space].used /\ mem.table[mem.proc[o].pid] = o

\* A task that waits for another one waits for one that is alive, or whose
\* teardown has yet to wake its waiters.
WaiterAttended ==
    ~hasty => \A o \in Allocated : mem.proc[o].state = "WAIT" =>
        \/ proc_get(mem, mem.proc[o].wait_for) # Nil
        \/ \E k \in Cores : dying[k] # Nil /\ dying[k] = mem.table[mem.proc[o].wait_for]

\* A terminated thread is never resumed, save by the call it is in: a fault on
\* another core may terminate the caller before the call parks it.
DeadThreadStays ==
    [][\A o \in Objs :
           /\ mem.proc[o].type = "THREAD" /\ mem.proc[o].state = "ZOMBIE"
           /\ call.step \in {"called", "forked"} => call.proc # o
           => mem'.proc[o].state \in {"ZOMBIE", "FREE"}]_vars

\* Two cores never execute the same task, and what a core takes for its current
\* task is the one it executes.
OwnTask ==
    ~hasty => \A k \in Cores :
        get_current_proc(mem, k) \in {exec[k], Nil} /\ \A j \in Cores \ {k} :
            exec[j] = exec[k] => exec[k] = Idle

-----------------------------------------------------------------------------
(* Statements of the code's comments that TLC refutes; see the README.      *)

\* svc_handler(): "never resume a terminated context".
NeverResumed ==
    [][\A o \in Objs : mem.proc[o].state = "ZOMBIE"
                       => mem'.proc[o].state \in {"ZOMBIE", "FREE"}]_vars

\* The same for threads; it is proved for one core, and without faults.
ThreadNeverResumed ==
    [][\A o \in Objs : mem.proc[o].type = "THREAD" /\ mem.proc[o].state = "ZOMBIE"
                       => mem'.proc[o].state \in {"ZOMBIE", "FREE"}]_vars

\* proc_funeral(): an address space is kept while a thread runs in it.
RunningSpaceKept == \A k \in Cores : ttbr[k] # Idle => mem.space[ttbr[k]].used

\* proc_terminate(): what a dead thread holds is released once it is reaped.
NothingLost == Allocated \subseteq InTable(mem)

\* proc_get_proc() finds the process a thread belongs to.
OwnerIsOwn ==
    \A o \in InTable(mem) \ Zombies(mem) : proc_get_proc(mem, o) # Nil =>
        proc_get_proc(mem, o) = mem.proc[o].space

\* proc_terminate(): "after the whole scene is torn down" no thread is left.
NoSurvivor ==
    \A o \in Allocated : mem.proc[o].type = "THREAD" /\ mem.proc[o].state # "ZOMBIE"
        => LET s == mem.proc[o].space IN
           mem.proc[s].state = "ZOMBIE" => \E k \in Cores : dying[k] = s

\* sys_fork() and sys_thread() return -1 when no task can be created.
NoHalt == ~halted
=============================================================================
