----------------------------- MODULE Semaphore -----------------------------
(***************************************************************************)
(* Kernel semaphores (src/kernel/kernel/src/semaphore.c), the libc loops   *)
(* that drive them (libewoksys/ewoksys/src/semaphore.c) and the teardown   *)
(* of the tasks that use them (proc_terminate in proc.c).                  *)
(*                                                                         *)
(* Granularity.  A system call runs under kernel_lock, so at most one is   *)
(* in progress: the variable sys.  Inside it, every section under the proc *)
(* lock is one atomic step.  A fatal fault is NOT under kernel_lock: the   *)
(* abort handlers call proc_exit directly, so its teardown steps interleave *)
(* with the sections of a call that another core is executing.             *)
(***************************************************************************)
EXTENDS TaskState, Integers, FiniteSets

CONSTANTS
    Tasks,            \* task ids (pids)
    Owner,            \* Owner[t]: the PROC a task belongs to; Owner[p] = p
    NoTask,           \* pid -1
    SEMAPHORE_MAX,    \* number of semaphores
    SEM_WAITER_MAX,   \* slots of the wait table
    COUNT_MAX,        \* SEMAPHORE_COUNT_MAX: ceiling of a counting semaphore
    SEQ_MOD,          \* 2^32, the range of _waiter_seq
    OtherTokens,      \* tokens of the other wakes: 0, vfs nodes
    Cores,            \* number of cpus
    Woken,            \* tasks that those wakes reach
    Requests,         \* the system calls each task makes
    Faulty,           \* the tasks whose code may fault
    Servers           \* the PROCs that are single-task ipc servers

Sems == 1 .. SEMAPHORE_MAX
Slots == 1 .. SEM_WAITER_MAX
NoSlot == 0
Token == {Generic} \cup Sems \cup OtherTokens
Ops == {"alloc", "alloc_count", "free", "enter", "enter_timeout",
        "try_enter", "quit", "exit"}

ASSUME ConstantsAssumption ==
    /\ NoTask \notin Tasks
    /\ Owner \in [Tasks -> Tasks]
    /\ \A t \in Tasks : Owner[Owner[t]] = Owner[t]
    /\ SEMAPHORE_MAX \in Nat /\ SEM_WAITER_MAX \in Nat
    /\ COUNT_MAX \in Nat /\ COUNT_MAX > 1
    /\ SEQ_MOD \in Nat /\ SEQ_MOD > 0
    /\ OtherTokens \subseteq Nat \ Sems
    /\ Cores \in Nat
    /\ Requests \in [Tasks -> SUBSET Ops]
    /\ Woken \subseteq Tasks /\ Faulty \subseteq Tasks
    /\ Servers \subseteq {Owner[t] : t \in Tasks}

VARIABLES
    task,         \* block/wake state of every task
    oncpu,        \* tasks that are some core's current task
    stage,        \* progress of proc_terminate for every task
    serving,      \* PROCs with a single-task ipc request to serve
    handler,      \* PROCs whose main context was hijacked to run the handler
    main,         \* ... and the wait the main context is then in
    sem,          \* _semaphores
    waiters,      \* _waiters
    waiter_seq,   \* _waiter_seq
    sys,          \* the system call in progress (holder of kernel_lock)
    want,         \* libc: the semaphore a task is trying to enter
    holds,        \* history: binary semaphores a task has acquired
    permits,      \* history: permits put into a semaphore and not yet taken
    orphans,      \* history: waiters whose queue was purged, until they return
    ahead,        \* history: who queued before the waiter in a slot and still waits
    wrapped       \* history: _waiter_seq has overflowed

ipc == <<serving, handler, main>>
vars == <<task, oncpu, stage, ipc, sem, waiters, waiter_seq, sys, want,
          holds, permits, orphans, ahead, wrapped>>
user == <<want, holds, permits, orphans>>
history == <<ahead, wrapped>>

-----------------------------------------------------------------------------
Semaphores ==
    [creater: Tasks \cup {NoTask}, count: Nat, max_count: Nat \ {0},
     occupied_pid: Tasks \cup {NoTask}]

FreeSem == [creater |-> NoTask, count |-> 0, max_count |-> 1,
            occupied_pid |-> NoTask]

Waiters == [sem: Sems \cup {0}, pid: Tasks \cup {NoTask},
            seq: 0 .. SEQ_MOD - 1, granted: BOOLEAN]

FreeSlot == [sem |-> 0, pid |-> NoTask, seq |-> 0, granted |-> FALSE]

\* slot: the wait-table index kept across the unlocked window of enter.
NoCall == [pid |-> NoTask, op |-> "none", sem |-> 0, slot |-> NoSlot]
Calls ==
    {NoCall}
    \cup [pid: Tasks, op: Ops \cup {"exiting"}, sem: Sems, slot: {NoSlot}]
    \cup [pid: Tasks, op: {"enter", "enter_timeout"}, sem: Sems, slot: Slots]

NoWait == [sem |-> 0, timed |-> FALSE]
Waits == [sem: Sems \cup {0}, timed: BOOLEAN]

Stages == {"alive", "fault", "zombie", "reset", "gone"}

TypeOK ==
    /\ task \in [Tasks -> TaskRecord(Token)]
    /\ oncpu \subseteq Tasks
    /\ stage \in [Tasks -> Stages]
    /\ serving \subseteq Tasks /\ handler \subseteq Tasks
    /\ main \in [Tasks -> Waits]
    /\ sem \in [Sems -> Semaphores]
    /\ waiters \in [Slots -> Waiters]
    /\ waiter_seq \in 0 .. SEQ_MOD - 1
    /\ sys \in Calls
    /\ want \in [Tasks -> Waits]
    /\ holds \in [Tasks -> SUBSET Sems]
    /\ permits \in [Sems -> Int]
    /\ orphans \subseteq Tasks
    /\ ahead \in [Slots -> SUBSET Tasks]
    /\ wrapped \in BOOLEAN

Init ==
    /\ task = [t \in Tasks |-> NewTask("READY")]
    /\ oncpu = {}
    /\ stage = [t \in Tasks |-> "alive"]
    /\ serving = {} /\ handler = {}
    /\ main = [t \in Tasks |-> NoWait]
    /\ sem = [s \in Sems |-> FreeSem]
    /\ waiters = [i \in Slots |-> FreeSlot]
    /\ waiter_seq = 0
    /\ sys = NoCall
    /\ want = [t \in Tasks |-> NoWait]
    /\ holds = [t \in Tasks |-> {}]
    /\ permits = [s \in Sems |-> 0]
    /\ orphans = {}
    /\ ahead = [i \in Slots |-> {}]
    /\ wrapped = FALSE

-----------------------------------------------------------------------------
(* Helpers of semaphore.c.  w is a state of the wait table.                *)

Live(t) == proc_get(task[t])
IsProc(t) == Owner[t] = t

sem_valid_idx(s) == sem[s].creater # NoTask
sem_is_binary(s) == sem[s].max_count = 1
sem_occupied(s) == sem[s].count = 0

sem_waiter_find(s, t) ==
    IF \E i \in Slots : waiters[i].sem = s /\ waiters[i].pid = t
    THEN CHOOSE i \in Slots : waiters[i].sem = s /\ waiters[i].pid = t
    ELSE NoSlot

\* Lowest free slot of the wait table, NoSlot when it is full.
sem_waiter_free ==
    LET free == {i \in Slots : waiters[i].sem = 0}
    IN  IF free = {} THEN NoSlot ELSE CHOOSE i \in free : \A j \in free : i <= j

\* Mutant: only a place with a permit is given back.
sem_waiter_del_granted(w, i, t) ==
    IF i \in Slots /\ w[i].granted /\ w[i].pid = t
    THEN [w EXCEPT ![i] = FreeSlot]
    ELSE w

sem_waiter_del(w, i, t) ==
    IF i \in Slots /\ w[i].sem # 0 /\ w[i].pid = t
    THEN [w EXCEPT ![i] = FreeSlot]
    ELSE w

\* Mutant: table order instead of arrival order.
Before_slot(w, i, j) == i < j

\* sem_waiter_head: smaller seq first, the lower slot among equals.
Before(w, i, j) ==
    \/ w[i].seq < w[j].seq
    \/ w[i].seq = w[j].seq /\ i < j

\* Mutant: the scan stops one slot early.
Queue_short(w, s) == {i \in 1 .. SEM_WAITER_MAX - 1 : w[i].sem = s /\ ~w[i].granted}

Queue(w, s) == {i \in Slots : w[i].sem = s /\ ~w[i].granted}

\* The waiter sem_handoff() settles on: the oldest one that is not dead.
HandoffSlot(w, s) ==
    LET q == {i \in Queue(w, s) : Live(w[i].pid)}
    IN  IF q = {} THEN NoSlot
        ELSE CHOOSE i \in q : \A j \in q \ {i} : Before(w, i, j)

\* Dead waiters sem_handoff() meets on its way are dropped.
Dropped(w, s, i) ==
    /\ i \in Queue(w, s)
    /\ ~Live(w[i].pid)
    /\ HandoffSlot(w, s) = NoSlot \/ Before(w, i, HandoffSlot(w, s))

\* sem_handoff() on every semaphore of S, each of which has a permit to give.
HandoffWaiters(w, S) ==
    [i \in Slots |->
        IF w[i].sem \notin S THEN w[i]
        ELSE IF i = HandoffSlot(w, w[i].sem) THEN [w[i] EXCEPT !.granted = TRUE]
        ELSE IF Dropped(w, w[i].sem, i) THEN FreeSlot
        ELSE w[i]]

\* Mutant: the permit is handed over and stays in the count.
HandoffSem_keep(w, s, c) ==
    LET i == HandoffSlot(w, s)
    IN  IF i = NoSlot THEN c
        ELSE [c EXCEPT !.occupied_pid = IF c.max_count = 1 THEN w[i].pid ELSE @]

\* c is the semaphore just after a permit came back (count > 0).
HandoffSem(w, s, c) ==
    LET i == HandoffSlot(w, s)
    IN  IF i = NoSlot THEN c
        ELSE [c EXCEPT !.count = @ - 1,
                       !.occupied_pid = IF c.max_count = 1 THEN w[i].pid ELSE @]

\* The wakes of one task for the semaphores of T.  It has slots of two of them
\* only when it is awake, and its latch tells that it was woken, not by which.
WakeBy(p, T) ==
    IF T = {} THEN p
    ELSE proc_wakeup_by(p, IF p.block_by \in T THEN p.block_by ELSE CHOOSE s \in T : TRUE)

\* Mutant: the permit is handed over without a wake.
HandoffTask_silent(w, S) == task

HandoffTask(w, S) ==
    [t \in Tasks |-> WakeBy(task[t],
        {s \in S : HandoffSlot(w, s) # NoSlot /\ w[HandoffSlot(w, s)].pid = t})]

\* Mutant: the queue goes away without a wake.
sem_waiter_purge_silent(S) == task

\* sem_waiter_purge_locked(): the tasks queued on the semaphores of S wake up.
sem_waiter_purge(S) ==
    [t \in Tasks |-> WakeBy(task[t],
        {s \in S : \E i \in Slots : waiters[i].sem = s /\ waiters[i].pid = t})]

\* sem_reset() on every semaphore of S: empty its queue and forget it.
sem_reset(S) ==
    /\ waiters' = [i \in Slots |->
           IF waiters[i].sem \in S THEN FreeSlot
           ELSE waiters[i]]
    /\ task' = sem_waiter_purge(S)
    /\ sem' = [s \in Sems |-> IF s \in S THEN FreeSem ELSE sem[s]]
    /\ holds' = [t \in Tasks |-> holds[t] \ S]
    /\ permits' = [s \in Sems |-> IF s \in S THEN 0 ELSE permits[s]]
    /\ orphans' = orphans \cup
           {waiters[i].pid : i \in {j \in Slots : waiters[j].sem \in S}}

\* Who is still queued (without a permit) in front of whom.
Tidy(a, w) ==
    [i \in Slots |-> {u \in a[i] : w[i].sem # 0 /\ \E j \in Slots :
        w[j].sem = w[i].sem /\ w[j].pid = u /\ ~w[j].granted}]

-----------------------------------------------------------------------------
(* Scheduling: schedule()/proc_switch() choose any READY task, the timer    *)
(* preempts any running one.                                               *)

\* An interrupt can be taken: kernel_lock is free and, on a single core, no
\* abort handler is running (it keeps interrupts disabled).
IrqOn ==
    /\ sys.pid = NoTask
    /\ Cores = 1 => \A t \in oncpu : stage[t] = "alive"

\* The context of the handler is injected: the main context is saved with the
\* wait it is in, and the handler starts outside any wait.
Hijack(p) ==
    /\ handler' = handler \cup {p}
    /\ main' = [main EXCEPT ![p] = want[p]]
    /\ want' = [want EXCEPT ![p] = NoWait]

\* proc_switch() injects the handler of a request that waits for its server.
Dispatch(t) ==
    /\ task[t].state = "READY" /\ stage[t] # "fault"
    /\ IF t \in oncpu THEN IrqOn ELSE Cardinality(oncpu) < Cores
    /\ task' = [task EXCEPT ![t].state = "RUNNING"]
    /\ oncpu' = oncpu \cup {t}
    /\ IF t \in serving \ handler THEN Hijack(t) ELSE UNCHANGED <<handler, main, want>>
    /\ UNCHANGED <<stage, serving, sem, waiters, waiter_seq, sys, holds, permits,
                   orphans, history>>

Preempt(t) ==
    /\ t \in oncpu /\ IrqOn /\ Live(t) /\ stage[t] # "fault"
    /\ task' = [task EXCEPT ![t].state = "READY"]
    /\ oncpu' = oncpu \ {t}
    /\ UNCHANGED <<stage, ipc, sem, waiters, waiter_seq, sys, user, history>>

\* A wake that is not about a semaphore: ipc return, signal (token 0), or the
\* edge of a vfs node the task once registered on.
OtherWake(t, token) ==
    /\ t \in Woken /\ IrqOn
    /\ task' = [task EXCEPT ![t] = proc_wakeup_by(@, token)]
    /\ UNCHANGED <<oncpu, stage, ipc, sem, waiters, waiter_seq, sys, user,
                   history>>

Timer(t) ==
    /\ IrqOn
    /\ CanExpire(task[t])
    /\ task' = [task EXCEPT ![t] = renew_sleep_counter(@)]
    /\ UNCHANGED <<oncpu, stage, ipc, sem, waiters, waiter_seq, sys, user,
                   history>>

\* A client calls the server: proc_ipc_do_task(), whatever the main context of
\* the server is doing.  On the server's own core the handler starts at once, on
\* another one after a wake; a lazy call leaves it to the next dispatch.
IpcCall(p) ==
    /\ p \in Servers \ serving /\ Live(p) /\ IrqOn
    /\ serving' = serving \cup {p}
    /\ \/ /\ p \notin oncpu /\ Cardinality(oncpu) < Cores
          /\ task' = [task EXCEPT ![p].state = "RUNNING"]
          /\ oncpu' = oncpu \cup {p}
          /\ Hijack(p)
       \/ /\ Cores > 1
          /\ task' = [task EXCEPT ![p] = proc_wakeup_by(@, Generic)]
          /\ UNCHANGED <<oncpu, handler, main, want>>
       \/ UNCHANGED <<task, oncpu, handler, main, want>>
    /\ UNCHANGED <<stage, sem, waiters, waiter_seq, sys, holds, permits, orphans,
                   history>>

\* SYS_IPC_END of the last request: the main context is back in its wait, but
\* READY (the restored sleep_counter of a READY task has no effect).  A handler
\* has released what its main context waits for.
IpcEnd(p) ==
    /\ p \in handler \cap oncpu /\ Live(p) /\ stage[p] # "fault" /\ sys.pid = NoTask
    /\ want[p] = NoWait /\ main[p].sem \notin holds[p]
    /\ task' = [task EXCEPT ![p].state = "READY"]
    /\ oncpu' = oncpu \ {p}
    /\ serving' = serving \ {p} /\ handler' = handler \ {p}
    /\ want' = [want EXCEPT ![p] = main[p]]
    /\ main' = [main EXCEPT ![p] = NoWait]
    /\ UNCHANGED <<stage, sem, waiters, waiter_seq, sys, holds, permits, orphans,
                   history>>

proc_ipc_sync_serving(t) == Live(Owner[t]) /\ Owner[t] \in serving

-----------------------------------------------------------------------------
(* System calls.  svc_handler() takes kernel_lock and refuses a caller that *)
(* is already dead; the handler proper is a later step.                     *)

\* What libc's callers ask for: a task inside a wait only re-issues it, or
\* settles a timed one with tryenter; a mutex is released by its holder.
Asks(t, op, s) ==
    \/ /\ want[t] = NoWait
       /\ \/ op \in {"alloc", "alloc_count", "exit"} /\ s = 1   \* no argument
          \/ op = "free"
          \/ op \in {"enter", "enter_timeout", "try_enter"} /\ s \notin holds[t]
          \/ op = "quit" /\ (s \in holds[t] \/ ~sem_is_binary(s))
    \/ /\ want[t].sem = s
       /\ \/ op = "enter" /\ ~want[t].timed
          \/ op \in {"enter_timeout", "try_enter"} /\ want[t].timed

OfProc == {"alloc", "alloc_count", "free"}   \* calls that look up the PROC

svc_handler(t, op, s) ==
    /\ op \in Requests[t]
    /\ t \in oncpu /\ Live(t) /\ stage[t] # "fault"
    /\ op \in OfProc => Live(Owner[t])
    /\ sys.pid = NoTask
    /\ Asks(t, op, s)
    /\ sys' = [pid |-> t, op |-> op, sem |-> s, slot |-> NoSlot]
    /\ UNCHANGED <<task, oncpu, stage, ipc, sem, waiters, waiter_seq, user,
                   history>>

InCall(t, op) == sys.pid = t /\ sys.op = op /\ sys.slot = NoSlot

\* A caller, or its PROC, that dies after the trap: either the handler's own
\* get_current_proc() is NULL and it does nothing, or it was called in time and
\* the handler below goes on for the dead caller.
CallerDead(t) ==
    /\ sys.pid = t /\ sys.slot = NoSlot /\ sys.op # "exiting"
    /\ ~Live(t) \/ (sys.op \in OfProc /\ ~Live(Owner[t]))
    /\ sys' = NoCall
    /\ UNCHANGED <<task, oncpu, stage, ipc, sem, waiters, waiter_seq, user,
                   history>>

\* Leave the kernel with the libc loop in state w.
Return(t, w) ==
    /\ sys' = NoCall
    /\ want' = [want EXCEPT ![t] = w]
    /\ orphans' = IF w = NoWait /\ t \notin handler THEN orphans \ {t} ELSE orphans

\* The call hands a permit of s to t.
Acquired(t, s) ==
    /\ Return(t, NoWait)
    /\ holds' = [holds EXCEPT ![t] = IF sem_is_binary(s) THEN @ \cup {s} ELSE @]
    /\ permits' = [permits EXCEPT ![s] = @ - 1]

\* sem_alloc_raw(): the first free entry, with the caller's PROC as creater.
sem_alloc_raw(t, op, count, max) ==
    /\ InCall(t, op)
    /\ LET free == {s \in Sems : ~sem_valid_idx(s)}
       IN  IF free # {}
           THEN LET s == CHOOSE s \in free : \A r \in free : s <= r
                IN  /\ sem' = [sem EXCEPT ![s] =
                           [creater |-> Owner[t], count |-> count,
                            max_count |-> max, occupied_pid |-> NoTask]]
                    /\ permits' = [permits EXCEPT ![s] = count]
           ELSE UNCHANGED <<sem, permits>>
    /\ sys' = NoCall
    /\ UNCHANGED <<task, oncpu, stage, ipc, waiters, waiter_seq, want, holds,
                   orphans, history>>

semaphore_alloc(t) == sem_alloc_raw(t, "alloc", 1, 1)

semaphore_alloc_count(t) ==
    \E c \in 0 .. COUNT_MAX : sem_alloc_raw(t, "alloc_count", c, COUNT_MAX)

semaphore_free(t) ==
    /\ InCall(t, "free")
    /\ IF sem[sys.sem].creater = Owner[t]
       THEN sem_reset({sys.sem})
       ELSE UNCHANGED <<sem, waiters, task, holds, permits, orphans>>
    /\ sys' = NoCall
    /\ ahead' = Tidy(ahead, waiters')
    /\ UNCHANGED <<oncpu, stage, ipc, waiter_seq, want, wrapped>>

\* Mutant: the owner is not recorded.
Taken_anonymous(t, s) == [sem EXCEPT ![s].count = @ - 1]

\* sem_try_acquire(), on a semaphore whose count is positive.
Taken(t, s) ==
    [sem EXCEPT ![s] = [sem[s] EXCEPT
        !.count = @ - 1,
        !.occupied_pid = IF sem_is_binary(s) THEN t ELSE @]]

\* semaphore_enter_raw(), up to the point where the proc lock is dropped.
EnterCall(t) == InCall(t, "enter") \/ InCall(t, "enter_timeout")
Looping == [sem |-> sys.sem, timed |-> sys.op = "enter_timeout"]
MySlot(t) == sem_waiter_find(sys.sem, t)
Granted(t) == MySlot(t) # NoSlot /\ waiters[MySlot(t)].granted

\* SEM_RES_ERROR: freed, or its owner died.
EnterInvalid(t) ==
    /\ EnterCall(t) /\ ~sem_valid_idx(sys.sem)
    /\ Return(t, NoWait)
    /\ UNCHANGED <<task, oncpu, stage, ipc, sem, waiters, waiter_seq, holds,
                   permits, history>>

\* SEM_RES_ACQUIRED: the permit handed over while the task slept.
EnterCollect(t) ==
    /\ EnterCall(t) /\ sem_valid_idx(sys.sem) /\ Granted(t)
    /\ waiters' = sem_waiter_del(waiters, MySlot(t), t)
    /\ Acquired(t, sys.sem)
    /\ ahead' = Tidy(ahead, waiters')
    /\ UNCHANGED <<task, oncpu, stage, ipc, sem, waiter_seq, wrapped>>

\* Mutant: a permit is taken that is not there.
EnterAcquire_unchecked(t) ==
    /\ EnterCall(t) /\ sem_valid_idx(sys.sem) /\ ~Granted(t)
    /\ sem' = Taken(t, sys.sem)
    /\ waiters' = sem_waiter_del(waiters, MySlot(t), t)
    /\ Acquired(t, sys.sem)
    /\ ahead' = Tidy(ahead, waiters')
    /\ UNCHANGED <<task, oncpu, stage, ipc, waiter_seq, wrapped>>

EnterAcquire(t) ==
    /\ EnterCall(t) /\ sem_valid_idx(sys.sem) /\ ~Granted(t)
    /\ sem[sys.sem].count > 0
    /\ sem' = Taken(t, sys.sem)
    /\ waiters' = sem_waiter_del(waiters, MySlot(t), t)
    /\ Acquired(t, sys.sem)
    /\ ahead' = Tidy(ahead, waiters')
    /\ UNCHANGED <<task, oncpu, stage, ipc, waiter_seq, wrapped>>

\* No permit: keep the slot already held, or queue at the tail.
EnterRequeue(t) ==
    /\ EnterCall(t) /\ sem_valid_idx(sys.sem) /\ ~Granted(t)
    /\ sem_occupied(sys.sem) /\ MySlot(t) # NoSlot
    /\ sys' = [sys EXCEPT !.slot = MySlot(t)]
    /\ UNCHANGED <<task, oncpu, stage, ipc, sem, waiters, waiter_seq, user,
                   history>>

EnterQueue(t) ==
    /\ EnterCall(t) /\ sem_valid_idx(sys.sem)
    /\ sem_occupied(sys.sem) /\ MySlot(t) = NoSlot /\ sem_waiter_free # NoSlot
    /\ waiters' = [waiters EXCEPT ![sem_waiter_free] =
           [sem |-> sys.sem, pid |-> t, seq |-> waiter_seq, granted |-> FALSE]]
    /\ waiter_seq' = (waiter_seq + 1) % SEQ_MOD
    /\ sys' = [sys EXCEPT !.slot = sem_waiter_free]
    /\ ahead' = [ahead EXCEPT ![sem_waiter_free] =
           {waiters[i].pid : i \in Queue(waiters, sys.sem)}]
    /\ wrapped' = (wrapped \/ waiter_seq' = 0)
    /\ UNCHANGED <<task, oncpu, stage, ipc, sem, user>>

\* SEM_RES_OCCUPIED: the wait table is full, libc yields and tries again.
EnterFull(t) ==
    /\ EnterCall(t) /\ sem_valid_idx(sys.sem)
    /\ sem_occupied(sys.sem) /\ MySlot(t) = NoSlot /\ sem_waiter_free = NoSlot
    /\ Return(t, Looping)
    /\ UNCHANGED <<task, oncpu, stage, ipc, sem, waiters, waiter_seq, holds,
                   permits, history>>

\* ... and after it, with the slot index remembered in sys.slot.
InWindow(t) == sys.pid = t /\ sys.slot # NoSlot

\* A context that serves an ipc request must not park: collect a grant that
\* arrived in the window, or give the place up and let others run.
EnterServing(t) ==
    /\ InWindow(t) /\ proc_ipc_sync_serving(t)
    /\ waiters' = sem_waiter_del(waiters, sys.slot, t)
    /\ IF waiters[sys.slot].sem = sys.sem /\ waiters[sys.slot].pid = t
          /\ waiters[sys.slot].granted
       THEN Acquired(t, sys.sem) /\ UNCHANGED <<task, oncpu>>
       ELSE /\ Return(t, Looping)
            /\ task' = [task EXCEPT ![t].state = IF Live(t) THEN "READY" ELSE @]
            /\ oncpu' = oncpu \ {t}
            /\ UNCHANGED <<holds, permits>>
    /\ ahead' = Tidy(ahead, waiters')
    /\ UNCHANGED <<stage, ipc, sem, waiter_seq, wrapped>>

\* Park with SEM_RES_RETRY or SEM_RES_TIMEOUT staged as the result.
EnterPark(t) ==
    /\ InWindow(t) /\ ~proc_ipc_sync_serving(t)
    /\ task' = [task EXCEPT ![t] = IF sys.op = "enter_timeout"
                                   THEN proc_block_by_timeout(@, sys.sem)
                                   ELSE proc_block_by(@, sys.sem)]
    /\ oncpu' = IF task'[t].state = "BLOCK" THEN oncpu \ {t} ELSE oncpu
    /\ Return(t, Looping)
    /\ UNCHANGED <<stage, ipc, sem, waiters, waiter_seq, holds, permits,
                   history>>

semaphore_enter_raw(t) ==
    \/ EnterInvalid(t) \/ EnterCollect(t) \/ EnterAcquire(t)
    \/ EnterRequeue(t) \/ EnterQueue(t) \/ EnterFull(t)
    \/ EnterServing(t) \/ EnterPark(t)

\* Also settles the place a timed wait left in the queue.
semaphore_try_enter(t) ==
    LET s == sys.sem IN
    /\ InCall(t, "try_enter")
    /\ IF ~sem_valid_idx(s)
       THEN Return(t, NoWait) /\ UNCHANGED <<sem, waiters, holds, permits>>
       ELSE /\ waiters' = sem_waiter_del(waiters, MySlot(t), t)
            /\ IF Granted(t)
               THEN Acquired(t, s) /\ UNCHANGED sem
               ELSE IF sem[s].count > 0
               THEN Acquired(t, s) /\ sem' = Taken(t, s)
               ELSE Return(t, NoWait) /\ UNCHANGED <<sem, holds, permits>>
    /\ ahead' = Tidy(ahead, waiters')
    /\ UNCHANGED <<task, oncpu, stage, ipc, waiter_seq, wrapped>>

\* One more permit for s; the caller gives up its ownership if it had it.
Returned(t, s) ==
    [sem[s] EXCEPT !.count = @ + 1,
                   !.occupied_pid = IF sem_is_binary(s) /\ @ = t THEN NoTask ELSE @]

semaphore_quit(t) ==
    LET s == sys.sem IN
    /\ InCall(t, "quit")
    /\ IF ~sem_valid_idx(s) \/ sem[s].count >= sem[s].max_count
       THEN UNCHANGED <<sem, waiters, task, permits>>
       ELSE /\ sem' = [sem EXCEPT ![s] = HandoffSem(waiters, s, Returned(t, s))]
            /\ waiters' = HandoffWaiters(waiters, {s})
            /\ task' = HandoffTask(waiters, {s})
            /\ permits' = [permits EXCEPT ![s] = @ + 1]
    /\ sys' = NoCall
    /\ holds' = [holds EXCEPT ![t] = @ \ {s}]
    /\ ahead' = Tidy(ahead, waiters')
    /\ UNCHANGED <<oncpu, stage, ipc, waiter_seq, want, orphans, wrapped>>

-----------------------------------------------------------------------------
(* Teardown: proc_terminate().                                             *)

\* proc_unready(proc, ZOMBIE), the first step of every teardown.
Mark(t) == task' = [task EXCEPT ![t] = proc_unready(@, "ZOMBIE")]

\* SYS_EXIT: proc_exit(current), under kernel_lock until it is done.
ExitBegin(t) ==
    /\ InCall(t, "exit") /\ Live(t)
    /\ Mark(t)
    /\ stage' = [stage EXCEPT ![t] = "zombie"]
    /\ sys' = [sys EXCEPT !.op = "exiting"]
    /\ UNCHANGED <<oncpu, ipc, sem, waiters, waiter_seq, user, history>>

\* A fatal fault in user code: proc_exit(proc_get_proc(current)), without
\* kernel_lock.  The whole PROC dies, or the thread if its PROC is dead.
Fault(t) ==
    LET v == IF Live(Owner[t]) THEN Owner[t] ELSE t IN
    /\ t \in Faulty \cap oncpu /\ Live(t) /\ stage[t] # "fault" /\ sys.pid # t
    /\ Mark(v)
    /\ stage' = [stage EXCEPT ![t] = "fault", ![v] = "zombie"]
    /\ UNCHANGED <<oncpu, ipc, sem, waiters, waiter_seq, sys, user, history>>

\* semaphore_clear(): reset what the dying PROC created.
semaphore_clear(p) ==
    /\ IsProc(p) /\ stage[p] = "zombie"
    /\ sem_reset({s \in Sems : sem[s].creater = p})
    /\ stage' = [stage EXCEPT ![p] = "reset"]
    /\ ahead' = Tidy(ahead, waiters')
    /\ UNCHANGED <<oncpu, ipc, waiter_seq, sys, want, wrapped>>

\* semaphore_clear_occupied(): drop the places of t, giving back a permit it
\* was granted, and release the binary semaphores it occupies.
\* Mutant: the permit of a granted slot dies with the task.
GrantsOf_none(t) == {}
GrantsOf(t) ==
    {s \in Sems : sem_valid_idx(s) /\ \E i \in Slots :
        waiters[i].sem = s /\ waiters[i].pid = t /\ waiters[i].granted}
\* Mutant: only the places in the queues are cleaned up.
OccupiedBy_none(t) == {}
OccupiedBy(t) ==
    {s \in Sems : sem_valid_idx(s) /\ sem_is_binary(s) /\ sem_occupied(s)
                  /\ sem[s].occupied_pid = t}
Recovered(t, s) ==
    IF s \in GrantsOf(t)
    THEN [sem[s] EXCEPT !.count = IF @ < sem[s].max_count THEN @ + 1 ELSE @,
                        !.occupied_pid = IF @ = t THEN NoTask ELSE @]
    ELSE [sem[s] EXCEPT !.count = sem[s].max_count, !.occupied_pid = NoTask]

semaphore_clear_occupied(t) ==
    LET S == GrantsOf(t) \cup OccupiedBy(t)
        w == [i \in Slots |-> IF waiters[i].pid = t THEN FreeSlot ELSE waiters[i]]
    IN  /\ stage[t] = IF IsProc(t) THEN "reset" ELSE "zombie"
        /\ waiters' = HandoffWaiters(w, S)
        /\ sem' = [s \in Sems |-> IF s \in S THEN HandoffSem(w, s, Recovered(t, s))
                                  ELSE sem[s]]
        /\ task' = HandoffTask(w, S)
        /\ stage' = [stage EXCEPT ![t] = "gone"]
        /\ holds' = [holds EXCEPT ![t] = {}]
        /\ permits' = [s \in Sems |->   \* a full semaphore takes no permit back
               IF s \in GrantsOf(t) /\ sem[s].count >= sem[s].max_count
               THEN permits[s] - 1 ELSE permits[s]]
        /\ ahead' = Tidy(ahead, waiters')
        /\ UNCHANGED <<oncpu, ipc, waiter_seq, sys, want, orphans, wrapped>>

\* The dying PROC terminates its threads one by one.
TerminateChild(c) ==
    /\ ~IsProc(c) /\ stage[Owner[c]] = "gone" /\ stage[c] \in {"alive", "fault"}
    /\ Mark(c)
    /\ stage' = [stage EXCEPT ![c] = "zombie"]
    /\ UNCHANGED <<oncpu, ipc, sem, waiters, waiter_seq, sys, user, history>>

Dying(t) ==
    \/ stage[t] \in {"fault", "zombie", "reset"}
    \/ IsProc(t) /\ stage[t] = "gone" /\ \E c \in Tasks : Owner[c] = t /\ stage[c] # "gone"

\* The schedule() at the end of proc_exit(), or of svc_handler() for a caller
\* found dead, takes the task off its cpu.
Leave(t) ==
    /\ t \in oncpu /\ ~Live(t) /\ stage[t] = "gone" /\ ~Dying(Owner[t])
    /\ sys.pid = t => sys.op = "exiting"
    /\ sys' = IF sys.pid = t THEN NoCall ELSE sys
    /\ oncpu' = oncpu \ {t}
    /\ UNCHANGED <<task, stage, ipc, sem, waiters, waiter_seq, user, history>>

-----------------------------------------------------------------------------
Handler(t) ==
    \/ semaphore_alloc(t) \/ semaphore_alloc_count(t) \/ semaphore_free(t)
    \/ semaphore_enter_raw(t) \/ semaphore_try_enter(t) \/ semaphore_quit(t)
    \/ CallerDead(t) \/ ExitBegin(t)

Teardown(t) ==
    semaphore_clear(t) \/ semaphore_clear_occupied(t) \/ TerminateChild(t) \/ Leave(t)

Next ==
    \E t \in Tasks :
        \/ Dispatch(t) \/ Preempt(t) \/ Timer(t) \/ IpcCall(t) \/ IpcEnd(t)
        \/ \E token \in OtherTokens : OtherWake(t, token)
        \/ \E op \in Ops, s \in Sems : svc_handler(t, op, s)
        \/ Handler(t) \/ Fault(t) \/ Teardown(t)

Spec == Init /\ [][Next]_vars

\* A task that is given the cpu goes on with its libc loop, and releases a lock
\* it holds (an assumption on the program, not on the kernel).
Proceed(t) ==
    \E s \in Sems :
        \/ want[t].sem = s /\ svc_handler(t, "enter", s)
        \/ s \in holds[t] /\ svc_handler(t, "quit", s)

\* The handlers and the teardown run to completion; the ready queue is FIFO and
\* the timer ends every time slice, so a READY task keeps being dispatched.
Fairness ==
    /\ WF_vars(\E t \in Tasks : Handler(t))
    /\ WF_vars(\E t \in Tasks : Teardown(t))
    /\ \A t \in Tasks :
          SF_vars(Dispatch(t)) /\ SF_vars(Preempt(t)) /\ SF_vars(Proceed(t))

FairSpec == Spec /\ Fairness

-----------------------------------------------------------------------------
(* Properties.                                                             *)

HasSlot(t, s) == \E i \in Slots : waiters[i].sem = s /\ waiters[i].pid = t
HasGrant(t, s) ==
    \E i \in Slots : waiters[i].sem = s /\ waiters[i].pid = t /\ waiters[i].granted

\* A binary semaphore never has two live holders (the promise behind every
\* pthread mutex; semaphore_quit has no owner check, only the max_count ceiling).
MutualExclusion ==
    \A s \in Sems, t, u \in Tasks :
        s \in holds[t] /\ s \in holds[u] /\ Live(t) /\ Live(u) => t = u

\* occupied_pid names the one task that holds a taken binary semaphore or has
\* been granted it, and a free one is held by nobody: semaphore_clear_occupied
\* can only recover the locks of a dead task because of this.
OccupancyAccurate ==
    \A s \in Sems : sem_valid_idx(s) /\ sem_is_binary(s) =>
        \A t \in Tasks : (s \in holds[t] \/ HasGrant(t, s)) <=>
                         (sem_occupied(s) /\ sem[s].occupied_pid = t)

\* A permit never lies idle while a live task queues for it (sem_handoff gives
\* one permit per call and relies on this).
NoStrandedPermit ==
    \A i \in Slots : waiters[i].sem # 0 /\ ~waiters[i].granted /\ Live(waiters[i].pid)
                     => sem_occupied(waiters[i].sem)

\* A task that dies in the handler of a request may leave a place of each of its
\* two contexts behind; only these are left out below.
Whole(t) == t \in Servers => stage[t] = "alive"

\* A task that was handed a permit is never asleep: the wake of sem_handoff is
\* not lost even if it lands before the waiter has parked, or while a handler
\* runs in the place of the waiter.
GrantedIsAwake ==
    \A i \in Slots : waiters[i].granted /\ Whole(waiters[i].pid)
                     => task[waiters[i].pid].state # "BLOCK"

\* A live task asleep on a semaphore has its place in that semaphore's queue,
\* so the release, the free or the owner's death that it waits for will find it.
SleeperIsQueued ==
    \A t \in Tasks, s \in Sems :
        stage[t] = "alive" /\ task[t].state = "BLOCK" /\ task[t].block_by = s
        => HasSlot(t, s)

\* A task has at most one slot of a semaphore, and only of one that exists
\* (sem_waiter_find relies on the first, sem_handoff on the second).  It has
\* slots of two semaphores only while a handler that was injected into its wait
\* is between queueing for another semaphore and giving that place up.
OneSlotPerTask ==
    \A i \in Slots : waiters[i].sem # 0 =>
        /\ sem_valid_idx(waiters[i].sem)
        /\ \A j \in Slots \ {i} : waiters[j].pid = waiters[i].pid =>
              /\ waiters[j].sem # waiters[i].sem
              /\ stage[waiters[i].pid] = "alive" =>
                    /\ waiters[i].pid \in handler
                    /\ sys.pid = waiters[i].pid /\ sys.slot \in {i, j}

\* Until _waiter_seq overflows a permit goes to the waiter that queued first.
FifoHandoff ==
    [][\A i \in Slots :
          ~wrapped /\ ~waiters[i].granted /\ waiters'[i].granted
          => \A u \in ahead[i] : ~Live(u)]_vars

\* No permit of a counting semaphore is lost or invented: what was put in (at
\* allocation, by semaphore_quit) and has not been taken by an enter is in the
\* count or waits in a granted slot, also when the granted task dies (only a
\* semaphore that is already at its ceiling refuses one).
PermitsConserved ==
    \A s \in Sems : sem_valid_idx(s) /\ ~sem_is_binary(s) =>
        permits[s] = sem[s].count
            + Cardinality({i \in Slots : waiters[i].sem = s /\ waiters[i].granted})

\* A task whose teardown is complete holds no place in a queue and no lock.
DeadHoldNothing ==
    \A t \in Tasks : stage[t] = "gone" =>
        /\ \A i \in Slots : waiters[i].pid # t
        /\ \A s \in Sems : sem[s].occupied_pid # t

\* A terminated task is never resumed (svc_handler: "never resume a terminated
\* context"), so ZOMBIE is final.
ZombieStaysDead ==
    [][\A t \in Tasks : ~Live(t) => ~Live(t)']_vars

\* A task that queues for a lock gets it, or dies, or the semaphore goes away:
\* direct handoff leaves no waiter behind, until _waiter_seq overflows.
WaiterServed ==
    \A t \in Tasks, s \in Sems :
        HasSlot(t, s) /\ sem_is_binary(s) ~> ~HasSlot(t, s) \/ wrapped

-----------------------------------------------------------------------------
(* The inductive invariant behind the theorems of SemaphoreProofs.         *)

\* A wake that no block on a semaphore ignores.
Latched(t) == task[t].wake_pending /\ task[t].wake_by # Generic

\* Slots belong to tasks and to semaphores that exist.
SlotsOfSems ==
    \A i \in Slots :
        IF waiters[i].sem = 0
        THEN waiters[i].pid = NoTask /\ ~waiters[i].granted
        ELSE waiters[i].pid \in Tasks /\ sem_valid_idx(waiters[i].sem)

\* The task in a slot is in the libc loop, in one of its two contexts, or in the
\* call that made the slot.
SlotOwner ==
    \A i \in Slots : waiters[i].sem # 0 =>
        \/ want[waiters[i].pid].sem = waiters[i].sem
        \/ main[waiters[i].pid].sem = waiters[i].sem
        \/ sys.pid = waiters[i].pid /\ sys.slot = i /\ sys.sem = waiters[i].sem

OneSlot ==
    \A i, j \in Slots :
        /\ waiters[i].sem # 0 /\ waiters[j].sem = waiters[i].sem
        /\ waiters[j].pid = waiters[i].pid
        => i = j

\* A handler runs in a server with a request, in the place of its main context.
\* It neither sleeps nor keeps a place in a queue beyond the call that took it.
HandlerInv ==
    /\ handler \subseteq serving /\ serving \subseteq Servers
    /\ \A t \in Tasks \ handler : main[t] = NoWait
    /\ \A t \in handler : stage[t] = "alive" =>
          /\ task[t].state # "BLOCK"
          /\ \A i \in Slots : waiters[i].pid = t =>
                main[t].sem = waiters[i].sem \/ (sys.pid = t /\ sys.slot = i)

\* Who executes is not asleep, and a task inside a wait only re-issues it.
CallsOfAwake ==
    /\ \A t \in oncpu : task[t].state # "BLOCK"
    /\ sys.pid # NoTask => /\ task[sys.pid].state # "BLOCK"
                           /\ want[sys.pid].sem \in {0, sys.sem}

SleepToken ==
    \A i \in Slots :
        /\ waiters[i].sem # 0 /\ Whole(waiters[i].pid)
        /\ task[waiters[i].pid].state = "BLOCK"
        => task[waiters[i].pid].block_by = waiters[i].sem

\* Stronger than NoStrandedPermit: dead waiters count, too.
QueuedMeansTaken ==
    \A i \in Slots : waiters[i].sem # 0 /\ ~waiters[i].granted
                     => sem_occupied(waiters[i].sem)

DeadIsStaged == \A t \in Tasks : ~Live(t) => stage[t] # "alive"

\* What EnterPark relies on: unless a wake is latched, nothing has happened to
\* the slot since the proc lock was dropped.
WindowInv ==
    sys.slot # NoSlot /\ ~Latched(sys.pid) =>
        /\ \A i \in Slots : waiters[i].pid = sys.pid /\ waiters[i].sem = sys.sem
                            => ~waiters[i].granted
        /\ stage[sys.pid] = "alive" => /\ waiters[sys.slot].sem = sys.sem
                                       /\ waiters[sys.slot].pid = sys.pid

\* The slot a call remembers is its own, or not its caller's any more.
CallSlot ==
    sys.slot # NoSlot /\ waiters[sys.slot].pid = sys.pid => waiters[sys.slot].sem = sys.sem

WaitInv ==
    /\ TypeOK /\ SlotsOfSems /\ SlotOwner /\ OneSlot /\ HandlerInv
    /\ CallsOfAwake /\ SleepToken /\ QueuedMeansTaken /\ DeadIsStaged /\ WindowInv
    /\ CallSlot /\ GrantedIsAwake /\ SleeperIsQueued

-----------------------------------------------------------------------------
(* Statements of the code's comments that TLC refutes; see the README.      *)

\* sem_waiter_purge_locked(): a waiter released because its semaphore goes away
\* gets SEM_RES_ERROR, it never queues again in that wait.
PurgedWaiterLeaves ==
    \A t \in orphans \ handler, i \in Slots : waiters[i].pid # t

\* "seq gives strict FIFO across arrivals", for any number of arrivals.
StrictFifo ==
    [][\A i \in Slots :
          ~waiters[i].granted /\ waiters'[i].granted
          => \A u \in ahead[i] : ~Live(u)]_vars
=============================================================================
