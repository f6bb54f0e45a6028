------------------------------ MODULE IpcPool ------------------------------
(***************************************************************************)
(* The worker pool of an ipc server registered with IPC_MULTI_TASK or       *)
(* IPC_MULTI_CORE (src/kernel/kernel/src/ipc.c, the spawn, park, watchdog   *)
(* and teardown of proc.c, libc's ipc_call and handle_ipc).  Requests are   *)
(* served by threads of the server, created on demand on the core of the    *)
(* client, parked between requests and retired when they stay idle.         *)
(*                                                                         *)
(* Granularity.  System calls, the timer and the 1 Hz sweep run under       *)
(* kernel_lock: each is one action.  Which of the runnable tasks executes   *)
(* next is left open, so a direct hand-over of the cpu (proc_switch) is one *)
(* of the choices.  A client's pid is not used again here (IpcServer has    *)
(* that); a worker's is, with a new uuid.                                   *)
(***************************************************************************)
EXTENDS TaskState, Sequences, SequencesExt, FiniteSetsExt, TLC

CONSTANTS
    Clients, Pids,         \* client processes; pids worker threads may get
    NoProc,
    Core,                  \* Core[c]: the core of client c
    Modes,                 \* TRUE: IPC_MULTI_CORE, FALSE: IPC_MULTI_TASK alone
    Kinds,                 \* TRUE: calls with a reply, FALSE: IPC_NON_RETURN
    PoolNum,               \* pool_num: max_task_per_proc, or the cores
    Stacks,                \* thread stack slots the server's own threads leave
    IPC_CTX_MAX,           \* requests a server holds
    IPC_WAKE_BATCH_LIMIT,  \* waiters let in at a time
    Watchdog,              \* may a request exceed IPC_TIMEOUT_USEC?
    Events,                \* what else may happen: "sleep" (handlers block),
                           \* "shrink", "wake" (stray SYS_WAKEUP), "disable",
                           \* "exit" (of a worker), "die" (clients, server)
    MaxCalls               \* bound: calls begun (a worker is created for a call)

ASSUME PoolAssumption ==
    /\ NoProc \notin Clients \cup Pids /\ Clients \cap Pids = {}
    /\ IsFiniteSet(Clients) /\ Clients # {} /\ DOMAIN Core = Clients
    /\ Watchdog \in BOOLEAN /\ Kinds \subseteq BOOLEAN /\ Modes \subseteq BOOLEAN
    /\ {PoolNum, Stacks, IPC_CTX_MAX, IPC_WAKE_BATCH_LIMIT} \subseteq Nat \ {0}
    /\ MaxCalls \in Nat
    /\ Events \subseteq {"sleep", "shrink", "wake", "disable", "exit", "die"}

VARIABLES
    task,      \* the block/wake state of clients and workers
    client,    \* libc's ipc_call() in each client
    res,       \* ipc_res_t: the reply slot of each client
    server,    \* is the server alive, does it accept requests
    tasks,     \* ipc_task_t: the request slots
    pool,      \* ipc_pool_worker_t: the members of the pool
    worker,    \* the threads
    threads,   \* pids of threads in the task table, zombies included
    waitq,     \* clients that wait to be admitted
    last,      \* the last uid and uuid handed out
    log        \* history: calls begun, who asked for a uid, replies published
               \* and not withdrawn, calls that failed, and whether the last
               \* worker that was to be created failed while the pool was empty

vars == <<task, client, res, server, tasks, pool, worker, threads, waitq, last, log>>

Uids == 1 .. MaxCalls
Slots == 1 .. IPC_CTX_MAX
Cores == {Core[c] : c \in Clients}

NoRequest == [uid |-> 0, client |-> NoProc, ret |-> FALSE, handler |-> NoProc,
              handler_uuid |-> 0]
NoMember == [pid |-> NoProc, uuid |-> 0, idle |-> FALSE, quit |-> FALSE]
NoResult == [uid |-> 0, state |-> "IDLE"]
NoCall == [pc |-> "run", uid |-> 0, ret |-> FALSE]
NoThread == [uuid |-> 0, core |-> CHOOSE k \in Cores : TRUE, ipc_task |-> 0,
             pc |-> "entry", uid |-> 0, ret |-> FALSE]

Init ==
    /\ task = [x \in Clients \cup Pids |-> NewTask(IF x \in Clients THEN "READY" ELSE "ZOMBIE")]
    /\ client = [c \in Clients |-> NoCall]
    /\ res = [c \in Clients |-> NoResult]
    /\ server \in [up: {TRUE}, disabled: {FALSE}, multi_core: Modes]
    /\ tasks = [i \in Slots |-> NoRequest]
    /\ pool = [i \in 1 .. PoolNum |-> NoMember]
    /\ worker = [w \in Pids |-> NoThread]
    /\ threads = {}
    /\ waitq = <<>>
    /\ last = [uid |-> 0, uuid |-> 0]
    /\ log = [calls |-> 0, asked |-> [u \in Uids |-> NoProc], answered |-> {},
              failed |-> {}, short |-> FALSE]

Calls == [pc: {"run", "call", "wait"}, uid: Uids \cup {0}, ret: BOOLEAN]
Results == [uid: Uids \cup {0}, state: {"IDLE", "BUSY", "RETURN"}]
Requests == [uid: Uids \cup {0}, client: Clients \cup {NoProc}, ret: BOOLEAN,
             handler: Pids \cup {NoProc}, handler_uuid: 0 .. MaxCalls]
Members == [pid: Pids \cup {NoProc}, uuid: 0 .. MaxCalls, idle: BOOLEAN, quit: BOOLEAN]
Threads == [uuid: 0 .. MaxCalls, core: Cores, ipc_task: Slots \cup {0},
            pc: {"entry", "body", "reply", "end"}, uid: Uids \cup {0}, ret: BOOLEAN]

TypeOK ==
    /\ task \in [Clients \cup Pids -> TaskRecord({Generic})]
    /\ client \in [Clients -> Calls]
    /\ res \in [Clients -> Results]
    /\ server \in [up: BOOLEAN, disabled: BOOLEAN, multi_core: Modes]
    /\ tasks \in [Slots -> Requests]
    /\ pool \in [1 .. PoolNum -> Members]
    /\ worker \in [Pids -> Threads]
    /\ threads \subseteq Pids /\ waitq \in Seq(Clients)
    /\ last \in [uid: 0 .. MaxCalls, uuid: 0 .. MaxCalls]
    /\ log \in [calls: 0 .. MaxCalls, asked: [Uids -> Clients \cup {NoProc}],
                answered: SUBSET Uids, failed: SUBSET Uids, short: BOOLEAN]

-----------------------------------------------------------------------------
(* Waking.                                                                  *)

Live(x) == proc_get(task[x])
Runnable(x) == task[x].state \in {"READY", "RUNNING"}

\* proc_block() of x, which executes and so was made RUNNING when dispatched.
proc_block(x) ==
    [task EXCEPT ![x] = proc_block_by([@ EXCEPT !.state = "RUNNING"], Generic)]

\* proc_wakeup() of the tasks of Q: they leave the wait queue, too.
proc_wakeup(t, Q) ==
    [x \in DOMAIN t |-> IF x \in Q THEN proc_wakeup_by(t[x], Generic) ELSE t[x]]

\* proc_ipc_cancel_wait() of the task in Q, if there is one: its item, which is
\* queued at most once, is unlinked.
proc_ipc_cancel_wait(q, Q) ==
    LET queued == {i \in DOMAIN q : q[i] \in Q}
    IN  IF queued = {} THEN q ELSE RemoveAt(q, Min(queued))

Busy(ts) == {i \in Slots : ts[i].uid # 0}

\* proc_ipc_wakeup(): the positions of the queue q it pops, given the tasks t
\* and the slots ts.  It wakes as many as there are free slots and at most a
\* batch; waiters that are awake already are dropped without counting.
Popped(t, q, ts) ==
    LET budget == Min({IPC_CTX_MAX - Cardinality(Busy(ts)), IPC_WAKE_BATCH_LIMIT})
    IN  {i \in DOMAIN q : Cardinality({j \in 1 .. i - 1 : t[q[j]].state = "BLOCK"}) < budget}

Admitted(t, q, ts) == {q[i] : i \in {j \in Popped(t, q, ts) : t[q[j]].state = "BLOCK"}}
StillQueued(t, q, ts) == SubSeq(q, Cardinality(Popped(t, q, ts)) + 1, Len(q))

-----------------------------------------------------------------------------
(* The pool.                                                                *)

\* ipc_pool_slot_worker(): slot i holds a live member.  A slot whose worker
\* died, or whose pid was used again, counts as empty.
Member(i) ==
    /\ pool[i].pid # NoProc /\ Live(pool[i].pid)
    /\ worker[pool[i].pid].uuid = pool[i].uuid

SlotOf(w) == {i \in 1 .. PoolNum : Member(i) /\ pool[i].pid = w}

\* Mutant: a member that is blocked is taken for parked.
Idle_blocked(i) == Member(i) /\ ~pool[i].quit /\ task[pool[i].pid].state = "BLOCK"

\* The condition under which ipc_pool_pick_idle_locked(), ipc_pool_has_idle()
\* and the idle sweep take a member for parked.
Idle(i) ==
    /\ Member(i) /\ ~pool[i].quit
    /\ task[pool[i].pid].state = "BLOCK" /\ worker[pool[i].pid].ipc_task = 0

IdleOn(core) == {i \in 1 .. PoolNum : Idle(i) /\ worker[pool[i].pid].core = core}

\* ipc_pool_core_member_locked()
core_member(core) ==
    {i \in 1 .. PoolNum : Member(i) /\ ~pool[i].quit /\ worker[pool[i].pid].core = core}

\* Mutant: requests without a reply need not be waited for.
client_busy_return(c) == \E i \in Slots : tasks[i].uid # 0 /\ tasks[i].client = c /\ tasks[i].ret

\* ipc_server_client_busy_locked(): c already has a request here.
client_busy(c) == \E i \in Slots : tasks[i].uid # 0 /\ tasks[i].client = c

\* ipc_pool_assign(): may the pool grow for a client on this core?
MayGrow(core) ==
    /\ server.multi_core => core_member(core) = {}
    /\ Cardinality({i \in 1 .. PoolNum : Member(i)}) < PoolNum
    /\ Cardinality(threads) < Stacks

-----------------------------------------------------------------------------
(* The client: libc's ipc_call() and the system calls it makes.             *)

\* proc_ipc_wait(), proc_ipc_wait_pool(), proc_ipc_wait_requester(): queue and
\* block.  What they re-check under the server lock has not changed, since
\* kernel_lock is held.  libc calls again after the wake (pc = "call").
Wait(c, ret) ==
    /\ waitq' = IF c \in Range(waitq) THEN waitq ELSE Append(waitq, c)
    /\ task' = proc_block(c)
    /\ client' = [client EXCEPT ![c] = [pc |-> "call", uid |-> 0, ret |-> ret]]

\* The server is gone.
CallRefused(c) ==
    /\ ~server.up
    /\ client' = [client EXCEPT ![c] = NoCall]
    /\ UNCHANGED <<task, res, server, tasks, pool, worker, threads, waitq, last>>

\* It is disabled, or has no free request slot.
CallClosed(c, ret) ==
    /\ server.up /\ (server.disabled \/ Busy(tasks) = Slots)
    /\ Wait(c, ret)
    /\ UNCHANGED <<res, server, tasks, pool, worker, threads, last>>

Open == server.up /\ ~server.disabled /\ Busy(tasks) # Slots

\* May a request of c be assigned now?  Under IPC_MULTI_TASK not before the
\* earlier one of the same client is finished.
MayServe(c) == server.multi_core \/ ~client_busy(c)

\* ipc_pool_assign() returns NULL: the slot of the request is released again,
\* and the client waits, under IPC_MULTI_CORE by trying again.  (The uid of a
\* request that is closed in the same call is seen by nobody and not counted.)
TurnedAway(c, ret) ==
    /\ res' = [res EXCEPT ![c].state = "BUSY"]
    /\ IF server.multi_core
       THEN /\ client' = [client EXCEPT ![c] = [pc |-> "call", uid |-> 0, ret |-> ret]]
            /\ UNCHANGED <<task, waitq>>
       ELSE Wait(c, ret)
    /\ UNCHANGED <<server, tasks, pool, worker, threads, last>>

\* No worker can take the request, and none may be created.
CallBusy(c, ret) ==
    /\ Open
    /\ MayServe(c) => IdleOn(Core[c]) = {} /\ ~MayGrow(Core[c])
    /\ TurnedAway(c, ret)

\* ipc_pool_assign() calls proc_ipc_pool_spawn() ...
Spawns(c) == Open /\ MayServe(c) /\ IdleOn(Core[c]) = {} /\ MayGrow(Core[c])

\* ... which returns NULL: the task table is full, or there is no memory.  Before
\* it gives up, kfork_raw() buries the dead: Funeral steps precede this one.
CallUnspawned(c, ret) ==
    /\ Spawns(c) /\ \A w \in threads : Live(w)
    /\ TurnedAway(c, ret)

\* proc_ipc_req(): the first free request slot.
FreeSlot == Min(Slots \ Busy(tasks))

\* proc_ipc_req() and ipc_pool_bind_locked(): the request takes a free slot, and
\* worker w, with uuid, member j of the pool, starts at the entry with its uid.
Bind(c, ret, w, uuid, j) ==
    LET uid == last.uid + 1
        i == FreeSlot
    IN  /\ tasks' = [tasks EXCEPT ![i] = [uid |-> uid, client |-> c, ret |-> ret,
                                          handler |-> w, handler_uuid |-> uuid]]
        /\ worker' = [worker EXCEPT ![w] = [uuid |-> uuid, core |-> Core[c],
                            ipc_task |-> i, pc |-> "entry", uid |-> uid, ret |-> ret]]
        /\ pool' = [pool EXCEPT ![j] = [pid |-> w, uuid |-> uuid, idle |-> FALSE,
                                        quit |-> FALSE]]
        /\ res' = [res EXCEPT ![c].state = "BUSY"]
        /\ client' = [client EXCEPT ![c] =
               IF ret THEN [pc |-> "wait", uid |-> uid, ret |-> TRUE] ELSE NoCall]
        /\ UNCHANGED <<server, waitq>>

\* ipc_pool_pick_idle_locked(): the first parked worker of the client's core.
CallServed(c, ret) ==
    LET j == Min(IdleOn(Core[c])) IN
    /\ Open /\ MayServe(c) /\ IdleOn(Core[c]) # {}
    /\ Bind(c, ret, pool[j].pid, pool[j].uuid, j)
    /\ task' = proc_wakeup(task, {pool[j].pid})
    /\ last' = [last EXCEPT !.uid = @ + 1]
    /\ UNCHANGED threads

\* Mutant: the first slot, free or not.
FreeMember_first == 1

\* ipc_pool_register_locked(): the first slot of the pool without a live worker.
FreeMember == Min({j \in 1 .. PoolNum : ~Member(j)})

\* proc_ipc_pool_spawn(): a new worker on the client's core.
CallSpawned(c, ret) ==
    /\ Spawns(c)
    /\ \E w \in Pids \ threads :
          /\ Bind(c, ret, w, last.uuid + 1, FreeMember)
          /\ task' = proc_wakeup([task EXCEPT ![w] = NewTask("BLOCK")], {w})
          /\ threads' = threads \cup {w}
    /\ last' = [uid |-> last.uid + 1, uuid |-> last.uuid + 1]

\* SYS_IPC_CALL; n is 1 when ipc_call() begins with it.
proc_ipc_call(c, ret, n) ==
    /\ \/ CallRefused(c) \/ CallClosed(c, ret) \/ CallBusy(c, ret)
       \/ CallServed(c, ret) \/ CallSpawned(c, ret) \/ CallUnspawned(c, ret)
    /\ log' = [log EXCEPT !.calls = @ + n,
                          !.asked = IF last'.uid = last.uid THEN @
                                    ELSE [@ EXCEPT ![last'.uid] = c],
                          !.short = IF Spawns(c) THEN last'.uid = last.uid /\ threads = {}
                                    ELSE @]

Call(c) ==
    /\ client[c].pc = "run" /\ Runnable(c) /\ log.calls < MaxCalls
    /\ \E ret \in Kinds : proc_ipc_call(c, ret, 1)

RetryCall(c) ==
    /\ client[c].pc = "call" /\ Runnable(c)
    /\ proc_ipc_call(c, client[c].ret, 0)

\* proc_ipc_find_task(): the request of c is still there.
Pending(c) ==
    server.up /\ \E i \in Slots : tasks[i].uid = client[c].uid /\ tasks[i].client = c

\* SYS_IPC_GET_RETURN: the reply is there ...
GetReply(c) ==
    /\ client[c].pc = "wait" /\ Runnable(c)
    /\ res[c] = [uid |-> client[c].uid, state |-> "RETURN"]
    /\ res' = [res EXCEPT ![c] = NoResult]
    /\ client' = [client EXCEPT ![c] = NoCall]
    /\ UNCHANGED <<task, server, tasks, pool, worker, threads, waitq, last, log>>

\* ... or not yet ...
AwaitReply(c) ==
    /\ client[c].pc = "wait" /\ Runnable(c)
    /\ res[c].state # "RETURN" /\ Pending(c)
    /\ task' = proc_block(c)
    /\ UNCHANGED <<client, res, server, tasks, pool, worker, threads, waitq, last, log>>

NoReply(c) == IF res[c].state = "RETURN" THEN res[c].uid # client[c].uid ELSE ~Pending(c)

\* ... or it will not come.
CallFails(c) ==
    /\ client[c].pc = "wait" /\ Runnable(c)
    /\ NoReply(c)
    /\ client' = [client EXCEPT ![c] = NoCall]
    /\ log' = [log EXCEPT !.failed = @ \cup {client[c].uid}]
    /\ UNCHANGED <<task, res, server, tasks, pool, worker, threads, waitq, last>>

-----------------------------------------------------------------------------
(* The worker: libc's handle_ipc() and the system calls it makes.           *)

At(w, pc) == worker[w].pc = pc /\ Runnable(w)

\* proc_ipc_serving_task(): the worker is attached to the request it was
\* started for.
Serving(w) ==
    LET i == worker[w].ipc_task IN i # 0 /\ worker[w].uid # 0 /\ tasks[i].uid = worker[w].uid

\* SYS_IPC_GET_ARG; a worker that was woken without a request ends at once.
GetArg(w) ==
    /\ At(w, "entry")
    /\ worker' = [worker EXCEPT ![w].pc = IF Serving(w) THEN "body" ELSE "end"]
    /\ UNCHANGED <<task, client, res, server, tasks, pool, threads, waitq, last, log>>

Work(w) ==
    /\ At(w, "body")
    /\ worker' = [worker EXCEPT ![w].pc = IF worker[w].ret THEN "reply" ELSE "end"]
    /\ UNCHANGED <<task, client, res, server, tasks, pool, threads, waitq, last, log>>

\* The handler blocks: a nested call, a semaphore, a device.
Sleep(w) ==
    /\ "sleep" \in Events /\ At(w, "body")
    /\ task' = proc_block(w)
    /\ UNCHANGED <<client, res, server, tasks, pool, worker, threads, waitq, last, log>>

\* What it waited for has happened.
Resume(w) ==
    /\ worker[w].pc = "body" /\ task[w].state = "BLOCK"
    /\ task' = proc_wakeup(task, {w})
    /\ UNCHANGED <<client, res, server, tasks, pool, worker, threads, waitq, last, log>>

\* Mutant: whoever waits for a reply.
ClientOf_any(i) == {c \in Clients : client[c].pc = "wait" /\ Live(c)}

\* proc_ipc_get_client()
ClientOf(i) == {c \in Clients : tasks[i].client = c /\ Live(c)}

\* SYS_IPC_SET_RETURN
SetReturn(w) ==
    LET i == worker[w].ipc_task
        to == IF Serving(w) THEN ClientOf(i) ELSE {}
    IN  /\ At(w, "reply")
        /\ worker' = [worker EXCEPT ![w].pc = "end"]
        /\ res' = [c \in Clients |-> IF c \in to THEN [uid |-> worker[w].uid, state |-> "RETURN"]
                                     ELSE res[c]]
        /\ log' = [log EXCEPT !.answered = IF to = {} THEN @ ELSE @ \cup {worker[w].uid}]
        /\ UNCHANGED <<task, client, server, tasks, pool, threads, waitq, last>>

\* proc_ipc_finish_task(): the slot of the request w has served, unless it was
\* aborted meanwhile.
OwnRequest(w) ==
    {i \in Slots : /\ i = worker[w].ipc_task /\ tasks[i].uid # 0
                   /\ tasks[i].handler = w /\ tasks[i].handler_uuid = worker[w].uuid}

\* proc_ipc_pool_park(): the worker blocks, waiters are let in, the client of
\* the finished request is woken; the frame is set up to run the entry with no
\* request.  Result: slots, tasks and wait queue.
Parked(w) ==
    LET own == OwnRequest(w)
        ts == [i \in Slots |-> IF i \in own THEN NoRequest ELSE tasks[i]]
        to == UNION {ClientOf(i) : i \in {j \in own : tasks[j].ret}}
        t == [task EXCEPT ![w] = NewTask("BLOCK")]
    IN  [tasks |-> ts,
         task |-> proc_wakeup(proc_wakeup(t, Admitted(t, waitq, ts)), to),
         waitq |-> proc_ipc_cancel_wait(StillQueued(t, waitq, ts), to)]

\* ipc_end_multi() of a member that goes on: SYS_IPC_END.
End(w) ==
    LET after == Parked(w) IN
    /\ At(w, "end") /\ \E j \in SlotOf(w) : ~pool[j].quit
    /\ tasks' = after.tasks /\ task' = after.task /\ waitq' = after.waitq
    /\ worker' = [worker EXCEPT ![w] = [worker[w] EXCEPT !.ipc_task = 0, !.pc = "entry",
                                                       !.uid = 0]]
    /\ pool' = [j \in 1 .. PoolNum |-> IF j \in SlotOf(w) THEN [pool[j] EXCEPT !.idle = TRUE]
                                       ELSE pool[j]]
    /\ UNCHANGED <<client, res, server, threads, last, log>>

Dead(w) == [worker[w] EXCEPT !.uuid = 0, !.ipc_task = 0, !.pc = "end", !.uid = 0]

\* ... and of one that is to quit: it leaves the pool, waiters are let in once
\* more, and the thread exits.
EndQuit(w) ==
    LET after == Parked(w) IN
    /\ At(w, "end") /\ \E j \in SlotOf(w) : pool[j].quit
    /\ tasks' = after.tasks
    /\ task' = [proc_wakeup(after.task, Admitted(after.task, after.waitq, after.tasks)) EXCEPT
                   ![w] = proc_unready(@, "ZOMBIE")]
    /\ waitq' = StillQueued(after.task, after.waitq, after.tasks)
    /\ worker' = [worker EXCEPT ![w] = Dead(w)]
    /\ pool' = [j \in 1 .. PoolNum |-> IF j \in SlotOf(w) THEN NoMember ELSE pool[j]]
    /\ UNCHANGED <<client, res, server, threads, last, log>>

-----------------------------------------------------------------------------
(* The watchdog, the idle sweep, deaths.                                    *)

\* Mutant: the worker keeps its request.
Detached_kept(i) == worker

\* The worker of the request in slot i, without it.
Detached(i) ==
    [w \in Pids |->
        IF /\ Live(w) /\ w = tasks[i].handler
           /\ worker[w].uuid = tasks[i].handler_uuid /\ worker[w].ipc_task = i
        THEN [worker[w] EXCEPT !.ipc_task = 0]
        ELSE worker[w]]

\* Mutant: the client is not told.
proc_ipc_task_abort_silent(i, t) ==
    /\ tasks' = [tasks EXCEPT ![i] = NoRequest]
    /\ res' = res /\ log' = log /\ task' = t /\ waitq' = waitq

\* proc_ipc_task_abort(): the client's reply slot is reset, the request slot is
\* released and the client woken.
proc_ipc_task_abort(i, t) ==
    LET to == ClientOf(i) IN
    /\ tasks' = [tasks EXCEPT ![i] = NoRequest]
    /\ res' = [c \in Clients |-> IF c \in to /\ res[c].uid = tasks[i].uid THEN NoResult
                                 ELSE res[c]]
    /\ log' = [log EXCEPT !.answered = @ \ {tasks[i].uid}]
    /\ task' = proc_wakeup(t, to)
    /\ waitq' = proc_ipc_cancel_wait(waitq, to)

\* renew_ipc_multi_counter(): the worker has been runnable for IPC_TIMEOUT_USEC.
Timeout(i) ==
    /\ Watchdog /\ server.up /\ tasks[i].uid # 0 /\ Runnable(tasks[i].handler)
    /\ worker' = Detached(i)
    /\ proc_ipc_task_abort(i, task)
    /\ UNCHANGED <<client, server, pool, threads, last>>

\* proc_ipc_pool_shrink(): a member that has been parked long enough (which of
\* them has is left open) is told to quit.
Shrink(i) ==
    /\ "shrink" \in Events /\ server.up /\ Idle(i) /\ pool[i].idle
    /\ pool' = [pool EXCEPT ![i].quit = TRUE]
    /\ task' = proc_wakeup(task, {pool[i].pid})
    /\ UNCHANGED <<client, res, server, tasks, worker, threads, waitq, last, log>>

\* proc_terminate() of a worker whose handler exits: its request is aborted.
WorkerExit(w) ==
    LET t == [task EXCEPT ![w] = proc_unready(@, "ZOMBIE")] IN
    /\ "exit" \in Events /\ At(w, "body")
    /\ worker' = [worker EXCEPT ![w] = Dead(w)]
    /\ IF worker[w].ipc_task # 0 THEN proc_ipc_task_abort(worker[w].ipc_task, t)
       ELSE task' = t /\ UNCHANGED <<tasks, res, log, waitq>>
    /\ UNCHANGED <<client, server, pool, threads, last>>

\* Mutant: nobody is told that a stack is free.
Funeral_silent(w) ==
    /\ w \in threads /\ ~Live(w)
    /\ threads' = threads \ {w}
    /\ UNCHANGED <<task, client, res, server, tasks, pool, worker, waitq, last, log>>

\* proc_funeral() of a thread, then proc_wake_thread_stack_waiters(): its stack
\* is free and waiters may try to get a worker again.
Funeral(w) ==
    /\ w \in threads /\ ~Live(w)
    /\ threads' = threads \ {w}
    /\ task' = proc_wakeup(task, Admitted(task, waitq, tasks))
    /\ waitq' = StillQueued(task, waitq, tasks)
    /\ UNCHANGED <<client, res, server, tasks, pool, worker, last, log>>

ClientExit(c) ==
    /\ "die" \in Events /\ Live(c)
    /\ task' = [task EXCEPT ![c] = proc_unready(@, "ZOMBIE")]
    /\ waitq' = proc_ipc_cancel_wait(waitq, {c})
    /\ UNCHANGED <<client, res, server, tasks, pool, worker, threads, last, log>>

\* proc_ipc_clear(): who waits for a reply of the server.
ReplyWaiters == UNION {ClientOf(i) : i \in {j \in Busy(tasks) : tasks[j].ret}}

\* proc_terminate() of the server: its threads, then the requests, whose
\* clients keep a reply that is published already, then the wait queue.
ServerExit ==
    LET t == [x \in DOMAIN task |-> IF x \in Pids /\ Live(x) THEN proc_unready(task[x], "ZOMBIE")
                                    ELSE task[x]]
    IN
    /\ "die" \in Events /\ server.up
    /\ server' = [server EXCEPT !.up = FALSE]
    /\ worker' = [w \in Pids |-> IF Live(w) THEN Dead(w) ELSE worker[w]]
    /\ tasks' = [i \in Slots |-> NoRequest]
    /\ task' = proc_wakeup(proc_wakeup(t, ReplyWaiters), Range(waitq) \ ReplyWaiters)
    /\ waitq' = <<>>
    /\ UNCHANGED <<client, res, pool, threads, last, log>>

\* SYS_WAKEUP from anybody, for a client or a parked worker.
StrayWake(x) ==
    /\ "wake" \in Events /\ task[x].state = "BLOCK"
    /\ task' = proc_wakeup(task, {x})
    /\ waitq' = proc_ipc_cancel_wait(waitq, {x})
    /\ UNCHANGED <<client, res, server, tasks, pool, worker, threads, last, log>>

\* SYS_IPC_DISABLE is refused while a request is served.
proc_ipc_disable ==
    /\ "disable" \in Events /\ server.up /\ ~server.disabled
    /\ Busy(tasks) = {}
    /\ server' = [server EXCEPT !.disabled = TRUE]
    /\ UNCHANGED <<task, client, res, tasks, pool, worker, threads, waitq, last, log>>

\* Mutant: nobody is told.
proc_ipc_enable_silent ==
    /\ server.up /\ server.disabled
    /\ server' = [server EXCEPT !.disabled = FALSE]
    /\ UNCHANGED <<task, client, res, tasks, pool, worker, threads, waitq, last, log>>

proc_ipc_enable ==
    /\ server.up /\ server.disabled
    /\ server' = [server EXCEPT !.disabled = FALSE]
    /\ task' = proc_wakeup(task, Admitted(task, waitq, tasks))
    /\ waitq' = StillQueued(task, waitq, tasks)
    /\ UNCHANGED <<client, res, tasks, pool, worker, threads, last, log>>

-----------------------------------------------------------------------------
ClientStep(c) == RetryCall(c) \/ GetReply(c) \/ AwaitReply(c) \/ CallFails(c)
WorkerStep(w) == GetArg(w) \/ Work(w) \/ SetReturn(w) \/ End(w) \/ EndQuit(w)

Next ==
    \/ \E c \in Clients : Call(c) \/ ClientStep(c) \/ ClientExit(c)
    \/ \E w \in Pids : WorkerStep(w) \/ Sleep(w) \/ Resume(w) \/ WorkerExit(w) \/ Funeral(w)
    \/ \E i \in Slots : Timeout(i)
    \/ \E i \in 1 .. PoolNum : Shrink(i)
    \/ \E x \in Clients \cup Pids : StrayWake(x)
    \/ ServerExit \/ proc_ipc_disable \/ proc_ipc_enable

Spec == Init /\ [][Next]_vars

-----------------------------------------------------------------------------
(* Properties.                                                              *)

\* A request in flight and the worker it was handed to agree about each other:
\* the worker is alive, on the client's core, and attached to that request; and
\* a worker is attached to a request that names it.  Nobody else serves it.
HandlerAgreement ==
    /\ \A i \in Busy(tasks) : LET w == tasks[i].handler IN
          /\ w \in threads /\ Live(w) /\ worker[w].uuid = tasks[i].handler_uuid
          /\ worker[w].ipc_task = i /\ worker[w].uid = tasks[i].uid
          /\ worker[w].core = Core[tasks[i].client]
    /\ \A w \in Pids : worker[w].ipc_task # 0 => tasks[worker[w].ipc_task].handler = w

\* Every live worker is a member of the pool, once: the path on which a worker
\* that is no member ends itself is never needed.  Under IPC_MULTI_CORE a core
\* has at most one member that is not about to quit.
MembersRegistered ==
    /\ \A w \in threads : Live(w) => Cardinality(SlotOf(w)) = 1
    /\ server.multi_core => \A k \in Cores : Cardinality(core_member(k)) <= 1

\* Requests of one client are handled one at a time, those without a reply
\* included, as long as the watchdog leaves them alone.
OneAtATime ==
    \A v, w \in threads :
        /\ v # w /\ worker[v].pc = "body" /\ worker[w].pc = "body"
        /\ Serving(v) /\ Serving(w)
        => log.asked[worker[v].uid] # log.asked[worker[w].uid]

\* A handler that serves a request, running or asleep, is not started over: only
\* a parked worker is given a new one.
NotStartedOver ==
    [][\A w \in Pids : worker[w].pc \in {"body", "reply"} /\ Serving(w)
                        => worker'[w].pc # "entry"]_vars

\* The same of every handler, also of one whose request the watchdog aborted.
OnlyParkedBound ==
    [][\A w \in Pids : worker[w].pc \in {"body", "reply"} => worker'[w].pc # "entry"]_vars

\* A client asleep in ipc_call() has its request in a slot, or a place in the
\* wait queue, of a server that is alive.
CallerAttended ==
    \A c \in Clients : task[c].state = "BLOCK" =>
        /\ server.up
        /\ client[c].pc = "wait" => Pending(c)
        /\ client[c].pc = "call" => c \in Range(waitq)

\* A published reply that was not withdrawn by the watchdog is not reported as a
\* failed call, and the reply a client finds is the reply to a request of its
\* own, and to the one it waits for if it waits.
RepliesDelivered ==
    /\ log.answered \cap log.failed = {}
    /\ \A c \in Clients : res[c].state = "RETURN" =>
          /\ log.asked[res[c].uid] = c
          /\ client[c].pc = "wait" => res[c].uid = client[c].uid

\* Somebody is going to look at the wait queue: a client on its way to the
\* server, the main context of a disabled server, or a worker, when it parks,
\* quits (the sweep tells every parked one to) or is buried.
NeverForgotten ==
    (\E c \in Range(waitq) : task[c].state = "BLOCK") =>
        \/ server.disabled
        \/ \E c \in Clients : Runnable(c) /\ client[c].pc = "call"
        \/ threads # {}

\* An empty pool of an IPC_MULTI_TASK server whose last spawn failed: it stays
\* short until another call fills it (the comment before proc_ipc_pool_spawn()).
StaysShort == log.short /\ ~server.multi_core

\* Nobody is forgotten in the wait queue, except that the client for which the
\* first worker of an empty pool could not be created waits for the next call of
\* somebody else.
NoForgottenWaiter == NeverForgotten \/ StaysShort

\* A client waits for a worker only while none is parked on its core, unless a
\* client on its way to the server is going to use it (what the comment in
\* proc_ipc_pool_park() says).
NoIdleWorkerIgnored ==
    \A c \in Range(waitq) :
        task[c].state = "BLOCK" /\ ~client_busy(c) /\ ~server.disabled /\ Busy(tasks) # Slots
        /\ IdleOn(Core[c]) # {} =>
            \E d \in Clients : Runnable(d) /\ client[d].pc = "call"

-----------------------------------------------------------------------------
\* Runnable tasks are dispatched (FIFO ready queue, timer), handlers end after a
\* finite number of sleeps, what a handler sleeps for happens, once a second the
\* dead are buried and a worker that stays idle is told to quit, and a client
\* that tries again and again does not find the task table full every time.
FairSpec ==
    /\ Spec
    /\ \A c \in Clients : WF_vars(ClientStep(c)) /\ SF_vars(RetryCall(c) /\ threads' # threads)
    /\ \A w \in Pids : /\ WF_vars(WorkerStep(w)) /\ SF_vars(Work(w))
                       /\ WF_vars(Resume(w)) /\ WF_vars(Funeral(w))
    /\ \A i \in 1 .. PoolNum : WF_vars(Shrink(i))
    /\ WF_vars(proc_ipc_enable)

\* Once the load ceases every ipc_call() returns, or its client dies, or no
\* worker can be created for the empty pool.  (While other clients keep calling,
\* a client on another core may wait for a thread stack as long as they do.)
CallReturns ==
    <>[][log'.calls = log.calls]_vars =>
        \A c \in Clients :
            client[c].pc # "run" ~> client[c].pc = "run" \/ ~Live(c) \/ StaysShort
=============================================================================
