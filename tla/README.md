# A verification project for the EwokOS kernel

EwokOS is a small microkernel operating system written in C. The kernel
(`src/kernel/kernel/src`, about 11 500 lines) offers tasks, address spaces,
synchronous ipc, user-level interrupts, signals, semaphores, shared memory and
capabilities; everything else (the file system server vfsd, drivers, networking,
the window system) is a user process that talks over ipc. This directory keeps
TLA+ models of the kernel's concurrent core, the TLC configurations that check
them on small instances and TLAPS proofs of their main invariants.

## 1. Inventory

### Concurrency

* `svc_handler` and `irq_handler` run with interrupts disabled and take
  `kernel_lock`, so at most one system call or interrupt is executed at a time in
  the whole machine. Exceptions are the query fast path
  (`svc_is_query_fastpath`) and the abort handlers.
* The abort handlers (undefined instruction, prefetch and data abort, `irq.c`)
  do *not* take `kernel_lock`. A fatal fault calls `proc_exit`, so the whole
  teardown of a process runs concurrently with a system call of another core.
* The proc lock (`proc_lock_enter`, reentrant per core) protects the task table,
  the ready queues, the semaphores and the wait table; each ipc server has a lock
  of its own.
* A handler that blocks its caller does not come back: `schedule` replaces the
  exception frame, and the task continues in user space, at the return of its
  system call, when it is dispatched again. Everything after a block is therefore
  done by libc, in a loop around the call.

### Components

| component | state | operations | interacts with | what makes it correct |
|---|---|---|---|---|
| tasks, block and wake (`proc.c`) | state, block token, latched wake, deadline | `proc_block_by(_timeout)`, `proc_wakeup_by`, `renew_sleep_counter` | every component that sleeps | no wake is lost between the test of a condition and the block; a dead task is never resumed |
| scheduler (`proc.c`, `schedule.c`) | ready queue per core, current task per core | `proc_ready`, `schedule`, `proc_switch`, timer, IPI | all | a READY task is in exactly one queue; none runs on two cores |
| semaphores (`semaphore.c`, libc wrappers) | semaphores, shared wait table, arrival counter | alloc, free, enter, enter_timeout, try_enter, quit, cleanup at exit | tasks, ipc (a serving context must not park), exit | mutual exclusion, FIFO handoff, no lost permit or waiter |
| ipc, single-task server (`ipc.c`) | request ring, saved main context, reply slots, admission queue | call, get_return, get_arg, set_return, end, disable, enable, watchdog | tasks, scheduler, signals, interrupts | a client is answered once, by its own request; the main context survives |
| ipc worker pool (`ipc.c`) | worker slots, per-request handler | assign, bind, park, retire, abort | as above | a request has one worker; one requester is served in order |
| user interrupts (`interrupt.c`), signals (`signal.c`) | pending state, saved context, wait queue | send, end, timeout | the same main context as ipc | nested save and restore; a device is heard again |
| process life cycle (`proc.c`) | task table, page directories, thread stacks, the current pid of each core, zombies | fork, thread, exec, exit, kill, fault, waitpid, detach, funeral | all | no task is reaped while it is used; nobody waits for the dead; reference counts |
| kernel events (`kevqueue.c`), capabilities (`cap.c`), shm and dma (`mm/`), allocators (`mm/`) | queues, cnodes, reference counts, free lists | push/pop; grant/revoke; map/unmap; alloc/free | exit, fork | no leak, no double free |
| pthread mutex and condition variables (libc) | built on semaphores | lock, wait, signal, broadcast | semaphores | no lost signal |
| file systems, vfsd, drivers, network, GUI | user space | | ipc | not modelled |

`PROJECT.json` lists all of them with their status, and the hazards with the line
where each one bites.

### What is hard here

* **Sleeping is two steps, waking is somebody else's.** A task tests a condition,
  queues itself, drops a lock and only then parks; the wake may come in between and
  is latched in the task (`wake_pending`).
* **A single-task ipc server lends out its only context.** The kernel swaps the
  registers, the task state, the sleep deadline and the reply slot of a server while
  its main loop runs, sleeps, blocks or is in a call of its own, and must put all of
  them back.
* **Deaths.** Every holder, waiter, client and server can die between any two
  steps, by exit, kill or fault; its pid is used again.
* **Timeouts.** The ipc watchdog abandons a request whose handler still runs,
  possibly on another core.
* **Workers.** A pool gives a request to a thread that is created, parked, retired and
  buried by others; whether it is parked is inferred from its state.
* **Identity.** A core knows its task, a pool its worker and a request its client by
  pid; a pid may be used again at any time after the burial.
* **Bounds.** Wait tables, request rings and wake batches fill up; arrival counters
  wrap.

## 2. Modules

| module | models | state |
|---|---|---|
| `TaskState` | the block and wake half of `proc_t`: `proc_block_by`, `proc_block_by_timeout`, `proc_wakeup_by`, the sleep deadline | none; operators on one task record |
| `Semaphore` | `semaphore.c`, the libc loops, teardown in `proc_terminate` | semaphores, wait table, the call in progress (`sys`), tasks, teardown stages |
| `SemaphoreProofs` | theorems about `Semaphore`: the wait queue | |
| `SemaphoreOrderProofs` | extends it: holders, order of service, permits | |
| `SemaphoreLockProofs` | extends it: locks on one core or without faults, the refinement of `Lock` | |
| `IpcPoolProofs`, `HandlersProofs`, `ProcLifeProofs` | theorems about the module of that name | |
| `IpcServer` | `ipc.c` for servers with one context, `proc_switch`, `schedule`, the watchdog, exit and pid reuse, libc's `ipc_call` and `handle_ipc` | one record `kernel`: tasks, contexts, reply slots, servers, current task and trap frame per core |
| `IpcServerEffects` | what the operators and steps of `IpcServer` do: the lemmas its proofs rest on | |
| `IpcServerProofs` | extends it: theorems about `IpcServer` | |
| `Lock` | nothing in the code: what a binary semaphore promises | owner, queue, who is inside; who is dead |
| `SemaphoreLock` | the refinement mapping from `Semaphore` to `Lock` | |
| `IpcPool` | `ipc.c` for servers with IPC_MULTI_TASK or IPC_MULTI_CORE, the spawn, park, watchdog, sweep and teardown in `proc.c` | tasks, calls, reply slots, request slots, pool members, threads, admission queue |
| `Handlers` | interrupts, signals and requests on one process: `interrupt.c`, `signal.c`, the injection in `proc_switch`, the watchdog of interrupts | the process with its three saved states, clients, disabled irqs |
| `ProcLife` | the task table, `proc_create`, `kfork`, threads, `proc_terminate`, `proc_waitpid`, `proc_funeral`, the abort handlers, the timer | kernel memory, current pid, what each cpu really executes and walks |
| `MCSemaphore`, `MCIpcServer`, `MCIpcPool`, `MCHandlers`, `MCProcLife` | instances for TLC | |

`TaskState` is used by all of them except `ProcLife`, which so share one
definition of how a task sleeps and is woken. Each module states a type invariant
`TypeOK`; all of them are proved, that of `Semaphore` is checked by a run as well.

**Semaphore.** The kernel lock makes system calls exclusive but a fault is not under
it, so the unit of atomicity is one section under the proc lock. `svc_handler(t, op,
s)` enters a call and sets `sys`; each call is then one or more actions
(`semaphore_enter_raw` has two sections: the first one ends in queueing the caller,
`InWindow` is the gap, `EnterServing`/`EnterPark` the second one). `IpcCall` is a
request to a server with one context: its handler is injected whatever the main context
is doing, a wait for a semaphore included (`Hijack`; `main` keeps that wait), and
`IpcEnd` puts the main context back, READY, to issue its call again. A handler may enter
semaphores of its own; it does not park (`proc_ipc_sync_serving`) but gives its place up
and yields, so that for the time of that call its task has two places in the wait
table. The next request of the ring is the same handler going on; the clients and the
watchdog of such a server are the business of `IpcServer`. `Fault` starts a
teardown on any core at any time; `TerminateChild`, `semaphore_clear` and
`semaphore_clear_occupied` are its later sections. `want` is the libc loop a task is
in: a task that was woken re-issues its call. `holds`, `permits`, `orphans`, `ahead`
and `wrapped` are history variables; no guard reads them except the assumptions about
programs: a program releases only what it holds, does not enter a lock it holds, and a
handler has released what its main context waits for when it ends.

**IpcServer.** System calls and interrupts are exclusive, so each is one step. The
operators carry the names of the C functions, take a kernel state and give the state
after the function, or the set of states if it ends in `schedule()`; an action is a
guard on what the current task of a core executes (`At`) and one of those
operators. A context is abstracted to the libc code it is in (`mode`, `pc`), the
request or call it is about, and a counter `n` of the work a main loop has done,
which stands for its registers: if a context is lost or set back, `n` shows it.
`frame[c]` is the trap frame of core `c`, `ctx[p]` the saved copy in `proc_t`.
`need_resched` is the interrupt the watchdog sends to the core of a server; user code
stops there, but a system call that already spins for `kernel_lock` goes first.

**Lock and SemaphoreLock.** `Lock` has one lock per name with an owner, a set of queued
clients and the set of clients that are inside; it is created, destroyed, taken only
if no living client queues, and released to a living waiter, or to nobody only if
there is none. The mapping reads the owner from `occupied_pid`, the queue from the
ungranted slots of the wait table and `inside` from `holds`, which is what programs
know. So the owner changes at the handoff, under the proc lock, and the new owner
gets inside (`Collect`) only when libc's loop finds the grant. One step may concern
several locks (a teardown releases all). What the lock does not promise is FIFO order
(`FifoHandoff` says that separately) and that a waiter is served (`WaiterServed`).

**IpcPool.** Which runnable task executes next is left open, so a hand-over of the cpu
in the kernel is one of the choices and no scheduler is needed. `tasks` are the request
slots, `pool` the members, `worker` the threads with the request each *believes* to
serve (`uid`) and the one the kernel attached to it (`ipc_task`): the watchdog parts
the two. `Shrink` is the one-second sweep that tells idle members to quit, `Funeral`
the burial after which a stack slot and a pid can be used again. A worker that is to be
created may not be (`CallUnspawned`: the task table is full, or memory exhausted), at any
time at which no dead thread is left that `kfork_raw` could bury. Clients, workers and the
server die at any time; `StrayWake` is SYS_WAKEUP from anybody.

**Handlers.** One process and its core. A user context is one of "main", "intr", "sig",
"ipc" and "zero" (a `saved_state_t` that was never filled): the question is only whose
registers are where. `regs` are those of the cpu while the process is current, `ctx` the
copy in `proc_t`; each handler has a saved context of its own. `Chain` follows the
saved contexts from the present one down.

**ProcLife.** `exec` and `ttbr` are the task a cpu really executes and the page tables
it really walks, `current` the pid in `_current_proc`. The kernel only sees the last
one, and looks it up in the table. A fault is two actions
(`FaultBegin`, `FaultEnd`), because the abort handlers do not take `kernel_lock`; and so a
system call is two or more. `svc_handler` finds its caller alive and takes the lock
(`call` is the call that holds it), and what follows uses that caller though a fault on
another core may have terminated it: `proc_waitpid` publishes WAIT, schedules and reaps in
three steps, `sys_fork` creates and parks in two, and a handler that looks its caller up
again may find NULL (`CallerGone`, a fault in the kernel). What is done under one hold of
the proc lock is one step; `schedule` with its switch is one too, although it writes
RUNNING after it has released the proc lock.
`hasty` is set when a task leaves the table that some core still runs or tears down.
What such a core does next depends on what becomes of the freed memory, so behaviours
are followed up to that step and no further (`Up`), and two invariants leave its state
out; `RunningSpaceKept` below is the statement that this never happens, which fails.

## 3. What TLC checks

All runs use `CHECK_DEADLOCK FALSE`: a system in which every process is dead or has
nothing left to call may stop. Lost wakes are caught by the invariants on sleepers
and by the liveness runs.

| run | instance | shows |
|---|---|---|
| `sem_wakes` | 2 PROCs, 2 cores, 2 semaphores, alloc, free and enter, foreign wakes, faults of a PROC in the middle of calls, an ipc server that is hijacked in any state and whose handler waits too | `TypeOK`, `GrantedIsAwake`, `SleeperIsQueued`, `OneSlotPerTask` |
| `sem_up` | 3 tasks of 2 PROCs, 1 core, a binary and then a counting semaphore, timed waits, exits and faults | `MutualExclusion`, `OccupancyAccurate`, `DeadHoldNothing`, `NoStrandedPermit`, `PermitsConserved`, `ZombieStaysDead`, `ImplementsLock` |
| `sem_live` | 3 tasks, 1 core, fair | `FifoHandoff`, `WaiterServed` |
| `ipc_serve` | 3 clients, 2 cores, 3 calls with and without reply, ring of 2, a main loop that works, sleeps, disables and enables its ipc | `MainContextKept`, `AtMostOnce`, `SleepNotCut`, `NoForgottenWaiter` |
| `ipc_death` | 2 clients, client and server mortal, pids reused, watchdog, ring of 1, a main loop in `waitpid` or blocked | `HandlerOwnsHead`, `CallerAttended`, `ReplyToAsker`, `AnsweredNotFailed`, `WaitsForLiving` |
| `ipc_live` | a client, a server whose handler calls a second server on another core, calls with and without reply, both servers mortal, fair | `CallReturns` |
| `pool_serve` | 2 clients on 2 cores, 2 calls, both pool modes, failing spawns, watchdog, sleeping handlers, retirement, worker exits, disable, deaths, stray wakes | `HandlerAgreement`, `MembersRegistered`, `OneAtATime`, `NotStartedOver`, `CallerAttended`, `RepliesDelivered`, `NoForgottenWaiter` |
| `pool_live` | 2 clients, 3 calls, one stack and one pid, failing spawns, wake batch of 1, worker exits and retirement, fair | `CallReturns` |
| `nest` | a process, 2 hardware and a soft interrupt of which 2 occur, a signal, a call, a watchdog expiry, sleeps and blocks anywhere | `Unwinds`, `HandlersMatch`, `ReadyIsFound`, `IrqHeardAgain` |
| `life` | 2 cores, 3 slots, 2 page directories, 2 stacks, 3 births, every call, faults on one core (the one that detaches) | `RefsExact`, `SpaceKept`, `WaiterAttended`, `OwnTask`, `DeadThreadStays` |

For semaphores, `OneSlotPerTask` is what lets `sem_waiter_find` stop at the first slot of
a task: never two in one queue, and in two queues only inside the enter of a handler that
was injected into a wait. A server that died in a handler is left out of it and of
`GrantedIsAwake` (`Whole`): on two cores a fault between queueing and giving up leaves
places of both contexts behind until the cleanup.

What the IPC properties say in the code's terms: `HandlerOwnsHead` is what allows
`proc_ipc_end` to close "the head" without being told which request; `MainContextKept`
compares the work the main loop has done with what its kept registers know;
`CallerAttended` says that a caller asleep in `ipc_call` is in a ring or a wait queue
of a live server; `NoForgottenWaiter` that no one is left at an open and idle server
unless somebody else is on the way in and will wake the next batch.

For the pool: `HandlerAgreement` is what makes it safe to find a worker's request by an
index kept in the worker; `MembersRegistered` says that the path by which a worker that
lost its membership ends itself is never needed; `NotStartedOver` that "parked" is
inferred correctly for a handler that blocks under a request; `OneAtATime` that the
requests of one client do not overlap although two workers could take them.
`NoForgottenWaiter` is weaker than for a single server: a waiter may have to wait for
the end, the retirement or the burial of a worker, and `CallReturns` shows that these
suffice once no further calls begin. Under a load that does not cease they do not: with all
thread stacks taken by workers of one core, a client of another core waits (or, under
IPC_MULTI_CORE, tries again) as long as the clients of the first core keep those workers
from being idle for `IPC_TASK_SELF_QUIT_TIMEOUT`. Both properties except an empty
IPC_MULTI_TASK pool whose last spawn failed (`StaysShort`), see below.

For handlers: `Unwinds` says that ending the handlers in progress, in the order in which
they sit on each other, leads back to the main context; `HandlersMatch` that the kernel's
flags and the contexts agree; `ReadyIsFound` that a restored state never leaves a process
READY and in no queue.

For the life cycle: `SpaceKept` says that no live task loses its slot or address space,
whatever cores bury meanwhile; `OwnTask` that no core takes another task for its
own. Both are about decisions made from the table while another core executes.
`DeadThreadStays` excepts one case, the call a thread is in when a fault on another core
terminates it; what happens then is listed below (`ThreadNeverResumed`).

### Disagreements

Two runs check one statement of the code's comments each and are expected to fail;
`findings` in `PROJECT.json` quotes the lines.

| run | what happens |
|---|---|
| `sem_two_holders` | on two cores, the unlocked teardown of a faulting holder overlaps another call and the lock admits two holders |
| `life_resumed` | a process exits, then its father: the signal of the dying father makes the zombie READY, and it is scheduled again |

The models show more of them; each is found in seconds to a minute after the given
change of a configuration, and the property is defined in the module:

| property | configuration | what happens |
|---|---|---|
| `ZombieStaysDead` | `sem_two_holders` without "quit" | a task killed by a fault of its PROC on another core is set from ZOMBIE to BLOCK by the `proc_block_by` it is executing (`svc.c`:1102 "never resume a terminated context") |
| `DeadHoldNothing` | the same | such a task takes the lock or a place in the queue after its cleanup (`proc.c`:1279) |
| `PurgedWaiterLeaves` | `sem_up` with "free" | a waiter that `semaphore_free` released comes back after the id was allocated again and queues on somebody else's semaphore (`semaphore.c`:175) |
| `ThreadNeverResumed` | `life` | a thread has entered `proc_waitpid` when a fault of another thread of its process, on the other core, terminates it: it is set from ZOMBIE to WAIT (`proc.c`:2329, 2355-2356), and made READY when the task it waits for dies. `sys_fork` does the same with BLOCK (`svc.c`:206; `svc.c`:1102 "never resume a terminated context") |
| `StrictFifo` | `sem_live` with `SEQ_MOD = 2` | after the arrival counter wraps a later arrival is served first (`semaphore.c`:19) |
| `EndsOwnRequest` | `ipc_death` with `Core <- ServerOnCore1`, two cores, `MaxCalls = 3` and no deaths | the watchdog closes a request whose handler, on another core, has just trapped into SYS_IPC_END; that call then ends the next request, unserved (`ipc.c`:326-329 lists END among the calls that validate the uid) |
| `MainContextKept` | `ipc_serve` with `Watchdog = TRUE`, `MainOps = {"step"}`, `MaxSteps = 2` | the watchdog finds the server in the ready queue: `restore_pending` stays set, and the next time the *main* loop is switched out its registers are replaced by the older copy (`proc.c`:886; `proc.c`:980-982 "that path discards the transient injection-handler state and resumes cproc's saved ctx") |
| `AtMostOnce` | `ipc_death` with `IPC_CTX_MAX = 2` and no main loop operations or deaths | the same `restore_pending`, with a second request in the ring: its handler starts at once and does its work; when it is switched out its registers are replaced by those of its start, and the work is done again |
| `WaitsForLiving` | `ipc_death` with `MainOps = {"waitpid", "reap"}` | a server in `waitpid` serves a request while its child dies: the wake-up looks for visible WAIT only (`proc.c`:1229), and WAIT is restored afterwards (`proc.c`:2350-2353) |
| `AnsweredNotFailed` | `ipc_live` with `Spec`, `MainCalls <- MainOfS1CallsS2`, `HandlerCalls <- NoNestedCalls` | the reply to a server's own call arrives while it serves somebody and is overwritten by the saved reply slot (`proc.c`:818; `ipc.c`:20-22) |
| `NoForgottenWaiter` | `ipc_serve` with mortal clients and `MaxCalls = 4`, or with `IPC_CTX_MAX = 1` | `ipc_enable` lets two waiters in; both die on the way; the third sleeps at an open, idle server (`ipc.c`:1178 "Wake EVERY waiter ... re-enabled"). With one slot, the stale queue entry of a client whose wake was latched uses up the wake |
| `SleepNotCut` | `ipc_live` with "usleep" and `Spec` | the reply to a handler's nested call also wakes the saved `usleep` of the main loop (`ipc.c`:1645-1652 "only pauses the sleep") |
| `OnlyParkedBound` | `pool_serve` | the watchdog takes the request away from a worker whose handler then blocks: it looks parked, and the next request is started on top of the old handler (`ipc.c`:797 "Bind request ipc to a parked worker") |
| `OneAtATime` without `Serving` | `pool_serve` | after the watchdog, the old handler and that of the client's next request run side by side (`ipc.c`:923-929 "a requester's requests are served strictly one at a time in send order") |
| `NoIdleWorkerIgnored` | `pool_live` with `Spec`, 3 clients, `IPC_WAKE_BATCH_LIMIT = 2`, `MaxCalls = 4` | a waiter that is awake already, or whose core has no worker, uses up the wake; another one stays queued beside a parked worker (`proc.c`:2697-2700 "it cannot slip in between and strand") until the idle sweep retires the worker |
| `NeverForgotten` | `pool_serve` | the pool of an IPC_MULTI_TASK server is empty and its first worker cannot be created: the client parks (`ipc.c`:966-974, 1375), and no worker is there to wake it; only the next call of another client, if it can be given a worker, does (`proc.c`:2650-2652 "the pool then simply stays short and is refilled on later ipc calls") |
| `NoForgottenWaiter` | `pool_serve` with `IPC_CTX_MAX = 1`, `IPC_WAKE_BATCH_LIMIT = 1` | the waiter that was let in dies; the other one is not told |
| `NoWaiterLeft` | `nest` with 2 clients and 2 calls | the end of an interrupt wakes one of the waiting clients, the others go on waiting (`interrupt.c`:158-161) |
| `SleeperFree` | `nest` with `MaxCalls = 0`, `MaxSignals = 0` | an interrupt sent from another core is still to be started when the process goes to sleep, and waits for the end of the sleep (`proc.c`:2147-2149 "so nothing is left waiting for the sleeper") |
| `BackToMain` | `nest` | the watchdog meets an interrupt that has not started and restores a context that was never saved (`proc.c`:837; `proc.c`:798-800) |
| `Unwinds` | `nest` with `MaxSignals = 2` | a second signal overwrites the context the first one interrupted (`signal.c`:24) |
| `IrqHeardAgain` without `collided` | `nest` | an interrupt that comes during another one is disabled and never enabled again (`interrupt.c`:81-86, 269-271) |
| `RunningSpaceKept` | `life`, `MAX_PROC_NUM = 3`, no faults, calls fork, thread, exit, waitpid | a process is buried while one of its tasks still runs on another core (`proc.c`:1449 "keep it still got child thread running.") |
| `NothingLost` | the same | the reaper takes a zombie out of the table and then cannot bury it: its memory is never freed (`proc.c`:1439; 1304-1305) |
| `OwnerIsOwn` | the same | after its process is buried and the pid used again, a thread is attributed to another process |
| `NoSurvivor` | the same | a thread created by a thread survives its process (`proc.c`:1303 "after the whole scene is torn down") |
| `NoHalt` | the same | `kfork` reads the type of a task that could not be created (`proc.c`:2629, 2637); with faults, a fault of a task that is already dead is taken for one of the kernel (`irq.c`:309, 377) |

The passing runs stay clear of these scenarios by their constants (one core where a
fault must not overlap a call, no death in a saved `waitpid`, no watchdog with main work,
no deaths among the waiters of a closed server, no sleep under a nested call, one
signal), or by a named history variable in the property (`log.timeouts`, `collided`,
`hasty`, `log.short`, and `Serving`, which excludes handlers the watchdog has parted from
their request). The only guard that cuts a behaviour off is `Up` in `ProcLife`, at a halt and
after a burial of a running task. Symmetry is used where processes or memory blocks are
interchangeable, and only in runs of invariants and action properties, never with
liveness. `sem_wakes` compares states without the history variables (`WithoutHistory`),
which no guard reads and none of its invariants but `TypeOK`.

Three smaller observations. A handler that enters the very semaphore its main context
waits for finds the place of that wait and, since it must not park, gives it up: the main
context queues again at the end when it is back. A caller whose wake was latched before it
blocked stays in the admission queue while its request is served, and is then woken in
place of a real waiter; with a ring of one slot this strands the waiter, with the code's
batch of two and more than one slot every end of service removes more such entries than it
leaves. And docs/wiki/09-ipc.md:199 speaks of 8 request slots where `IPC_CTX_MAX` is 16.

### Bounds

| constant | value | code | why it is enough |
|---|---|---|---|
| `SEMAPHORE_MAX` | 1, 2 | 1024 | queues of different semaphores share only the wait table, whose slots are interchangeable; exhaustion happens with 2 slots and 3 tasks; 2 in `sem_wakes`, for the two contexts of a server |
| `SEM_WAITER_MAX` | 2, 3 | 256 | in `sem_up` fewer slots than tasks, so that the table overflows |
| `COUNT_MAX` | 2 | 2^31 - 1 | ceiling and zero are both met |
| `SEQ_MOD` | 1, 2, 4 | 2^32 | with 4 the order of all waiters of an instance is distinct before the wrap, with 2 the wrap happens at once; `sem_wakes` is not about order |
| tasks | 2 to 4 | | a holder, a waiter and a third one that overtakes, dies or kills; in `sem_wakes` 2, of which one has two contexts |
| `IPC_CTX_MAX` | 1, 2 | 16 | 2 lets a request wait behind the one in service and keeps room for a whole wake batch in an empty ring; `ipc_death` uses 1 so that the second call waits for admission |
| `IPC_WAKE_BATCH_LIMIT` | 2 | 2 | |
| `MaxCalls` | 2 to 4 | | a call in service, one queued, one more after a watchdog, a death or a nested call |
| `MaxSteps` | 0 to 2 | | one step to be lost suffices |
| `MaxUuid` | 1, 2 | | in `ipc_death`, either mortal process dies and comes back under its pid |
| pool: `PoolNum`, `Stacks`, `Pids` | 2; 2 or 1; as many | `max_task_per_proc` or cores | two workers to overlap; with one stack growth is refused and a waiter depends on the burial; a spawn may also fail at any time |
| pool: `IPC_CTX_MAX`, batch | 2; 2 or 1 | 16; 2 | a batch of 1 makes a wasted wake matter in `pool_live` |
| `MaxInterrupts`, `MaxSignals`, `MaxCalls`, `MaxTimeouts` | 2, 1, 1, 1 | | every order in which three handlers sit on each other, and an interrupt during an interrupt |
| `MAX_TASK_NUM`, `MAX_PROC_NUM`, `MAX_TASK_PER_PROC` | 3, 2, 2 | configured; 64 to 512; at least 64 | each table fills up and is used again after 3 births |
| `Calls` of `ProcLife` | by core | | in `life` only core 0 sets up signals and only core 1, the one with faults, detaches: a third of the states |
| `Objs` | 3, 4 | | as many blocks as slots, or one more; with 4 `life` has 1% more states and takes half as long again |

### Fairness

`sem_live`: handlers and teardown run to completion (weak fairness; they run with
interrupts off), a READY task is dispatched and preempted again and again (strong
fairness: the ready queue is FIFO and the timer ends every slice), and a task that
gets the cpu goes on with its wait loop and releases what it holds, which is an
assumption about programs. `ipc_live`: a task that is READY again and
again is dispatched again and again, and a task that again and again is current
inside the code of libc or of a handler proceeds. Nothing is assumed about timers,
events or deaths, and main loops need not do anything. `pool_live`: runnable clients
and workers proceed, a handler ends after finitely many sleeps and what it sleeps for
happens (both assumptions about the server), once a second the dead are buried and
an idle member is told to quit (`proc_funeral` and the sweep of the timer), and a client
that can have a worker created again and again is given one in the end: the task table is
not full, or memory exhausted, every time it tries (an assumption about the system; a
parked client does not try again by itself). Nothing is assumed of calls, exits or
deaths.

## 4. What is proved

The theorems (TLAPS) hold for every value of the constants that satisfies the named
assumption of the module, which TLC evaluates in every run. Each proof module states
inductive invariants as conjunctions of named parts, shows that they hold at first and
that every action keeps them, one lemma per action or kind of step, and reads the
properties off. The
inductive invariants were checked by TLC on small instances before they were
proved. Every safety property that a passing run checks is the subject of a theorem, with
one exception, `NoForgottenWaiter` of `IpcServer`.

| theorem | property | for |
|---|---|---|
| `SemaphoreProofs`: `TypeCorrect`, `NoLostWake`, `NoForgottenSleeper`, `NoIdlePermit`, `SlotIsUnique` | `TypeOK`, `GrantedIsAwake`, `SleeperIsQueued`, `NoStrandedPermit`, `OneSlotPerTask` | any tasks, semaphores, slots, cores, hijacked servers |
| `SemaphoreOrderProofs`: `FirstComeFirstServed`, `PermitsAreConserved` | `FifoHandoff`, `PermitsConserved` | the same |
| `SemaphoreLockProofs`: `OneHolder`, `OwnersAreRecorded`, `DeadAreForgotten`, `DeathIsFinal`, `SemaphoreIsLock` | `MutualExclusion`, `OccupancyAccurate`, `DeadHoldNothing`, `ZombieStaysDead`, `ImplementsLock` | `Apart`: one core, or no faults |
| `IpcPoolProofs`: `TypeCorrect`, `HandlersAgree`, `MembersAreRegistered`, `ClientsOneAtATime`, `RepliesAreDelivered`, `CallersAttended`, `HandlersNotStartedOver` | `TypeOK`, `HandlerAgreement`, `MembersRegistered`, `OneAtATime`, `RepliesDelivered`, `CallerAttended`, `NotStartedOver` | any clients, threads, slots, cores, both modes, all events |
| `IpcPoolProofs`: `NobodyForgotten` | `NoForgottenWaiter` | in states in which every client lives |
| `HandlersProofs`: `TypeCorrect`, `SchedulerFinds`, `DevicesHeard` | `TypeOK`, `ReadyIsFound`, `IrqHeardAgain` | any clients, interrupts, bounds |
| `HandlersProofs`: `HandlersUnwind`, `HandlersAreMatched` | `Unwinds`, `HandlersMatch` | while at most one signal was sent |
| `ProcLifeProofs`: `TypeCorrect`, `RefsAreExact`, `SpacesAreKept`, `WaitersAttended`, `TasksAreOwn` | `TypeOK`, `RefsExact`, `SpaceKept`, `WaiterAttended`, `OwnTask` | any cores, slots, memory |
| `ProcLifeProofs`: `DeadThreadsStay` | `DeadThreadStays` | any cores, slots, memory |
| `ProcLifeProofs`: `ThreadsNeverResumed` | `ThreadNeverResumed` | one core, or no faults |
| `IpcServerProofs`: `TypeCorrect`, `RepliesReachTheAsker` | `TypeOK`, `ReplyToAsker` | any processes, servers, cores, bounds, calls, deaths, with or without watchdog |
| `WaitersWaitForTheLiving` | `WaitsForLiving` | `"reap" \notin MainOps`: no server in `waitpid` |
| `HandlersOwnTheHead`, `EndsCloseTheirRequest` | `HandlerOwnsHead`, `EndsOwnRequest` | `ServersOnTimerCore`: no watchdog, or servers on core 0 |
| `CallersAreAttended` | `CallerAttended` | the same, and `MainsMakeNoCalls`: no watchdog, or main loops of servers make no calls |
| `WorkIsDoneOnce`, `MainContextsAreKept` | `AtMostOnce`, `MainContextKept` | no watchdog |
| `SleepsAreNotCut` | `SleepNotCut` | no watchdog, `ServersMakeNoCalls` |
| `AnswersAreNotLost` | `AnsweredNotFailed` | no watchdog, `OnlyHandlersCall`: handlers and clients make calls, main loops of servers do not |

The conditions are not for convenience. `Apart` is what run `sem_two_holders` violates,
a fault on a second core is what revives a thread (`ThreadNeverResumed` in section 3),
a second signal is what breaks `Unwinds` in section 3, and a client that is let in and
dies is what strands a waiter of the pool: nothing in `ipc.c` hands its wake on. Those of
`IpcServerProofs` have their counterexamples in section 3 too: a server on another core
may have trapped into SYS_IPC_END when the watchdog closes its request (`EndsOwnRequest`);
`restore_pending` survives the watchdog and later sets the main loop or the next handler
back (`MainContextKept`, `AtMostOnce`); the wake of a handler that waits for a reply also
wakes the sleep it interrupted (`SleepNotCut`); the reply slot of a main loop in a call is
put aside and back while the reply arrives (`AnsweredNotFailed`); and a server in
`waitpid` is not seen by the wake (`WaitsForLiving`). Two
hypotheses are stronger than the counterexamples known: `AnsweredNotFailed` holds also with
the watchdog in `ipc_death`; and `CallerAttended` fails with the watchdog when the main loop
of a server calls one on a second core (a finished call is put back in place of the present
one), but with all servers on the timer core TLC finds no such case in up to 4 calls. The
watchdog ends the sleep of a main loop on purpose (`proc.c`:797-801), so `SleepNotCut` is
stated without it.

**The wait queue** (`WaitInv`). `GrantedIsAwake` is not inductive. Between the section
that queues a task and the one that parks it, a handoff may set `granted`; the task then
does not sleep only because the wake is latched with a token that a block on a semaphore
accepts. `WindowInv` says so: unless such a wake is latched, nothing happened to the
slot during the window. It needs that a slot belongs to the task and semaphore of the
call that made it (`SlotOwner`, `OneSlot`, `SlotsOfSems`), that the executing task is
awake (`CallsOfAwake`), that sleepers sleep on the token of their slot (`SleepToken`, or
the wake would not release them), and that a teardown has marked its task before it
touches the slots (`DeadIsStaged`). A hijacked server is covered by `HandlerInv`: its
handler never sleeps, and what its task has in the wait table belongs to the wait of the
main context or to the call in progress, which remembers its slot (`CallSlot`).
`QueuedMeansTaken` strengthens
`NoStrandedPermit` to dead waiters, which stay in the queue until their cleanup.
Actions that change neither slots nor tokens go through `QuietStep`, and those that only
wake tasks and free or grant slots through `CalmStep`.

**Order and permits** (`OrderInv`). `StepKind` classifies what a step may do to
semaphores, wait table and holders: nothing, a trap, an allocation, resets, collecting a
grant, taking a free permit, giving up, queueing, and the two that release to a waiter or
to nobody. The lemmas go kind by kind. `OrderInv` says that until the arrival counter
overflows it is above every ticket in the table (`SeqInv`), and that whoever is still
ahead of a waiter, by the history variable `ahead`, has the smaller ticket (`AheadInv`);
`FifoHandoff` is then a statement about one step. `PermitsConserved` is inductive
relative to `WaitInv`; its proof is about the cardinality of the set of granted slots.

**Locks** (`HoldInv`, `DeathInv`, `OwnInv`). `HoldInv` holds on any number of cores: a
recorded owner has the semaphore or a grant that it has not collected, and nobody
waits for what he has. Under `Apart` also the converse can be shown, because a teardown is
not interleaved with a call: `DeathInv` says that who dies, dies with the one task
that executes the teardown, and that calls are executed by tasks that live. `OwnInv`
adds that a release is asked for by a holder and that exactly the taken locks have an
owner. `SemaphoreIsLock` is the refinement: the initial states map to initial
states of `Lock`, and each kind of step to a step of `Lock` or to a stutter. The owner
changes at the handoff and not when libc's loop finds the grant, which is a step of its
own (`Collect`).

**The pool** (`PoolInv`). `StructInv` ties requests, threads and members to one another;
it includes what the properties leave out, such as that a member told to quit serves
nothing and that every uuid in the pool was handed out, so that a new thread is not taken
for an old member. Steps that are not calls only release (`Drops`), and `DropStruct`
shows the invariant for all of them at once; a call binds one request (`BindStruct`).
`CountInv` bounds uids by the calls begun. `ReplyInv` is about the client of a request
not yet answered: it waits for that very request and its reply slot holds no reply, which
is why publishing overwrites nothing. For sleepers, `Loosens` says what every wake does
to tasks and queue together (clients are only woken, who leaves the queue is awake).
`NobodyForgotten` rests on the arithmetic of `proc_ipc_wakeup`: if no request is held,
its budget is positive, and the first waiter that sleeps is let in. A call that finds no
thread may grow the pool (`NoThreadGrows`), so it gets a worker, tries again, or leaves the
pool short, which `log.short` records.

**Handlers** (`HandlersInv`). The contexts that are saved, taken with the present one,
form a chain without repetition that ends in the main context, whose members are exactly
the handlers in progress. In which order they sit on each other is left open; `Descent`
shows that three steps down always suffice. Every injection adds the new context on top,
every end removes the top one; what has to be shown is that the kernel's flags say
which.

**The life cycle** (`LifeInv`). `MemOK` concerns kernel memory: what the task table
points to, which blocks are used, that threads share the address space of a process and
its count is their number. `RunOK` concerns the cores and the teardowns in progress, and
holds until a running task leaves the table (`hasty`). `WaiterAttended` excuses a
waiter whose target is being torn down; the proof failed as long as it took a core that
tears nothing down (`Nil`) for such a teardown when the slot was empty, and the property
now excludes that. `CallOK` is about the call in progress: its core tears nothing down, its
caller stays in the table and is the core's current task, and the pid `waitpid` was given
is a slot. Every step then leaves dead threads dead but for that caller (`ButCaller`).
`ThreadsNeverResumed` needs in addition that the caller is alive until the call parks it
(`CallerAlive`), which is what its hypothesis gives: on one core, or without faults,
nothing happens between the steps of a call.

**The single-task server** (`IpcServerEffects`, `IpcServerProofs`). The state is one record
that each system call transforms as a whole, often through several C functions and a
`schedule`. So the proof has two halves. `IpcServerEffects` says what each operator does to
the record and draws it together in `Effect`: a step accepts a request, gives a core away,
blocks, wakes, closes a request, puts a main context back and so on. The recursive function
that empties the wait queue (`Without`) is described there by the members it leaves,
for queues of any length. `NextEffect` says that every step is one of
these. `IpcServerProofs` then shows for each invariant that every kind of effect keeps it.

* `BaseInv`: types; a core executes its own processes; only servers have handlers; the
  log's record of who asked agrees with every request and reply. `ReplyToAsker` follows
  because the uuid is compared where a client is looked up.
* `WaitsOK`: whoever is in `waitpid` waits for the living, and no server saved such a state.
* `ServiceInv`: what a server executes, or will execute when it is next dispatched, fits
  its record: a handler of the head of the ring if a request is in service, the main
  context otherwise, and then the other one is in `saved_state`. Between two functions of
  one call a server may not fit, so the parts take the set of servers that are left out.
* `Called`: a sleeper in a call has its request in a ring, with itself as the client that
  will be found, or its place in a wait queue; and what the watchdog puts back is in no
  call.
* `OnceInv`: the requests in all rings have different uids, and one whose handler has not
  got past its work has none on record; the registers kept for a main loop know of all its
  steps.
* `NapInv`: no server is a client, so a wake reaches a sleeping main loop only by its own
  timer, by a foreign event or through its saved state, which keeps the deadline.
* `AnswerInv`: a request that has no reply yet has its client waiting for just this one
  (`PledgesOK`); the slot of a waiter holds a reply exactly if one was published for it
  (`SlotsOK`); what happened concerns uids handed out (`PastOK`); and no main loop is in a
  call (`MainsOK`), so saving and restoring slots disturbs nobody.

Only model-checked: liveness (`WaiterServed`, both `CallReturns`), which is out of the
prover's reach; `AnsweredNotFailed` under the watchdog; and `NoForgottenWaiter` of
`IpcServer`. The last one is false in general: section 3 shows it fail with mortal clients
and with a ring of one slot, and the entries that latched wakes leave behind in the queue
use up wakes. That they never use up all of them when the ring is at least as large as
the batch is an argument over the whole queue that `ipc_serve` checks for three clients.

## 5. What is not modelled

* In `Semaphore`: exec and fork; pids are not reused; clock arithmetic of timed waits
  (a deadline may pass at any time after it is armed).
* In `IpcServer`: IPC_LAZY (no caller uses it), IPC_CAP_CHECK, payloads and their
  copies, servers that are in an interrupt or a signal handler at the same time,
  threads of clients (the per-thread reply slot), exec, fatal faults overlapping a
  call (their effect is modelled for semaphores), `ipc_setup` at run time. The
  ready queue is a set: any READY task of the core may be next. Between cores, only
  the watchdog's interrupt is tracked; others may come at any time.
* In `IpcPool`: IPC_LAZY and the capability check; threads of clients; reuse of client
  pids (in `IpcServer`); faults that tear a worker down without `kernel_lock`; which
  runnable task is next.
* In `Handlers`: registration (`interrupt_setup`), the reply slot saved with the
  context (in `IpcServer`), processes with threads, reuse of pids.
* In `ProcLife`: exec, the contents of address spaces (copy-on-write, cloning by the core
  daemon), semaphores and ipc in the teardown (in their own modules), boot.
* The remaining components of the inventory; reasons are in `PROJECT.json`. File
  systems, drivers, network, graphics and vendored libraries make up nearly all of the
  repository's lines and are left out as a whole.

## 6. Plan

1. `NoForgottenWaiter` of `IpcServer` for immortal clients and a ring as large as the wake
   batch: what the stale entries of the wait queue can use up; `AnsweredNotFailed` with
   the watchdog on.
2. `Sched`: ready queues per core, `proc_ready`, `proc_switch`, IPIs, idle; an
   abstract scheduler that the other modules assume, shown to be implemented.
3. `Mutex`: pthread mutexes and condition variables on top of `Lock`.
4. Smaller components: the kernel event queue, capabilities, shared memory and dma
   reference counts, the trunk allocator as a pure algorithm, ext3 journal replay
   as a crash model.
