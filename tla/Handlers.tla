----------------------------- MODULE Handlers -----------------------------
(***************************************************************************)
(* The three handlers that borrow the main context of a process: user       *)
(* interrupts (src/kernel/kernel/src/interrupt.c), signals (signal.c) and   *)
(* the requests of a single-task ipc server.  proc_switch() starts them     *)
(* (proc.c); each keeps the context and the state it interrupts in a saved  *)
(* state of its own, and the three must nest.                               *)
(*                                                                         *)
(* One process p is followed; everything else on its core is one other task *)
(* (or the idle task), always there to switch to.  Who is dispatched next   *)
(* is left open.  A system call, irq or timer tick is one action: it runs   *)
(* under kernel_lock.  The ipc protocol itself is the subject of IpcServer; *)
(* here a request is a client in the ring.                                  *)
(***************************************************************************)
EXTENDS TaskState, Sequences, FiniteSets

CONSTANTS
    Clients,         \* other processes, which call p
    Irqs,            \* hardware interrupts p has registered
    Soft,            \* IRQ_SOFT, the number of soft interrupts
    Interrupts,      \* those of Irqs \cup {Soft} that do occur
    MaxInterrupts, MaxSignals, MaxCalls,   \* bounds: how many of each occur,
    MaxTimeouts      \* and how often a handler exceeds INTERRUPT_TIMEOUT_USEC

ASSUME HandlersAssumption ==
    /\ Soft \notin Irqs /\ Interrupts \subseteq Irqs \cup {Soft}
    /\ {MaxInterrupts, MaxSignals, MaxCalls, MaxTimeouts} \subseteq Nat

VARIABLES
    p,         \* the process
    client,    \* where each client is in ipc_call()
    waitq,     \* interrupt.wait_queue: clients that came during an interrupt
    irq_off,   \* hardware interrupts that are disabled
    log        \* history: interrupts, signals, calls and timeouts so far; irqs
               \* that came while another interrupt was handled

vars == <<p, client, waitq, irq_off, log>>

\* User contexts: the main one, the handlers', and one that is all zero.
Frames == {"main", "intr", "sig", "ipc", "zero"}

\* A saved_state_t that nobody uses: all zero, 0 being UNUSED.
NoSaved == [state |-> "UNUSED", sleep_counter |-> FALSE, ctx |-> "zero"]

Saved == [state: States \cup {"UNUSED"}, sleep_counter: BOOLEAN, ctx: Frames]

\* current: p is the task its core executes; then regs is its context, else ctx.
NewProcess ==
    [task |-> NewTask("READY"), queued |-> TRUE, current |-> FALSE,
     regs |-> "zero", ctx |-> "main",
     interrupt |-> [state |-> "IDLE", irq |-> Soft, pending |-> FALSE,
                    restore_pending |-> FALSE, saved |-> NoSaved],
     signal |-> [do_switch |-> FALSE, saved |-> NoSaved],
     ipc |-> [ring |-> <<>>, do_switch |-> FALSE, restore_pending |-> FALSE,
              saved |-> NoSaved]]

Init ==
    /\ p = NewProcess
    /\ client = [c \in Clients |-> "run"]
    /\ waitq = <<>>
    /\ irq_off = {}
    /\ log = [interrupts |-> 0, signals |-> 0, calls |-> 0, timeouts |-> 0,
              collided |-> {}]

\* Generic is the only token: p blocks for no vfs node here.
Task == [state: States \cup {"UNUSED"}, block_by: {Generic}, wake_by: {Generic},
         wake_pending: BOOLEAN, sleep_counter: BOOLEAN]
Interrupt == [state: {"IDLE", "START", "WORKING"}, irq: Irqs \cup {Soft},
              pending: BOOLEAN, restore_pending: BOOLEAN, saved: Saved]
Signal == [do_switch: BOOLEAN, saved: Saved]
Ipc == [ring: Seq(Clients), do_switch: BOOLEAN, restore_pending: BOOLEAN, saved: Saved]

Process == [task: Task, queued: BOOLEAN, current: BOOLEAN, regs: Frames, ctx: Frames,
            interrupt: Interrupt, signal: Signal, ipc: Ipc]

\* The state of p is overwritten with zero only by a watchdog or a second signal.
TypeOK ==
    /\ p \in Process
    /\ log.timeouts = 0 /\ log.signals <= 1 => p.task.state # "UNUSED"
    /\ client \in [Clients -> {"run", "retry", "blocked", "served", "dead"}]
    /\ waitq \in Seq(Clients) /\ irq_off \subseteq Irqs
    /\ log \in [interrupts: Nat, signals: Nat, calls: Nat, timeouts: Nat, collided: SUBSET Irqs]

-----------------------------------------------------------------------------
(* Saving, waking and switching, as operators on the process.               *)

\* proc_get(): a task whose state was overwritten with zero is not found either.
Alive(s) == proc_get(s.task) /\ s.task.state # "UNUSED"
Runs(s) == Alive(s) /\ s.current

proc_save_state(s, saved) ==
    [saved EXCEPT !.state = s.task.state, !.sleep_counter = s.task.sleep_counter]

\* proc_restore_state(), without the context.
Restored(s, saved) ==
    [s EXCEPT !.task.state = saved.state, !.task.sleep_counter = saved.sleep_counter]

\* proc_ready(): into the ready queue.
Ready(s) == [s EXCEPT !.task = proc_ready(@), !.queued = TRUE]

\* proc_wakeup_all_state(): the saved states are made READY, too.
proc_wakeup_all_state(s) ==
    [Ready(s) EXCEPT !.signal.saved.state = "READY",
                     !.interrupt.saved.state = "READY",
                     !.ipc.saved.state = IF s.ipc.do_switch THEN @ ELSE "READY"]

proc_wakeup(s) ==
    IF Alive(s)
    THEN [proc_wakeup_all_state(s) EXCEPT !.task = proc_wakeup_by(s.task, Generic)]
    ELSE s

\* proc_switch(), what it does to the task that leaves the cpu: a handler that
\* was rolled back by a watchdog is thrown away.
Store(s) ==
    IF s.interrupt.restore_pending \/ s.ipc.restore_pending
    THEN [s EXCEPT !.regs = s.ctx, !.interrupt.restore_pending = FALSE,
                   !.ipc.restore_pending = FALSE]
    ELSE [s EXCEPT !.ctx = s.regs]

\* Mutant: a signal handler starts and the context is not saved.
Inject_unsaved(s) ==
    IF s.interrupt.state # "START" /\ s.signal.do_switch
    THEN [s EXCEPT !.signal.do_switch = FALSE, !.ctx = "sig"]
    ELSE IF s.interrupt.state = "START"
    THEN [s EXCEPT !.interrupt.state = "WORKING", !.interrupt.saved.ctx = s.ctx, !.ctx = "intr"]
    ELSE s

\* ... and to the one that gets it: at most one handler is started.
Inject(s) ==
    IF s.interrupt.state = "START"
    THEN [s EXCEPT !.interrupt = [@ EXCEPT !.state = "WORKING", !.saved.ctx = s.ctx],
                   !.ctx = "intr"]
    ELSE IF s.signal.do_switch
    THEN [s EXCEPT !.signal = [@ EXCEPT !.do_switch = FALSE, !.saved.ctx = s.ctx],
                   !.ctx = "sig"]
    ELSE IF s.ipc.do_switch
    THEN IF s.ipc.ring = <<>>
         THEN [s EXCEPT !.ipc = [@ EXCEPT !.do_switch = FALSE]]
         ELSE [s EXCEPT !.ipc = [@ EXCEPT !.do_switch = FALSE, !.saved.ctx = s.ctx],
                        !.ctx = "ipc"]
    ELSE s

\* proc_switch() to p, from itself or from another task ...
SwitchTo(s) ==
    LET t == Inject(IF s.current THEN Store(s) ELSE s)
    IN  [t EXCEPT !.task.state = "RUNNING", !.queued = FALSE, !.current = TRUE, !.regs = t.ctx]

\* ... and from p to another task.
SwitchAway(s) ==
    LET t == [IF Runs(s) THEN Store(s) ELSE s EXCEPT !.current = FALSE]
    IN  IF Runs(s) /\ t.task.state = "RUNNING" THEN Ready(t) ELSE t

\* schedule(): the outcomes.
schedule(s) ==
    {SwitchAway(s)} \cup
    IF \/ s.queued /\ s.task.state \in {"READY", "RUNNING"}
       \/ s.current /\ s.task.state = "RUNNING"
    THEN {SwitchTo([s EXCEPT !.task.state = "RUNNING"])}
    ELSE {}

\* proc_switch_multi_core(); local: the caller is on the core of p.
proc_switch_multi_core(s, local) ==
    IF local THEN SwitchTo(IF s.task.state = "RUNNING" THEN s ELSE proc_wakeup_all_state(s))
    ELSE proc_wakeup(s)

-----------------------------------------------------------------------------
(* The scheduler, and what p itself does.                                   *)

\* The timer, or the other task gives up the cpu.
Tick ==
    /\ Alive(p) /\ p' \in schedule(p)
    /\ UNCHANGED <<client, waitq, irq_off, log>>

\* proc_usleep(), in the main context or in a handler.
proc_usleep ==
    /\ Runs(p) /\ p.regs # "zero"
    /\ p' \in schedule([p EXCEPT !.queued = FALSE, !.task.state = "SLEEPING",
                                 !.task.sleep_counter = TRUE])
    /\ UNCHANGED <<client, waitq, irq_off, log>>

\* proc_block(): a nested call, a semaphore, a device.
Block_p ==
    LET t == proc_block_by(p.task, Generic) IN
    /\ Runs(p) /\ p.regs # "zero"
    /\ p' \in IF t.state = "BLOCK" THEN schedule([p EXCEPT !.task = t, !.queued = FALSE])
              ELSE {[p EXCEPT !.task = t]}
    /\ UNCHANGED <<client, waitq, irq_off, log>>

\* What it waits for happens.
Wake ==
    /\ p.task.state = "BLOCK" /\ p' = proc_wakeup(p)
    /\ UNCHANGED <<client, waitq, irq_off, log>>

\* renew_sleep_counter()
SleepOver ==
    /\ CanExpire(p.task)
    /\ p' = [Ready(p) EXCEPT !.task = renew_sleep_counter(@)]
    /\ UNCHANGED <<client, waitq, irq_off, log>>

-----------------------------------------------------------------------------
(* Interrupts.                                                              *)

\* An interrupt to be handled; the context is saved when the handler starts.
Started(s, irq) ==
    [s EXCEPT !.interrupt = [state |-> "START", irq |-> irq, pending |-> FALSE,
                             restore_pending |-> FALSE,
                             saved |-> proc_save_state(s, s.interrupt.saved)]]

Count(field) == [log EXCEPT ![field] = @ + 1]

\* Mutant: a handler that runs does not count.
InterruptFree_running == p.interrupt.state # "START"

\* p handles no interrupt and is not about to.
InterruptFree == p.interrupt.state = "IDLE"

\* interrupt_send_raw(), p not busy with an interrupt.
SendIdle(irq, local) ==
    /\ InterruptFree
    /\ p' = proc_switch_multi_core(Started(p, irq), local)
    /\ irq_off' = irq_off \cup ({irq} \ {Soft})
    /\ log' = Count("interrupts")
    /\ UNCHANGED <<client, waitq>>

\* ... busy: a hardware interrupt is remembered and disabled, a soft one is not
\* accepted and the sender tries again.
SendBusy(irq) ==
    /\ irq # Soft /\ ~InterruptFree
    /\ p' = [p EXCEPT !.interrupt.pending = TRUE]
    /\ irq_off' = irq_off \cup {irq}
    /\ log' = [Count("interrupts") EXCEPT !.collided = @ \cup {irq}]
    /\ UNCHANGED <<client, waitq>>

interrupt_send(irq) ==
    /\ Alive(p) /\ irq \notin irq_off /\ log.interrupts < MaxInterrupts
    /\ SendBusy(irq) \/ \E local \in BOOLEAN : SendIdle(irq, local)

\* proc_interrupt_wakeup(): one waiter, if it lives.
Woken == IF waitq = <<>> THEN {} ELSE {c \in {Head(waitq)} : client[c] # "dead"}

proc_interrupt_wakeup ==
    /\ waitq' = IF waitq = <<>> THEN <<>> ELSE Tail(waitq)
    /\ client' = [c \in Clients |->
                    IF c \in Woken /\ client[c] = "blocked" THEN "retry" ELSE client[c]]

\* Mutant: the state of the interrupted context is put back as it was saved.
Resumed_raw(s) == [Restored(s, s.interrupt.saved) EXCEPT
                      !.regs = s.interrupt.saved.ctx, !.interrupt.saved = NoSaved,
                      !.interrupt.state = "IDLE", !.interrupt.restore_pending = FALSE]

\* interrupt_end(), up to the check for a pending interrupt.
Resumed(s) ==
    LET t == [Restored(s, s.interrupt.saved) EXCEPT
                 !.regs = s.interrupt.saved.ctx, !.interrupt.saved = NoSaved,
                 !.interrupt.state = "IDLE", !.interrupt.restore_pending = FALSE]
    IN  IF t.task.state \in {"READY", "RUNNING"} THEN Ready(t) ELSE t

\* A pending hardware interrupt: the handler runs once more.
EndAgain ==
    LET t == [Resumed(p) EXCEPT !.ctx = Resumed(p).regs] IN
    /\ Runs(p) /\ p.regs = "intr"
    /\ p.interrupt.pending /\ p.interrupt.irq # Soft
    /\ p' = proc_switch_multi_core(Started(t, p.interrupt.irq), TRUE)
    /\ UNCHANGED <<client, waitq, irq_off, log>>

EndLast ==
    /\ Runs(p) /\ p.regs = "intr"
    /\ ~(p.interrupt.pending /\ p.interrupt.irq # Soft)
    /\ p' \in schedule([Resumed(p) EXCEPT !.interrupt.pending = FALSE])
    /\ irq_off' = irq_off \ {p.interrupt.irq}
    /\ proc_interrupt_wakeup
    /\ UNCHANGED log

interrupt_end == EndAgain \/ EndLast

\* proc_interrupt_timeout(): the handler has been runnable for too long.
Rolled(s) ==
    LET t == [Restored(s, s.interrupt.saved) EXCEPT
                 !.ctx = s.interrupt.saved.ctx, !.interrupt.saved = NoSaved,
                 !.interrupt.state = "IDLE",
                 !.interrupt.restore_pending = s.interrupt.state = "WORKING"]
    IN  IF t.task.state \in {"READY", "RUNNING"} THEN Ready(t) ELSE proc_wakeup(t)

proc_interrupt_timeout ==
    /\ log.timeouts < MaxTimeouts /\ log' = Count("timeouts")
    /\ p.interrupt.state # "IDLE" /\ p.task.state \in {"READY", "RUNNING"}
    /\ p' = Rolled(p)
    /\ irq_off' = irq_off \ {p.interrupt.irq}
    /\ proc_interrupt_wakeup

-----------------------------------------------------------------------------
(* Signals (SYS_SIG_STOP, with a handler that returns).                     *)

Signalled(s) ==
    [s EXCEPT !.signal = [do_switch |-> TRUE, saved |-> proc_save_state(s, s.signal.saved)]]

\* sys_signal(); p is terminated instead when it is not runnable (see Exit).
sys_signal(local) ==
    /\ p.task.state \in {"READY", "RUNNING"} /\ log.signals < MaxSignals
    /\ p' = proc_switch_multi_core(Signalled(p), local)
    /\ log' = Count("signals")
    /\ UNCHANGED <<client, waitq, irq_off>>

\* proc_terminate() of the father of p.
SignalOfFather ==
    /\ Alive(p) /\ log.signals < MaxSignals
    /\ p' = Ready(Signalled(p))
    /\ log' = Count("signals")
    /\ UNCHANGED <<client, waitq, irq_off>>

proc_signal_end ==
    /\ Runs(p) /\ p.regs = "sig"
    /\ p' \in schedule(Ready([Restored(p, p.signal.saved) EXCEPT
                                !.regs = p.signal.saved.ctx, !.signal.saved = NoSaved]))
    /\ UNCHANGED <<client, waitq, irq_off, log>>

-----------------------------------------------------------------------------
(* Requests of clients.                                                     *)

proc_ipc_do_task(s, local) ==
    proc_switch_multi_core(
        [s EXCEPT !.ipc = [@ EXCEPT !.do_switch = TRUE, !.restore_pending = FALSE,
                                    !.saved = proc_save_state(s, s.ipc.saved)]], local)

\* proc_ipc_call(): p is gone ...
CallRefused(c) ==
    /\ ~Alive(p)
    /\ client' = [client EXCEPT ![c] = "run"]
    /\ UNCHANGED <<p, waitq, irq_off>>

\* ... or busy with an interrupt: proc_interrupt_wait().  The client blocks,
\* unless a wake of an earlier call is latched; it calls again.
CallWaits(c) ==
    /\ Alive(p) /\ p.interrupt.state # "IDLE"
    /\ waitq' = Append(waitq, c)
    /\ \E st \in {"blocked", "retry"} :
          /\ st = "retry" => \A i \in DOMAIN waitq : waitq[i] # c
          /\ client' = [client EXCEPT ![c] = st]
    /\ UNCHANGED <<p, irq_off>>

\* ... or takes the request, at once if it is the first of the ring.
CallTaken(c, local) ==
    LET s == [p EXCEPT !.ipc.ring = Append(@, c)] IN
    /\ Alive(p) /\ p.interrupt.state = "IDLE" /\ (local => ~p.current)
    /\ p' = IF p.ipc.ring = <<>> THEN proc_ipc_do_task(s, local) ELSE s
    /\ client' = [client EXCEPT ![c] = "served"]
    /\ UNCHANGED <<waitq, irq_off>>

proc_ipc_call(c) ==
    /\ \/ client[c] = "run" /\ log.calls < MaxCalls /\ log' = Count("calls")
       \/ client[c] = "retry" /\ UNCHANGED log
    /\ CallRefused(c) \/ CallWaits(c) \/ \E local \in BOOLEAN : CallTaken(c, local)

\* proc_ipc_end(): the next request is begun at once.
proc_ipc_end ==
    LET s == [Restored(p, p.ipc.saved) EXCEPT
                 !.regs = p.ipc.saved.ctx, !.task.state = IF @ = "BLOCK" THEN "READY" ELSE @,
                 !.ipc = [@ EXCEPT !.saved = NoSaved, !.restore_pending = FALSE,
                                   !.ring = Tail(p.ipc.ring)]]
        t == IF s.task.state \in {"READY", "RUNNING"} THEN Ready(s) ELSE s
    IN  /\ Runs(p) /\ p.regs = "ipc" /\ p.ipc.ring # <<>>
        /\ p' \in IF t.ipc.ring = <<>> THEN schedule(t) ELSE {proc_ipc_do_task(t, TRUE)}
        /\ client' = [c \in Clients |->
                        IF c = Head(p.ipc.ring) /\ client[c] = "served" THEN "run" ELSE client[c]]
        /\ UNCHANGED <<waitq, irq_off, log>>

-----------------------------------------------------------------------------
(* Deaths.                                                                  *)

\* Mutant: the interrupt in service stays disabled.
IrqOffAfter_all == irq_off

\* Disabled interrupts after the death of p.
IrqOffAfter == IF p.interrupt.state = "IDLE" THEN irq_off ELSE irq_off \ {p.interrupt.irq}

\* proc_terminate(): requests, waiters and the interrupt in service are let go.
Exit ==
    /\ Alive(p)
    /\ p' = SwitchAway([p EXCEPT !.task.state = "ZOMBIE", !.queued = FALSE,
                                 !.interrupt.state = "IDLE", !.ipc.ring = <<>>])
    /\ irq_off' = IrqOffAfter
    /\ waitq' = <<>>
    /\ client' = [c \in Clients |-> CASE client[c] = "served" -> "run"
                                      [] client[c] = "blocked" -> "retry"
                                      [] OTHER -> client[c]]
    /\ UNCHANGED log

ClientExit(c) ==
    /\ client[c] # "dead"
    /\ client' = [client EXCEPT ![c] = "dead"]
    /\ UNCHANGED <<p, waitq, irq_off, log>>

-----------------------------------------------------------------------------
Next ==
    \/ Tick \/ proc_usleep \/ Block_p \/ Wake \/ SleepOver
    \/ \E irq \in Interrupts : interrupt_send(irq)
    \/ interrupt_end \/ proc_interrupt_timeout
    \/ \E local \in BOOLEAN : sys_signal(local)
    \/ SignalOfFather \/ proc_signal_end
    \/ \E c \in Clients : proc_ipc_call(c) \/ ClientExit(c)
    \/ proc_ipc_end \/ Exit

Spec == Init /\ [][Next]_vars

-----------------------------------------------------------------------------
(* Properties.                                                              *)

\* The context p executes or will resume with.
Context(s) ==
    IF s.current /\ ~s.interrupt.restore_pending /\ ~s.ipc.restore_pending
    THEN s.regs ELSE s.ctx

Below(f) ==
    CASE f = "intr" -> p.interrupt.saved.ctx
      [] f = "sig"  -> p.signal.saved.ctx
      [] f = "ipc"  -> p.ipc.saved.ctx
      [] OTHER      -> f

\* The contexts on the way down from the present one.
Chain == LET f == Context(p) IN {f, Below(f), Below(Below(f)), Below(Below(Below(f)))}

\* Handlers nest: whatever p is doing, ending the handlers in progress one after
\* the other leads back to the main context; as long as no watchdog interferes.
Unwinds == Alive(p) /\ log.timeouts = 0 => "main" \in Chain

\* The same with the watchdog.
BackToMain == Alive(p) => "main" \in Chain

\* A handler's context is there exactly while the kernel thinks the handler is in
\* progress: an interrupt while its state is WORKING, a request while the ring
\* holds it and it is not still to be started.
HandlersMatch ==
    Alive(p) /\ log.timeouts = 0 =>
        /\ "intr" \in Chain <=> p.interrupt.state = "WORKING"
        /\ "ipc" \in Chain <=> p.ipc.ring # <<>> /\ ~p.ipc.do_switch

\* A task that could run is found by the scheduler: it executes or is in the
\* ready queue.
ReadyIsFound ==
    p.task.state \in {"READY", "RUNNING"} => p.queued \/ p.current

\* A hardware interrupt is disabled only while it is handled; then its device is
\* heard again.  (One that comes during another interrupt: see collided.)
IrqHeardAgain == p.interrupt.state = "IDLE" => irq_off \subseteq log.collided

\* A client that waits for the end of an interrupt does not go on waiting when
\* it has ended.
NoWaiterLeft ==
    p.interrupt.state = "IDLE" => \A c \in Clients : client[c] # "blocked"

\* Nothing is left waiting for a sleeper: no handler is to be started while p
\* sleeps.
SleeperFree ==
    p.task.state = "SLEEPING" /\ ~p.current =>
        p.interrupt.state # "START" /\ ~p.signal.do_switch /\ ~p.ipc.do_switch

=============================================================================
