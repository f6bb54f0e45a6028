----------------------------- MODULE TaskState -----------------------------
(***************************************************************************)
(* The block/wake state of one task of the kernel (proc_t in               *)
(* src/kernel/kernel/src/proc.c) and the operations that change it, as     *)
(* operators from task records to task records.  Every one of them runs    *)
(* under the proc lock (proc_lock_enter), so it is one atomic step of the  *)
(* modules that use it.                                                    *)
(*                                                                         *)
(* Tokens scope a block and a wake: 0 is the generic token (ipc return,    *)
(* signal, waitpid), any other number a vfs node or a semaphore.           *)
(***************************************************************************)
EXTENDS Naturals

Generic == 0

States == {"READY", "RUNNING", "SLEEPING", "BLOCK", "WAIT", "ZOMBIE"}

\* sleep_counter is abstracted to "a deadline is armed" (counter > 0).
TaskRecord(Token) ==
    [state: States, block_by: Token, wake_by: Token,
     wake_pending: BOOLEAN, sleep_counter: BOOLEAN]

NewTask(st) ==
    [state |-> st, block_by |-> Generic, wake_by |-> Generic,
     wake_pending |-> FALSE, sleep_counter |-> FALSE]

\* proc_get() hides dead tasks: a ZOMBIE is looked up as NULL.
proc_get(p) == p.state # "ZOMBIE"

proc_ready(p) == [p EXCEPT !.state = "READY"]

proc_unready(p, st) == [p EXCEPT !.state = st]

-----------------------------------------------------------------------------
\* Does the latched wake release a block on this token?  Only a generic block
\* accepts a generic latch, and a timed block accepts none.
compatible(p, token, timed) ==
    IF token = Generic
    THEN timed => p.wake_by # Generic
    ELSE p.wake_by = token

\* An edge of another node: run and let the caller re-check its condition.
foreign_node_wake(p, token, timed) ==
    ~compatible(p, token, timed) /\ p.wake_by # Generic

run_now(p, token, timed) ==
    IF p.wake_pending
    THEN compatible(p, token, timed) \/ foreign_node_wake(p, token, timed)
    ELSE p.state = "READY"

\* A block uses the latch up, whether it honours it or not.
consume(p) ==
    IF p.wake_pending THEN [p EXCEPT !.wake_pending = FALSE, !.wake_by = Generic]
    ELSE p

keep_running(p) ==
    [p EXCEPT !.state = IF @ = "READY" THEN "RUNNING" ELSE @, !.block_by = Generic]

park(p, token, timed) ==
    [proc_unready(p, "BLOCK") EXCEPT !.block_by = token, !.sleep_counter = timed]

\* proc_block_by() (timed = FALSE) and proc_block_by_timeout() (timed = TRUE).
Block(p, token, timed) ==
    IF run_now(p, token, timed) THEN keep_running(consume(p))
    ELSE park(consume(p), token, timed)

proc_block_by(p, token) == Block(p, token, FALSE)

proc_block_by_timeout(p, token) == Block(p, token, TRUE)

-----------------------------------------------------------------------------
\* Mutant: the first wake wins, a generic latch is never upgraded.
latch_first(p, token) ==
    IF p.wake_pending THEN p
    ELSE [p EXCEPT !.wake_pending = TRUE, !.wake_by = token]

\* The wake of a task that is not blocked is remembered: the first node token
\* wins, a generic latch is upgraded by a node token.
latch(p, token) ==
    IF ~p.wake_pending \/ p.wake_by = Generic
    THEN [p EXCEPT !.wake_pending = TRUE, !.wake_by = token]
    ELSE p

\* A block on another node or semaphore is not released.
proc_wakeup_by(p, token) ==
    IF p.state = "ZOMBIE" THEN p
    ELSE IF p.state # "BLOCK" THEN latch(proc_ready(p), token)
    ELSE IF token # Generic /\ p.block_by \notin {Generic, token} THEN p
    ELSE NewTask("READY")

\* Mutant: an armed deadline is enough, whatever the task is doing.
CanExpire_any(p) == p.sleep_counter

\* renew_sleep_counter(): the deadline of a sleep or of a timed block passed.
CanExpire(p) ==
    p.state = "SLEEPING" \/ (p.state = "BLOCK" /\ p.sleep_counter)

renew_sleep_counter(p) ==
    [proc_ready(p) EXCEPT !.sleep_counter = FALSE,
                          !.block_by = IF p.state = "BLOCK" THEN Generic ELSE @]
=============================================================================
