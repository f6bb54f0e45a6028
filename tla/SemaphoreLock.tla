--------------------------- MODULE SemaphoreLock ---------------------------
(***************************************************************************)
(* The kernel's binary semaphores implement the locks of Lock.tla.          *)
(***************************************************************************)
EXTENDS Semaphore

\* The lock a binary semaphore stands for.  A counting semaphore is none.
LockOf(s) ==
    IF sem_valid_idx(s) /\ sem_is_binary(s)
    THEN [up |-> TRUE,
          owner |-> IF sem_occupied(s) THEN sem[s].occupied_pid ELSE NoTask,
          queue |-> {waiters[i].pid : i \in {j \in Slots :
                         waiters[j].sem = s /\ ~waiters[j].granted}},
          inside |-> {t \in Tasks : s \in holds[t]}]
    ELSE [up |-> FALSE, owner |-> NoTask, queue |-> {}, inside |-> {}]

L == INSTANCE Lock WITH
    Locks <- Sems, Clients <- Tasks, None <- NoTask,
    lock <- [s \in Sems |-> LockOf(s)],
    dead <- {t \in Tasks : ~Live(t)}

\* Every step of the system calls, of the teardown of dying tasks and of the
\* scheduler is a step of the abstract lock, or changes nothing of it.
ImplementsLock == L!LSpec
=============================================================================
