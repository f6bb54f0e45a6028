---------------------------- MODULE MCSemaphore ----------------------------
(***************************************************************************)
(* Instances of Semaphore: the PROCs p1 and p2, and their threads t1 and   *)
(* t2.  The cfg files choose the tasks, the number of cores and the calls. *)
(***************************************************************************)
EXTENDS SemaphoreLock

CONSTANTS p1, t1, p2, t2

MCOwner == [t \in Tasks |-> CASE t = t1 -> p1 [] t = t2 -> p2 [] OTHER -> t]

\* The calls of the tasks of each instance.
WakesCalls ==
    [t \in Tasks |-> IF t = t1 THEN {"free"} ELSE {"alloc", "free", "enter"}]
UpCalls ==
    [t \in Tasks |-> {"alloc", "alloc_count", "enter", "enter_timeout", "quit",
                      "try_enter", "exit"}]
LockCalls == [t \in Tasks |-> {"alloc", "enter", "quit"}]

\* The state without the histories, which no action's guard reads.
WithoutHistory == <<task, oncpu, stage, ipc, sem, waiters, waiter_seq, sys, want, holds>>
=============================================================================
