-------------------------------- MODULE Lock --------------------------------
(***************************************************************************)
(* What a binary kernel semaphore promises to the tasks that use it as a    *)
(* lock: one owner at a time, a release that goes straight to a waiter, no  *)
(* way past the queue, and nothing left behind by the dead.  It knows no    *)
(* system calls, wait table, wakes or scheduling.  Semaphore.tla is shown   *)
(* to implement it (see SemaphoreLock.tla).                                 *)
(***************************************************************************)
CONSTANTS
    Locks,     \* lock names
    Clients,   \* tasks
    None       \* no owner

VARIABLES
    lock,      \* each lock: its owner, who queues, who is inside
    dead       \* clients that have died

lvars == <<lock, dead>>

Down == [up |-> FALSE, owner |-> None, queue |-> {}, inside |-> {}]
Free == [Down EXCEPT !.up = TRUE]

LTypeOK ==
    /\ lock \in [Locks -> [up: BOOLEAN, owner: Clients \cup {None},
                           queue: SUBSET Clients, inside: SUBSET Clients]]
    /\ dead \subseteq Clients

LInit ==
    /\ lock = [l \in Locks |-> Down]
    /\ dead = {}

Create(l) == ~lock[l].up /\ lock'[l] = Free

Destroy(l) == lock[l].up /\ lock'[l] = Down

\* A free lock is taken, unless somebody alive queues for it.
Take(l, c) ==
    /\ lock[l].up /\ lock[l].owner = None /\ c \notin dead
    /\ lock[l].queue \subseteq dead
    /\ lock'[l] = [lock[l] EXCEPT !.owner = c, !.inside = {c}]

\* A client queues, and only for a lock that is taken.
Enqueue(l, c) ==
    /\ lock[l].up /\ lock[l].owner # None
    /\ c \notin lock[l].queue
    /\ lock'[l] = [lock[l] EXCEPT !.queue = @ \cup {c}]

\* A client gives up its place, or dies with it.
Abandon(l, c) ==
    /\ c \in lock[l].queue
    /\ lock'[l] = [lock[l] EXCEPT !.queue = @ \ {c}]

\* The owner learns that the lock is its own.
Collect(l, c) ==
    /\ lock[l].owner = c
    /\ lock'[l] = [lock[l] EXCEPT !.inside = {c}]

\* The owner leaves: the lock goes to a living waiter, and is free only if there
\* is none.  The dead met on the way lose their place.
Release(l) ==
    /\ lock[l].owner # None
    /\ \E gone \in SUBSET (lock[l].queue \cap (dead \cup {lock[l].owner})) :
          LET q == lock[l].queue \ gone IN
          \/ \E c \in q \ dead :
                lock'[l] = [lock[l] EXCEPT !.owner = c, !.queue = q \ {c}, !.inside = {}]
          \/ /\ q \subseteq dead
             /\ lock'[l] = [lock[l] EXCEPT !.owner = None, !.queue = q, !.inside = {}]

LockStep(l) ==
    \/ Create(l) \/ Destroy(l) \/ Release(l)
    \/ \E c \in Clients : Take(l, c) \/ Enqueue(l, c) \/ Abandon(l, c) \/ Collect(l, c)

\* One step may concern several locks: a dying task releases all it has.
LNext ==
    /\ \A l \in Locks : lock'[l] = lock[l] \/ LockStep(l)
    /\ DOMAIN lock' = Locks
    /\ dead \subseteq dead' /\ dead' \subseteq Clients

LSpec == LInit /\ [][LNext]_lvars
=============================================================================
