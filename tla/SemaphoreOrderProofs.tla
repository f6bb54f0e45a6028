----------------------- MODULE SemaphoreOrderProofs -----------------------
(***************************************************************************)
(* Proofs about Semaphore, for any set of tasks, any number of semaphores, *)
(* slots and cores, that need more than the wait queue: who holds what,    *)
(* the order of the queue, and the permits of counting semaphores.  They   *)
(* build on the inductive invariant of SemaphoreProofs.                    *)
(***************************************************************************)
EXTENDS SemaphoreProofs, FiniteSetTheorems

-----------------------------------------------------------------------------
(* What the steps do to semaphores, wait table and holders.                *)

EnterOps == {"enter", "enter_timeout", "try_enter"}

\* The wait table without the places of t, and without its place in the queue of
\* the call in progress.
Without(t) == [i \in Slots |-> IF waiters[i].pid = t THEN FreeSlot ELSE waiters[i]]
Left(t) == [i \in Slots |-> IF waiters[i].pid = t /\ waiters[i].sem = sys.sem THEN FreeSlot
                            ELSE waiters[i]]

\* A step that does not concern them; a call may end, die or go on, and a server
\* may change to its handler or back.
Aside ==
    /\ UNCHANGED <<sem, waiters, waiter_seq, holds, permits, wrapped>>
    /\ \A u \in Tasks : want'[u] = want[u] \/ want'[u].sem \notin holds[u]
    /\ ahead' \in {ahead, Tidy(ahead, waiters')}
    /\ \/ sys' = NoCall
       \/ /\ sys'.pid = sys.pid /\ sys'.sem = sys.sem
          /\ sys'.op = sys.op \/ (sys'.op = "exiting" /\ sys.op = "exit")

\* sem_alloc_raw() finds a free entry.
Allocates(s, o, count, max) ==
    /\ ~sem_valid_idx(s)
    /\ max = 1 => count = 1
    /\ sem' = [sem EXCEPT ![s] = [creater |-> o, count |-> count, max_count |-> max,
                                  occupied_pid |-> NoTask]]
    /\ permits' = [permits EXCEPT ![s] = count]
    /\ sys' = NoCall
    /\ UNCHANGED <<waiters, waiter_seq, want, holds, ahead, wrapped>>

\* The semaphores of S go away.
Resets(S) ==
    /\ sem_reset(S) /\ ahead' = Tidy(ahead, waiters')
    /\ sys' = NoCall \/ (sys' = sys /\ \E p \in Tasks : Dying(p))
    /\ UNCHANGED <<waiter_seq, want, wrapped>>

\* t, in a call that enters a semaphore, collects its grant ...
Collects(t) ==
    /\ sys.pid = t /\ sys.op \in EnterOps /\ HasGrant(t, sys.sem)
    /\ waiters' = Left(t) /\ ahead' = Tidy(ahead, waiters')
    /\ Acquired(t, sys.sem)
    /\ UNCHANGED <<sem, waiter_seq, wrapped>>

\* ... takes a permit that is there ...
Takes(t) ==
    /\ sys.pid = t /\ sys.op \in EnterOps /\ ~HasGrant(t, sys.sem)
    /\ sem_valid_idx(sys.sem) /\ sem[sys.sem].count > 0
    /\ sem' = Taken(t, sys.sem)
    /\ waiters' = Left(t) /\ ahead' = Tidy(ahead, waiters')
    /\ Acquired(t, sys.sem)
    /\ UNCHANGED <<waiter_seq, wrapped>>

\* ... or leaves without one, with or without its place in the queue.
Forgoes(t) ==
    /\ sys.pid = t /\ sys.op \in EnterOps /\ sys' = NoCall
    /\ \E r \in {NoWait, Looping} : want' = [want EXCEPT ![t] = r]
    /\ \/ waiters' = waiters /\ ahead' \in {ahead, Tidy(ahead, waiters')}
       \/ /\ ~HasGrant(t, sys.sem)
          /\ waiters' = Left(t) /\ ahead' = Tidy(ahead, waiters')
    /\ UNCHANGED <<sem, holds, permits, waiter_seq, wrapped>>

StepKind ==
    \/ Aside
    \/ \E t \in Tasks, op \in Ops, s \in Sems : svc_handler(t, op, s)
    \/ \E s \in Sems, o \in Tasks, count \in Nat, max \in Nat \ {0} : Allocates(s, o, count, max)
    \/ \E S \in SUBSET Sems : Resets(S)
    \/ \E t \in Tasks : \/ Collects(t) \/ Takes(t) \/ Forgoes(t) \/ EnterQueue(t)
                        \/ semaphore_quit(t) \/ semaphore_clear_occupied(t)

\* A free slot is nobody's.
LEMMA FreeSlotFacts ==
    /\ FreeSlot.sem = 0 /\ FreeSlot.sem \notin Sems
    /\ FreeSlot.pid = NoTask /\ FreeSlot.pid \notin Tasks /\ ~FreeSlot.granted
BY ConstantsAssumption DEF FreeSlot, Sems

\* A task that executes a call has one place in the queue of its semaphore.
LEMMA CallerSlot ==
    ASSUME WaitInv, NEW t \in Tasks, sys.pid = t
    PROVE  /\ sem_waiter_del(waiters, MySlot(t), t) = Left(t)
           /\ Granted(t) <=> HasGrant(t, sys.sem)
<1> DEFINE Mine(i) == waiters[i].pid = t /\ waiters[i].sem = sys.sem
<1>3. waiters \in [Slots -> Waiters] /\ sys.sem \in Sems
    BY CallerFacts DEF WaitInv, TypeOK
<1>2. \A i, j \in Slots : Mine(i) /\ Mine(j) => i = j
    BY <1>3, SlotTypes DEF WaitInv, OneSlot
<1>4. CASE MySlot(t) = NoSlot
    <2>1. \A i \in Slots : ~(waiters[i].sem = sys.sem /\ waiters[i].pid = t)
        BY <1>4, FindFacts, SlotTypes DEF MySlot
    <2>2. \A i \in Slots : ~Mine(i)
        BY <2>1
    <2>3. sem_waiter_del(waiters, MySlot(t), t) = waiters
        BY <1>4, SlotTypes DEF sem_waiter_del
    <2>4. Left(t) = waiters
        BY <1>3, <2>2 DEF Left
    <2> QED BY <1>4, <2>2, <2>3, <2>4 DEF Granted, HasGrant
<1>5. CASE MySlot(t) # NoSlot
    <2>1. MySlot(t) \in Slots /\ waiters[MySlot(t)].sem = sys.sem /\ waiters[MySlot(t)].pid = t
        BY <1>5, FindFacts DEF MySlot
    <2>2. sem_waiter_del(waiters, MySlot(t), t) = [waiters EXCEPT ![MySlot(t)] = FreeSlot]
        BY <1>3, <2>1, SlotTypes DEF sem_waiter_del
    <2>3. [waiters EXCEPT ![MySlot(t)] = FreeSlot] = Left(t)
        BY <1>2, <1>3, <2>1 DEF Left
    <2> QED BY <1>2, <1>5, <2>1, <2>2, <2>3 DEF Granted, HasGrant
<1> QED BY <1>4, <1>5

\* The step of the ipc context that must not park.
LEMMA ServingSlot ==
    ASSUME WaitInv, NEW t \in Tasks, sys.pid = t, sys.slot # NoSlot
    PROVE  /\ \/ sem_waiter_del(waiters, sys.slot, t) = Left(t)
              \/ sem_waiter_del(waiters, sys.slot, t) = waiters
           /\ IF waiters[sys.slot].sem = sys.sem /\ waiters[sys.slot].pid = t
                 /\ waiters[sys.slot].granted
              THEN HasGrant(t, sys.sem) /\ sem_waiter_del(waiters, sys.slot, t) = Left(t)
              ELSE \/ sem_waiter_del(waiters, sys.slot, t) = waiters
                   \/ ~HasGrant(t, sys.sem)
           /\ sys.slot \in Slots /\ sys.op \in EnterOps
<1>1. sys.slot \in Slots /\ sys.op \in EnterOps
    BY DEF WaitInv, TypeOK, Calls, NoCall, EnterOps
<1>2. sys.sem # 0 /\ (waiters[sys.slot].pid = t => waiters[sys.slot].sem = sys.sem)
    BY CallerFacts, SlotTypes DEF WaitInv, CallSlot
<1>3. \A i \in Slots : /\ waiters[i].pid = t /\ waiters[i].sem = sys.sem
                       /\ waiters[sys.slot].pid = t
                       => i = sys.slot
    BY <1>1, <1>2 DEF WaitInv, OneSlot
<1>4. waiters \in [Slots -> Waiters]
    BY DEF WaitInv, TypeOK
<1>5. CASE waiters[sys.slot].pid = t
    <2>1. sem_waiter_del(waiters, sys.slot, t) = [waiters EXCEPT ![sys.slot] = FreeSlot]
        BY <1>1, <1>2, <1>5 DEF sem_waiter_del
    <2>2. [waiters EXCEPT ![sys.slot] = FreeSlot] = Left(t)
        BY <1>1, <1>2, <1>3, <1>4, <1>5 DEF Left
    <2>3. HasGrant(t, sys.sem) <=> waiters[sys.slot].granted
        BY <1>1, <1>2, <1>3, <1>5 DEF HasGrant
    <2> QED BY <1>1, <1>2, <1>5, <2>1, <2>2, <2>3
<1>6. CASE waiters[sys.slot].pid # t
    <2>1. sem_waiter_del(waiters, sys.slot, t) = waiters
        BY <1>6 DEF sem_waiter_del
    <2> QED BY <1>1, <1>6, <2>1
<1> QED BY <1>5, <1>6

\* The calls that enter a semaphore.
LEMMA EnterKinds ==
    ASSUME WaitInv, NEW t \in Tasks, semaphore_enter_raw(t) \/ semaphore_try_enter(t)
    PROVE  Aside \/ Collects(t) \/ Takes(t) \/ Forgoes(t) \/ EnterQueue(t)
<1>0. sys.pid = t
    BY DEF semaphore_enter_raw, semaphore_try_enter, EnterInvalid, EnterCollect, EnterAcquire,
           EnterRequeue, EnterQueue, EnterFull, EnterServing, EnterPark, EnterCall, InCall, InWindow
<1>1. /\ sem_waiter_del(waiters, MySlot(t), t) = Left(t)
      /\ Granted(t) <=> HasGrant(t, sys.sem)
    BY <1>0, CallerSlot
<1>2. \A op : InCall(t, op) => sys.op = op
    BY DEF InCall
<1>3. EnterCall(t) => sys.op \in EnterOps
    BY DEF EnterCall, InCall, EnterOps
<1>4. ASSUME NEW r, Return(t, r)
      PROVE  sys' = NoCall /\ want' = [want EXCEPT ![t] = r]
    BY <1>4 DEF Return
<1>5. CASE EnterInvalid(t)
    <2>1. Forgoes(t)
        BY <1>0, <1>3, <1>4, <1>5 DEF EnterInvalid, Forgoes, history
    <2> QED BY <2>1
<1>6. CASE EnterCollect(t)
    <2>1. Collects(t)
        BY <1>0, <1>1, <1>3, <1>6 DEF EnterCollect, Collects
    <2> QED BY <2>1
<1>7. CASE EnterAcquire(t)
    <2>1. Takes(t)
        BY <1>0, <1>1, <1>3, <1>7 DEF EnterAcquire, Takes
    <2> QED BY <2>1
<1>8. CASE EnterRequeue(t)
    <2>1. sys' = [sys EXCEPT !.slot = MySlot(t)] /\ sys \in Calls
        BY <1>8 DEF EnterRequeue, WaitInv, TypeOK
    <2>2. sys'.pid = sys.pid /\ sys'.sem = sys.sem /\ sys'.op = sys.op
        BY <2>1 DEF Calls, NoCall
    <2>3. Aside
        BY <1>8, <2>2 DEF EnterRequeue, Aside, user, history
    <2> QED BY <2>3
<1>9. CASE EnterFull(t)
    <2>1. Forgoes(t)
        BY <1>0, <1>3, <1>4, <1>9 DEF EnterFull, Forgoes, history
    <2> QED BY <2>1
<1>10. CASE EnterServing(t)
    <2> DEFINE mine == /\ waiters[sys.slot].sem = sys.sem /\ waiters[sys.slot].pid = t
                       /\ waiters[sys.slot].granted
    <2>1. /\ sys.op \in EnterOps
          /\ waiters' = sem_waiter_del(waiters, sys.slot, t)
          /\ \/ waiters' = Left(t) \/ waiters' = waiters
          /\ IF mine THEN HasGrant(t, sys.sem) /\ waiters' = Left(t)
             ELSE waiters' = waiters \/ ~HasGrant(t, sys.sem)
        BY <1>0, <1>10, ServingSlot DEF EnterServing, InWindow
    <2>2. CASE mine
        <3>1. Collects(t)
            BY <1>0, <1>10, <2>1, <2>2 DEF EnterServing, Collects
        <3> QED BY <3>1
    <2>3. CASE ~mine
        <3>1. /\ Return(t, Looping) /\ ahead' = Tidy(ahead, waiters')
              /\ UNCHANGED <<holds, permits, sem, waiter_seq, wrapped>>
            BY <1>10, <2>3 DEF EnterServing
        <3>2. Forgoes(t)
            BY <1>0, <1>4, <2>1, <2>3, <3>1 DEF Forgoes
        <3> QED BY <3>2
    <2> QED BY <2>2, <2>3
<1>11. CASE EnterPark(t)
    <2>1. sys.op \in EnterOps
        BY <1>0, <1>11, ServingSlot DEF EnterPark, InWindow
    <2>2. Forgoes(t)
        BY <1>0, <1>4, <1>11, <2>1 DEF EnterPark, Forgoes, history
    <2> QED BY <2>2
<1>12. CASE semaphore_try_enter(t)
    <2>0. sys.op \in EnterOps
        BY <1>2, <1>12 DEF semaphore_try_enter, EnterOps
    <2>1. CASE ~sem_valid_idx(sys.sem)
        <3>1. Forgoes(t)
            BY <1>0, <1>4, <1>12, <2>0, <2>1 DEF semaphore_try_enter, Forgoes
        <3> QED BY <3>1
    <2>2. CASE sem_valid_idx(sys.sem) /\ Granted(t)
        <3>1. Collects(t)
            BY <1>0, <1>1, <1>12, <2>0, <2>2 DEF semaphore_try_enter, Collects
        <3> QED BY <3>1
    <2>3. CASE sem_valid_idx(sys.sem) /\ ~Granted(t) /\ sem[sys.sem].count > 0
        <3>1. Takes(t)
            BY <1>0, <1>1, <1>12, <2>0, <2>3 DEF semaphore_try_enter, Takes
        <3> QED BY <3>1
    <2>4. CASE sem_valid_idx(sys.sem) /\ ~Granted(t) /\ ~(sem[sys.sem].count > 0)
        <3>1. /\ Return(t, NoWait) /\ waiters' = Left(t) /\ ahead' = Tidy(ahead, waiters')
              /\ UNCHANGED <<holds, permits, sem, waiter_seq, wrapped>>
            BY <1>1, <1>12, <2>4 DEF semaphore_try_enter
        <3>2. Forgoes(t)
            BY <1>0, <1>1, <1>4, <2>0, <2>4, <3>1 DEF Forgoes
        <3> QED BY <3>2
    <2> QED BY <2>1, <2>2, <2>3, <2>4
<1> QED BY <1>5, <1>6, <1>7, <1>8, <1>9, <1>10, <1>11, <1>12 DEF semaphore_enter_raw

\* sem_alloc_raw()
LEMMA AllocKinds ==
    ASSUME WaitInv, NEW t \in Tasks, NEW op, NEW count \in Nat, NEW max \in Nat \ {0},
           max = 1 => count = 1, sem_alloc_raw(t, op, count, max)
    PROVE  Aside \/ \E s \in Sems, o \in Tasks : Allocates(s, o, count, max)
<1> DEFINE free == {s \in Sems : ~sem_valid_idx(s)}
<1>1. CASE free = {}
    <2>1. Aside
        BY <1>1 DEF sem_alloc_raw, Aside, history
    <2> QED BY <2>1
<1>2. CASE free # {}
    <2> DEFINE s == CHOOSE s \in free : \A r \in free : s <= r
    <2>1. free \in SUBSET Nat
        BY ConstantsAssumption DEF Sems
    <2>2. \E x \in free : \A y \in free : x <= y
        <3> HIDE DEF free
        <3> QED BY <1>2, <2>1, NatMin
    <2>3. s \in free
        <3> HIDE DEF free
        <3> QED BY <2>2
    <2>4. /\ sem' = [sem EXCEPT ![s] = [creater |-> Owner[t], count |-> count,
                                        max_count |-> max, occupied_pid |-> NoTask]]
          /\ permits' = [permits EXCEPT ![s] = count]
          /\ sys' = NoCall /\ UNCHANGED <<waiters, waiter_seq, want, holds, ahead, wrapped>>
        BY <1>2 DEF sem_alloc_raw, history
    <2> HIDE DEF s
    <2>5. Owner[t] \in Tasks /\ s \in Sems /\ ~sem_valid_idx(s)
        BY <2>3, ConstantsAssumption
    <2>6. Allocates(s, Owner[t], count, max)
        BY <2>4, <2>5 DEF Allocates
    <2> QED BY <2>5, <2>6
<1> QED BY <1>1, <1>2

\* Every step is of one of the kinds.
LEMMA Kinds ==
    ASSUME WaitInv, Next
    PROVE  StepKind
<1>1. PICK t \in Tasks :
        \/ Dispatch(t) \/ Preempt(t) \/ Timer(t) \/ IpcCall(t) \/ IpcEnd(t)
        \/ \E token \in OtherTokens : OtherWake(t, token)
        \/ \E op \in Ops, s \in Sems : svc_handler(t, op, s)
        \/ Handler(t) \/ Fault(t) \/ Teardown(t)
    BY DEF Next
<1>0. want \in [Tasks -> Waits] /\ holds \in [Tasks -> SUBSET Sems] /\ NoWait.sem = 0
    BY DEF WaitInv, TypeOK, NoWait
<1>2. CASE \/ Preempt(t) \/ Timer(t) \/ \E token \in OtherTokens : OtherWake(t, token)
    <2>1. Aside
        BY <1>2 DEF Preempt, Timer, OtherWake, Aside, user, history
    <2> QED BY <2>1 DEF StepKind
<1>13. CASE Dispatch(t) \/ IpcCall(t) \/ IpcEnd(t)
    <2>1. /\ UNCHANGED <<sem, waiters, waiter_seq, sys, holds, permits, ahead, wrapped>>
          /\ want' = want \/ \E r : /\ want' = [want EXCEPT ![t] = r]
                                   /\ r.sem \notin holds[t]
        <3>1. CASE Dispatch(t)
            BY <1>0, <3>1, SlotTypes DEF Dispatch, Hijack, history
        <3>2. CASE IpcCall(t)
            BY <1>0, <3>2, SlotTypes DEF IpcCall, Hijack, history
        <3>3. CASE IpcEnd(t)
            BY <3>3 DEF IpcEnd, history
        <3> QED BY <1>13, <3>1, <3>2, <3>3
    <2>2. Aside
        BY <1>0, <2>1 DEF Aside
    <2> QED BY <2>2 DEF StepKind
<1>3. CASE CallerDead(t) \/ Fault(t) \/ TerminateChild(t) \/ Leave(t)
    <2>1. Aside
        BY <1>3 DEF CallerDead, Fault, TerminateChild, Leave, Aside, user, history
    <2> QED BY <2>1 DEF StepKind
<1>4. CASE ExitBegin(t)
    <2>1. sys' = [sys EXCEPT !.op = "exiting"] /\ sys \in Calls /\ sys.op = "exit"
        BY <1>4 DEF ExitBegin, WaitInv, TypeOK, InCall
    <2>2. sys'.pid = sys.pid /\ sys'.sem = sys.sem /\ sys'.op = "exiting"
        BY <2>1 DEF Calls, NoCall
    <2>3. Aside
        BY <1>4, <2>1, <2>2 DEF ExitBegin, Aside, user, history
    <2> QED BY <2>3 DEF StepKind
<1>5. CASE \E op \in Ops, s \in Sems : svc_handler(t, op, s)
    BY <1>5 DEF StepKind
<1>6. CASE semaphore_alloc(t)
    <2>1. Aside \/ \E s \in Sems, o \in Tasks : Allocates(s, o, 1, 1)
        BY <1>6, AllocKinds DEF semaphore_alloc
    <2> QED BY <2>1 DEF StepKind
<1>7. CASE semaphore_alloc_count(t)
    <2>1. PICK c \in 0 .. COUNT_MAX : sem_alloc_raw(t, "alloc_count", c, COUNT_MAX)
        BY <1>7 DEF semaphore_alloc_count
    <2>2. c \in Nat /\ COUNT_MAX \in Nat \ {0} /\ COUNT_MAX # 1
        BY ConstantsAssumption
    <2>3. Aside \/ \E s \in Sems, o \in Tasks : Allocates(s, o, c, COUNT_MAX)
        BY <2>1, <2>2, AllocKinds
    <2> QED BY <2>2, <2>3 DEF StepKind
<1>8. CASE semaphore_free(t)
    <2>1. sys.pid = t /\ sys.sem \in Sems
        BY <1>8, CallerFacts DEF semaphore_free, InCall
    <2>2. CASE sem[sys.sem].creater = Owner[t]
        <3>1. Resets({sys.sem})
            BY <1>8, <2>2 DEF semaphore_free, Resets
        <3> QED BY <2>1, <3>1 DEF StepKind
    <2>3. CASE sem[sys.sem].creater # Owner[t]
        <3>1. Aside
            BY <1>8, <2>3 DEF semaphore_free, Aside
        <3> QED BY <3>1 DEF StepKind
    <2> QED BY <2>2, <2>3
<1>9. CASE semaphore_enter_raw(t) \/ semaphore_try_enter(t)
    BY <1>9, EnterKinds DEF StepKind
<1>10. CASE semaphore_quit(t)
    BY <1>10 DEF StepKind
<1>11. CASE semaphore_clear(t)
    <2>0. Dying(t)
        BY <1>11 DEF semaphore_clear, Dying
    <2>1. Resets({s \in Sems : sem[s].creater = t})
        BY <1>11, <2>0 DEF semaphore_clear, Resets
    <2>2. {s \in Sems : sem[s].creater = t} \in SUBSET Sems
        OBVIOUS
    <2> QED BY <2>1, <2>2 DEF StepKind
<1>12. CASE semaphore_clear_occupied(t)
    BY <1>12 DEF StepKind
<1> QED BY <1>1, <1>2, <1>3, <1>4, <1>5, <1>6, <1>7, <1>8, <1>9, <1>10, <1>11, <1>12, <1>13
        DEF Handler, Teardown

-----------------------------------------------------------------------------
(* Direct handoff, seen slot by slot and semaphore by semaphore.           *)

\* The permits that came back to the semaphores of S, in the states c, are given
\* to the table w.
HandedOver(w, S, c) ==
    /\ waiters' \in [Slots -> Waiters] /\ ahead' = Tidy(ahead, waiters')
    /\ \A i \in Slots :
          \/ ~Selected(w, S, i) /\ waiters'[i] = w[i]
          \/ /\ ~Selected(w, S, i) /\ waiters'[i] = FreeSlot
             /\ w[i].sem \in S /\ ~w[i].granted /\ ~Live(w[i].pid)
          \/ /\ Selected(w, S, i) /\ Live(w[i].pid) /\ ~w[i].granted
             /\ waiters'[i] = [w[i] EXCEPT !.granted = TRUE]
    /\ sem' \in [Sems -> Semaphores]
    /\ \A s \in Sems \ S : sem'[s] = sem[s]
    /\ \A s \in S :
          /\ sem'[s].creater = sem[s].creater /\ sem'[s].max_count = sem[s].max_count
          /\ IF HandoffSlot(w, s) = NoSlot THEN sem'[s] = c[s]
             ELSE /\ sem'[s].count = c[s].count - 1
                  /\ sem'[s].occupied_pid = IF sem_is_binary(s) THEN w[HandoffSlot(w, s)].pid
                                            ELSE c[s].occupied_pid
    /\ UNCHANGED <<waiter_seq, want, wrapped>>

\* sem_handoff() on one semaphore.
LEMMA HandoffSemMore ==
    ASSUME NEW w \in [Slots -> Waiters], NEW s, NEW c \in Semaphores, c.count > 0
    PROVE  LET d == HandoffSem(w, s, c) IN
           /\ d \in Semaphores /\ d.creater = c.creater /\ d.max_count = c.max_count
           /\ IF HandoffSlot(w, s) = NoSlot THEN d = c
              ELSE /\ d.count = c.count - 1
                   /\ d.occupied_pid = IF c.max_count = 1 THEN w[HandoffSlot(w, s)].pid
                                       ELSE c.occupied_pid
<1>1. HandoffSem(w, s, c) \in Semaphores /\ HandoffSem(w, s, c).creater = c.creater
    BY HandoffSemFacts
<1>2. CASE HandoffSlot(w, s) = NoSlot
    BY <1>1, <1>2 DEF HandoffSem
<1>3. CASE HandoffSlot(w, s) # NoSlot
    <2> DEFINE n == c.count - 1
               o == IF c.max_count = 1 THEN w[HandoffSlot(w, s)].pid ELSE c.occupied_pid
    <2>1. HandoffSem(w, s, c) = [c EXCEPT !.count = n, !.occupied_pid = o]
        BY <1>3 DEF HandoffSem, Semaphores
    <2> HIDE DEF n, o
    <2>2. /\ HandoffSem(w, s, c).max_count = c.max_count
          /\ HandoffSem(w, s, c).count = n /\ HandoffSem(w, s, c).occupied_pid = o
        BY <2>1 DEF Semaphores
    <2> QED BY <1>1, <1>3, <2>2 DEF n, o
<1> QED BY <1>2, <1>3

\* The wait table without a task, or without its place in one queue.
LEMMA WithoutFacts ==
    ASSUME WaitInv, NEW t \in Tasks
    PROVE  /\ Without(t) \in [Slots -> Waiters]
           /\ \A i \in Slots : Without(t)[i] = IF waiters[i].pid = t THEN FreeSlot ELSE waiters[i]
           /\ Left(t) \in [Slots -> Waiters]
           /\ \A i \in Slots :
                 Left(t)[i] = IF waiters[i].pid = t /\ waiters[i].sem = sys.sem THEN FreeSlot
                              ELSE waiters[i]
<1>1. waiters \in [Slots -> Waiters] /\ FreeSlot \in Waiters
    BY ConstantsAssumption DEF WaitInv, TypeOK, FreeSlot, Waiters
<1> QED BY <1>1 DEF Without, Left

\* Handing over the states c is what the code's sem_handoff() does.
LEMMA HandoffShape ==
    ASSUME WaitInv, NEW S \in SUBSET Sems, NEW w \in [Slots -> Waiters],
           NEW c \in [S -> Semaphores],
           \A s \in S : /\ c[s].creater = sem[s].creater /\ c[s].max_count = sem[s].max_count
                        /\ c[s].count > 0,
           waiters' = HandoffWaiters(w, S), ahead' = Tidy(ahead, waiters'),
           sem' = [s \in Sems |-> IF s \in S THEN HandoffSem(w, s, c[s]) ELSE sem[s]],
           UNCHANGED <<waiter_seq, want, wrapped>>
    PROVE  HandedOver(w, S, c)
<1>1. sem \in [Sems -> Semaphores]
    BY DEF WaitInv, TypeOK
<1>2. ASSUME NEW s \in S
      PROVE  /\ sem'[s] \in Semaphores
             /\ sem'[s].creater = sem[s].creater /\ sem'[s].max_count = sem[s].max_count
             /\ IF HandoffSlot(w, s) = NoSlot THEN sem'[s] = c[s]
                ELSE /\ sem'[s].count = c[s].count - 1
                     /\ sem'[s].occupied_pid = IF sem_is_binary(s) THEN w[HandoffSlot(w, s)].pid
                                               ELSE c[s].occupied_pid
    <2>1. sem'[s] = HandoffSem(w, s, c[s]) /\ c[s] \in Semaphores /\ c[s].count > 0
        OBVIOUS
    <2>2. LET d == HandoffSem(w, s, c[s]) IN
          /\ d \in Semaphores /\ d.creater = c[s].creater /\ d.max_count = c[s].max_count
          /\ IF HandoffSlot(w, s) = NoSlot THEN d = c[s]
             ELSE /\ d.count = c[s].count - 1
                  /\ d.occupied_pid = IF c[s].max_count = 1 THEN w[HandoffSlot(w, s)].pid
                                      ELSE c[s].occupied_pid
        BY <2>1, HandoffSemMore
    <2> QED BY <2>1, <2>2 DEF sem_is_binary
<1>3. \A s \in Sems \ S : sem'[s] = sem[s]
    OBVIOUS
<1>4. \A s \in Sems : sem'[s] \in Semaphores
    BY <1>1, <1>2, <1>3
<1>5. sem' \in [Sems -> Semaphores]
    BY <1>4
<1>6. /\ waiters' \in [Slots -> Waiters]
      /\ \A i \in Slots :
            \/ ~Selected(w, S, i) /\ waiters'[i] = w[i]
            \/ /\ ~Selected(w, S, i) /\ waiters'[i] = FreeSlot
               /\ w[i].sem \in S /\ ~w[i].granted /\ ~Live(w[i].pid)
            \/ /\ Selected(w, S, i) /\ Live(w[i].pid) /\ ~w[i].granted
               /\ waiters'[i] = [w[i] EXCEPT !.granted = TRUE]
    BY HandoffFacts
<1> QED BY <1>2, <1>3, <1>5, <1>6 DEF HandedOver

\* semaphore_quit() refuses a permit, or hands it over.
LEMMA QuitShape ==
    ASSUME WaitInv, NEW t \in Tasks, semaphore_quit(t)
    PROVE  LET s == sys.sem IN
           /\ s \in Sems /\ sys.pid = t /\ sys.op = "quit" /\ sys' = NoCall
           /\ holds' = [holds EXCEPT ![t] = @ \ {s}]
           /\ \/ /\ ~sem_valid_idx(s) \/ sem[s].count >= sem[s].max_count
                 /\ UNCHANGED <<sem, waiters, task, permits, waiter_seq, want, wrapped>>
                 /\ ahead' = Tidy(ahead, waiters')
              \/ /\ sem_valid_idx(s) /\ sem[s].count < sem[s].max_count
                 /\ permits' = [permits EXCEPT ![s] = @ + 1]
                 /\ \E c \in [{s} -> Semaphores] :
                       /\ c[s].count = sem[s].count + 1
                       /\ c[s].occupied_pid = IF sem_is_binary(s) /\ sem[s].occupied_pid = t
                                              THEN NoTask ELSE sem[s].occupied_pid
                       /\ HandedOver(waiters, {s}, c)
<1> DEFINE s == sys.sem
<1>1. /\ sys.pid = t /\ sys.op = "quit" /\ sys' = NoCall /\ ahead' = Tidy(ahead, waiters')
      /\ holds' = [holds EXCEPT ![t] = @ \ {s}]
      /\ UNCHANGED <<waiter_seq, want, wrapped>>
    BY DEF semaphore_quit, InCall
<1>2. s \in Sems
    BY <1>1, CallerFacts
<1>3. sem \in [Sems -> Semaphores] /\ sem[s] \in Semaphores /\ waiters \in [Slots -> Waiters]
    BY <1>2 DEF WaitInv, TypeOK
<1>4. CASE ~sem_valid_idx(s) \/ sem[s].count >= sem[s].max_count
    BY <1>1, <1>2, <1>4 DEF semaphore_quit
<1>5. CASE ~(~sem_valid_idx(s) \/ sem[s].count >= sem[s].max_count)
    <2>1. /\ sem' = [sem EXCEPT ![s] = HandoffSem(waiters, s, Returned(t, s))]
          /\ waiters' = HandoffWaiters(waiters, {s})
          /\ permits' = [permits EXCEPT ![s] = @ + 1]
        BY <1>5 DEF semaphore_quit
    <2>2. sem[s].count < sem[s].max_count /\ sem[s].count \in Nat
        BY <1>3, <1>5 DEF Semaphores
    <2>3. /\ Returned(t, s) \in Semaphores
          /\ Returned(t, s).creater = sem[s].creater
          /\ Returned(t, s).max_count = sem[s].max_count
          /\ Returned(t, s).count = sem[s].count + 1
          /\ Returned(t, s).occupied_pid = IF sem_is_binary(s) /\ sem[s].occupied_pid = t
                                           THEN NoTask ELSE sem[s].occupied_pid
        <3> DEFINE n == sem[s].count + 1
                   o == IF sem_is_binary(s) /\ sem[s].occupied_pid = t
                        THEN NoTask ELSE sem[s].occupied_pid
        <3>1. n \in Nat /\ o \in Tasks \cup {NoTask}
            BY <1>3 DEF Semaphores
        <3>2. Returned(t, s) = [sem[s] EXCEPT !.count = n, !.occupied_pid = o]
            BY <1>3 DEF Returned, Semaphores
        <3> HIDE DEF n, o
        <3>3. Returned(t, s) \in Semaphores /\ Returned(t, s).creater = sem[s].creater
              /\ Returned(t, s).max_count = sem[s].max_count
              /\ Returned(t, s).count = n /\ Returned(t, s).occupied_pid = o
            BY <1>3, <3>1, <3>2 DEF Semaphores
        <3> QED BY <3>3 DEF n, o
    <2> HIDE DEF s
    <2> DEFINE c == [r \in {s} |-> Returned(t, s)]
    <2>4. c \in [{s} -> Semaphores] /\ c[s] = Returned(t, s)
        BY <2>3
    <2> HIDE DEF c
    <2>5. sem' = [r \in Sems |-> IF r \in {s} THEN HandoffSem(waiters, r, c[r]) ELSE sem[r]]
        BY <1>2, <1>3, <2>1, <2>4
    <2>7. {s} \in SUBSET Sems /\ c[s].count > 0
        BY <1>2, <2>2, <2>3, <2>4
    <2>8. HandedOver(waiters, {s}, c)
        BY <1>1, <1>3, <2>1, <2>3, <2>4, <2>5, <2>7, HandoffShape, ZenonT(30)
    <2> QED BY <1>1, <1>2, <1>5, <2>1, <2>2, <2>3, <2>4, <2>8 DEF s
<1> QED BY <1>4, <1>5

\* semaphore_clear_occupied() hands over what the dying task t was granted or
\* occupied, to a table without t.
LEMMA ClearShape ==
    ASSUME WaitInv, NEW t \in Tasks, semaphore_clear_occupied(t)
    PROVE  LET S == GrantsOf(t) \cup OccupiedBy(t) IN
           /\ S \in SUBSET Sems /\ sys' = sys
           /\ holds' = [holds EXCEPT ![t] = {}]
           /\ permits' = [s \in Sems |->
                  IF s \in GrantsOf(t) /\ sem[s].count >= sem[s].max_count
                  THEN permits[s] - 1 ELSE permits[s]]
           /\ \E c \in [S -> Semaphores] :
                 /\ \A s \in S :
                       /\ s \in GrantsOf(t) =>
                             /\ c[s].count = IF sem[s].count < sem[s].max_count
                                             THEN sem[s].count + 1 ELSE sem[s].count
                             /\ c[s].occupied_pid = IF sem[s].occupied_pid = t THEN NoTask
                                                    ELSE sem[s].occupied_pid
                       /\ s \notin GrantsOf(t) =>
                             c[s].count = sem[s].max_count /\ c[s].occupied_pid = NoTask
                       /\ c[s].count > 0
                 /\ HandedOver(Without(t), S, c)
<1> DEFINE S == GrantsOf(t) \cup OccupiedBy(t)
           c == [s \in S |-> Recovered(t, s)]
<1>1. /\ waiters' = HandoffWaiters(Without(t), S)
      /\ sem' = [s \in Sems |-> IF s \in S THEN HandoffSem(Without(t), s, Recovered(t, s))
                                ELSE sem[s]]
      /\ holds' = [holds EXCEPT ![t] = {}]
      /\ permits' = [s \in Sems |->
             IF s \in GrantsOf(t) /\ sem[s].count >= sem[s].max_count
             THEN permits[s] - 1 ELSE permits[s]]
      /\ ahead' = Tidy(ahead, waiters')
      /\ UNCHANGED <<waiter_seq, sys, want, wrapped>>
    BY DEF semaphore_clear_occupied, Without
<1>2. S \in SUBSET Sems
    BY DEF GrantsOf, OccupiedBy
<1>3. sem \in [Sems -> Semaphores]
    BY DEF WaitInv, TypeOK
<1> HIDE DEF S
<1>4. ASSUME NEW s \in S
      PROVE  /\ Recovered(t, s) \in Semaphores
             /\ Recovered(t, s).creater = sem[s].creater
             /\ Recovered(t, s).max_count = sem[s].max_count
             /\ Recovered(t, s).count > 0
             /\ s \in GrantsOf(t) =>
                   /\ Recovered(t, s).count = IF sem[s].count < sem[s].max_count
                                              THEN sem[s].count + 1 ELSE sem[s].count
                   /\ Recovered(t, s).occupied_pid = IF sem[s].occupied_pid = t THEN NoTask
                                                     ELSE sem[s].occupied_pid
             /\ s \notin GrantsOf(t) => /\ Recovered(t, s).count = sem[s].max_count
                                        /\ Recovered(t, s).occupied_pid = NoTask
    <2>1. sem[s] \in Semaphores
        BY <1>2, <1>3
    <2> DEFINE n == IF s \in GrantsOf(t)
                    THEN IF sem[s].count < sem[s].max_count THEN sem[s].count + 1
                         ELSE sem[s].count
                    ELSE sem[s].max_count
               o == IF s \in GrantsOf(t)
                    THEN IF sem[s].occupied_pid = t THEN NoTask ELSE sem[s].occupied_pid
                    ELSE NoTask
    <2>2. n \in Nat /\ n > 0 /\ o \in Tasks \cup {NoTask}
        BY <2>1 DEF Semaphores
    <2>3. Recovered(t, s) = [sem[s] EXCEPT !.count = n, !.occupied_pid = o]
        BY <2>1 DEF Recovered, Semaphores
    <2> HIDE DEF n, o
    <2>4. /\ Recovered(t, s) \in Semaphores
          /\ Recovered(t, s).creater = sem[s].creater
          /\ Recovered(t, s).max_count = sem[s].max_count
          /\ Recovered(t, s).count = n /\ Recovered(t, s).occupied_pid = o
        BY <2>1, <2>2, <2>3 DEF Semaphores
    <2> QED BY <2>2, <2>4 DEF n, o
<1>5. c \in [S -> Semaphores] /\ \A s \in S : c[s] = Recovered(t, s)
    BY <1>4
<1> HIDE DEF c
<1>6. sem' = [s \in Sems |-> IF s \in S THEN HandoffSem(Without(t), s, c[s]) ELSE sem[s]]
    BY <1>1, <1>5
<1>7. Without(t) \in [Slots -> Waiters]
    BY WithoutFacts
<1>8. HandedOver(Without(t), S, c)
    BY <1>1, <1>2, <1>4, <1>5, <1>6, <1>7, HandoffShape
<1>9. \A s \in S :
         /\ s \in GrantsOf(t) =>
               /\ c[s].count = IF sem[s].count < sem[s].max_count
                               THEN sem[s].count + 1 ELSE sem[s].count
               /\ c[s].occupied_pid = IF sem[s].occupied_pid = t THEN NoTask
                                      ELSE sem[s].occupied_pid
         /\ s \notin GrantsOf(t) => c[s].count = sem[s].max_count /\ c[s].occupied_pid = NoTask
         /\ c[s].count > 0
    BY <1>4, <1>5
<1> QED BY <1>1, <1>2, <1>5, <1>8, <1>9 DEF S

-----------------------------------------------------------------------------
(* Who holds what.                                                         *)

\* A binary semaphore that a task has acquired exists, and the task does not
\* wait for it.
HoldsBinary ==
    \A t \in Tasks : \A s \in holds[t] :
        sem_valid_idx(s) /\ sem_is_binary(s) /\ want[t].sem # s /\ ~HasSlot(t, s)

EntersOther ==
    sys.pid # NoTask /\ sys.op \in EnterOps => sys.sem \notin holds[sys.pid]

\* occupied_pid does not name a task that does not have the semaphore.
OccupantHolds ==
    \A s \in Sems, t \in Tasks :
        sem_valid_idx(s) /\ sem_is_binary(s) /\ sem_occupied(s) /\ sem[s].occupied_pid = t
        => s \in holds[t] \/ HasGrant(t, s)

HoldInv == HoldsBinary /\ EntersOther /\ OccupantHolds

\* The steps that are not about semaphores, the traps and the allocations.
LEMMA HoldPlain ==
    ASSUME WaitInv, HoldInv,
           \/ Aside
           \/ \E t \in Tasks, op \in Ops, s \in Sems : svc_handler(t, op, s)
           \/ \E s \in Sems, o \in Tasks, count \in Nat, max \in Nat \ {0} :
                 Allocates(s, o, count, max)
    PROVE  HoldInv'
<1> USE DEF HoldInv
<1>1. CASE Aside
    <2>1. HoldsBinary' /\ OccupantHolds'
        BY <1>1 DEF Aside, HoldsBinary, OccupantHolds, HasSlot, HasGrant, sem_valid_idx,
                    sem_is_binary, sem_occupied
    <2>2. EntersOther'
        BY <1>1 DEF Aside, EntersOther, NoCall, EnterOps
    <2> QED BY <2>1, <2>2
<1>2. CASE \E t \in Tasks, op \in Ops, s \in Sems : svc_handler(t, op, s)
    <2> PICK t \in Tasks, op \in Ops, s \in Sems : svc_handler(t, op, s)
        BY <1>2
    <2>1. /\ UNCHANGED <<sem, waiters, want, holds>> /\ Asks(t, op, s)
          /\ sys' = [pid |-> t, op |-> op, sem |-> s, slot |-> NoSlot]
        BY DEF svc_handler, user
    <2>2. HoldsBinary' /\ OccupantHolds'
        BY <2>1 DEF HoldsBinary, OccupantHolds, HasSlot, HasGrant, sem_valid_idx,
                    sem_is_binary, sem_occupied
    <2>3. op \in EnterOps => s \notin holds[t]
        BY <2>1 DEF Asks, EnterOps, HoldsBinary
    <2>4. EntersOther'
        BY <2>1, <2>3 DEF EntersOther
    <2> QED BY <2>2, <2>4
<1>3. CASE \E s \in Sems, o \in Tasks, count \in Nat, max \in Nat \ {0} :
              Allocates(s, o, count, max)
    <2> PICK s \in Sems, o \in Tasks, count \in Nat, max \in Nat \ {0} :
              Allocates(s, o, count, max)
        BY <1>3
    <2>1. /\ ~sem_valid_idx(s) /\ sys' = NoCall /\ UNCHANGED <<waiters, want, holds>>
          /\ sem' = [sem EXCEPT ![s] = [creater |-> o, count |-> count, max_count |-> max,
                                        occupied_pid |-> NoTask]]
        BY DEF Allocates
    <2>2. \A r \in Sems : /\ r # s => sem'[r] = sem[r]
                          /\ r = s => sem'[r].occupied_pid = NoTask
        BY <2>1 DEF WaitInv, TypeOK
    <2>3. \A t \in Tasks : \A r \in holds[t] : r \in Sems /\ r # s
        BY <2>1 DEF HoldsBinary, WaitInv, TypeOK
    <2>4. HoldsBinary'
        BY <2>1, <2>2, <2>3 DEF HoldsBinary, HasSlot, sem_valid_idx, sem_is_binary
    <2>5. OccupantHolds'
        BY <2>1, <2>2, ConstantsAssumption
           DEF OccupantHolds, HasGrant, sem_valid_idx, sem_is_binary, sem_occupied
    <2>6. EntersOther'
        BY <2>1 DEF EntersOther, NoCall
    <2> QED BY <2>4, <2>5, <2>6
<1> QED BY <1>1, <1>2, <1>3

\* Semaphores that go away take their holders along.
LEMMA HoldReset ==
    ASSUME WaitInv, HoldInv, NEW S \in SUBSET Sems, Resets(S)
    PROVE  HoldInv'
<1> USE DEF HoldInv
<1>1. /\ \A i \in Slots : waiters'[i] = IF waiters[i].sem \in S THEN FreeSlot ELSE waiters[i]
      /\ \A s \in Sems : sem'[s] = IF s \in S THEN FreeSem ELSE sem[s]
      /\ \A t \in Tasks : holds'[t] = holds[t] \ S
      /\ sys' \in {sys, NoCall} /\ want' = want
    BY DEF Resets, sem_reset
<1>2. \A t \in Tasks : holds[t] \subseteq Sems
    BY DEF WaitInv, TypeOK
<1>3. HoldsBinary'
    <2>1. \A i \in Slots : waiters'[i].sem \in Sems => waiters'[i] = waiters[i]
        BY <1>1, FreeSlotFacts
    <2>2. \A t \in Tasks, s \in Sems : HasSlot(t, s)' => HasSlot(t, s)
        BY <2>1 DEF HasSlot
    <2>3. \A t \in Tasks : \A s \in holds'[t] :
              s \in holds[t] /\ s \in Sems /\ sem'[s] = sem[s]
        BY <1>1, <1>2
    <2> QED BY <1>1, <2>2, <2>3 DEF HoldsBinary, sem_valid_idx, sem_is_binary
<1>4. OccupantHolds'
    BY <1>1, <1>2 DEF OccupantHolds, HasGrant, sem_valid_idx, sem_is_binary, sem_occupied, FreeSem
<1>5. EntersOther'
    <2>1. sys.pid # NoTask => sys.pid \in Tasks
        BY DEF WaitInv, TypeOK, Calls, NoCall
    <2> QED BY <1>1, <2>1 DEF EntersOther, NoCall
<1> QED BY <1>3, <1>4, <1>5

\* The end of a call that enters a semaphore.
LEMMA HoldEnter ==
    ASSUME WaitInv, HoldInv, NEW t \in Tasks, Collects(t) \/ Takes(t) \/ Forgoes(t)
    PROVE  HoldInv'
<1> USE DEF HoldInv
<1> DEFINE s == sys.sem
<1>1. sys.pid = t /\ s \in Sems /\ s \notin holds[t]
    <2>1. sys.pid = t /\ sys.op \in EnterOps
        BY DEF Collects, Takes, Forgoes
    <2> QED BY <2>1, CallerFacts, ConstantsAssumption DEF EntersOther
<1>2. /\ want \in [Tasks -> Waits] /\ holds \in [Tasks -> SUBSET Sems]
      /\ sem \in [Sems -> Semaphores] /\ waiters \in [Slots -> Waiters]
    BY DEF WaitInv, TypeOK
<1>3. EntersOther'
    <2>1. sys' = NoCall
        BY DEF Collects, Takes, Forgoes, Acquired, Return
    <2> QED BY <2>1 DEF EntersOther, NoCall
<1>4. \A u \in Tasks, r \in Sems, i \in Slots :
         Left(t)[i].sem = r /\ Left(t)[i].pid = u
         => ~(u = t /\ r = s) /\ Left(t)[i] = waiters[i]
    BY WithoutFacts, FreeSlotFacts
<1>5. CASE Collects(t) \/ Takes(t)
    <2>1. /\ waiters' = Left(t) /\ want' = [want EXCEPT ![t] = NoWait]
          /\ holds' = [holds EXCEPT ![t] = IF sem_is_binary(s) THEN @ \cup {s} ELSE @]
        BY <1>5 DEF Collects, Takes, Acquired, Return
    <2>2. sem_valid_idx(s)
        BY <1>1, <1>5, SlotTypes DEF Collects, Takes, HasGrant, WaitInv, SlotsOfSems
    <2>3. \A r \in Sems : /\ sem'[r].creater = sem[r].creater
                          /\ sem'[r].max_count = sem[r].max_count
                          /\ r # s => sem'[r] = sem[r]
                          /\ ~Takes(t) => sem'[r] = sem[r]
                          /\ Takes(t) /\ r = s /\ sem_is_binary(r) => sem'[r].occupied_pid = t
        <3>1. CASE Takes(t)
            <4>1. sem' = Taken(t, s)
                BY <3>1 DEF Takes
            <4> DEFINE n == sem[s].count - 1
                       o == IF sem_is_binary(s) THEN t ELSE sem[s].occupied_pid
            <4>2. sem' = [sem EXCEPT ![s] = [sem[s] EXCEPT !.count = n, !.occupied_pid = o]]
                BY <1>1, <1>2, <4>1 DEF Taken, Semaphores
            <4> HIDE DEF n, o, s
            <4>3. sem'[s] = [sem[s] EXCEPT !.count = n, !.occupied_pid = o]
                BY <1>1, <1>2, <4>2
            <4>4. /\ sem'[s].creater = sem[s].creater /\ sem'[s].max_count = sem[s].max_count
                  /\ sem'[s].occupied_pid = o
                BY <1>1, <1>2, <4>3 DEF Semaphores
            <4> QED BY <1>1, <1>2, <3>1, <4>2, <4>4 DEF o
        <3>2. CASE ~Takes(t)
            BY <1>5, <3>2 DEF Collects
        <3> QED BY <3>1, <3>2
    <2>4. \A u \in Tasks : /\ u # t => want'[u] = want[u] /\ holds'[u] = holds[u]
                           /\ want'[t].sem = 0
                           /\ holds'[t] = IF sem_is_binary(s) THEN holds[t] \cup {s}
                                          ELSE holds[t]
        BY <1>2, <2>1 DEF NoWait
    <2> HIDE DEF s
    <2>5. \A u \in Tasks, r \in Sems : HasSlot(u, r)' => ~(u = t /\ r = s) /\ HasSlot(u, r)
        BY <1>4, <2>1 DEF HasSlot
    <2>6. \A u \in Tasks, r \in Sems : HasGrant(u, r) /\ ~(u = t /\ r = s) => HasGrant(u, r)'
        BY <2>1, WithoutFacts DEF HasGrant, s
    <2>8. HoldsBinary'
        <3> SUFFICES ASSUME NEW u \in Tasks, NEW r \in holds'[u]
                     PROVE  (sem_valid_idx(r) /\ sem_is_binary(r) /\ want[u].sem # r /\ ~HasSlot(u, r))'
            BY DEF HoldsBinary
        <3>1. CASE r \in holds[u]
            <4>1. r \in Sems /\ sem_valid_idx(r) /\ sem_is_binary(r) /\ want[u].sem # r /\ ~HasSlot(u, r)
                BY <1>2, <3>1 DEF HoldsBinary
            <4> QED BY <2>3, <2>4, <2>5, <4>1, SlotTypes DEF sem_valid_idx, sem_is_binary
        <3>2. CASE r \notin holds[u]
            <4>1. u = t /\ r = s /\ sem_is_binary(s)
                BY <2>4, <3>2
            <4> QED BY <1>1, <2>2, <2>3, <2>4, <2>5, <4>1, SlotTypes DEF sem_valid_idx, sem_is_binary
        <3> QED BY <3>1, <3>2
    <2>9. OccupantHolds'
        <3> SUFFICES ASSUME NEW r \in Sems, NEW u \in Tasks,
                            (sem_valid_idx(r) /\ sem_is_binary(r) /\ sem_occupied(r)
                                /\ sem[r].occupied_pid = u)'
                     PROVE  r \in holds'[u] \/ HasGrant(u, r)'
            BY DEF OccupantHolds
        <3>1. CASE r = s
            <4>1. CASE Takes(t)
                BY <2>3, <2>4, <3>1, <4>1 DEF sem_is_binary
            <4>2. CASE ~Takes(t)
                <5>1. r \in holds[u] \/ HasGrant(u, r)
                    BY <2>3, <4>2 DEF OccupantHolds, sem_valid_idx, sem_is_binary, sem_occupied
                <5> QED BY <2>3, <2>4, <2>6, <3>1, <5>1 DEF sem_is_binary
            <4> QED BY <4>1, <4>2
        <3>2. CASE r # s
            <4>1. r \in holds[u] \/ HasGrant(u, r)
                BY <2>3, <3>2 DEF OccupantHolds, sem_valid_idx, sem_is_binary, sem_occupied
            <4> QED BY <2>4, <2>6, <3>2, <4>1
        <3> QED BY <3>1, <3>2
    <2> QED BY <1>3, <2>8, <2>9
<1>6. CASE Forgoes(t)
    <2>1. /\ UNCHANGED <<sem, holds>>
          /\ \A u \in Tasks : /\ u # t => want'[u] = want[u]
                              /\ u = t => want'[u].sem \in {0, s}
        BY <1>2, <1>6 DEF Forgoes, NoWait, Looping
    <2>2. waiters' = waiters \/ (waiters' = Left(t) /\ ~HasGrant(t, s))
        BY <1>6 DEF Forgoes
    <2> HIDE DEF s
    <2>3. \A u \in Tasks, r \in Sems : HasSlot(u, r)' => HasSlot(u, r)
        BY <1>4, <2>2 DEF HasSlot
    <2>4. \A u \in Tasks, r \in Sems : HasGrant(u, r) => HasGrant(u, r)'
        BY <1>1, <2>2, WithoutFacts DEF HasGrant, s
    <2>5. HoldsBinary'
        BY <1>1, <1>2, <2>1, <2>3, SlotTypes DEF HoldsBinary, sem_valid_idx, sem_is_binary
    <2>6. OccupantHolds'
        BY <2>1, <2>4 DEF OccupantHolds, sem_valid_idx, sem_is_binary, sem_occupied
    <2> QED BY <1>3, <2>5, <2>6
<1> QED BY <1>5, <1>6

\* A task queues for a semaphore that it does not hold.
LEMMA HoldQueue ==
    ASSUME WaitInv, HoldInv, NEW t \in Tasks, EnterQueue(t)
    PROVE  HoldInv'
<1> USE DEF HoldInv
<1> DEFINE k == sem_waiter_free
           new == [sem |-> sys.sem, pid |-> t, seq |-> waiter_seq, granted |-> FALSE]
<1>1. /\ sys.pid = t /\ sys.op \in EnterOps /\ k # NoSlot
      /\ waiters' = [waiters EXCEPT ![k] = new]
      /\ UNCHANGED <<sem, want, holds>> /\ sys' = [sys EXCEPT !.slot = k]
    BY DEF EnterQueue, EnterCall, InCall, EnterOps, user
<1>2. /\ k \in Slots /\ waiters[k].sem = 0 /\ ~waiters[k].granted
      /\ sys.sem \in Sems /\ sys.sem \notin holds[t]
    BY <1>1, FreeFacts, CallerFacts, ConstantsAssumption DEF EntersOther, WaitInv, SlotsOfSems
<1>3. /\ \A i \in Slots : i # k => waiters'[i] = waiters[i]
      /\ waiters'[k].sem = sys.sem /\ waiters'[k].pid = t
    BY <1>1, <1>2 DEF WaitInv, TypeOK
<1>4. sys'.pid = sys.pid /\ sys'.op = sys.op /\ sys'.sem = sys.sem
    BY <1>1 DEF WaitInv, TypeOK, Calls, NoCall
<1> HIDE DEF k, new
<1>5. HoldsBinary'
    BY <1>1, <1>2, <1>3 DEF HoldsBinary, HasSlot, sem_valid_idx, sem_is_binary
<1>6. OccupantHolds'
    BY <1>1, <1>2, <1>3, SlotTypes DEF OccupantHolds, HasGrant, sem_valid_idx, sem_is_binary,
                                       sem_occupied
<1>7. EntersOther'
    BY <1>1, <1>4 DEF EntersOther
<1> QED BY <1>5, <1>6, <1>7

\* A handoff: slots keep their task and semaphore or become free, and the slots
\* selected become granted.
LEMMA HandedSlots ==
    ASSUME NEW w \in [Slots -> Waiters], NEW S \in SUBSET Sems,
           NEW c \in [S -> Semaphores], HandedOver(w, S, c)
    PROVE  \A i \in Slots :
              /\ waiters'[i] # FreeSlot => /\ waiters'[i].sem = w[i].sem
                                           /\ waiters'[i].pid = w[i].pid
                                           /\ waiters'[i].seq = w[i].seq
              /\ w[i].granted => waiters'[i] = w[i]
              /\ w[i].sem \notin S => waiters'[i] = w[i]
              /\ waiters'[i].granted => w[i].granted \/ Selected(w, S, i)
              /\ Selected(w, S, i) => /\ waiters'[i].sem = w[i].sem
                                      /\ waiters'[i].pid = w[i].pid /\ waiters'[i].granted
<1>1. ASSUME NEW i \in Slots
      PROVE  /\ waiters'[i] # FreeSlot => /\ waiters'[i].sem = w[i].sem
                                          /\ waiters'[i].pid = w[i].pid
                                          /\ waiters'[i].seq = w[i].seq
             /\ w[i].granted => waiters'[i] = w[i]
             /\ w[i].sem \notin S => waiters'[i] = w[i]
             /\ waiters'[i].granted => w[i].granted \/ Selected(w, S, i)
             /\ Selected(w, S, i) => /\ waiters'[i].sem = w[i].sem
                                     /\ waiters'[i].pid = w[i].pid /\ waiters'[i].granted
    <2>1. CASE ~Selected(w, S, i) /\ waiters'[i] = w[i]
        BY <2>1
    <2>2. CASE /\ ~Selected(w, S, i) /\ waiters'[i] = FreeSlot
               /\ w[i].sem \in S /\ ~w[i].granted /\ ~Live(w[i].pid)
        BY <2>2, FreeSlotFacts
    <2>3. CASE /\ Selected(w, S, i) /\ Live(w[i].pid) /\ ~w[i].granted
               /\ waiters'[i] = [w[i] EXCEPT !.granted = TRUE]
        BY <2>3 DEF Waiters, Selected
    <2> QED BY <2>1, <2>2, <2>3 DEF HandedOver
<1> QED BY <1>1

\* The slot a handoff settles on.
LEMMA ChosenSlot ==
    ASSUME NEW w \in [Slots -> Waiters], NEW S \in SUBSET Sems, NEW s \in S,
           HandoffSlot(w, s) # NoSlot
    PROVE  /\ HandoffSlot(w, s) \in Slots /\ w[HandoffSlot(w, s)].sem = s
           /\ ~w[HandoffSlot(w, s)].granted /\ Live(w[HandoffSlot(w, s)].pid)
           /\ Selected(w, S, HandoffSlot(w, s))
BY HandoffSlotFacts DEF Queue, Selected

\* A release or the death of t hands permits over.
LEMMA HoldHandoff ==
    ASSUME WaitInv, HoldInv, NEW t \in Tasks, semaphore_quit(t) \/ semaphore_clear_occupied(t)
    PROVE  HoldInv'
<1> USE DEF HoldInv
<1>1. /\ waiters \in [Slots -> Waiters] /\ holds \in [Tasks -> SUBSET Sems]
      /\ sem \in [Sems -> Semaphores]
    BY DEF WaitInv, TypeOK
<1>2. EntersOther'
    <2>1. /\ sys' \in {sys, NoCall} /\ \A u \in Tasks : holds'[u] \subseteq holds[u]
        <3>1. CASE semaphore_quit(t)
            <4>1. sys' = NoCall /\ holds' = [holds EXCEPT ![t] = @ \ {sys.sem}]
                BY <3>1, QuitShape
            <4> QED BY <1>1, <4>1
        <3>2. CASE semaphore_clear_occupied(t)
            <4>1. sys' = sys /\ holds' = [holds EXCEPT ![t] = {}]
                BY <3>2, ClearShape
            <4> QED BY <1>1, <4>1
        <3> QED BY <3>1, <3>2
    <2>2. sys.pid # NoTask => sys.pid \in Tasks
        BY DEF WaitInv, TypeOK, Calls, NoCall
    <2> QED BY <2>1, <2>2 DEF EntersOther, NoCall
<1>3. CASE UNCHANGED <<sem, waiters, want>> /\ semaphore_quit(t)
    <2>1. /\ sys.sem \in Sems /\ holds' = [holds EXCEPT ![t] = @ \ {sys.sem}]
          /\ ~sem_valid_idx(sys.sem) \/ sem[sys.sem].count >= sem[sys.sem].max_count
          /\ sem[sys.sem].max_count \in Nat \ {0} /\ sem[sys.sem].count \in Nat
        <3>1. sys.sem \in Sems /\ holds' = [holds EXCEPT ![t] = @ \ {sys.sem}]
            BY <1>3, QuitShape
        <3>2. sem[sys.sem] \in Semaphores
            BY <1>1, <3>1
        <3>3. \/ ~sem_valid_idx(sys.sem) \/ sem[sys.sem].count >= sem[sys.sem].max_count
              \/ \E c \in [{sys.sem} -> Semaphores] :
                    c[sys.sem].count = sem[sys.sem].count + 1 /\ HandedOver(waiters, {sys.sem}, c)
            BY <1>3, QuitShape
        <3>4. ASSUME NEW c \in [{sys.sem} -> Semaphores],
                     c[sys.sem].count = sem[sys.sem].count + 1, HandedOver(waiters, {sys.sem}, c)
              PROVE  FALSE
            <4>1. {sys.sem} \in SUBSET Sems /\ sem' = sem /\ waiters' = waiters
                BY <1>3, <3>1
            <4>2. CASE HandoffSlot(waiters, sys.sem) = NoSlot
                BY <3>2, <3>4, <4>1, <4>2 DEF HandedOver, Semaphores
            <4>3. CASE HandoffSlot(waiters, sys.sem) # NoSlot
                <5>1. waiters'[HandoffSlot(waiters, sys.sem)].granted
                    <6>1. /\ HandoffSlot(waiters, sys.sem) \in Slots
                          /\ Selected(waiters, {sys.sem}, HandoffSlot(waiters, sys.sem))
                        BY <1>1, <4>1, <4>3, ChosenSlot
                    <6> QED BY <1>1, <3>4, <4>1, <6>1, HandedSlots
                <5>2. ~waiters[HandoffSlot(waiters, sys.sem)].granted
                    BY <1>1, <4>3, HandoffSlotFacts DEF Queue
                <5> QED BY <4>1, <5>1, <5>2
            <4> QED BY <4>2, <4>3
        <3> QED BY <3>1, <3>2, <3>3, <3>4 DEF Semaphores
    <2>2. HoldsBinary'
        BY <1>1, <1>3, <2>1 DEF HoldsBinary, HasSlot, sem_valid_idx, sem_is_binary
    <2>3. \A s \in Sems, u \in Tasks : s \in holds[u] => s \in holds'[u] \/ s = sys.sem
        BY <1>1, <2>1
    <2>4. sem_valid_idx(sys.sem) => ~sem_occupied(sys.sem)
        BY <2>1 DEF sem_occupied
    <2>5. OccupantHolds'
        BY <1>3, <2>3, <2>4 DEF OccupantHolds, HasGrant, sem_valid_idx, sem_is_binary, sem_occupied
    <2> QED BY <1>2, <2>2, <2>5
<1>4. ASSUME NEW w \in [Slots -> Waiters], NEW S \in SUBSET Sems, NEW c \in [S -> Semaphores],
             HandedOver(w, S, c), \A s \in S : c[s].count > 0,
             \A i \in Slots : w[i] = waiters[i] \/ (w[i] = FreeSlot /\ waiters[i].pid = t),
             \A u \in Tasks : u # t => holds'[u] = holds[u],
             holds'[t] \subseteq holds[t],
             \A s \in Sems \ S : s \in holds[t] /\ sem_valid_idx(s) /\ sem_is_binary(s)
                /\ sem_occupied(s) /\ sem[s].occupied_pid = t => s \in holds'[t],
             \A s \in Sems \ S : ~(\A i \in Slots : w[i] = waiters[i]) => ~HasGrant(t, s)
      PROVE  HoldInv'
    <2>1. \A s \in Sems : /\ sem'[s].creater = sem[s].creater
                          /\ sem'[s].max_count = sem[s].max_count
                          /\ s \notin S => sem'[s] = sem[s]
        BY <1>4 DEF HandedOver
    <2>2. \A i \in Slots : waiters'[i].sem \in Sems => waiters'[i].sem = waiters[i].sem
                                                      /\ waiters'[i].pid = waiters[i].pid
        <3>1. \A i \in Slots : waiters'[i] # FreeSlot =>
                 waiters'[i].sem = w[i].sem /\ waiters'[i].pid = w[i].pid
            BY <1>4, HandedSlots
        <3> QED BY <1>4, <3>1, FreeSlotFacts
    <2>3. want' = want
        BY <1>4 DEF HandedOver
    <2>4. HoldsBinary'
        <3>1. \A u \in Tasks, s \in Sems : HasSlot(u, s)' => HasSlot(u, s)
            BY <2>2 DEF HasSlot
        <3>2. \A u \in Tasks : \A s \in holds'[u] : s \in holds[u] /\ s \in Sems
            BY <1>1, <1>4
        <3> QED BY <2>1, <2>3, <3>1, <3>2 DEF HoldsBinary, sem_valid_idx, sem_is_binary
    <2>5. OccupantHolds'
        <3> SUFFICES ASSUME NEW s \in Sems, NEW u \in Tasks,
                            (sem_valid_idx(s) /\ sem_is_binary(s) /\ sem_occupied(s)
                                /\ sem[s].occupied_pid = u)'
                     PROVE  s \in holds'[u] \/ HasGrant(u, s)'
            BY DEF OccupantHolds
        <3>1. CASE s \in S
            <4>1. HandoffSlot(w, s) # NoSlot
                BY <1>4, <3>1 DEF HandedOver, sem_occupied
            <4>2. sem_is_binary(s)
                BY <2>1 DEF sem_is_binary
            <4>3. sem'[s].occupied_pid = w[HandoffSlot(w, s)].pid
                BY <1>4, <3>1, <4>1, <4>2 DEF HandedOver
            <4>4. /\ HandoffSlot(w, s) \in Slots /\ waiters'[HandoffSlot(w, s)].sem = s
                  /\ waiters'[HandoffSlot(w, s)].pid = w[HandoffSlot(w, s)].pid
                  /\ waiters'[HandoffSlot(w, s)].granted
                <5>1. /\ HandoffSlot(w, s) \in Slots /\ w[HandoffSlot(w, s)].sem = s
                      /\ Selected(w, S, HandoffSlot(w, s))
                    BY <3>1, <4>1, ChosenSlot
                <5> QED BY <1>4, <5>1, HandedSlots
            <4> QED BY <4>3, <4>4 DEF HasGrant
        <3>2. CASE s \notin S
            <4>1. sem_valid_idx(s) /\ sem_is_binary(s) /\ sem_occupied(s) /\ sem[s].occupied_pid = u
                BY <2>1, <3>2 DEF sem_valid_idx, sem_is_binary, sem_occupied
            <4>2. CASE s \in holds[u]
                BY <1>4, <3>2, <4>1, <4>2
            <4>3. CASE HasGrant(u, s)
                <5>1. PICK i \in Slots : waiters[i].sem = s /\ waiters[i].pid = u /\ waiters[i].granted
                    BY <4>3 DEF HasGrant
                <5>2. w[i] = waiters[i]
                    BY <1>4, <3>2, <4>3, <5>1
                <5>3. waiters'[i] = w[i]
                    BY <1>4, <3>2, <5>1, <5>2 DEF HandedOver, Selected
                <5> QED BY <5>1, <5>2, <5>3 DEF HasGrant
            <4> QED BY <4>1, <4>2, <4>3 DEF OccupantHolds
        <3> QED BY <3>1, <3>2
    <2> QED BY <1>2, <2>4, <2>5
<1>5. CASE semaphore_quit(t)
    <2>1. CASE UNCHANGED <<sem, waiters, want>>
        BY <1>3, <1>5, <2>1
    <2>2. ASSUME NEW c \in [{sys.sem} -> Semaphores], c[sys.sem].count = sem[sys.sem].count + 1,
                 HandedOver(waiters, {sys.sem}, c)
          PROVE  HoldInv'
        <3>1. sys.sem \in Sems /\ holds' = [holds EXCEPT ![t] = @ \ {sys.sem}]
            BY <1>5, QuitShape
        <3>2. {sys.sem} \in SUBSET Sems /\ sem[sys.sem] \in Semaphores
            BY <1>1, <3>1
        <3>3. \A s \in {sys.sem} : c[s].count > 0
            BY <2>2, <3>2 DEF Semaphores
        <3>4. /\ \A u \in Tasks : u # t => holds'[u] = holds[u]
              /\ holds'[t] \subseteq holds[t]
              /\ \A s \in Sems \ {sys.sem} : s \in holds[t] => s \in holds'[t]
            BY <1>1, <3>1
        <3> QED BY <1>1, <1>4, <2>2, <3>2, <3>3, <3>4
    <2> QED BY <1>5, <2>1, <2>2, QuitShape
<1>6. CASE semaphore_clear_occupied(t)
    <2> DEFINE S == GrantsOf(t) \cup OccupiedBy(t)
    <2>1. /\ S \in SUBSET Sems /\ holds' = [holds EXCEPT ![t] = {}]
          /\ \E c \in [S -> Semaphores] : /\ \A s \in S : c[s].count > 0
                                          /\ HandedOver(Without(t), S, c)
        BY <1>6, ClearShape
    <2>2. PICK c \in [S -> Semaphores] : /\ \A s \in S : c[s].count > 0
                                         /\ HandedOver(Without(t), S, c)
        BY <2>1
    <2>3. \A s \in Sems \ S :
             ~(sem_valid_idx(s) /\ sem_is_binary(s) /\ sem_occupied(s) /\ sem[s].occupied_pid = t)
        BY DEF OccupiedBy
    <2>4. \A s \in Sems \ S : ~HasGrant(t, s)
        <3>1. \A i \in Slots : waiters[i].sem \in Sems => sem_valid_idx(waiters[i].sem)
            BY SlotTypes DEF WaitInv, SlotsOfSems
        <3> QED BY <3>1 DEF GrantsOf, HasGrant
    <2> HIDE DEF S
    <2>5. /\ \A u \in Tasks : u # t => holds'[u] = holds[u]
          /\ holds'[t] \subseteq holds[t]
        BY <1>1, <2>1
    <2>6. /\ Without(t) \in [Slots -> Waiters]
          /\ \A i \in Slots : \/ Without(t)[i] = waiters[i]
                              \/ Without(t)[i] = FreeSlot /\ waiters[i].pid = t
        BY WithoutFacts
    <2> QED BY <1>4, <2>1, <2>2, <2>3, <2>4, <2>5, <2>6
<1> QED BY <1>5, <1>6

\* Who holds what, in every reachable state.
LEMMA HoldInvariant == Spec => [](WaitInv /\ HoldInv)
<1>1. Init => WaitInv /\ HoldInv
    <2> SUFFICES ASSUME Init PROVE HoldInv
        BY Initially
    <2> QED BY DEF Init, HoldInv, HoldsBinary, EntersOther, OccupantHolds, NoCall, FreeSem,
                   sem_valid_idx
<1>2. WaitInv /\ HoldInv /\ [Next]_vars => (WaitInv /\ HoldInv)'
    <2> SUFFICES ASSUME WaitInv, HoldInv, [Next]_vars PROVE HoldInv'
        BY Preserved
    <2>1. CASE Next
        BY <2>1, Kinds, HoldPlain, HoldReset, HoldEnter, HoldQueue, HoldHandoff DEF StepKind
    <2>2. CASE UNCHANGED vars
        BY <2>2 DEF vars, HoldInv, HoldsBinary, EntersOther, OccupantHolds, HasSlot, HasGrant,
                    sem_valid_idx, sem_is_binary, sem_occupied
    <2> QED BY <2>1, <2>2
<1> QED BY <1>1, <1>2, PTL DEF Spec

-----------------------------------------------------------------------------
(* The order of the queue.                                                 *)

\* Until it overflows, _waiter_seq is above every ticket in the table.
SeqInv == ~wrapped => \A i \in Slots : waiters[i].sem # 0 => waiters[i].seq < waiter_seq

\* Who queued before a waiter and still waits has a smaller ticket.
AheadInv ==
    ~wrapped => \A i \in Slots : waiters[i].sem # 0 =>
        \A u \in ahead[i] : \E j \in Slots :
            /\ waiters[j].sem = waiters[i].sem /\ waiters[j].pid = u
            /\ ~waiters[j].granted /\ waiters[j].seq < waiters[i].seq

OrderInv == SeqInv /\ AheadInv

\* A step that queues nobody.
LEMMA OrderKept ==
    ASSUME WaitInv, WaitInv', OrderInv, UNCHANGED <<waiter_seq, wrapped>>,
           \A i \in Slots : \/ waiters'[i].sem = 0
                            \/ /\ waiters'[i].sem = waiters[i].sem
                               /\ waiters'[i].pid = waiters[i].pid
                               /\ waiters'[i].seq = waiters[i].seq,
           \/ ahead' = Tidy(ahead, waiters')
           \/ ahead' = ahead /\ waiters' = waiters
    PROVE  OrderInv'
<1>1. SeqInv'
    BY DEF OrderInv, SeqInv
<1>2. CASE ahead' = Tidy(ahead, waiters')
    <2> SUFFICES ASSUME ~wrapped, NEW i \in Slots, waiters'[i].sem # 0,
                        NEW u \in ahead'[i]
                 PROVE  \E j \in Slots :
                           /\ waiters'[j].sem = waiters'[i].sem /\ waiters'[j].pid = u
                           /\ ~waiters'[j].granted /\ waiters'[j].seq < waiters'[i].seq
        BY <1>1 DEF OrderInv, AheadInv
    <2>1. u \in Tidy(ahead, waiters')[i]
        BY <1>2
    <2>2. u \in ahead[i] /\ \E j \in Slots :
             waiters'[j].sem = waiters'[i].sem /\ waiters'[j].pid = u /\ ~waiters'[j].granted
        BY <2>1 DEF Tidy
    <2>3. PICK j \in Slots : waiters'[j].sem = waiters'[i].sem /\ waiters'[j].pid = u
                             /\ ~waiters'[j].granted
        BY <2>2
    <2>4. PICK k \in Slots : /\ waiters[k].sem = waiters[i].sem /\ waiters[k].pid = u
                             /\ ~waiters[k].granted /\ waiters[k].seq < waiters[i].seq
        BY <2>2 DEF OrderInv, AheadInv
    <2>5. k = j
        BY <2>3, <2>4 DEF WaitInv, OneSlot
    <2> QED BY <2>3, <2>4, <2>5
<1>3. CASE ahead' = ahead /\ waiters' = waiters
    BY <1>1, <1>3 DEF OrderInv, AheadInv
<1> QED BY <1>2, <1>3

\* A task queues at the tail.
LEMMA OrderQueue ==
    ASSUME WaitInv, OrderInv, NEW t \in Tasks, EnterQueue(t)
    PROVE  OrderInv'
<1> DEFINE k == sem_waiter_free
           new == [sem |-> sys.sem, pid |-> t, seq |-> waiter_seq, granted |-> FALSE]
<1>1. /\ sys.pid = t /\ k # NoSlot /\ MySlot(t) = NoSlot
      /\ waiters' = [waiters EXCEPT ![k] = new]
      /\ waiter_seq' = (waiter_seq + 1) % SEQ_MOD
      /\ ahead' = [ahead EXCEPT ![k] = {waiters[i].pid : i \in Queue(waiters, sys.sem)}]
      /\ wrapped' = (wrapped \/ waiter_seq' = 0)
    BY DEF EnterQueue, EnterCall, InCall
<1>2. k \in Slots /\ waiters[k].sem = 0 /\ sys.sem \in Sems
    BY <1>1, FreeFacts, CallerFacts
<1>3. /\ \A i \in Slots : i # k => waiters'[i] = waiters[i]
      /\ waiters'[k].sem = sys.sem /\ waiters'[k].pid = t /\ waiters'[k].seq = waiter_seq
    BY <1>1, <1>2 DEF WaitInv, TypeOK
<1>5. /\ \A i \in Slots : i # k => ahead'[i] = ahead[i]
      /\ \A u \in ahead'[k] : \E j \in Slots : waiters[j].sem = sys.sem /\ waiters[j].pid = u
                                               /\ ~waiters[j].granted
    BY <1>1, <1>2 DEF WaitInv, TypeOK, Queue
<1>6. ~wrapped' => ~wrapped /\ waiter_seq' = waiter_seq + 1
    <2>1. waiter_seq \in Nat /\ waiter_seq + 1 \in 1 .. SEQ_MOD /\ SEQ_MOD \in Nat \ {0}
        BY ConstantsAssumption DEF WaitInv, TypeOK
    <2>2. waiter_seq + 1 < SEQ_MOD => (waiter_seq + 1) % SEQ_MOD = waiter_seq + 1
        BY <2>1
    <2>3. waiter_seq + 1 = SEQ_MOD => (waiter_seq + 1) % SEQ_MOD = 0
        BY <2>1
    <2>4. ~wrapped' => ~wrapped /\ waiter_seq' # 0
        BY <1>1, Zenon
    <2>5. waiter_seq' = (waiter_seq + 1) % SEQ_MOD
        BY <1>1
    <2>6. waiter_seq' # 0 => waiter_seq' = waiter_seq + 1
        BY <2>1, <2>2, <2>3, <2>5
    <2> QED BY <2>4, <2>6
<1>7. waiter_seq \in Nat /\ \A i \in Slots : waiters[i].seq \in Nat
    BY ConstantsAssumption DEF WaitInv, TypeOK, Waiters
<1> HIDE DEF k, new
<1>8. SeqInv'
    BY <1>2, <1>3, <1>6, <1>7 DEF OrderInv, SeqInv
<1>9. AheadInv'
    <2> SUFFICES ASSUME ~wrapped', NEW i \in Slots, waiters'[i].sem # 0,
                        NEW u \in ahead'[i]
                 PROVE  \E j \in Slots :
                           /\ waiters'[j].sem = waiters'[i].sem /\ waiters'[j].pid = u
                           /\ ~waiters'[j].granted /\ waiters'[j].seq < waiters'[i].seq
        BY DEF AheadInv
    <2>1. CASE i = k
        <3>1. PICK j \in Slots : waiters[j].sem = sys.sem /\ waiters[j].pid = u
                                 /\ ~waiters[j].granted
            BY <1>3, <1>5, <2>1
        <3>2. j # k /\ waiters[j].seq < waiter_seq
            BY <1>2, <1>6, <3>1, SlotTypes DEF OrderInv, SeqInv
        <3> QED BY <1>2, <1>3, <2>1, <3>1, <3>2
    <2>2. CASE i # k
        <3>1. waiters'[i] = waiters[i] /\ ahead'[i] = ahead[i]
            BY <1>3, <1>5, <2>2
        <3>2. PICK j \in Slots : /\ waiters[j].sem = waiters[i].sem /\ waiters[j].pid = u
                                 /\ ~waiters[j].granted /\ waiters[j].seq < waiters[i].seq
            BY <1>5, <1>6, <3>1 DEF OrderInv, AheadInv
        <3>3. j # k
            BY <1>2, <3>1, <3>2
        <3> QED BY <1>3, <3>1, <3>2, <3>3
    <2> QED BY <2>1, <2>2
<1> QED BY <1>8, <1>9 DEF OrderInv

\* Every step but EnterQueue only takes places away or grants them.
LEMMA OrderOther ==
    ASSUME WaitInv, WaitInv', OrderInv, StepKind, ~\E t \in Tasks : EnterQueue(t)
    PROVE  OrderInv'
<1>1. waiters \in [Slots -> Waiters]
    BY DEF WaitInv, TypeOK
<1>2. CASE Aside
    <2>1. ahead' = ahead \/ ahead' = Tidy(ahead, waiters')
        BY <1>2 DEF Aside
    <2>2. UNCHANGED <<waiters, waiter_seq, wrapped>>
        BY <1>2 DEF Aside
    <2> QED BY <2>1, <2>2, OrderKept
<1>3. CASE \/ \E t \in Tasks, op \in Ops, s \in Sems : svc_handler(t, op, s)
           \/ \E s \in Sems, o \in Tasks, count \in Nat, max \in Nat \ {0} :
                 Allocates(s, o, count, max)
    <2>1. UNCHANGED <<waiters, waiter_seq, wrapped, ahead>>
        BY <1>3 DEF svc_handler, Allocates, history
    <2> QED BY <2>1, OrderKept
<1>4. CASE \E S \in SUBSET Sems : Resets(S)
    <2>1. PICK S \in SUBSET Sems : Resets(S)
        BY <1>4
    <2>2. /\ \A i \in Slots : waiters'[i] = FreeSlot \/ waiters'[i] = waiters[i]
          /\ ahead' = Tidy(ahead, waiters') /\ UNCHANGED <<waiter_seq, wrapped>>
        BY <2>1 DEF Resets, sem_reset
    <2> QED BY <2>2, OrderKept, FreeSlotFacts
<1>5. CASE \E t \in Tasks : Collects(t) \/ Takes(t) \/ Forgoes(t)
    <2>1. PICK t \in Tasks : Collects(t) \/ Takes(t) \/ Forgoes(t)
        BY <1>5
    <2>2. /\ \/ waiters' = Left(t) /\ ahead' = Tidy(ahead, waiters')
             \/ waiters' = waiters /\ (ahead' = Tidy(ahead, waiters') \/ ahead' = ahead)
          /\ UNCHANGED <<waiter_seq, wrapped>>
        BY <2>1 DEF Collects, Takes, Forgoes
    <2>3. \A i \in Slots : waiters'[i] = FreeSlot \/ waiters'[i] = waiters[i]
        BY <2>2, WithoutFacts
    <2> QED BY <2>2, <2>3, OrderKept, FreeSlotFacts
<1>6. ASSUME NEW t \in Tasks, NEW w \in [Slots -> Waiters], NEW S \in SUBSET Sems,
             NEW c \in [S -> Semaphores], HandedOver(w, S, c),
             \A i \in Slots : w[i] = waiters[i] \/ w[i] = FreeSlot
      PROVE  OrderInv'
    <2>1. \A i \in Slots : waiters'[i] # FreeSlot => /\ waiters'[i].sem = w[i].sem
                                                     /\ waiters'[i].pid = w[i].pid
                                                     /\ waiters'[i].seq = w[i].seq
        BY <1>6, HandedSlots
    <2>2. \A i \in Slots : \/ waiters'[i].sem = 0
                           \/ /\ waiters'[i].sem = waiters[i].sem
                              /\ waiters'[i].pid = waiters[i].pid
                              /\ waiters'[i].seq = waiters[i].seq
        BY <1>6, <2>1, FreeSlotFacts
    <2>3. ahead' = Tidy(ahead, waiters') /\ UNCHANGED <<waiter_seq, wrapped>>
        BY <1>6 DEF HandedOver
    <2> QED BY <2>2, <2>3, OrderKept
<1>7. CASE \E t \in Tasks : semaphore_quit(t)
    <2>1. PICK t \in Tasks : semaphore_quit(t)
        BY <1>7
    <2>2. CASE UNCHANGED <<waiters, waiter_seq, wrapped>> /\ ahead' = Tidy(ahead, waiters')
        BY <2>2, OrderKept
    <2>3. CASE \E c \in [{sys.sem} -> Semaphores] : HandedOver(waiters, {sys.sem}, c)
        <3>1. {sys.sem} \in SUBSET Sems
            BY <2>1, QuitShape
        <3> QED BY <1>1, <1>6, <2>1, <2>3, <3>1
    <2> QED BY <2>1, <2>2, <2>3, QuitShape
<1>8. CASE \E t \in Tasks : semaphore_clear_occupied(t)
    <2>1. PICK t \in Tasks : semaphore_clear_occupied(t)
        BY <1>8
    <2> DEFINE S == GrantsOf(t) \cup OccupiedBy(t)
    <2>2. S \in SUBSET Sems /\ \E c \in [S -> Semaphores] : HandedOver(Without(t), S, c)
        BY <2>1, ClearShape
    <2> HIDE DEF S
    <2>3. /\ Without(t) \in [Slots -> Waiters]
          /\ \A i \in Slots : Without(t)[i] = waiters[i] \/ Without(t)[i] = FreeSlot
        BY WithoutFacts
    <2> QED BY <1>6, <2>2, <2>3
<1> QED BY <1>2, <1>3, <1>4, <1>5, <1>7, <1>8 DEF StepKind

\* The order of the queue, in every reachable state.
LEMMA OrderInvariant == Spec => []OrderInv
<1>1. Init => OrderInv
    BY DEF Init, OrderInv, SeqInv, AheadInv, FreeSlot
<1>2. WaitInv /\ WaitInv' /\ OrderInv /\ [Next]_vars => OrderInv'
    <2> SUFFICES ASSUME WaitInv, WaitInv', OrderInv, [Next]_vars PROVE OrderInv'
        OBVIOUS
    <2>1. CASE Next
        BY <2>1, Kinds, OrderQueue, OrderOther
    <2>2. CASE UNCHANGED vars
        BY <2>2 DEF vars, OrderInv, SeqInv, AheadInv
    <2> QED BY <2>1, <2>2
<1> QED BY <1>1, <1>2, WaitInvariant, PTL DEF Spec

\* The waiter that a handoff settles on is not behind a live one: the dying task
\* whose place was just dropped did not wait for what it occupied.
LEMMA HandoffIsFifo ==
    ASSUME WaitInv, HoldInv, OrderInv, ~wrapped, NEW i \in Slots,
           NEW w \in [Slots -> Waiters], NEW S \in SUBSET Sems,
           Selected(w, S, i), NEW t \in Tasks,
           \A j \in Slots : w[j] = waiters[j] \/ (w[j] = FreeSlot /\ waiters[j].pid = t),
           \A j \in Slots : w[j] # waiters[j] => \A s \in S : s \in GrantsOf(t) \cup OccupiedBy(t),
           NEW u \in ahead[i]
    PROVE  ~Live(u)
<1> DEFINE s == waiters[i].sem
<1>1. w[i] = waiters[i] /\ s \in S /\ i = HandoffSlot(w, s) /\ s \in Sems /\ s # 0
    BY FreeSlotFacts, SlotTypes DEF Selected
<1>2. PICK j \in Slots : /\ waiters[j].sem = s /\ waiters[j].pid = u
                         /\ ~waiters[j].granted /\ waiters[j].seq < waiters[i].seq
    BY <1>1 DEF OrderInv, AheadInv
<1> HIDE DEF s
<1>3. CASE w[j] = waiters[j]
    <2>1. j \in Queue(w, s)
        BY <1>2, <1>3 DEF Queue
    <2>2. Live(w[j].pid) => j = i \/ Before(w, i, j)
        BY <1>1, <2>1, HandoffSlotFacts, SlotTypes
    <2>3. waiters[i].seq \in Nat /\ waiters[j].seq \in Nat
        BY ConstantsAssumption DEF WaitInv, TypeOK, Waiters
    <2>4. j # i /\ ~Before(w, i, j)
        BY <1>1, <1>2, <1>3, <2>3 DEF Before
    <2> QED BY <1>2, <1>3, <2>2, <2>4
<1>4. CASE w[j] # waiters[j]
    <2>1. u = t /\ s \in GrantsOf(t) \cup OccupiedBy(t)
        BY <1>1, <1>2, <1>4
    <2>2. ~HasGrant(t, s)
        BY <1>1, <1>2, <2>1 DEF HasGrant, WaitInv, OneSlot
    <2>3. HasSlot(t, s)
        BY <1>2, <2>1 DEF HasSlot
    <2>4. s \notin GrantsOf(t)
        BY <2>2 DEF GrantsOf, HasGrant
    <2>5. s \notin OccupiedBy(t)
        BY <1>1, <2>2, <2>3 DEF OccupiedBy, HoldInv, OccupantHolds, HoldsBinary
    <2> QED BY <2>1, <2>4, <2>5
<1> QED BY <1>3, <1>4

\* A permit goes to the waiter that queued first, until _waiter_seq overflows:
\* sem_waiter_head() and the dropping of dead waiters keep the order of arrival.
THEOREM FirstComeFirstServed == Spec => FifoHandoff
<1> DEFINE Granting(i) == ~wrapped /\ ~waiters[i].granted /\ waiters'[i].granted
           Fifo == \A i \in Slots : Granting(i) => \A u \in ahead[i] : ~Live(u)
<1>1. WaitInv /\ HoldInv /\ OrderInv /\ [Next]_vars => [Fifo]_vars
    <2> SUFFICES ASSUME WaitInv, HoldInv, OrderInv, Next PROVE Fifo
        OBVIOUS
    <2>0. waiters \in [Slots -> Waiters] /\ StepKind
        BY Kinds DEF WaitInv, TypeOK
    <2> SUFFICES ASSUME NEW i \in Slots, ~wrapped, ~waiters[i].granted, waiters'[i].granted,
                        NEW u \in ahead[i]
                 PROVE  ~Live(u)
        OBVIOUS
    <2>1. ASSUME NEW t \in Tasks, NEW w \in [Slots -> Waiters], NEW S \in SUBSET Sems,
                 NEW c \in [S -> Semaphores], HandedOver(w, S, c),
                 \A j \in Slots : w[j] = waiters[j] \/ (w[j] = FreeSlot /\ waiters[j].pid = t),
                 \A j \in Slots : w[j] # waiters[j] => S = GrantsOf(t) \cup OccupiedBy(t)
          PROVE  ~Live(u)
        <3>1. ~w[i].granted
            BY <2>1, FreeSlotFacts
        <3>2. Selected(w, S, i) /\ waiters'[i].pid = w[i].pid
            BY <2>1, <3>1, HandedSlots, FreeSlotFacts
        <3>3. w[i] = waiters[i]
            BY <2>1, <3>2, FreeSlotFacts DEF Selected
        <3>4. \A j \in Slots : w[j] # waiters[j] => \A s \in S : s \in GrantsOf(t) \cup OccupiedBy(t)
            BY <2>1
        <3> QED BY <2>1, <3>2, <3>3, <3>4, HandoffIsFifo
    <2>2. CASE \E t \in Tasks : semaphore_quit(t)
        <3>1. PICK t \in Tasks : semaphore_quit(t)
            BY <2>2
        <3>2. waiters' # waiters
            OBVIOUS
        <3>3. \E c \in [{sys.sem} -> Semaphores] : HandedOver(waiters, {sys.sem}, c)
            BY <3>1, <3>2, QuitShape
        <3>4. {sys.sem} \in SUBSET Sems
            BY <3>1, QuitShape
        <3> QED BY <2>0, <2>1, <3>1, <3>3, <3>4
    <2>3. CASE \E t \in Tasks : semaphore_clear_occupied(t)
        <3>1. PICK t \in Tasks : semaphore_clear_occupied(t)
            BY <2>3
        <3> DEFINE S == GrantsOf(t) \cup OccupiedBy(t)
        <3>2. S \in SUBSET Sems /\ \E c \in [S -> Semaphores] : HandedOver(Without(t), S, c)
            BY <3>1, ClearShape
        <3>3. \A j \in Slots : Without(t)[j] # waiters[j] => S = GrantsOf(t) \cup OccupiedBy(t)
            OBVIOUS
        <3> HIDE DEF S
        <3>4. /\ Without(t) \in [Slots -> Waiters]
              /\ \A j \in Slots : \/ Without(t)[j] = waiters[j]
                                  \/ Without(t)[j] = FreeSlot /\ waiters[j].pid = t
            BY WithoutFacts
        <3> QED BY <2>1, <3>2, <3>3, <3>4
    <2>4. CASE \E t \in Tasks : EnterQueue(t)
        <3>1. PICK t \in Tasks : EnterQueue(t)
            BY <2>4
        <3>2. /\ sem_waiter_free \in Slots
              /\ waiters' = [waiters EXCEPT ![sem_waiter_free] =
                    [sem |-> sys.sem, pid |-> t, seq |-> waiter_seq, granted |-> FALSE]]
            BY <3>1, FreeFacts DEF EnterQueue
        <3>3. waiters'[i] = waiters[i] \/ ~waiters'[i].granted
            BY <2>0, <3>2
        <3> QED BY <3>3
    <2>5. CASE \/ Aside
               \/ \E t \in Tasks, op \in Ops, s \in Sems : svc_handler(t, op, s)
               \/ \E s \in Sems, o \in Tasks, count \in Nat, max \in Nat \ {0} :
                     Allocates(s, o, count, max)
               \/ \E S \in SUBSET Sems : Resets(S)
               \/ \E t \in Tasks : Collects(t) \/ Takes(t) \/ Forgoes(t)
        <3>1. waiters'[i] = waiters[i] \/ waiters'[i] = FreeSlot
            BY <2>5, WithoutFacts DEF Aside, svc_handler, Allocates, Resets, sem_reset, Collects,
                                      Takes, Forgoes
        <3> QED BY <3>1, FreeSlotFacts
    <2> QED BY <2>0, <2>2, <2>3, <2>4, <2>5 DEF StepKind
<1>2. [][Fifo]_vars => FifoHandoff
    BY PTL DEF FifoHandoff
<1> QED BY <1>1, <1>2, HoldInvariant, OrderInvariant, PTL DEF Spec

-----------------------------------------------------------------------------
(* The permits of counting semaphores.                                     *)

GrantSet(w, s) == {i \in Slots : w[i].sem = s /\ w[i].granted}

\* A handoff grants one slot of a semaphore, or none.
LEMMA HandedGrants ==
    ASSUME NEW w \in [Slots -> Waiters], NEW S \in SUBSET Sems, NEW c \in [S -> Semaphores],
           HandedOver(w, S, c), NEW s \in Sems
    PROVE  IF s \in S /\ HandoffSlot(w, s) # NoSlot
           THEN /\ GrantSet(waiters', s) = GrantSet(w, s) \cup {HandoffSlot(w, s)}
                /\ HandoffSlot(w, s) \notin GrantSet(w, s)
           ELSE GrantSet(waiters', s) = GrantSet(w, s)
<1> DEFINE h == HandoffSlot(w, s)
<1>1. \A i \in Slots :
         /\ waiters'[i] # FreeSlot => waiters'[i].sem = w[i].sem
         /\ w[i].granted => waiters'[i] = w[i]
         /\ waiters'[i].granted => w[i].granted \/ Selected(w, S, i)
         /\ Selected(w, S, i) => waiters'[i].sem = w[i].sem /\ waiters'[i].granted
    BY HandedSlots
<1>2. \A i \in Slots : i \in GrantSet(waiters', s) <=>
         i \in GrantSet(w, s) \/ (w[i].sem = s /\ Selected(w, S, i))
    BY <1>1, FreeSlotFacts DEF GrantSet
<1>3. CASE s \in S /\ h # NoSlot
    <2>1. h \in Slots /\ w[h].sem = s /\ ~w[h].granted /\ Selected(w, S, h)
        BY <1>3, ChosenSlot
    <2>2. \A i \in Slots : w[i].sem = s /\ Selected(w, S, i) => i = h
        BY DEF Selected
    <2> HIDE DEF h
    <2>3. h \notin GrantSet(w, s)
        BY <2>1 DEF GrantSet
    <2>4. \A i \in Slots : i \in GrantSet(waiters', s) <=> i \in GrantSet(w, s) \/ i = h
        BY <1>2, <2>1, <2>2
    <2>5. GrantSet(waiters', s) = GrantSet(w, s) \cup {h}
        BY <2>1, <2>4 DEF GrantSet
    <2> QED BY <1>3, <2>3, <2>5 DEF h
<1>4. CASE ~(s \in S /\ h # NoSlot)
    <2>1. \A i \in Slots : ~(w[i].sem = s /\ Selected(w, S, i))
        BY <1>4, SlotTypes DEF Selected
    <2>2. \A i \in Slots : i \in GrantSet(waiters', s) <=> i \in GrantSet(w, s)
        BY <1>2, <2>1
    <2>3. GrantSet(waiters', s) = GrantSet(w, s)
        BY <2>2 DEF GrantSet
    <2> QED BY <1>4, <2>3
<1> QED BY <1>3, <1>4

\* Granted slots are finitely many; one more or one less.
LEMMA GrantCount ==
    ASSUME NEW w, NEW s
    PROVE  /\ IsFiniteSet(GrantSet(w, s)) /\ Cardinality(GrantSet(w, s)) \in Nat
           /\ \A i \in Slots : i \notin GrantSet(w, s) =>
                 Cardinality(GrantSet(w, s) \cup {i}) = Cardinality(GrantSet(w, s)) + 1
           /\ \A i \in GrantSet(w, s) :
                 Cardinality(GrantSet(w, s) \ {i}) = Cardinality(GrantSet(w, s)) - 1
<1>1. IsFiniteSet(Slots)
    BY FS_Interval, ConstantsAssumption DEF Slots
<1>2. GrantSet(w, s) \in SUBSET Slots
    BY DEF GrantSet
<1>3. IsFiniteSet(GrantSet(w, s)) /\ Cardinality(GrantSet(w, s)) \in Nat
    BY <1>1, <1>2, FS_Subset, FS_CardinalityType
<1> QED BY <1>3, FS_AddElement, FS_RemoveElement

\* PermitsConserved, in terms of the set of granted slots.
LEMMA PermitsAre ==
    PermitsConserved <=> \A s \in Sems : sem_valid_idx(s) /\ ~sem_is_binary(s) =>
                            permits[s] = sem[s].count + Cardinality(GrantSet(waiters, s))
BY DEF PermitsConserved, GrantSet

\* A table without t has no grant of t, and a queue it has left none for t.
LEMMA GrantsWithout ==
    ASSUME WaitInv, NEW t \in Tasks, NEW s \in Sems
    PROVE  \/ /\ ~HasGrant(t, s)
              /\ GrantSet(Without(t), s) = GrantSet(waiters, s)
           \/ /\ HasGrant(t, s)
              /\ \E i \in GrantSet(waiters, s) :
                    GrantSet(Without(t), s) = GrantSet(waiters, s) \ {i}
<1>1. \A i \in Slots : Without(t)[i] = IF waiters[i].pid = t THEN FreeSlot ELSE waiters[i]
    BY WithoutFacts
<1>2. \A i \in Slots : i \in GrantSet(Without(t), s) <=>
                          i \in GrantSet(waiters, s) /\ waiters[i].pid # t
    BY <1>1, FreeSlotFacts DEF GrantSet
<1>3. CASE ~HasGrant(t, s)
    <2>1. \A i \in Slots : i \in GrantSet(Without(t), s) <=> i \in GrantSet(waiters, s)
        BY <1>2, <1>3 DEF HasGrant, GrantSet
    <2>2. GrantSet(Without(t), s) = GrantSet(waiters, s)
        BY <2>1 DEF GrantSet
    <2> QED BY <1>3, <2>2
<1>4. CASE HasGrant(t, s)
    <2>1. PICK i \in Slots : i \in GrantSet(waiters, s) /\ waiters[i].pid = t /\ waiters[i].sem # 0
        BY <1>4, SlotTypes DEF HasGrant, GrantSet
    <2>2. \A j \in Slots : waiters[j].pid = t /\ waiters[j].sem = s => j = i
        BY <2>1 DEF WaitInv, OneSlot, GrantSet
    <2>3. \A j \in Slots : j \in GrantSet(Without(t), s) <=> j \in GrantSet(waiters, s) /\ j # i
        BY <1>2, <2>1, <2>2 DEF GrantSet
    <2>4. GrantSet(Without(t), s) = GrantSet(waiters, s) \ {i}
        BY <2>3 DEF GrantSet
    <2> QED BY <1>4, <2>1, <2>4
<1> QED BY <1>3, <1>4

LEMMA GrantsLeft ==
    ASSUME WaitInv, NEW t \in Tasks, NEW s \in Sems
    PROVE  \/ /\ s # sys.sem \/ ~HasGrant(t, s)
              /\ GrantSet(Left(t), s) = GrantSet(waiters, s)
           \/ /\ s = sys.sem /\ HasGrant(t, s)
              /\ \E i \in GrantSet(waiters, s) :
                    GrantSet(Left(t), s) = GrantSet(waiters, s) \ {i}
<1>1. \A i \in Slots : i \in GrantSet(Left(t), s) <=>
                          /\ i \in GrantSet(waiters, s)
                          /\ ~(waiters[i].pid = t /\ s = sys.sem)
    BY WithoutFacts, FreeSlotFacts DEF GrantSet
<1>2. CASE s # sys.sem \/ ~HasGrant(t, s)
    <2>1. \A i \in Slots : i \in GrantSet(Left(t), s) <=> i \in GrantSet(waiters, s)
        BY <1>1, <1>2 DEF HasGrant, GrantSet
    <2>2. GrantSet(Left(t), s) = GrantSet(waiters, s)
        BY <2>1 DEF GrantSet
    <2> QED BY <1>2, <2>2
<1>3. CASE s = sys.sem /\ HasGrant(t, s)
    <2>1. \A i \in Slots : i \in GrantSet(Left(t), s) <=> i \in GrantSet(Without(t), s)
        BY <1>1, <1>3, WithoutFacts, FreeSlotFacts DEF GrantSet
    <2>2. GrantSet(Left(t), s) = GrantSet(Without(t), s)
        BY <2>1 DEF GrantSet
    <2> QED BY <1>3, <2>2, GrantsWithout
<1> QED BY <1>2, <1>3

\* The steps that touch no permit of a semaphore that stays.
LEMMA PermitsPlain ==
    ASSUME WaitInv, PermitsConserved,
           \/ Aside
           \/ \E t \in Tasks, op \in Ops, s \in Sems : svc_handler(t, op, s)
           \/ \E s \in Sems, o \in Tasks, count \in Nat, max \in Nat \ {0} :
                 Allocates(s, o, count, max)
           \/ \E S \in SUBSET Sems : Resets(S)
           \/ \E t \in Tasks : EnterQueue(t)
    PROVE  PermitsConserved'
<1> USE DEF sem_valid_idx, sem_is_binary
<1>0. /\ permits \in [Sems -> Int] /\ sem \in [Sems -> Semaphores]
      /\ waiters \in [Slots -> Waiters]
    BY DEF WaitInv, TypeOK
<1>1. CASE \/ Aside
           \/ \E t \in Tasks, op \in Ops, s \in Sems : svc_handler(t, op, s)
    <2>1. UNCHANGED <<sem, waiters, permits>>
        BY <1>1 DEF Aside, svc_handler, user
    <2> QED BY <2>1 DEF PermitsConserved
<1>2. CASE \E s \in Sems, o \in Tasks, count \in Nat, max \in Nat \ {0} :
                 Allocates(s, o, count, max)
    <2> PICK s \in Sems, o \in Tasks, count \in Nat, max \in Nat \ {0} :
                 Allocates(s, o, count, max)
        BY <1>2
    <2>1. /\ sem[s].creater = NoTask /\ waiters' = waiters
          /\ sem' = [sem EXCEPT ![s] = [creater |-> o, count |-> count, max_count |-> max,
                                        occupied_pid |-> NoTask]]
          /\ permits' = [permits EXCEPT ![s] = count]
        BY DEF Allocates
    <2>2. /\ sem'[s].count = count /\ permits'[s] = count
          /\ \A r \in Sems : r # s => sem'[r] = sem[r] /\ permits'[r] = permits[r]
        BY <1>0, <2>1
    <2>3. \A i \in Slots : waiters[i].sem # s
        BY <2>1, SlotTypes DEF WaitInv, SlotsOfSems
    <2>4. GrantSet(waiters, s) = {}
        BY <2>3 DEF GrantSet
    <2>5. count = count + Cardinality(GrantSet(waiters, s))
        BY <2>4, FS_EmptySet
    <2>6. \A r \in Sems : sem_valid_idx(r)' /\ ~sem_is_binary(r)' =>
              permits'[r] = sem'[r].count + Cardinality(GrantSet(waiters, r))
        BY <2>2, <2>5, PermitsAre
    <2> QED BY <2>1, <2>6 DEF PermitsConserved, GrantSet
<1>3. CASE \E S \in SUBSET Sems : Resets(S)
    <2> PICK S \in SUBSET Sems : Resets(S)
        BY <1>3
    <2>1. /\ \A i \in Slots : waiters'[i] = IF waiters[i].sem \in S THEN FreeSlot ELSE waiters[i]
          /\ \A s \in Sems : /\ s \notin S => sem'[s] = sem[s] /\ permits'[s] = permits[s]
                             /\ s \in S => sem'[s] = FreeSem
        BY DEF Resets, sem_reset
    <2>2. ASSUME NEW s \in Sems, sem_valid_idx(s)', ~sem_is_binary(s)'
          PROVE  permits'[s] = sem'[s].count + Cardinality(GrantSet(waiters', s))
        <3>1. s \notin S
            BY <2>1, <2>2 DEF FreeSem
        <3>2. \A i \in Slots : i \in GrantSet(waiters', s) <=> i \in GrantSet(waiters, s)
            BY <2>1, <3>1, FreeSlotFacts DEF GrantSet
        <3>3. GrantSet(waiters', s) = GrantSet(waiters, s)
            BY <3>2 DEF GrantSet
        <3> QED BY <2>1, <2>2, <3>1, <3>3, PermitsAre
    <2> QED BY <2>2 DEF PermitsConserved, GrantSet
<1>4. CASE \E t \in Tasks : EnterQueue(t)
    <2> PICK t \in Tasks : EnterQueue(t)
        BY <1>4
    <2> DEFINE k == sem_waiter_free
    <2>1. /\ k # NoSlot /\ UNCHANGED <<sem, permits>>
          /\ waiters' = [waiters EXCEPT ![k] =
                [sem |-> sys.sem, pid |-> t, seq |-> waiter_seq, granted |-> FALSE]]
        BY DEF EnterQueue, user
    <2>2. k \in Slots /\ waiters[k].sem = 0 /\ ~waiters[k].granted
        BY <2>1, FreeFacts DEF WaitInv, SlotsOfSems
    <2>3. \A i \in Slots : IF i = k THEN ~waiters'[i].granted ELSE waiters'[i] = waiters[i]
        BY <1>0, <2>1, <2>2
    <2> HIDE DEF k
    <2>4. ASSUME NEW s \in Sems
          PROVE  GrantSet(waiters', s) = GrantSet(waiters, s)
        <3>1. \A i \in Slots : i \in GrantSet(waiters', s) <=> i \in GrantSet(waiters, s)
            BY <2>2, <2>3 DEF GrantSet
        <3> QED BY <3>1 DEF GrantSet
    <2>5. \A s \in Sems : sem_valid_idx(s)' /\ ~sem_is_binary(s)' =>
              permits'[s] = sem'[s].count + Cardinality(GrantSet(waiters', s))
        BY <2>1, <2>4, PermitsAre
    <2> QED BY <2>5 DEF PermitsConserved, GrantSet
<1> QED BY <1>1, <1>2, <1>3, <1>4

\* A permit is collected, taken, or not.
LEMMA PermitsEnter ==
    ASSUME WaitInv, PermitsConserved, NEW t \in Tasks, Collects(t) \/ Takes(t) \/ Forgoes(t)
    PROVE  PermitsConserved'
<1> USE DEF sem_valid_idx, sem_is_binary
<1> DEFINE s == sys.sem
<1>0. /\ permits \in [Sems -> Int] /\ sem \in [Sems -> Semaphores]
      /\ waiters \in [Slots -> Waiters]
    BY DEF WaitInv, TypeOK
<1>1. s \in Sems /\ sys.pid = t
    <2>1. sys.pid = t
        BY DEF Collects, Takes, Forgoes
    <2> QED BY <2>1, CallerFacts
<1> SUFFICES ASSUME NEW r \in Sems, sem_valid_idx(r)', ~sem_is_binary(r)'
             PROVE  permits'[r] = sem'[r].count + Cardinality(GrantSet(waiters', r))
    BY DEF PermitsConserved, GrantSet
<1>2. /\ sem[r].count \in Nat /\ permits[r] \in Int
      /\ Cardinality(GrantSet(waiters, r)) \in Nat
    BY <1>0, GrantCount DEF Semaphores
<1>3. CASE Collects(t)
    <2>1. /\ sem' = sem /\ permits' = [permits EXCEPT ![s] = @ - 1] /\ HasGrant(t, s)
          /\ waiters' = Left(t)
        BY <1>3 DEF Collects, Acquired
    <2> HIDE DEF s
    <2>2. permits[r] = sem[r].count + Cardinality(GrantSet(waiters, r))
        BY <2>1, PermitsAre
    <2>3. CASE r = s
        <3>1. PICK i \in GrantSet(waiters, r) :
                 GrantSet(Left(t), r) = GrantSet(waiters, r) \ {i}
            BY <2>1, <2>3, GrantsLeft DEF s
        <3>2. Cardinality(GrantSet(waiters', r)) = Cardinality(GrantSet(waiters, r)) - 1
            BY <2>1, <3>1, GrantCount
        <3>3. permits'[r] = permits[r] - 1
            BY <1>0, <1>1, <2>1, <2>3
        <3> QED BY <1>2, <2>1, <2>2, <3>2, <3>3
    <2>4. CASE r # s
        <3>1. GrantSet(waiters', r) = GrantSet(waiters, r)
            BY <1>1, <2>1, <2>4, GrantsLeft DEF s
        <3> QED BY <1>0, <1>1, <2>1, <2>2, <2>4, <3>1
    <2> QED BY <2>3, <2>4
<1>4. CASE Takes(t)
    <2>1. /\ sem' = Taken(t, s) /\ permits' = [permits EXCEPT ![s] = @ - 1] /\ ~HasGrant(t, s)
          /\ waiters' = Left(t)
        BY <1>4 DEF Takes, Acquired
    <2>2. GrantSet(waiters', r) = GrantSet(waiters, r)
        BY <1>1, <2>1, GrantsLeft
    <2> DEFINE n == sem[s].count - 1
               o == IF sem_is_binary(s) THEN t ELSE sem[s].occupied_pid
    <2>3. sem' = [sem EXCEPT ![s] = [sem[s] EXCEPT !.count = n, !.occupied_pid = o]]
        BY <1>0, <1>1, <2>1 DEF Taken, Semaphores
    <2>4. sem[s] \in Semaphores
        BY <1>0, <1>1
    <2> HIDE DEF n, o, s
    <2>5. sem'[s] = [sem[s] EXCEPT !.count = n, !.occupied_pid = o]
        BY <1>0, <1>1, <2>3
    <2>6. /\ sem'[s].count = n /\ sem'[s].creater = sem[s].creater
          /\ sem'[s].max_count = sem[s].max_count
        BY <2>4, <2>5 DEF Semaphores
    <2>7. r # s => sem'[r] = sem[r] /\ permits'[r] = permits[r]
        BY <1>0, <1>1, <2>1, <2>3
    <2>8. permits'[s] = permits[s] - 1
        BY <1>0, <1>1, <2>1
    <2>9. permits[r] = sem[r].count + Cardinality(GrantSet(waiters, r))
        BY <2>6, <2>7, PermitsAre
    <2> QED BY <1>2, <2>2, <2>6, <2>7, <2>8, <2>9 DEF n
<1>5. CASE Forgoes(t)
    <2>1. /\ UNCHANGED <<sem, permits>>
          /\ waiters' = waiters \/ (waiters' = Left(t) /\ ~HasGrant(t, s))
        BY <1>5 DEF Forgoes
    <2> HIDE DEF s
    <2>2. GrantSet(waiters', r) = GrantSet(waiters, r)
        BY <1>1, <2>1, GrantsLeft DEF s
    <2> QED BY <2>1, <2>2, PermitsAre
<1> QED BY <1>3, <1>4, <1>5

\* A permit comes back and is handed over.
LEMMA PermitsHandoff ==
    ASSUME WaitInv, PermitsConserved, NEW t \in Tasks,
           semaphore_quit(t) \/ semaphore_clear_occupied(t)
    PROVE  PermitsConserved'
<1> USE DEF sem_valid_idx, sem_is_binary
<1>0. /\ permits \in [Sems -> Int] /\ sem \in [Sems -> Semaphores]
      /\ waiters \in [Slots -> Waiters]
    BY DEF WaitInv, TypeOK
<1>1. ASSUME NEW w \in [Slots -> Waiters], NEW S \in SUBSET Sems, NEW c \in [S -> Semaphores],
             HandedOver(w, S, c), NEW r \in Sems,
             permits'[r] = (IF r \in S THEN c[r].count ELSE sem[r].count)
                           + Cardinality(GrantSet(w, r))
      PROVE  permits'[r] = sem'[r].count + Cardinality(GrantSet(waiters', r))
    <2>1. CASE r \in S /\ HandoffSlot(w, r) # NoSlot
        <3>1. HandoffSlot(w, r) \in Slots
            BY <2>1, ChosenSlot
        <3>2. /\ GrantSet(waiters', r) = GrantSet(w, r) \cup {HandoffSlot(w, r)}
              /\ HandoffSlot(w, r) \notin GrantSet(w, r)
            BY <1>1, <2>1, HandedGrants
        <3>3. Cardinality(GrantSet(waiters', r)) = Cardinality(GrantSet(w, r)) + 1
            BY <3>1, <3>2, GrantCount
        <3>4. sem'[r].count = c[r].count - 1
            BY <1>1, <2>1 DEF HandedOver
        <3>5. c[r].count \in Nat /\ Cardinality(GrantSet(w, r)) \in Nat
            BY <1>1, <2>1, GrantCount DEF Semaphores
        <3> QED BY <1>1, <2>1, <3>3, <3>4, <3>5
    <2>2. CASE ~(r \in S /\ HandoffSlot(w, r) # NoSlot)
        <3>1. GrantSet(waiters', r) = GrantSet(w, r)
            BY <1>1, <2>2, HandedGrants
        <3>2. sem'[r] = IF r \in S THEN c[r] ELSE sem[r]
            BY <1>1, <2>2 DEF HandedOver
        <3> QED BY <1>1, <3>1, <3>2
    <2> QED BY <2>1, <2>2
<1> SUFFICES ASSUME NEW r \in Sems, sem_valid_idx(r)', ~sem_is_binary(r)'
             PROVE  permits'[r] = sem'[r].count + Cardinality(GrantSet(waiters', r))
    BY DEF PermitsConserved, GrantSet
<1>2. /\ sem[r].count \in Nat /\ permits[r] \in Int /\ sem[r].max_count \in Nat
      /\ Cardinality(GrantSet(waiters, r)) \in Nat
    BY <1>0, GrantCount DEF Semaphores
<1>3. CASE semaphore_quit(t)
    <2> DEFINE s == sys.sem
    <2>1. CASE UNCHANGED <<sem, waiters, permits>>
        BY <2>1, PermitsAre
    <2>2. CASE /\ permits' = [permits EXCEPT ![s] = @ + 1]
               /\ \E c \in [{s} -> Semaphores] : /\ c[s].count = sem[s].count + 1
                                                 /\ HandedOver(waiters, {s}, c)
        <3>1. PICK c \in [{s} -> Semaphores] : /\ c[s].count = sem[s].count + 1
                                               /\ HandedOver(waiters, {s}, c)
            BY <2>2
        <3>2. s \in Sems /\ {s} \in SUBSET Sems
            BY <1>3, QuitShape
        <3> HIDE DEF s
        <3>3. sem'[r].creater = sem[r].creater /\ sem'[r].max_count = sem[r].max_count
            BY <3>1, <3>2 DEF HandedOver
        <3>4. permits[r] = sem[r].count + Cardinality(GrantSet(waiters, r))
            BY <3>3, PermitsAre
        <3>5. permits'[r] = IF r = s THEN permits[r] + 1 ELSE permits[r]
            BY <1>0, <2>2, <3>2
        <3>6. permits'[r] = (IF r \in {s} THEN c[r].count ELSE sem[r].count)
                            + Cardinality(GrantSet(waiters, r))
            BY <1>2, <3>1, <3>4, <3>5
        <3> QED BY <1>0, <1>1, <3>1, <3>2, <3>6
    <2> QED BY <1>3, <2>1, <2>2, QuitShape
<1>4. CASE semaphore_clear_occupied(t)
    <2> DEFINE S == GrantsOf(t) \cup OccupiedBy(t)
    <2>1. /\ S \in SUBSET Sems
          /\ permits' = [s \in Sems |->
                 IF s \in GrantsOf(t) /\ sem[s].count >= sem[s].max_count
                 THEN permits[s] - 1 ELSE permits[s]]
          /\ \E c \in [S -> Semaphores] :
                /\ \A s \in S : s \in GrantsOf(t) =>
                      c[s].count = IF sem[s].count < sem[s].max_count
                                   THEN sem[s].count + 1 ELSE sem[s].count
                /\ HandedOver(Without(t), S, c)
        BY <1>4, ClearShape
    <2>2. PICK c \in [S -> Semaphores] :
                /\ \A s \in S : s \in GrantsOf(t) =>
                      c[s].count = IF sem[s].count < sem[s].max_count
                                   THEN sem[s].count + 1 ELSE sem[s].count
                /\ HandedOver(Without(t), S, c)
        BY <2>1
    <2>3. r \in S => r \in GrantsOf(t) \/ sem_is_binary(r)
        BY DEF OccupiedBy
    <2>4. r \in GrantsOf(t) => r \in S /\ HasGrant(t, r)
        BY DEF GrantsOf, HasGrant
    <2>5. sem_valid_idx(r) /\ HasGrant(t, r) => r \in GrantsOf(t)
        BY DEF GrantsOf, HasGrant
    <2> HIDE DEF S
    <2>6. sem'[r].creater = sem[r].creater /\ sem'[r].max_count = sem[r].max_count
        BY <2>1, <2>2 DEF HandedOver
    <2>7. permits[r] = sem[r].count + Cardinality(GrantSet(waiters, r))
        BY <2>6, PermitsAre
    <2>8. Without(t) \in [Slots -> Waiters]
        BY WithoutFacts
    <2>9. CASE r \in GrantsOf(t)
        <3>1. PICK i \in GrantSet(waiters, r) :
                 GrantSet(Without(t), r) = GrantSet(waiters, r) \ {i}
            BY <2>4, <2>9, GrantsWithout
        <3>2. Cardinality(GrantSet(Without(t), r)) = Cardinality(GrantSet(waiters, r)) - 1
            BY <3>1, GrantCount
        <3>3. /\ permits'[r] = IF sem[r].count >= sem[r].max_count
                               THEN permits[r] - 1 ELSE permits[r]
              /\ c[r].count = IF sem[r].count < sem[r].max_count
                              THEN sem[r].count + 1 ELSE sem[r].count
            BY <2>1, <2>2, <2>4, <2>9
        <3>4. permits'[r] = (IF r \in S THEN c[r].count ELSE sem[r].count)
                            + Cardinality(GrantSet(Without(t), r))
            BY <1>2, <2>4, <2>7, <2>9, <3>2, <3>3
        <3> QED BY <1>1, <2>1, <2>2, <2>8, <3>4
    <2>10. CASE r \notin GrantsOf(t)
        <3>1. r \notin S /\ ~HasGrant(t, r)
            BY <2>3, <2>5, <2>6, <2>10
        <3>2. GrantSet(Without(t), r) = GrantSet(waiters, r)
            BY <3>1, GrantsWithout
        <3>3. permits'[r] = permits[r]
            BY <2>1, <2>10
        <3>4. permits'[r] = (IF r \in S THEN c[r].count ELSE sem[r].count)
                            + Cardinality(GrantSet(Without(t), r))
            BY <2>7, <3>1, <3>2, <3>3
        <3> QED BY <1>1, <2>1, <2>2, <2>8, <3>4
    <2> QED BY <2>9, <2>10
<1> QED BY <1>3, <1>4

\* No permit of a counting semaphore is lost or invented by enter, quit, free or
\* the recovery of a dead task's grant.
THEOREM PermitsAreConserved == Spec => []PermitsConserved
<1>1. Init => PermitsConserved
    BY DEF Init, PermitsConserved, sem_valid_idx, FreeSem
<1>2. WaitInv /\ PermitsConserved /\ [Next]_vars => PermitsConserved'
    <2> SUFFICES ASSUME WaitInv, PermitsConserved, [Next]_vars PROVE PermitsConserved'
        OBVIOUS
    <2>1. CASE Next
        BY <2>1, Kinds, PermitsPlain, PermitsEnter, PermitsHandoff DEF StepKind
    <2>2. CASE UNCHANGED vars
        BY <2>2 DEF vars, PermitsConserved, sem_valid_idx, sem_is_binary
    <2> QED BY <2>1, <2>2
<1> QED BY <1>1, <1>2, WaitInvariant, PTL DEF Spec

=============================================================================
