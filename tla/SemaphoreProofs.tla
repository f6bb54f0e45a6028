-------------------------- MODULE SemaphoreProofs --------------------------
(***************************************************************************)
(* Proofs about Semaphore, for any set of tasks, any number of semaphores, *)
(* slots and cores: WaitInv is an inductive invariant, and the safety      *)
(* properties of the wait queue follow from it.                            *)
(***************************************************************************)
EXTENDS Semaphore, WellFoundedInduction, TLAPS

\* A non-empty set of naturals has a least element.
LEMMA NatMin ==
    ASSUME NEW T \in SUBSET Nat, T # {}
    PROVE  \E x \in T : \A y \in T : x <= y
<1> DEFINE R == {ss \in Nat \X Nat : ss[1] < ss[2]}
<1>1. IsWellFoundedOn(R, Nat)
    BY NatLessThanWellFounded DEF OpToRel
<1>2. PICK x \in T : \A y \in T : ~ (<<y, x>> \in R)
    <2> HIDE DEF R
    <2> QED BY <1>1, WFMin
<1>3. \A y \in T : ~(y < x)
    BY <1>2
<1> QED BY <1>3

-----------------------------------------------------------------------------
(* Tasks: what a wake and a block do to one task record.                   *)

Armed(p) == p.wake_pending /\ p.wake_by # Generic

\* proc_wakeup_by: it never puts a task to sleep or revives it, it ends a block
\* on its own token, and it arms the latch of a task that is not blocked.
LEMMA WakeFacts ==
    ASSUME NEW p \in TaskRecord(Token), NEW s \in Token
    PROVE  LET q == proc_wakeup_by(p, s) IN
           /\ q \in TaskRecord(Token)
           /\ q.state = "ZOMBIE" <=> p.state = "ZOMBIE"
           /\ q.state = "BLOCK" => q = p
           /\ p.state = "BLOCK" /\ p.block_by = s => q.state # "BLOCK"
           /\ p.state \notin {"BLOCK", "ZOMBIE"} /\ s # Generic => Armed(q)
           /\ p.state # "BLOCK" /\ Armed(p) => Armed(q)
<1> DEFINE q == proc_wakeup_by(p, s)
<1>1. CASE p.state = "ZOMBIE"
    BY <1>1 DEF proc_wakeup_by
<1>2. CASE p.state = "BLOCK"
    BY <1>2 DEF proc_wakeup_by, TaskRecord, States, NewTask, Generic, Token
<1>3. CASE p.state \notin {"ZOMBIE", "BLOCK"}
    <2>1. q = latch(proc_ready(p), s)
        BY <1>3 DEF proc_wakeup_by
    <2>2. proc_ready(p) \in TaskRecord(Token) /\ proc_ready(p).state = "READY"
          /\ (Armed(p) => Armed(proc_ready(p)))
        BY DEF proc_ready, TaskRecord, States, Armed
    <2> QED BY <2>1, <2>2, <1>3 DEF latch, TaskRecord, States, Armed, Generic
<1> QED BY <1>1, <1>2, <1>3

\* proc_block_by, proc_block_by_timeout: an armed latch prevents the block.
LEMMA BlockFacts ==
    ASSUME NEW p \in TaskRecord(Token), NEW s \in Token, s # Generic,
           NEW timed \in BOOLEAN, p.state # "BLOCK"
    PROVE  LET q == Block(p, s, timed) IN
           /\ q \in TaskRecord(Token)
           /\ q.state = "ZOMBIE" => p.state = "ZOMBIE"
           /\ q.state = "BLOCK" => q.block_by = s /\ ~Armed(p)
<1> USE DEF TaskRecord, States, Generic
<1> DEFINE q == Block(p, s, timed)
<1>1. consume(p) \in TaskRecord(Token) /\ consume(p).state = p.state
    BY DEF consume, Token
<1>2. CASE run_now(p, s, timed)
    <2>1. q = keep_running(consume(p))
        BY <1>2 DEF Block
    <2> QED BY <1>1, <2>1 DEF keep_running, Token
<1>3. CASE ~run_now(p, s, timed)
    <2>1. ~Armed(p)
        BY <1>3 DEF run_now, foreign_node_wake, Armed
    <2>2. q = park(consume(p), s, timed)
        BY <1>3 DEF Block
    <2> QED BY <1>1, <2>1, <2>2 DEF park, proc_unready
<1> QED BY <1>2, <1>3

-----------------------------------------------------------------------------
(* The wait table.                                                         *)

\* Slots are positive, so NoSlot (index -1 in the code) is none of them.
LEMMA SlotTypes == Slots \subseteq Nat /\ NoSlot \notin Slots
                   /\ Sems \subseteq Token /\ Generic \notin Sems /\ 0 \notin Sems
BY ConstantsAssumption DEF Slots, NoSlot, Sems, Token, Generic

\* sem_waiter_find returns a slot of the task on the semaphore, if it has one.
LEMMA FindFacts ==
    ASSUME NEW s, NEW t
    PROVE  \/ /\ sem_waiter_find(s, t) \in Slots
              /\ waiters[sem_waiter_find(s, t)].sem = s
              /\ waiters[sem_waiter_find(s, t)].pid = t
           \/ /\ sem_waiter_find(s, t) = NoSlot
              /\ \A i \in Slots : ~(waiters[i].sem = s /\ waiters[i].pid = t)
BY DEF sem_waiter_find

\* The slot sem_waiter_add would take is free.
LEMMA FreeFacts ==
    ASSUME sem_waiter_free # NoSlot
    PROVE  sem_waiter_free \in Slots /\ waiters[sem_waiter_free].sem = 0
<1> DEFINE free == {i \in Slots : waiters[i].sem = 0}
<1>1. free # {}
    BY DEF sem_waiter_free
<1>2. \E i \in free : \A j \in free : i <= j
    <2>1. free \in SUBSET Nat
        BY SlotTypes
    <2> QED BY <1>1, <2>1, NatMin
<1> QED BY <1>1, <1>2 DEF sem_waiter_free

\* sem_handoff settles on a live waiter without a permit, if there is one.
LEMMA HandoffSlotFacts ==
    ASSUME NEW w \in [Slots -> Waiters], NEW s
    PROVE  \/ /\ HandoffSlot(w, s) \in Queue(w, s)
              /\ Live(w[HandoffSlot(w, s)].pid)
              /\ \A i \in Queue(w, s) : Live(w[i].pid) =>
                    i = HandoffSlot(w, s) \/ Before(w, HandoffSlot(w, s), i)
           \/ /\ HandoffSlot(w, s) = NoSlot
              /\ \A i \in Queue(w, s) : ~Live(w[i].pid)
<1> DEFINE q == {i \in Queue(w, s) : Live(w[i].pid)}
<1>1. CASE q = {}
    BY <1>1 DEF HandoffSlot
<1>2. CASE q # {}
    <2>1. \A i \in q : i \in Nat /\ w[i].seq \in Nat
        BY SlotTypes, ConstantsAssumption DEF Queue, Waiters
    <2>2. PICK m \in q : \A j \in q : w[m].seq <= w[j].seq
        <3> DEFINE seqs == {w[i].seq : i \in q}
        <3>1. seqs \in SUBSET Nat /\ seqs # {}
            BY <1>2, <2>1
        <3>2. \E x \in seqs : \A y \in seqs : x <= y
            <4> HIDE DEF seqs
            <4> QED BY <3>1, NatMin
        <3> QED BY <3>2
    <2>3. PICK i \in q : /\ w[i].seq = w[m].seq
                         /\ \A j \in q : w[j].seq = w[m].seq => i <= j
        <3> DEFINE ties == {j \in q : w[j].seq = w[m].seq}
        <3>1. ties \in SUBSET Nat /\ ties # {}
            BY <2>1
        <3>2. \E x \in ties : \A y \in ties : x <= y
            <4> HIDE DEF ties
            <4> QED BY <3>1, NatMin
        <3> QED BY <3>2
    <2>4. \A j \in q \ {i} : Before(w, i, j)
        BY <2>1, <2>2, <2>3 DEF Before
    <2>5. HandoffSlot(w, s) = CHOOSE k \in q : \A j \in q \ {k} : Before(w, k, j)
        BY <1>2 DEF HandoffSlot
    <2>6. /\ HandoffSlot(w, s) \in q
          /\ \A j \in q \ {HandoffSlot(w, s)} : Before(w, HandoffSlot(w, s), j)
        <3> HIDE DEF q
        <3> QED BY <2>4, <2>5
    <2>7. \A k \in Queue(w, s) : Live(w[k].pid) =>
              k = HandoffSlot(w, s) \/ Before(w, HandoffSlot(w, s), k)
        BY <2>6
    <2> QED BY <2>6, <2>7
<1> QED BY <1>1, <1>2

Selected(w, S, i) == w[i].sem \in S /\ i = HandoffSlot(w, w[i].sem)

\* One of several wakes counts, and the one a blocked task waits for if it is
\* among them.
LEMMA WakeByFacts ==
    ASSUME NEW p, NEW T
    PROVE  \/ T = {} /\ WakeBy(p, T) = p
           \/ \E s \in T : /\ WakeBy(p, T) = proc_wakeup_by(p, s)
                           /\ p.block_by \in T => s = p.block_by
BY DEF WakeBy

\* What sem_handoff on the semaphores of S does to a wait table: a slot is kept,
\* or granted and its task woken, or it is dropped because its task is dead;
\* without a grant no waiter is left.
LEMMA HandoffFacts ==
    ASSUME NEW w \in [Slots -> Waiters], NEW S \in SUBSET Sems
    PROVE  /\ HandoffWaiters(w, S) \in [Slots -> Waiters]
           /\ \A i \in Slots :
                \/ ~Selected(w, S, i) /\ HandoffWaiters(w, S)[i] = w[i]
                \/ /\ ~Selected(w, S, i) /\ HandoffWaiters(w, S)[i] = FreeSlot
                   /\ w[i].sem \in S /\ ~w[i].granted /\ ~Live(w[i].pid)
                \/ /\ Selected(w, S, i) /\ Live(w[i].pid) /\ ~w[i].granted
                   /\ HandoffWaiters(w, S)[i] = [w[i] EXCEPT !.granted = TRUE]
           /\ \A t \in Tasks :
                \/ HandoffTask(w, S)[t] = task[t]
                   /\ ~\E i \in Slots : Selected(w, S, i) /\ w[i].pid = t
                \/ \E i \in Slots :
                      /\ Selected(w, S, i) /\ w[i].pid = t
                      /\ HandoffTask(w, S)[t] = proc_wakeup_by(task[t], w[i].sem)
           /\ \A s \in S : HandoffSlot(w, s) = NoSlot =>
                \A i \in Slots : ~(HandoffWaiters(w, S)[i].sem = s
                                   /\ ~HandoffWaiters(w, S)[i].granted)
<1> DEFINE h == HandoffWaiters(w, S)
<1>1. \A i \in Slots : Selected(w, S, i) =>
          i \in Queue(w, w[i].sem) /\ Live(w[i].pid) /\ ~w[i].granted
    BY HandoffSlotFacts, SlotTypes DEF Selected, Queue
<1>2. FreeSlot \in Waiters
    BY ConstantsAssumption DEF FreeSlot, Waiters
<1>3. \A i \in Slots : w[i] \in Waiters /\ [w[i] EXCEPT !.granted = TRUE] \in Waiters
    BY DEF Waiters
<1>4. \A i \in Slots : h[i] =
          IF w[i].sem \notin S THEN w[i]
          ELSE IF i = HandoffSlot(w, w[i].sem) THEN [w[i] EXCEPT !.granted = TRUE]
          ELSE IF Dropped(w, w[i].sem, i) THEN FreeSlot
          ELSE w[i]
    BY DEF HandoffWaiters
<1>5. h \in [Slots -> Waiters]
    <2>1. \A i \in Slots : h[i] \in Waiters
        BY <1>2, <1>3, <1>4
    <2> QED BY <2>1 DEF HandoffWaiters
<1>6. ASSUME NEW i \in Slots
      PROVE  \/ ~Selected(w, S, i) /\ h[i] = w[i]
             \/ /\ ~Selected(w, S, i) /\ h[i] = FreeSlot
                /\ w[i].sem \in S /\ ~w[i].granted /\ ~Live(w[i].pid)
             \/ /\ Selected(w, S, i) /\ Live(w[i].pid) /\ ~w[i].granted
                /\ h[i] = [w[i] EXCEPT !.granted = TRUE]
    BY <1>1, <1>4 DEF Selected, Dropped, Queue
<1>7. ASSUME NEW t \in Tasks
      PROVE  \/ HandoffTask(w, S)[t] = task[t]
                /\ ~\E i \in Slots : Selected(w, S, i) /\ w[i].pid = t
             \/ \E i \in Slots :
                   /\ Selected(w, S, i) /\ w[i].pid = t
                   /\ HandoffTask(w, S)[t] = proc_wakeup_by(task[t], w[i].sem)
    <2> DEFINE Hit(s) == HandoffSlot(w, s) # NoSlot /\ w[HandoffSlot(w, s)].pid = t
    <2>1. HandoffTask(w, S)[t] = WakeBy(task[t], {s \in S : Hit(s)})
        BY DEF HandoffTask
    <2>2. \A s \in S : Hit(s) => /\ HandoffSlot(w, s) \in Slots
                                 /\ w[HandoffSlot(w, s)].sem = s
        BY HandoffSlotFacts DEF Queue
    <2>3. \A i \in Slots : Selected(w, S, i) /\ w[i].pid = t => Hit(w[i].sem)
        BY SlotTypes DEF Selected
    <2>4. CASE \E s \in S : Hit(s)
        <3>1. PICK s \in S : Hit(s) /\ HandoffTask(w, S)[t] = proc_wakeup_by(task[t], s)
            <4> DEFINE T == {s \in S : Hit(s)}
            <4>1. T # {} /\ \A s \in T : s \in S /\ Hit(s)
                BY <2>4
            <4> HIDE DEF T, Hit
            <4>2. HandoffTask(w, S)[t] = WakeBy(task[t], T)
                BY <2>1 DEF T
            <4>3. \E s \in T : WakeBy(task[t], T) = proc_wakeup_by(task[t], s)
                BY <4>1 DEF WakeBy
            <4> QED BY <4>1, <4>2, <4>3
        <3> QED BY <2>2, <3>1 DEF Selected
    <2>5. CASE ~\E s \in S : Hit(s)
        <3>1. HandoffTask(w, S)[t] = task[t]
            <4> HIDE DEF Hit
            <4> QED BY <2>1, <2>5, WakeByFacts
        <3> QED BY <2>3, <2>5, <3>1 DEF Selected
    <2> QED BY <2>4, <2>5
<1>8. ASSUME NEW s \in S, HandoffSlot(w, s) = NoSlot, NEW i \in Slots
      PROVE  ~(h[i].sem = s /\ ~h[i].granted)
    <2> SUFFICES ASSUME h[i].sem = s, ~h[i].granted PROVE FALSE
        OBVIOUS
    <2>1. h[i] = w[i] \/ h[i] = [w[i] EXCEPT !.granted = TRUE] \/ h[i] = FreeSlot
        BY <1>6
    <2>2. w[i].sem = s /\ h[i] = w[i]
        BY <2>1, <1>3, SlotTypes DEF FreeSlot, Waiters
    <2>3. i \in Queue(w, s) /\ ~Live(w[i].pid)
        BY <2>2, <1>8, HandoffSlotFacts, SlotTypes DEF Queue
    <2>4. Dropped(w, s, i)
        BY <2>3, <1>8 DEF Dropped
    <2>5. i # HandoffSlot(w, s)
        BY <1>8, SlotTypes
    <2>6. h[i] = FreeSlot
        BY <1>4, <2>2, <2>4, <2>5
    <2> QED BY <2>6, SlotTypes DEF FreeSlot
<1> QED BY <1>5, <1>6, <1>7, <1>8

-----------------------------------------------------------------------------
(* Inductiveness of WaitInv.                                               *)

\* A task that loses its slot or gets a permit must not stay asleep, nor go to
\* sleep at the end of the call it is in.
Roused(u) ==
    /\ (u \in Servers => stage'[u] = "alive") => task'[u].state # "BLOCK"
    /\ sys'.slot # NoSlot /\ sys'.pid = u => Armed(task'[u])

\* A step that only keeps, frees or grants slots and puts nobody to sleep.
Calm ==
    /\ \A i \in Slots :
          \/ waiters'[i] = waiters[i]
          \/ /\ waiters'[i] = FreeSlot
             /\ waiters[i].sem # 0 => \/ stage'[waiters[i].pid] # "alive"
                                      \/ Roused(waiters[i].pid)
          \/ /\ waiters'[i] = [waiters[i] EXCEPT !.granted = TRUE]
             /\ waiters[i].sem # 0 /\ Roused(waiters[i].pid)
    /\ \A t \in Tasks : task'[t].state = "BLOCK" => task'[t] = task[t]
    /\ sys'.slot # NoSlot => sys' = sys /\ (Latched(sys.pid) => Latched(sys.pid)')
    /\ \A t \in Tasks : stage'[t] = "alive" => stage[t] = "alive" /\ Live(t)'

\* A calm step keeps the parts of the invariant about sleep and about the
\* unlocked window; the others remain to be shown for the step at hand.
LEMMA CalmStep ==
    ASSUME WaitInv, Calm, TypeOK', SlotsOfSems', SlotOwner', HandlerInv', CallsOfAwake',
           QueuedMeansTaken'
    PROVE  WaitInv'
<1> USE DEF WaitInv
<1>1. \A i \in Slots : waiters[i] \in Waiters /\ waiters'[i] \in Waiters
    BY DEF TypeOK
<1>2. \A i \in Slots : waiters'[i].sem # 0 =>
          /\ waiters'[i].sem = waiters[i].sem /\ waiters'[i].pid = waiters[i].pid
          /\ waiters[i].pid \in Tasks
          /\ \/ waiters'[i] = waiters[i]
             \/ waiters'[i].granted /\ Roused(waiters[i].pid)
    <2> SUFFICES ASSUME NEW i \in Slots, waiters'[i].sem # 0
                 PROVE  /\ waiters'[i].sem = waiters[i].sem
                        /\ waiters'[i].pid = waiters[i].pid
                        /\ waiters[i].pid \in Tasks
                        /\ \/ waiters'[i] = waiters[i]
                           \/ waiters'[i].granted /\ Roused(waiters[i].pid)
        OBVIOUS
    <2>1. CASE waiters'[i] = waiters[i]
        BY <2>1 DEF SlotsOfSems
    <2>2. CASE waiters'[i] = [waiters[i] EXCEPT !.granted = TRUE]
               /\ waiters[i].sem # 0 /\ Roused(waiters[i].pid)
        BY <2>2, <1>1 DEF SlotsOfSems, Waiters
    <2>3. waiters'[i] # FreeSlot
        BY DEF FreeSlot
    <2> QED BY <2>1, <2>2, <2>3 DEF Calm
<1>3. OneSlot'
    BY <1>2 DEF OneSlot
<1>4. SleepToken'
    BY <1>2 DEF SleepToken, Calm, Whole
<1>5. DeadIsStaged'
    BY DEF Calm, DeadIsStaged
<1>6. GrantedIsAwake'
    <2> SUFFICES ASSUME NEW i \in Slots, waiters'[i].granted,
                        waiters[i].pid \in Servers => stage'[waiters[i].pid] = "alive",
                        waiters'[i].pid = waiters[i].pid
                 PROVE  task'[waiters[i].pid].state # "BLOCK"
        <3>1. \A i \in Slots : waiters'[i].granted => waiters'[i].sem # 0
            BY DEF SlotsOfSems
        <3> QED BY <1>2, <3>1 DEF GrantedIsAwake, Whole
    <2>1. waiters'[i].sem # 0
        BY DEF SlotsOfSems
    <2> QED BY <1>2, <2>1 DEF Roused, Calm, GrantedIsAwake, Whole
<1>7. SleeperIsQueued'
    <2> SUFFICES ASSUME NEW t \in Tasks, NEW s \in Sems, stage'[t] = "alive",
                        task'[t].state = "BLOCK", task'[t].block_by = s
                 PROVE  \E i \in Slots : waiters'[i].sem = s /\ waiters'[i].pid = t
        BY DEF SleeperIsQueued, HasSlot
    <2>1. PICK i \in Slots : waiters[i].sem = s /\ waiters[i].pid = t
        BY DEF SleeperIsQueued, HasSlot, Calm
    <2>2. waiters[i].sem # 0 /\ ~Roused(t)
        BY <2>1, SlotTypes DEF Roused, Whole
    <2>3. waiters'[i] = waiters[i]
        BY <2>1, <2>2 DEF Calm
    <2> QED BY <2>1, <2>3
<1>8. WindowInv'
    <2> SUFFICES ASSUME sys'.slot # NoSlot, ~Latched(sys.pid)'
                 PROVE  /\ \A i \in Slots : waiters'[i].pid = sys.pid /\ waiters'[i].sem = sys.sem
                                            => ~waiters'[i].granted
                        /\ stage'[sys.pid] = "alive" =>
                              /\ waiters'[sys.slot].sem = sys.sem
                              /\ waiters'[sys.slot].pid = sys.pid
        BY DEF WindowInv, Calm
    <2>1. sys' = sys /\ ~Latched(sys.pid) /\ sys.slot # NoSlot /\ ~Roused(sys.pid)
        BY DEF Calm, Roused, Latched, Armed
    <2>2. sys.pid \in Tasks /\ sys.sem \in Sems /\ sys.slot \in Slots
        BY <2>1 DEF TypeOK, Calls, NoCall
    <2>3. \A i \in Slots : waiters'[i].pid = sys.pid /\ waiters'[i].sem = sys.sem
                           => ~waiters'[i].granted
        <3> SUFFICES ASSUME NEW i \in Slots, waiters'[i].pid = sys.pid,
                            waiters'[i].sem = sys.sem
                     PROVE  ~waiters'[i].granted
            OBVIOUS
        <3>1. waiters'[i].sem # 0
            BY <2>2, SlotTypes
        <3> QED BY <1>2, <2>1, <3>1 DEF WindowInv
    <2>4. ASSUME stage'[sys.pid] = "alive"
          PROVE  waiters'[sys.slot].sem = sys.sem /\ waiters'[sys.slot].pid = sys.pid
        <3>1. waiters[sys.slot].sem = sys.sem /\ waiters[sys.slot].pid = sys.pid
            BY <2>1, <2>2, <2>4 DEF WindowInv, Calm
        <3>2. waiters'[sys.slot] = waiters[sys.slot]
            BY <2>1, <2>2, <2>4, <3>1, SlotTypes DEF Calm
        <3> QED BY <3>1, <3>2
    <2> QED BY <2>3, <2>4
<1>9. CallSlot'
    <2> SUFFICES ASSUME sys'.slot # NoSlot, waiters'[sys'.slot].pid = sys'.pid
                 PROVE  waiters'[sys'.slot].sem = sys'.sem
        BY DEF CallSlot
    <2>1. sys' = sys /\ sys.slot \in Slots /\ sys.pid \in Tasks
        BY DEF Calm, TypeOK, Calls, NoCall
    <2>2. waiters'[sys.slot].sem # 0
        BY <2>1, ConstantsAssumption DEF SlotsOfSems
    <2> QED BY <1>2, <2>1, <2>2 DEF CallSlot
<1> QED BY <1>3, <1>4, <1>5, <1>6, <1>7, <1>8, <1>9

\* A calm step keeps what is known of the ipc handlers, unless it ends a call
\* that leaves its slot behind.
LEMMA KeepHandlers ==
    ASSUME WaitInv, Calm, SlotsOfSems', UNCHANGED ipc,
           \/ sys' = sys \/ sys.slot = NoSlot
           \/ waiters'[sys.slot].pid # sys.pid
    PROVE  HandlerInv'
<1> USE DEF WaitInv, ipc
<1>1. /\ handler' = handler /\ main' = main /\ serving' = serving
      /\ handler \subseteq Tasks
    BY DEF TypeOK
<1>2. ASSUME NEW t \in handler, stage'[t] = "alive"
      PROVE  /\ task'[t].state # "BLOCK"
             /\ \A i \in Slots : waiters'[i].pid = t =>
                   main[t].sem = waiters'[i].sem \/ (sys'.pid = t /\ sys'.slot = i)
    <2>1. stage[t] = "alive" /\ task'[t].state # "BLOCK"
        BY <1>1, <1>2 DEF Calm, HandlerInv
    <2>2. ASSUME NEW i \in Slots, waiters'[i].pid = t
          PROVE  main[t].sem = waiters'[i].sem \/ (sys'.pid = t /\ sys'.slot = i)
        <3>1. waiters'[i].pid = waiters[i].pid /\ waiters'[i].sem = waiters[i].sem
            <4>1. waiters[i] \in Waiters /\ waiters'[i] # FreeSlot
                BY <1>1, <2>2, ConstantsAssumption DEF TypeOK, FreeSlot
            <4> QED BY <4>1 DEF Calm, Waiters
        <3>2. main[t].sem = waiters[i].sem \/ (sys.pid = t /\ sys.slot = i)
            BY <2>1, <2>2, <3>1 DEF HandlerInv
        <3> QED BY <2>2, <3>1, <3>2, SlotTypes
    <2> QED BY <2>1, <2>2
<1> QED BY <1>1, <1>2 DEF HandlerInv

\* A step that leaves the wait table, the libc loops and the allocated
\* semaphores alone.
LEMMA QuietStep ==
    ASSUME WaitInv, TypeOK', CallsOfAwake',
           waiters' = waiters, want' = want, UNCHANGED ipc,
           \A s \in Sems : sem_valid_idx(s) => sem'[s] = sem[s],
           \A t \in Tasks : task'[t].state = "BLOCK" => task'[t] = task[t],
           sys' = sys \/ (sys.slot = NoSlot /\ sys'.slot = NoSlot),
           sys'.slot # NoSlot /\ Latched(sys.pid) => Latched(sys.pid)',
           \A t \in Tasks : stage'[t] = "alive" => stage[t] = "alive" /\ Live(t)'
    PROVE  WaitInv'
<1> USE DEF WaitInv
<1>1. \A i \in Slots : waiters[i].sem # 0 =>
          waiters[i].sem \in Sems /\ sem'[waiters[i].sem] = sem[waiters[i].sem]
    BY DEF TypeOK, Waiters, SlotsOfSems
<1>2. SlotsOfSems'
    BY <1>1 DEF SlotsOfSems, sem_valid_idx
<1>3. SlotOwner'
    BY SlotTypes DEF SlotOwner, ipc
<1>4. QueuedMeansTaken'
    BY <1>1 DEF QueuedMeansTaken, sem_occupied
<1>5. Calm
    BY DEF Calm
<1>6. HandlerInv'
    BY <1>2, <1>5, KeepHandlers
<1> QED BY <1>2, <1>3, <1>4, <1>5, <1>6, CalmStep

\* proc_switch() injects the handler: the places of the main context are now
\* those of the saved wait.
LEMMA HijackStep ==
    ASSUME WaitInv, TypeOK', CallsOfAwake', NEW t \in Servers \ handler, Hijack(t),
           serving' = serving \cup {t},
           UNCHANGED <<waiters, sem, sys, stage>>,
           \A u \in Tasks : task'[u].state = "BLOCK" => task'[u] = task[u],
           task'[t].state # "BLOCK",
           sys.slot # NoSlot /\ Latched(sys.pid) => Latched(sys.pid)',
           \A u \in Tasks : stage[u] = "alive" => Live(u)'
    PROVE  WaitInv'
<1> USE DEF WaitInv
<1>1. /\ t \in Tasks /\ main[t] = NoWait /\ NoWait.sem = 0
      /\ handler' = handler \cup {t}
      /\ main'[t] = want[t] /\ want'[t] = NoWait
      /\ \A u \in Tasks \ {t} : main'[u] = main[u] /\ want'[u] = want[u]
    BY ConstantsAssumption DEF Hijack, TypeOK, HandlerInv, NoWait
<1>2. SlotsOfSems' /\ QueuedMeansTaken'
    BY DEF SlotsOfSems, QueuedMeansTaken, sem_valid_idx, sem_occupied
<1>3. SlotOwner'
    BY <1>1 DEF SlotOwner, SlotsOfSems
<1>4. Calm
    BY DEF Calm
<1>5. HandlerInv'
    <2>1. handler' \subseteq serving' /\ serving' \subseteq Servers
        BY <1>1 DEF HandlerInv
    <2>2. \A u \in Tasks \ handler' : main'[u] = NoWait
        BY <1>1 DEF HandlerInv
    <2>3. ASSUME NEW u \in handler', stage'[u] = "alive"
          PROVE  /\ task'[u].state # "BLOCK"
                 /\ \A i \in Slots : waiters'[i].pid = u =>
                       main'[u].sem = waiters'[i].sem \/ (sys'.pid = u /\ sys'.slot = i)
        <3>1. CASE u = t
            <4>1. \A i \in Slots : waiters[i].pid = t => waiters[i].sem # 0
                BY <1>1, ConstantsAssumption DEF SlotsOfSems
            <4> QED BY <1>1, <3>1, <4>1 DEF SlotOwner
        <3>2. CASE u # t
            BY <1>1, <2>3, <3>2 DEF HandlerInv, TypeOK
        <3> QED BY <3>1, <3>2
    <2> QED BY <2>1, <2>2, <2>3 DEF HandlerInv
<1> QED BY <1>2, <1>3, <1>4, <1>5, CalmStep

\* schedule(), the timer tick and renew_sleep_counter() do not disturb the wait
\* queues.
LEMMA SchedulingSteps ==
    ASSUME WaitInv, NEW t \in Tasks, Dispatch(t) \/ Preempt(t) \/ Timer(t)
    PROVE  WaitInv'
<1> USE DEF WaitInv, user, history, ipc
<1>1. task \in [Tasks -> TaskRecord(Token)] /\ task[t] \in TaskRecord(Token)
    BY DEF TypeOK
<1>2. CASE Dispatch(t)
    <2>0. /\ task' = [task EXCEPT ![t].state = "RUNNING"] /\ oncpu' = oncpu \cup {t}
          /\ UNCHANGED <<stage, serving, sem, waiters, waiter_seq, sys, holds, permits, orphans,
                         ahead, wrapped>>
          /\ handler' \subseteq Tasks /\ main' \in [Tasks -> Waits] /\ want' \in [Tasks -> Waits]
          /\ \A u \in Tasks : want'[u] = want[u] \/ want'[u].sem = 0
        <3>1. NoWait \in Waits /\ NoWait.sem = 0
            BY DEF NoWait, Waits
        <3>2. handler \subseteq Tasks /\ main \in [Tasks -> Waits] /\ want \in [Tasks -> Waits]
            BY DEF TypeOK
        <3>3. CASE t \in serving \ handler
            BY <1>2, <3>1, <3>2, <3>3 DEF Dispatch, Hijack
        <3>4. CASE t \notin serving \ handler
            BY <1>2, <3>2, <3>4 DEF Dispatch
        <3> QED BY <3>3, <3>4
    <2>1. TypeOK'
        BY <1>1, <2>0 DEF TypeOK, TaskRecord, States
    <2>2. CallsOfAwake'
        BY <1>1, <2>0, ConstantsAssumption DEF CallsOfAwake, TypeOK, Calls, NoCall
    <2>3. \A u \in Tasks : task'[u].state = "BLOCK" => task'[u] = task[u]
        BY <1>1, <1>2 DEF Dispatch
    <2>4. Latched(sys.pid) => Latched(sys.pid)'
        BY <1>1, <1>2 DEF Dispatch, Latched, TaskRecord
    <2>5. \A u \in Tasks : stage'[u] = "alive" => stage[u] = "alive" /\ Live(u)'
        BY <1>1, <1>2 DEF Dispatch, DeadIsStaged, Live, proc_get
    <2>6. CASE t \in serving \ handler
        <3>1. t \in Servers \ handler /\ Hijack(t) /\ serving' = serving \cup {t}
              /\ UNCHANGED <<waiters, sem, sys, stage>>
            BY <1>2, <2>6 DEF Dispatch, HandlerInv
        <3>2. task'[t].state # "BLOCK" /\ stage' = stage
            BY <1>1, <1>2 DEF Dispatch
        <3> QED BY <2>1, <2>2, <2>3, <2>4, <2>5, <3>1, <3>2, HijackStep
    <2>7. CASE t \notin serving \ handler
        BY <1>2, <2>1, <2>2, <2>3, <2>4, <2>5, <2>7, QuietStep DEF Dispatch
    <2> QED BY <2>6, <2>7
<1>3. CASE Preempt(t)
    <2>1. TypeOK'
        BY <1>1, <1>3 DEF Preempt, TypeOK, TaskRecord, States
    <2>2. CallsOfAwake'
        BY <1>1, <1>3 DEF Preempt, CallsOfAwake
    <2>3. \A u \in Tasks : task'[u].state = "BLOCK" => task'[u] = task[u]
        BY <1>1, <1>3 DEF Preempt
    <2>4. Latched(sys.pid) => Latched(sys.pid)'
        BY <1>1, <1>3 DEF Preempt, Latched, TaskRecord
    <2>5. \A u \in Tasks : stage'[u] = "alive" => stage[u] = "alive" /\ Live(u)'
        BY <1>1, <1>3 DEF Preempt, DeadIsStaged, Live, proc_get
    <2> QED BY <1>3, <2>1, <2>2, <2>3, <2>4, <2>5, QuietStep DEF Preempt
<1>4. CASE Timer(t)
    <2>1. renew_sleep_counter(task[t]) \in TaskRecord(Token)
          /\ renew_sleep_counter(task[t]).state = "READY"
        BY <1>1 DEF renew_sleep_counter, proc_ready, TaskRecord, States, Token, Generic
    <2>2. task' = [task EXCEPT ![t] = renew_sleep_counter(task[t])] /\ sys.pid = NoTask
        BY <1>4 DEF Timer, IrqOn
    <2>3. TypeOK'
        BY <1>1, <1>4, <2>1, <2>2 DEF Timer, TypeOK
    <2>4. CallsOfAwake'
        BY <1>1, <1>4, <2>1, <2>2 DEF Timer, CallsOfAwake, TypeOK
    <2>5. \A u \in Tasks : task'[u].state = "BLOCK" => task'[u] = task[u]
        BY <1>1, <2>1, <2>2
    <2>6. sys.slot = NoSlot
        BY <2>2, ConstantsAssumption DEF TypeOK, Calls, NoCall
    <2>7. \A u \in Tasks : stage'[u] = "alive" => stage[u] = "alive" /\ Live(u)'
        BY <1>1, <1>4, <2>1, <2>2 DEF Timer, DeadIsStaged, Live, proc_get
    <2> QED BY <1>4, <2>3, <2>4, <2>5, <2>6, <2>7, QuietStep DEF Timer
<1> QED BY <1>2, <1>3, <1>4

\* proc_ipc_do_task() and SYS_IPC_END.
LEMMA IpcCallStep ==
    ASSUME WaitInv, NEW t \in Tasks, IpcCall(t)
    PROVE  WaitInv'
<1> USE DEF WaitInv, user, history
<1>1. /\ task \in [Tasks -> TaskRecord(Token)] /\ task[t] \in TaskRecord(Token)
      /\ want \in [Tasks -> Waits] /\ main \in [Tasks -> Waits] /\ NoWait \in Waits
    BY DEF TypeOK, NoWait, Waits
<1>2. /\ t \in Servers \ handler /\ serving' = serving \cup {t} /\ Live(t)
      /\ sys.pid = NoTask /\ sys.slot = NoSlot /\ sys' = sys
      /\ UNCHANGED <<stage, sem, waiters, waiter_seq, sys, holds, permits, orphans, ahead,
                     wrapped>>
    BY ConstantsAssumption DEF IpcCall, IrqOn, HandlerInv, TypeOK, Calls, NoCall
<1>3. CASE task' = [task EXCEPT ![t].state = "RUNNING"] /\ oncpu' = oncpu \cup {t} /\ Hijack(t)
    <2>1. TypeOK'
        BY <1>1, <1>2, <1>3 DEF TypeOK, Hijack, TaskRecord, States
    <2>2. CallsOfAwake'
        BY <1>1, <1>2, <1>3 DEF CallsOfAwake
    <2>3. \A u \in Tasks : /\ task'[u].state = "BLOCK" => task'[u] = task[u]
                           /\ stage[u] = "alive" => Live(u)'
        BY <1>1, <1>3 DEF DeadIsStaged, Live, proc_get
    <2>4. task'[t].state # "BLOCK"
        BY <1>1, <1>3
    <2> QED BY <1>2, <1>3, <2>1, <2>2, <2>3, <2>4, HijackStep
<1>4. ASSUME UNCHANGED <<oncpu, handler, main, want>>,
             \/ task' = [task EXCEPT ![t] = proc_wakeup_by(task[t], Generic)]
             \/ task' = task
      PROVE  WaitInv'
    <2>1. \A u \in Tasks : /\ task'[u] \in TaskRecord(Token)
                           /\ task'[u].state = "ZOMBIE" <=> task[u].state = "ZOMBIE"
                           /\ task'[u].state = "BLOCK" => task'[u] = task[u]
        <3>1. Generic \in Token
            BY DEF Token
        <3> QED BY <1>1, <1>4, <3>1, WakeFacts
    <2>2. TypeOK'
        <3>1. task' \in [Tasks -> TaskRecord(Token)]
            BY <1>1, <1>4, <2>1
        <3> QED BY <1>2, <1>4, <3>1 DEF TypeOK
    <2>3. CallsOfAwake'
        BY <1>2, <1>4, <2>1 DEF CallsOfAwake, TypeOK
    <2>4. SlotsOfSems' /\ SlotOwner' /\ QueuedMeansTaken'
        BY <1>2, <1>4 DEF SlotsOfSems, SlotOwner, QueuedMeansTaken, sem_valid_idx, sem_occupied
    <2>5. HandlerInv'
        BY <1>2, <1>4, <2>1 DEF HandlerInv, TypeOK
    <2>6. Calm
        BY <1>2, <2>1 DEF Calm, DeadIsStaged, Live, proc_get
    <2> QED BY <2>2, <2>3, <2>4, <2>5, <2>6, CalmStep
<1> QED BY <1>3, <1>4 DEF IpcCall

LEMMA IpcEndStep ==
    ASSUME WaitInv, NEW t \in Tasks, IpcEnd(t)
    PROVE  WaitInv'
<1> USE DEF WaitInv, user, history
<1>1. /\ task \in [Tasks -> TaskRecord(Token)] /\ task[t] \in TaskRecord(Token)
      /\ want \in [Tasks -> Waits] /\ main \in [Tasks -> Waits] /\ NoWait \in Waits
      /\ NoWait.sem = 0 /\ handler \subseteq Tasks
    BY DEF TypeOK, NoWait, Waits
<1>2. /\ t \in handler /\ Live(t) /\ want[t] = NoWait
      /\ sys.pid = NoTask /\ sys.slot = NoSlot /\ sys' = sys
      /\ task' = [task EXCEPT ![t].state = "READY"] /\ oncpu' = oncpu \ {t}
      /\ serving' = serving \ {t} /\ handler' = handler \ {t}
      /\ want' = [want EXCEPT ![t] = main[t]] /\ main' = [main EXCEPT ![t] = NoWait]
      /\ UNCHANGED <<stage, sem, waiters, waiter_seq, sys, holds, permits, orphans, ahead,
                     wrapped>>
    BY ConstantsAssumption DEF IpcEnd, TypeOK, Calls, NoCall
<1>3. TypeOK'
    BY <1>1, <1>2 DEF TypeOK, TaskRecord, States
<1>4. CallsOfAwake'
    BY <1>1, <1>2 DEF CallsOfAwake
<1>5. \A u \in Tasks : /\ task'[u].state = "BLOCK" => task'[u] = task[u]
                       /\ stage[u] = "alive" => Live(u)'
    BY <1>1, <1>2 DEF DeadIsStaged, Live, proc_get
<1>6. SlotsOfSems' /\ QueuedMeansTaken'
    BY <1>2 DEF SlotsOfSems, QueuedMeansTaken, sem_valid_idx, sem_occupied
<1>7. SlotOwner'
    <2>1. \A i \in Slots : waiters[i].sem # 0 => waiters[i].pid \in Tasks
        BY DEF SlotsOfSems
    <2> QED BY <1>1, <1>2, <2>1 DEF SlotOwner
<1>8. HandlerInv'
    BY <1>1, <1>2, <1>5 DEF HandlerInv
<1>9. Calm
    BY <1>2, <1>5 DEF Calm
<1> QED BY <1>3, <1>4, <1>6, <1>7, <1>8, <1>9, CalmStep

\* proc_wakeup_by() for another reason (ipc return, signal, vfs node).
LEMMA OtherWakeStep ==
    ASSUME WaitInv, NEW t \in Tasks, NEW token \in OtherTokens, OtherWake(t, token)
    PROVE  WaitInv'
<1> USE DEF WaitInv, user, history, ipc
<1> DEFINE q == proc_wakeup_by(task[t], token)
<1>1. /\ task[t] \in TaskRecord(Token) /\ token \in Token
      /\ task \in [Tasks -> TaskRecord(Token)]
    BY DEF TypeOK, Token
<1>2. /\ q \in TaskRecord(Token)
      /\ q.state = "ZOMBIE" <=> task[t].state = "ZOMBIE"
      /\ q.state = "BLOCK" => q = task[t]
    BY <1>1, WakeFacts
<1>3. task' = [task EXCEPT ![t] = q] /\ sys.pid = NoTask /\ sys' = sys
    BY DEF OtherWake, IrqOn
<1> HIDE DEF q
<1>4. TypeOK'
    BY <1>1, <1>2, <1>3 DEF OtherWake, TypeOK
<1>5. CallsOfAwake'
    BY <1>1, <1>2, <1>3 DEF OtherWake, CallsOfAwake, TypeOK
<1>6. \A u \in Tasks : task'[u].state = "BLOCK" => task'[u] = task[u]
    BY <1>1, <1>2, <1>3
<1>7. sys.slot = NoSlot
    BY <1>3, ConstantsAssumption DEF TypeOK, Calls, NoCall
<1>8. \A u \in Tasks : stage'[u] = "alive" => stage[u] = "alive" /\ Live(u)'
    BY <1>1, <1>2, <1>3 DEF OtherWake, DeadIsStaged, Live, proc_get
<1> QED BY <1>3, <1>4, <1>5, <1>6, <1>7, <1>8, QuietStep DEF OtherWake

-----------------------------------------------------------------------------
(* The trap, allocation, and the teardown steps that only mark a task.      *)

\* svc_handler() taking kernel_lock for a call.
LEMMA TrapStep ==
    ASSUME WaitInv, NEW t \in Tasks, NEW op \in Ops, NEW s \in Sems,
           svc_handler(t, op, s)
    PROVE  WaitInv'
<1> USE DEF WaitInv, user, history, ipc
<1>1. /\ sys.pid = NoTask /\ sys.slot = NoSlot /\ sys'.slot = NoSlot
      /\ sys'.pid = t /\ sys'.sem = s
    BY ConstantsAssumption DEF svc_handler, TypeOK, Calls, NoCall
<1>2. TypeOK'
    BY ConstantsAssumption DEF svc_handler, TypeOK, Calls
<1>3. CallsOfAwake'
    BY <1>1 DEF svc_handler, Asks, CallsOfAwake, NoWait
<1>4. \A u \in Tasks : stage'[u] = "alive" => stage[u] = "alive" /\ Live(u)'
    BY DEF svc_handler, DeadIsStaged, Live
<1> QED BY <1>1, <1>2, <1>3, <1>4, QuietStep DEF svc_handler

\* semaphore_alloc() and semaphore_alloc_count().
LEMMA AllocStep ==
    ASSUME WaitInv, NEW t \in Tasks, NEW op, NEW count \in Nat,
           NEW max \in Nat \ {0}, sem_alloc_raw(t, op, count, max)
    PROVE  WaitInv'
<1> USE DEF WaitInv, user, history, ipc
<1>1. sys.slot = NoSlot /\ sys' = NoCall /\ sys'.slot = NoSlot /\ sys'.pid = NoTask
    BY DEF sem_alloc_raw, InCall, NoCall
<1> DEFINE free == {s \in Sems : ~sem_valid_idx(s)}
<1>2. CASE UNCHANGED <<sem, permits>>
    <2>1. TypeOK'
        BY <1>2 DEF sem_alloc_raw, TypeOK, Calls
    <2>2. CallsOfAwake'
        BY <1>1 DEF sem_alloc_raw, CallsOfAwake
    <2>3. \A u \in Tasks : stage'[u] = "alive" => stage[u] = "alive" /\ Live(u)'
        BY DEF sem_alloc_raw, DeadIsStaged, Live
    <2> QED BY <1>1, <1>2, <2>1, <2>2, <2>3, QuietStep DEF sem_alloc_raw
<1>3. CASE free # {} /\ ~UNCHANGED <<sem, permits>>
    <2>1. \E s \in free : \A r \in free : s <= r
        <3>1. free \in SUBSET Nat
            BY ConstantsAssumption DEF Sems
        <3> HIDE DEF free
        <3> QED BY <1>3, <3>1, NatMin
    <2>2. PICK s \in free :
              /\ sem' = [sem EXCEPT ![s] = [creater |-> Owner[t], count |-> count,
                                           max_count |-> max, occupied_pid |-> NoTask]]
              /\ permits' = [permits EXCEPT ![s] = count]
        BY <1>3, <2>1 DEF sem_alloc_raw
    <2>3. TypeOK'
        BY <2>2, ConstantsAssumption DEF sem_alloc_raw, TypeOK, Calls, Semaphores
    <2>4. CallsOfAwake'
        BY <1>1 DEF sem_alloc_raw, CallsOfAwake
    <2>5. \A r \in Sems : sem_valid_idx(r) => sem'[r] = sem[r]
        BY <2>2 DEF TypeOK
    <2>6. \A u \in Tasks : stage'[u] = "alive" => stage[u] = "alive" /\ Live(u)'
        BY DEF sem_alloc_raw, DeadIsStaged, Live
    <2> QED BY <1>1, <2>3, <2>4, <2>5, <2>6, QuietStep DEF sem_alloc_raw
<1> QED BY <1>2, <1>3 DEF sem_alloc_raw

\* What proc_unready(proc, ZOMBIE) does to the tasks.
LEMMA MarkFacts ==
    ASSUME WaitInv, NEW v \in Tasks, Mark(v)
    PROVE  /\ task' \in [Tasks -> TaskRecord(Token)]
           /\ \A u \in Tasks : /\ u # v => task'[u] = task[u]
                               /\ Latched(u) => Latched(u)'
           /\ task'[v].state = "ZOMBIE"
BY SMTT(30) DEF WaitInv, TypeOK, Mark, proc_unready, TaskRecord, States, Latched

\* The three ways a task is marked dead: exit, fault, the death of its PROC.
LEMMA MarkSteps ==
    ASSUME WaitInv, NEW t \in Tasks, Fault(t) \/ TerminateChild(t) \/ ExitBegin(t)
    PROVE  WaitInv'
<1> USE DEF WaitInv, user, history, ipc
<1>2. ASSUME NEW v \in Tasks, Mark(v), stage'[v] # "alive",
             stage' \in [Tasks -> Stages],
             \A u \in Tasks : stage'[u] = "alive" => stage[u] = "alive",
             UNCHANGED <<oncpu, ipc, sem, waiters, waiter_seq, user, history>>,
             \/ UNCHANGED sys
             \/ InCall(t, "exit") /\ sys' = [sys EXCEPT !.op = "exiting"]
      PROVE  WaitInv'
    <2>1. sys' \in Calls /\ sys'.pid = sys.pid /\ sys'.slot = sys.slot /\ sys'.sem = sys.sem
          /\ (sys' = sys \/ sys.slot = NoSlot)
        <3>1. CASE UNCHANGED sys
            BY <3>1 DEF TypeOK
        <3>2. CASE InCall(t, "exit") /\ sys' = [sys EXCEPT !.op = "exiting"]
            <4>1. sys \in [pid: Tasks, op: Ops \cup {"exiting"}, sem: Sems, slot: {NoSlot}]
                BY <3>2, ConstantsAssumption, SlotTypes DEF InCall, TypeOK, Calls, NoCall
            <4> QED BY <3>2, <4>1 DEF InCall, Calls
        <3> QED BY <1>2, <3>1, <3>2
    <2>2. TypeOK'
        BY <1>2, <2>1, MarkFacts DEF TypeOK
    <2>3. CallsOfAwake'
        <3>1. \A u \in Tasks : task[u].state # "BLOCK" => task'[u].state # "BLOCK"
            BY <1>2, MarkFacts
        <3>2. sys.pid \in Tasks \cup {NoTask} /\ oncpu \subseteq Tasks
            BY DEF TypeOK, Calls, NoCall
        <3> QED BY <1>2, <2>1, <3>1, <3>2 DEF CallsOfAwake
    <2>4. \A u \in Tasks : stage'[u] = "alive" => stage[u] = "alive" /\ Live(u)'
        BY <1>2, MarkFacts DEF DeadIsStaged, Live, proc_get
    <2>5. \A u \in Tasks : task'[u].state = "BLOCK" => task'[u] = task[u]
        BY <1>2, MarkFacts
    <2>6. sys'.slot # NoSlot /\ Latched(sys.pid) => Latched(sys.pid)'
        BY <1>2, <2>1, MarkFacts DEF TypeOK, Calls, NoCall
    <2> QED BY <1>2, <2>1, <2>2, <2>3, <2>4, <2>5, <2>6, QuietStep
<1>3. CASE ExitBegin(t)
    BY <1>2, <1>3 DEF ExitBegin, TypeOK, Stages
<1>4. CASE Fault(t)
    <2> DEFINE v == IF Live(Owner[t]) THEN Owner[t] ELSE t
    <2>1. v \in Tasks
        BY ConstantsAssumption
    <2>2. Mark(v) /\ stage' = [stage EXCEPT ![t] = "fault", ![v] = "zombie"]
          /\ UNCHANGED <<oncpu, ipc, sem, waiters, waiter_seq, sys, user, history>>
        BY <1>4 DEF Fault
    <2> HIDE DEF v
    <2> QED BY <1>2, <2>1, <2>2 DEF TypeOK, Stages
<1>5. CASE TerminateChild(t)
    BY <1>2, <1>5 DEF TerminateChild, TypeOK, Stages
<1> QED BY <1>3, <1>4, <1>5

\* A handler that finds its caller dead does nothing.
LEMMA CallerDeadStep ==
    ASSUME WaitInv, NEW t \in Tasks, CallerDead(t)
    PROVE  WaitInv'
<1> USE DEF WaitInv, user, history, ipc
<1>1. sys.slot = NoSlot /\ sys'.slot = NoSlot
    BY DEF CallerDead, NoCall
<1>2. TypeOK' /\ CallsOfAwake'
    BY DEF CallerDead, CallsOfAwake, NoCall, TypeOK, Calls
<1>3. \A u \in Tasks : stage'[u] = "alive" => stage[u] = "alive" /\ Live(u)'
    BY DEF CallerDead, DeadIsStaged, Live
<1> QED BY <1>1, <1>2, <1>3, QuietStep DEF CallerDead

\* A dead task leaves its cpu.
LEMMA LeaveStep ==
    ASSUME WaitInv, NEW t \in Tasks, Leave(t)
    PROVE  WaitInv'
<1> USE DEF WaitInv, user, history, ipc
<1>1. TypeOK'
    BY DEF Leave, TypeOK, Calls
<1>2. sys' = sys \/ sys' = NoCall
    BY DEF Leave
<1>3. CallsOfAwake'
    BY <1>2 DEF Leave, CallsOfAwake, NoCall
<1>4. \A u \in Tasks : stage'[u] = "alive" => stage[u] = "alive" /\ Live(u)'
    BY DEF Leave, DeadIsStaged, Live
<1>5. CASE sys' = sys
    BY <1>1, <1>3, <1>4, <1>5, QuietStep DEF Leave, Latched
<1>6. CASE sys' # sys
    <2>1. sys'.slot = NoSlot /\ sys'.pid = NoTask /\ sys.pid = t /\ sys.op = "exiting"
        BY <1>2, <1>6 DEF Leave, NoCall
    <2>2. sys.slot = NoSlot
        BY <2>1 DEF TypeOK, Calls, NoCall
    <2> QED BY <1>1, <1>3, <1>4, <2>1, <2>2, QuietStep DEF Leave
<1> QED BY <1>5, <1>6

-----------------------------------------------------------------------------
(* semaphore_enter_raw and semaphore_try_enter.                            *)

\* A task in a call sits in no queue but the one of the call's semaphore, and the
\* one its hijacked main context waits in.
LEMMA CallerFacts ==
    ASSUME WaitInv, NEW t \in Tasks, sys.pid = t
    PROVE  /\ sys.sem \in Sems
           /\ task[t].state # "BLOCK"
           /\ \A i \in Slots : waiters[i].pid = t =>
                 waiters[i].sem # 0 /\ waiters[i].sem \in {sys.sem, main[t].sem}
           /\ ~sem_valid_idx(sys.sem) =>
                 \A i \in Slots : ~(waiters[i].pid = t /\ waiters[i].sem = sys.sem)
<1>1. sys.sem \in Sems /\ task[t].state # "BLOCK" /\ want[t].sem \in {0, sys.sem}
    BY ConstantsAssumption DEF WaitInv, TypeOK, Calls, NoCall, CallsOfAwake
<1>2. \A i \in Slots : waiters[i].pid = t =>
          waiters[i].sem # 0 /\ waiters[i].sem \in {sys.sem, main[t].sem}
    BY <1>1, ConstantsAssumption DEF WaitInv, SlotsOfSems, SlotOwner
<1> QED BY <1>1, <1>2, ConstantsAssumption, SlotTypes DEF WaitInv, SlotsOfSems

\* The end of a call that at most gives up the caller's slot.
LEMMA EndCallStep ==
    ASSUME WaitInv, TypeOK', NEW t \in Tasks, NEW r, sys.pid = t, sys' = NoCall,
           want' = [want EXCEPT ![t] = r],
           \A i \in Slots : \/ waiters'[i] = waiters[i]
                            \/ waiters'[i] = FreeSlot /\ waiters[i].pid = t,
           \/ r.sem = sys.sem
           \/ \A i \in Slots : ~(waiters'[i].pid = t /\ waiters'[i].sem = sys.sem),
           sys.slot = NoSlot \/ waiters'[sys.slot].pid # t, UNCHANGED ipc,
           \A s \in Sems : sem_valid_idx(s) =>
               sem_valid_idx(s)' /\ (sem_occupied(s) => sem_occupied(s)'),
           \A u \in Tasks : task'[u] # task[u] => task'[u].state \notin {"BLOCK", "ZOMBIE"},
           oncpu' \subseteq oncpu, stage' = stage
    PROVE  WaitInv'
<1> USE DEF WaitInv
<1>1. /\ sys'.slot = NoSlot /\ sys'.pid = NoTask
      /\ \A i \in Slots : waiters'[i] \in Waiters /\ waiters[i] \in Waiters
      /\ want \in [Tasks -> Waits]
    BY DEF NoCall, TypeOK
<1>2. \A i \in Slots : waiters'[i].sem # 0 =>
          /\ waiters'[i] = waiters[i] /\ waiters[i].pid \in Tasks
          /\ waiters[i].sem \in Sems /\ sem_valid_idx(waiters[i].sem)
    BY <1>1 DEF FreeSlot, SlotsOfSems, Waiters
<1>3. SlotsOfSems'
    <2> SUFFICES ASSUME NEW i \in Slots
                 PROVE  IF waiters'[i].sem = 0
                        THEN waiters'[i].pid = NoTask /\ ~waiters'[i].granted
                        ELSE /\ waiters'[i].pid \in Tasks
                             /\ sem'[waiters'[i].sem].creater # NoTask
        BY DEF SlotsOfSems, sem_valid_idx
    <2>1. CASE waiters'[i].sem = 0
        BY <2>1 DEF SlotsOfSems, FreeSlot
    <2>2. CASE waiters'[i].sem # 0
        BY <1>2, <2>2 DEF sem_valid_idx
    <2> QED BY <2>1, <2>2
<1>4. SlotOwner'
    <2> SUFFICES ASSUME NEW i \in Slots, waiters'[i].sem # 0
                 PROVE  \/ want'[waiters'[i].pid].sem = waiters'[i].sem
                        \/ main[waiters'[i].pid].sem = waiters'[i].sem
        BY DEF SlotOwner, ipc
    <2>1. CASE waiters[i].pid = t
        BY <1>1, <1>2, <2>1, CallerFacts
    <2>2. CASE waiters[i].pid # t
        BY <1>1, <1>2, <2>2 DEF SlotOwner
    <2> QED BY <2>1, <2>2
<1>5. CallsOfAwake'
    BY <1>1 DEF CallsOfAwake, TypeOK
<1>6. QueuedMeansTaken'
    <2> SUFFICES ASSUME NEW i \in Slots, waiters'[i].sem # 0, ~waiters'[i].granted
                 PROVE  sem'[waiters'[i].sem].count = 0
        BY DEF QueuedMeansTaken, sem_occupied
    <2>1. sem_occupied(waiters[i].sem) /\ waiters[i].sem \in Sems
          /\ waiters'[i] = waiters[i] /\ sem_valid_idx(waiters[i].sem)
        BY <1>2 DEF QueuedMeansTaken
    <2> QED BY <2>1 DEF sem_occupied
<1>7. task'[t].state # "BLOCK"
    BY CallerFacts
<1>8. \A u \in Tasks : stage'[u] = "alive" => stage[u] = "alive" /\ Live(u)'
    BY DEF DeadIsStaged, Live, proc_get
<1>9. Calm
    BY <1>1, <1>7, <1>8 DEF Calm, Roused
<1>10. HandlerInv'
    BY <1>3, <1>9, KeepHandlers
<1> QED BY <1>3, <1>4, <1>5, <1>6, <1>9, <1>10, CalmStep

\* sem_waiter_del leaves the table as it is, or frees a slot of the task.
LEMMA DelFacts ==
    ASSUME WaitInv, NEW k, NEW t \in Tasks
    PROVE  LET w == sem_waiter_del(waiters, k, t) IN
           /\ w \in [Slots -> Waiters]
           /\ \A i \in Slots : w[i] = waiters[i] \/ (w[i] = FreeSlot /\ waiters[i].pid = t)
           /\ \A i \in Slots : waiters[i].pid = t /\ i = k => w[i].pid # t
BY ConstantsAssumption DEF sem_waiter_del, WaitInv, TypeOK, Waiters, FreeSlot, SlotsOfSems

\* After giving up MySlot a caller has no slot of the call's semaphore.
LEMMA MySlotDel ==
    ASSUME WaitInv, NEW t \in Tasks, sys.pid = t
    PROVE  \A i \in Slots : LET d == sem_waiter_del(waiters, MySlot(t), t)[i]
                           IN  ~(d.pid = t /\ d.sem = sys.sem)
<1> SUFFICES ASSUME NEW i \in Slots
             PROVE  ~(/\ sem_waiter_del(waiters, MySlot(t), t)[i].pid = t
                      /\ sem_waiter_del(waiters, MySlot(t), t)[i].sem = sys.sem)
    OBVIOUS
<1>1. CASE ~(waiters[i].pid = t /\ waiters[i].sem = sys.sem)
    BY <1>1, DelFacts, ConstantsAssumption DEF FreeSlot
<1>2. CASE waiters[i].pid = t /\ waiters[i].sem = sys.sem
    <2>1. sys.sem # 0
        BY <1>2, CallerFacts, SlotTypes
    <2>2. MySlot(t) \in Slots /\ waiters[MySlot(t)].pid = t /\ waiters[MySlot(t)].sem = sys.sem
        BY <1>2, <2>1, FindFacts DEF MySlot
    <2>3. MySlot(t) = i
        BY <1>2, <2>1, <2>2 DEF WaitInv, OneSlot
    <2> QED BY <1>2, <2>3, DelFacts
<1> QED BY <1>1, <1>2

\* The history variable ahead keeps its type.
LEMMA TidyType ==
    ASSUME ahead \in [Slots -> SUBSET Tasks], NEW w
    PROVE  Tidy(ahead, w) \in [Slots -> SUBSET Tasks]
BY DEF Tidy

\* A return to libc ends the call and updates one task's wait.
LEMMA ReturnFacts ==
    ASSUME WaitInv, NEW t \in Tasks, NEW r \in Waits, Return(t, r)
    PROVE  /\ sys' = NoCall /\ sys' \in Calls
           /\ want' = [want EXCEPT ![t] = r] /\ want' \in [Tasks -> Waits]
           /\ orphans' \subseteq Tasks
BY DEF WaitInv, TypeOK, Return, Calls

\* Collecting a permit changes the history variables of one task only.
LEMMA AcquiredFacts ==
    ASSUME WaitInv, NEW t \in Tasks, NEW s \in Sems, Acquired(t, s)
    PROVE  /\ Return(t, NoWait)
           /\ holds' \in [Tasks -> SUBSET Sems] /\ permits' \in [Sems -> Int]
BY DEF WaitInv, TypeOK, Acquired

\* sem_try_acquire() keeps the type, the creater and an empty count of the
\* semaphores.
LEMMA TakenFacts ==
    ASSUME WaitInv, NEW t \in Tasks, NEW s \in Sems, sem[s].count > 0
    PROVE  /\ Taken(t, s) \in [Sems -> Semaphores]
           /\ \A r \in Sems : /\ Taken(t, s)[r].creater = sem[r].creater
                              /\ sem[r].count = 0 => Taken(t, s)[r].count = 0
<1>1. sem \in [Sems -> Semaphores] /\ sem[s] \in Semaphores
    BY DEF WaitInv, TypeOK
<1> DEFINE n == sem[s].count - 1
           o == IF sem_is_binary(s) THEN t ELSE sem[s].occupied_pid
           c == [sem[s] EXCEPT !.count = n, !.occupied_pid = o]
<1>2. c \in Semaphores /\ c.creater = sem[s].creater
    <2>1. n \in Nat /\ o \in Tasks \cup {NoTask}
        BY <1>1 DEF Semaphores
    <2> HIDE DEF n, o
    <2> QED BY <1>1, <2>1 DEF Semaphores
<1>3. Taken(t, s) = [sem EXCEPT ![s] = c]
    BY <1>1 DEF Taken, Semaphores
<1> HIDE DEF c
<1> QED BY <1>1, <1>2, <1>3

\* The libc loop a call belongs to waits for the call's semaphore.
LEMMA LoopFacts ==
    ASSUME WaitInv, NEW t \in Tasks, sys.pid = t
    PROVE  NoWait \in Waits /\ Looping \in Waits /\ Looping.sem = sys.sem
BY CallerFacts DEF NoWait, Looping, Waits

\* semaphore_enter_raw() when it ends before queueing, and semaphore_try_enter().
LEMMA EnterEndSteps ==
    ASSUME WaitInv, NEW t \in Tasks,
           \/ EnterInvalid(t) \/ EnterCollect(t) \/ EnterAcquire(t) \/ EnterFull(t)
           \/ semaphore_try_enter(t)
    PROVE  WaitInv'
<1>1. sys.pid = t /\ sys.slot = NoSlot
    BY DEF EnterInvalid, EnterCollect, EnterAcquire, EnterFull, EnterCall,
           semaphore_try_enter, InCall
<1>2. sys.sem \in Sems
    BY <1>1, CallerFacts
<1>3. /\ NoWait \in Waits /\ Looping \in Waits /\ Looping.sem = sys.sem
      /\ ahead \in [Slots -> SUBSET Tasks]
    BY <1>1, LoopFacts DEF WaitInv, TypeOK
<1> DEFINE del == sem_waiter_del(waiters, MySlot(t), t)
<1>4. /\ del \in [Slots -> Waiters]
      /\ \A i \in Slots : del[i] = waiters[i] \/ (del[i] = FreeSlot /\ waiters[i].pid = t)
      /\ \A i \in Slots : ~(del[i].pid = t /\ del[i].sem = sys.sem)
      /\ Tidy(ahead, del) \in [Slots -> SUBSET Tasks]
    BY <1>1, <1>3, DelFacts, MySlotDel, TidyType
<1> HIDE DEF del
<1>5. ASSUME NEW r \in Waits, Return(t, r), TypeOK',
             UNCHANGED <<task, oncpu, stage, ipc>>,
             \/ waiters' = del
             \/ waiters' = waiters /\ (r.sem = sys.sem \/ ~sem_valid_idx(sys.sem)),
             \A s \in Sems : /\ sem'[s].creater = sem[s].creater
                             /\ sem[s].count = 0 => sem'[s].count = 0
      PROVE  WaitInv'
    <2>1. sys' = NoCall /\ want' = [want EXCEPT ![t] = r]
        BY <1>5, ReturnFacts
    <2>2. \A i \in Slots : \/ waiters'[i] = waiters[i]
                           \/ waiters'[i] = FreeSlot /\ waiters[i].pid = t
        BY <1>4, <1>5
    <2>3. \/ r.sem = sys.sem
          \/ \A i \in Slots : ~(waiters'[i].pid = t /\ waiters'[i].sem = sys.sem)
        BY <1>1, <1>4, <1>5, CallerFacts
    <2>4. \A s \in Sems : sem_valid_idx(s) =>
              sem_valid_idx(s)' /\ (sem_occupied(s) => sem_occupied(s)')
        <3> SUFFICES ASSUME NEW s \in Sems, sem_valid_idx(s)
                     PROVE  sem_valid_idx(s)' /\ (sem_occupied(s) => sem_occupied(s)')
            OBVIOUS
        <3>1. /\ sem'[s].creater = sem[s].creater
              /\ sem[s].count = 0 => sem'[s].count = 0
            BY <1>5
        <3> QED BY <3>1 DEF sem_valid_idx, sem_occupied
    <2> QED BY <1>1, <1>5, <2>1, <2>2, <2>3, <2>4, EndCallStep
<1>6. CASE EnterInvalid(t)
    <2>1. Return(t, NoWait) /\ ~sem_valid_idx(sys.sem)
          /\ UNCHANGED <<task, oncpu, stage, ipc, sem, waiters, waiter_seq, holds,
                         permits, ahead, wrapped>>
        BY <1>6 DEF EnterInvalid, history
    <2>2. TypeOK'
        BY <2>1, <1>3, ReturnFacts DEF WaitInv, TypeOK, ipc
    <2> QED BY <1>3, <1>5, <2>1, <2>2
<1>7. CASE EnterCollect(t)
    <2>1. Acquired(t, sys.sem) /\ waiters' = del /\ ahead' = Tidy(ahead, del)
          /\ UNCHANGED <<task, oncpu, stage, ipc, sem, waiter_seq, wrapped>>
        BY <1>7 DEF EnterCollect, del
    <2>2. TypeOK' /\ Return(t, NoWait)
        BY <2>1, <1>2, <1>3, <1>4, ReturnFacts, AcquiredFacts DEF WaitInv, TypeOK, ipc
    <2> QED BY <1>3, <1>5, <2>1, <2>2
<1>8. ASSUME Acquired(t, sys.sem), waiters' = del, ahead' = Tidy(ahead, del),
             sem' = Taken(t, sys.sem), sem[sys.sem].count > 0,
             UNCHANGED <<task, oncpu, stage, ipc, waiter_seq, wrapped>>
      PROVE  WaitInv'
    <2>1. TypeOK' /\ Return(t, NoWait)
        BY <1>8, <1>2, <1>3, <1>4, ReturnFacts, AcquiredFacts, TakenFacts
        DEF WaitInv, TypeOK, ipc
    <2> QED BY <1>2, <1>3, <1>5, <1>8, <2>1, TakenFacts
<1>9. CASE EnterAcquire(t)
    BY <1>8, <1>9 DEF EnterAcquire, del
<1>10. CASE EnterFull(t)
    <2>1. Return(t, Looping)
          /\ UNCHANGED <<task, oncpu, stage, ipc, sem, waiters, waiter_seq, holds,
                         permits, ahead, wrapped>>
        BY <1>10 DEF EnterFull, history
    <2>2. TypeOK'
        BY <2>1, <1>3, ReturnFacts DEF WaitInv, TypeOK, ipc
    <2> QED BY <1>3, <1>5, <2>1, <2>2
<1>11. CASE semaphore_try_enter(t)
    <2>1. CASE ~sem_valid_idx(sys.sem)
        <3>1. Return(t, NoWait) /\ ahead' = Tidy(ahead, waiters')
              /\ UNCHANGED <<sem, waiters, holds, permits, task, oncpu, stage, ipc,
                             waiter_seq, wrapped>>
            BY <1>11, <2>1 DEF semaphore_try_enter
        <3>2. TypeOK'
            BY <3>1, <1>3, ReturnFacts, TidyType DEF WaitInv, TypeOK, ipc
        <3> QED BY <1>3, <1>5, <2>1, <3>1, <3>2
    <2>2. CASE sem_valid_idx(sys.sem)
        <3>1. /\ waiters' = del /\ ahead' = Tidy(ahead, del)
              /\ UNCHANGED <<task, oncpu, stage, ipc, waiter_seq, wrapped>>
              /\ \/ Acquired(t, sys.sem) /\ UNCHANGED sem
                 \/ sem[sys.sem].count > 0 /\ Acquired(t, sys.sem) /\ sem' = Taken(t, sys.sem)
                 \/ Return(t, NoWait) /\ UNCHANGED <<sem, holds, permits>>
            BY <1>11, <2>2 DEF semaphore_try_enter, del
        <3>2. CASE Acquired(t, sys.sem) /\ UNCHANGED sem
            <4>1. TypeOK' /\ Return(t, NoWait)
                BY <3>1, <3>2, <1>2, <1>3, <1>4, ReturnFacts, AcquiredFacts
                DEF WaitInv, TypeOK, ipc
            <4> QED BY <1>3, <1>5, <3>1, <3>2, <4>1
        <3>3. CASE Return(t, NoWait) /\ UNCHANGED <<sem, holds, permits>>
            <4>1. TypeOK'
                BY <3>1, <3>3, <1>3, <1>4, ReturnFacts DEF WaitInv, TypeOK, ipc
            <4> QED BY <1>3, <1>5, <3>1, <3>3, <4>1
        <3> QED BY <1>8, <3>1, <3>2, <3>3
    <2> QED BY <2>1, <2>2
<1> QED BY <1>6, <1>7, <1>9, <1>10, <1>11

\* semaphore_enter_raw() of a context that serves an ipc request.
LEMMA ServingStep ==
    ASSUME WaitInv, NEW t \in Tasks, EnterServing(t)
    PROVE  WaitInv'
<1>1. sys.pid = t /\ sys.slot # NoSlot
    BY DEF EnterServing, InWindow
<1>2. sys.sem \in Sems /\ sys.slot \in Slots
    BY <1>1, CallerFacts DEF WaitInv, TypeOK, Calls, NoCall
<1>3. /\ NoWait \in Waits /\ Looping \in Waits /\ Looping.sem = sys.sem
      /\ ahead \in [Slots -> SUBSET Tasks] /\ task \in [Tasks -> TaskRecord(Token)]
    BY <1>1, LoopFacts DEF WaitInv, TypeOK
<1> DEFINE del == sem_waiter_del(waiters, sys.slot, t)
<1>4. /\ del \in [Slots -> Waiters]
      /\ \A i \in Slots : del[i] = waiters[i] \/ (del[i] = FreeSlot /\ waiters[i].pid = t)
      /\ Tidy(ahead, del) \in [Slots -> SUBSET Tasks]
    BY <1>3, DelFacts, TidyType
<1>5. waiters' = del /\ ahead' = Tidy(ahead, del)
      /\ UNCHANGED <<stage, ipc, sem, waiter_seq, wrapped>>
    BY DEF EnterServing
<1>0. del[sys.slot].pid # t
    BY <1>2, DelFacts, ConstantsAssumption DEF FreeSlot
<1>6. CASE /\ waiters[sys.slot].pid = t /\ waiters[sys.slot].sem = sys.sem
           /\ Acquired(t, sys.sem) /\ UNCHANGED <<task, oncpu>>
    <2>1. \A i \in Slots : ~(del[i].pid = t /\ del[i].sem = sys.sem)
        <3> SUFFICES ASSUME NEW i \in Slots, waiters[i].pid = t, waiters[i].sem = sys.sem
                     PROVE  i = sys.slot
            BY <1>2, <1>4, <1>6, DelFacts, ConstantsAssumption DEF FreeSlot
        <3> QED BY <1>2, <1>6, SlotTypes DEF WaitInv, OneSlot
    <2> HIDE DEF del
    <2>2. TypeOK' /\ Return(t, NoWait)
        BY <1>2, <1>3, <1>4, <1>5, <1>6, ReturnFacts, AcquiredFacts DEF WaitInv, TypeOK, ipc
    <2>3. sys' = NoCall /\ want' = [want EXCEPT ![t] = NoWait]
        BY <1>3, <2>2, ReturnFacts
    <2>4. \A s \in Sems : sem_valid_idx(s) =>
              sem_valid_idx(s)' /\ (sem_occupied(s) => sem_occupied(s)')
        BY <1>5 DEF sem_valid_idx, sem_occupied
    <2> QED BY <1>0, <1>1, <1>4, <1>5, <1>6, <2>1, <2>2, <2>3, <2>4, EndCallStep
<1>7. CASE /\ Return(t, Looping)
           /\ task' = [task EXCEPT ![t].state = IF Live(t) THEN "READY" ELSE @]
           /\ oncpu' = oncpu \ {t}
           /\ UNCHANGED <<holds, permits>>
    <2> HIDE DEF del
    <2>1. /\ task' \in [Tasks -> TaskRecord(Token)]
          /\ \A u \in Tasks : task'[u] # task[u] => task'[u].state \notin {"BLOCK", "ZOMBIE"}
        BY <1>3, <1>7 DEF TaskRecord, States
    <2>2. TypeOK'
        BY <1>3, <1>4, <1>5, <1>7, <2>1, ReturnFacts DEF WaitInv, TypeOK, ipc
    <2>3. sys' = NoCall /\ want' = [want EXCEPT ![t] = Looping]
        BY <1>3, <1>7, ReturnFacts
    <2>4. \A s \in Sems : sem_valid_idx(s) =>
              sem_valid_idx(s)' /\ (sem_occupied(s) => sem_occupied(s)')
        BY <1>5 DEF sem_valid_idx, sem_occupied
    <2>5. oncpu' \subseteq oncpu
        BY <1>7
    <2>6. \A i \in Slots : \/ waiters'[i] = waiters[i]
                           \/ waiters'[i] = FreeSlot /\ waiters[i].pid = t
        BY <1>4, <1>5
    <2> QED BY <1>0, <1>1, <1>3, <1>5, <2>1, <2>2, <2>3, <2>4, <2>5, <2>6, EndCallStep
<1> QED BY <1>6, <1>7 DEF EnterServing

\* semaphore_enter_raw() of a task that kept its place in the queue.
LEMMA RequeueStep ==
    ASSUME WaitInv, NEW t \in Tasks, EnterRequeue(t)
    PROVE  WaitInv'
<1> USE DEF WaitInv, user, history, ipc
<1>1. /\ sys.pid = t /\ sys.slot = NoSlot /\ sys.op \in {"enter", "enter_timeout"}
      /\ MySlot(t) # NoSlot
    BY DEF EnterRequeue, EnterCall, InCall
<1>2. /\ MySlot(t) \in Slots /\ waiters[MySlot(t)].sem = sys.sem
      /\ waiters[MySlot(t)].pid = t /\ ~waiters[MySlot(t)].granted
    BY <1>1, FindFacts DEF EnterRequeue, MySlot, Granted
<1>3. sys \in [pid: Tasks, op: Ops \cup {"exiting"}, sem: Sems, slot: {NoSlot}]
    BY <1>1, SlotTypes, ConstantsAssumption DEF TypeOK, Calls, NoCall
<1>4. /\ sys' \in Calls /\ sys'.pid = t /\ sys'.sem = sys.sem /\ sys'.slot = MySlot(t)
    BY <1>1, <1>2, <1>3 DEF EnterRequeue, Calls
<1>5. UNCHANGED <<task, oncpu, stage, ipc, sem, waiters, waiter_seq, want, holds,
                  permits, orphans, ahead, wrapped>>
    BY DEF EnterRequeue
<1>6. TypeOK'
    BY <1>4, <1>5 DEF TypeOK
<1>7. SlotsOfSems' /\ OneSlot' /\ SleepToken' /\ QueuedMeansTaken' /\ DeadIsStaged'
      /\ GrantedIsAwake' /\ SleeperIsQueued'
    BY <1>5 DEF SlotsOfSems, OneSlot, SleepToken, QueuedMeansTaken, DeadIsStaged,
       GrantedIsAwake, SleeperIsQueued, sem_valid_idx, sem_occupied, Live, HasSlot, Whole
<1>8. SlotOwner'
    BY <1>1, <1>5, SlotTypes DEF SlotOwner
<1>9. CallsOfAwake'
    BY <1>1, <1>4, <1>5 DEF CallsOfAwake
<1>10. WindowInv'
    <2>1. \A i \in Slots : waiters[i].pid = t /\ waiters[i].sem = sys.sem => i = MySlot(t)
        BY <1>1, <1>2, CallerFacts, SlotTypes DEF OneSlot
    <2> QED BY <1>2, <1>4, <1>5, <2>1 DEF WindowInv
<1>11. HandlerInv'
    BY <1>1, <1>5, SlotTypes DEF HandlerInv, TypeOK
<1>12. CallSlot'
    BY <1>2, <1>4, <1>5 DEF CallSlot
<1> QED BY <1>6, <1>7, <1>8, <1>9, <1>10, <1>11, <1>12

\* The park of semaphore_enter_raw(), after the unlocked window.
LEMMA ParkStep ==
    ASSUME WaitInv, NEW t \in Tasks, EnterPark(t)
    PROVE  WaitInv'
<1> USE DEF WaitInv, user, history, ipc
<1> DEFINE timed == sys.op = "enter_timeout"
           q == Block(task[t], sys.sem, timed)
<1>1. /\ sys.pid = t /\ sys.slot # NoSlot
      /\ Return(t, Looping)
      /\ UNCHANGED <<stage, ipc, sem, waiters, waiter_seq, holds, permits, ahead, wrapped>>
    BY DEF EnterPark, InWindow
<1>2. /\ sys.sem \in Sems /\ sys.sem # 0 /\ sys.sem \in Token /\ sys.sem # Generic
      /\ task[t].state # "BLOCK" /\ sys.slot \in Slots
      /\ \A i \in Slots : waiters[i].pid = t =>
            waiters[i].sem # 0 /\ waiters[i].sem \in {sys.sem, main[t].sem}
    BY <1>1, CallerFacts, SlotTypes DEF TypeOK, Calls, NoCall
<1>0. /\ t \in handler => stage[t] # "alive"
      /\ Whole(t) => \A i \in Slots : waiters[i].pid = t => waiters[i].sem = sys.sem
    <2>1. t \in handler => stage[t] # "alive" /\ t \in Servers
        BY ConstantsAssumption DEF EnterPark, proc_ipc_sync_serving, HandlerInv, DeadIsStaged
    <2>2. t \notin handler => main[t].sem = 0
        BY DEF HandlerInv, NoWait
    <2> QED BY <1>2, <2>1, <2>2 DEF Whole
<1>3. task[t] \in TaskRecord(Token) /\ task \in [Tasks -> TaskRecord(Token)]
    BY DEF TypeOK
<1>4. /\ q \in TaskRecord(Token)
      /\ q.state = "ZOMBIE" => task[t].state = "ZOMBIE"
      /\ q.state = "BLOCK" => q.block_by = sys.sem /\ ~Armed(task[t])
    BY <1>2, <1>3, BlockFacts
<1>5. task' = [task EXCEPT ![t] = q]
      /\ oncpu' = IF task'[t].state = "BLOCK" THEN oncpu \ {t} ELSE oncpu
    BY DEF EnterPark, proc_block_by, proc_block_by_timeout
<1> HIDE DEF q
<1>6. /\ task'[t] = q /\ \A u \in Tasks \ {t} : task'[u] = task[u]
      /\ q.state = "BLOCK" => ~Latched(t)
    BY <1>3, <1>4, <1>5 DEF Armed, Latched
<1>7. /\ sys' = NoCall /\ sys'.pid = NoTask /\ sys'.slot = NoSlot
      /\ want' = [want EXCEPT ![t] = Looping] /\ Looping.sem = sys.sem
      /\ sys' \in Calls /\ want' \in [Tasks -> Waits] /\ orphans' \subseteq Tasks
    BY <1>1, ReturnFacts, LoopFacts DEF NoCall
<1>8. TypeOK'
    BY <1>1, <1>3, <1>4, <1>5, <1>7 DEF TypeOK
<1>9. SlotsOfSems' /\ OneSlot' /\ QueuedMeansTaken'
    BY <1>1 DEF SlotsOfSems, OneSlot, QueuedMeansTaken, sem_valid_idx, sem_occupied
<1>10. SlotOwner'
    <2> SUFFICES ASSUME NEW i \in Slots, waiters[i].sem # 0
                 PROVE  \/ want'[waiters[i].pid].sem = waiters[i].sem
                        \/ main[waiters[i].pid].sem = waiters[i].sem
        BY <1>1 DEF SlotOwner
    <2>1. want \in [Tasks -> Waits]
        BY DEF TypeOK
    <2>2. CASE waiters[i].pid = t
        BY <1>2, <1>7, <2>1, <2>2
    <2>3. CASE waiters[i].pid # t
        BY <1>1, <1>7, <2>1, <2>3 DEF SlotOwner, SlotsOfSems
    <2> QED BY <2>2, <2>3
<1>11. CallsOfAwake'
    <2>1. \A u \in oncpu' : task'[u].state # "BLOCK"
        BY <1>5, <1>6 DEF CallsOfAwake, TypeOK
    <2> QED BY <1>7, <2>1 DEF CallsOfAwake
<1>12. SleepToken'
    BY <1>0, <1>1, <1>2, <1>4, <1>6 DEF SleepToken, SlotsOfSems, Whole
<1>13. DeadIsStaged'
    BY <1>1, <1>4, <1>6 DEF DeadIsStaged, Live, proc_get
<1>14. WindowInv' /\ CallSlot'
    BY <1>7 DEF WindowInv, CallSlot
<1>15. GrantedIsAwake'
    <2> SUFFICES ASSUME NEW i \in Slots, waiters[i].granted, Whole(waiters[i].pid)
                 PROVE  task'[waiters[i].pid].state # "BLOCK"
        BY <1>1 DEF GrantedIsAwake, Whole
    <2>1. waiters[i].pid \in Tasks
        BY DEF SlotsOfSems
    <2> QED BY <1>0, <1>1, <1>6, <2>1 DEF GrantedIsAwake, WindowInv
<1>16. SleeperIsQueued'
    <2> SUFFICES ASSUME NEW u \in Tasks, NEW s \in Sems, stage[u] = "alive",
                        task'[u].state = "BLOCK", task'[u].block_by = s
                 PROVE  \E i \in Slots : waiters[i].sem = s /\ waiters[i].pid = u
        BY <1>1 DEF SleeperIsQueued, HasSlot
    <2>1. CASE u = t
        BY <1>1, <1>2, <1>4, <1>6, <2>1 DEF WindowInv
    <2>2. CASE u # t
        BY <1>6, <2>2 DEF SleeperIsQueued, HasSlot
    <2> QED BY <2>1, <2>2
<1>17. HandlerInv'
    BY <1>0, <1>1, <1>6 DEF HandlerInv, TypeOK
<1> QED BY <1>8, <1>9, <1>10, <1>11, <1>12, <1>13, <1>14, <1>15, <1>16, <1>17

\* sem_waiter_add_locked(): a new place at the tail of a queue.
LEMMA QueueStep ==
    ASSUME WaitInv, NEW t \in Tasks, EnterQueue(t)
    PROVE  WaitInv'
<1> USE DEF WaitInv, user, history, ipc
<1> DEFINE k == sem_waiter_free
           new == [sem |-> sys.sem, pid |-> t, seq |-> waiter_seq, granted |-> FALSE]
<1>1. /\ sys.pid = t /\ sys.slot = NoSlot /\ sys.op \in {"enter", "enter_timeout"}
      /\ MySlot(t) = NoSlot /\ k # NoSlot
      /\ sem_valid_idx(sys.sem) /\ sem_occupied(sys.sem)
    BY DEF EnterQueue, EnterCall, InCall
<1>2. k \in Slots /\ waiters[k].sem = 0
    BY <1>1, FreeFacts
<1>3. /\ sys.sem \in Sems /\ sys.sem # 0 /\ task[t].state # "BLOCK"
      /\ \A i \in Slots : ~(waiters[i].pid = t /\ waiters[i].sem = sys.sem)
    <2>1. sys.sem \in Sems /\ sys.sem # 0 /\ task[t].state # "BLOCK"
        BY <1>1, CallerFacts, SlotTypes
    <2>2. \A i \in Slots : ~(waiters[i].sem = sys.sem /\ waiters[i].pid = t)
        BY <1>1, FindFacts, SlotTypes DEF MySlot
    <2> QED BY <2>1, <2>2
<1>4. sys \in [pid: Tasks, op: Ops \cup {"exiting"}, sem: Sems, slot: {NoSlot}]
    BY <1>1, SlotTypes, ConstantsAssumption DEF TypeOK, Calls, NoCall
<1>5. sys' = [sys EXCEPT !.slot = k]
    BY DEF EnterQueue
<1>6. sys' \in Calls /\ sys'.pid = t /\ sys'.sem = sys.sem /\ sys'.slot = k
    <2> HIDE DEF k
    <2> QED BY <1>1, <1>2, <1>4, <1>5 DEF Calls
<1>7. /\ waiters' = [waiters EXCEPT ![k] = new]
      /\ waiter_seq' = (waiter_seq + 1) % SEQ_MOD
      /\ ahead' = [ahead EXCEPT ![k] = {waiters[i].pid : i \in Queue(waiters, sys.sem)}]
      /\ wrapped' \in BOOLEAN
      /\ UNCHANGED <<task, oncpu, stage, ipc, sem, want, holds, permits, orphans>>
    BY DEF EnterQueue, TypeOK
<1>8. waiters \in [Slots -> Waiters] /\ new \in Waiters
    BY <1>3 DEF TypeOK, Waiters
<1>9. new.sem = sys.sem /\ new.pid = t /\ ~new.granted
    OBVIOUS
<1> HIDE DEF k, new
<1>10. waiters'[k] = new /\ \A i \in Slots \ {k} : waiters'[i] = waiters[i]
    BY <1>2, <1>7, <1>8
<1>11. TypeOK'
    <2>1. waiter_seq' \in 0 .. SEQ_MOD - 1
        BY <1>7, ConstantsAssumption DEF TypeOK
    <2>2. {waiters[i].pid : i \in Queue(waiters, sys.sem)} \subseteq Tasks
        BY <1>3 DEF Queue, SlotsOfSems
    <2>3. ahead' \in [Slots -> SUBSET Tasks]
        BY <1>2, <1>7, <2>2 DEF TypeOK
    <2>4. waiters' \in [Slots -> Waiters]
        BY <1>2, <1>7, <1>8
    <2> QED BY <1>6, <1>7, <2>1, <2>3, <2>4 DEF TypeOK
<1>12. SlotsOfSems'
    <2> SUFFICES ASSUME NEW i \in Slots
                 PROVE  IF waiters'[i].sem = 0
                        THEN waiters'[i].pid = NoTask /\ ~waiters'[i].granted
                        ELSE waiters'[i].pid \in Tasks /\ sem[waiters'[i].sem].creater # NoTask
        BY <1>7 DEF SlotsOfSems, sem_valid_idx
    <2>1. CASE i = k
        BY <1>1, <1>3, <1>9, <1>10, <2>1 DEF sem_valid_idx
    <2>2. CASE i # k
        <3>1. waiters'[i] = waiters[i]
            BY <1>10, <2>2
        <3> QED BY <3>1 DEF SlotsOfSems, sem_valid_idx
    <2> QED BY <2>1, <2>2
<1>13. SlotOwner'
    BY <1>1, <1>6, <1>7, <1>9, <1>10, SlotTypes DEF SlotOwner
<1>14. OneSlot'
    BY <1>2, <1>3, <1>9, <1>10 DEF OneSlot
<1>15. CallsOfAwake'
    BY <1>1, <1>6, <1>7 DEF CallsOfAwake
<1>16. SleepToken'
    BY <1>3, <1>7, <1>9, <1>10 DEF SleepToken, Whole
<1>17. QueuedMeansTaken'
    BY <1>1, <1>7, <1>9, <1>10 DEF QueuedMeansTaken, sem_occupied
<1>18. DeadIsStaged'
    BY <1>7 DEF DeadIsStaged, Live
<1>19. WindowInv' /\ CallSlot'
    BY <1>2, <1>3, <1>6, <1>9, <1>10 DEF WindowInv, CallSlot
<1>20. GrantedIsAwake'
    BY <1>7, <1>9, <1>10 DEF GrantedIsAwake, Whole
<1>21. SleeperIsQueued'
    <2> SUFFICES ASSUME NEW u \in Tasks, NEW s \in Sems, stage[u] = "alive",
                        task[u].state = "BLOCK", task[u].block_by = s
                 PROVE  \E i \in Slots : waiters'[i].sem = s /\ waiters'[i].pid = u
        BY <1>7 DEF SleeperIsQueued, HasSlot
    <2>1. PICK i \in Slots : waiters[i].sem = s /\ waiters[i].pid = u
        BY DEF SleeperIsQueued, HasSlot
    <2>2. i # k
        BY <1>2, <2>1, SlotTypes
    <2> QED BY <1>10, <2>1, <2>2
<1>22. HandlerInv'
    <2> SUFFICES ASSUME NEW u \in handler, stage[u] = "alive", NEW i \in Slots,
                        waiters'[i].pid = u
                 PROVE  main[u].sem = waiters'[i].sem \/ (sys'.pid = u /\ sys'.slot = i)
        BY <1>7 DEF HandlerInv
    <2>1. CASE i = k
        BY <1>6, <1>9, <1>10, <2>1
    <2>2. CASE i # k
        BY <1>1, <1>10, <2>2, SlotTypes DEF HandlerInv
    <2> QED BY <2>1, <2>2
<1> QED BY <1>11, <1>12, <1>13, <1>14, <1>15, <1>16, <1>17, <1>18, <1>19, <1>20, <1>21, <1>22

-----------------------------------------------------------------------------
(* semaphore_free and semaphore_clear.                                     *)

\* Purging the queues of S rouses every task it removes from them.
LEMMA PurgeFacts ==
    ASSUME WaitInv, NEW S \in SUBSET Sems
    PROVE  /\ sem_waiter_purge(S) \in [Tasks -> TaskRecord(Token)]
           /\ \A t \in Tasks :
                 \/ /\ sem_waiter_purge(S)[t] = task[t]
                    /\ \A i \in Slots : ~(waiters[i].sem \in S /\ waiters[i].pid = t)
                 \/ \E i \in Slots :
                      /\ waiters[i].sem \in S /\ waiters[i].pid = t
                      /\ sem_waiter_purge(S)[t] = proc_wakeup_by(task[t], waiters[i].sem)
                      /\ \A j \in Slots : waiters[j].sem \in S /\ waiters[j].pid = t
                            /\ waiters[j].sem = task[t].block_by => waiters[i].sem = waiters[j].sem
<1>1. ASSUME NEW t \in Tasks
      PROVE  \/ /\ sem_waiter_purge(S)[t] = task[t]
                /\ \A i \in Slots : ~(waiters[i].sem \in S /\ waiters[i].pid = t)
             \/ \E i \in Slots :
                  /\ waiters[i].sem \in S /\ waiters[i].pid = t
                  /\ sem_waiter_purge(S)[t] = proc_wakeup_by(task[t], waiters[i].sem)
                  /\ \A j \in Slots : waiters[j].sem \in S /\ waiters[j].pid = t
                        /\ waiters[j].sem = task[t].block_by => waiters[i].sem = waiters[j].sem
    <2> DEFINE T == {s \in S : \E i \in Slots : waiters[i].sem = s /\ waiters[i].pid = t}
    <2>1. sem_waiter_purge(S)[t] = WakeBy(task[t], T)
        BY DEF sem_waiter_purge
    <2>2. CASE T = {}
        <3>1. sem_waiter_purge(S)[t] = task[t]
            <4> HIDE DEF T
            <4> QED BY <2>1, <2>2, WakeByFacts
        <3> QED BY <2>2, <3>1
    <2>3. CASE T # {}
        <3>1. PICK s \in T : /\ sem_waiter_purge(S)[t] = proc_wakeup_by(task[t], s)
                             /\ task[t].block_by \in T => s = task[t].block_by
            <4> HIDE DEF T
            <4>1. \E s \in T : /\ WakeBy(task[t], T) = proc_wakeup_by(task[t], s)
                               /\ task[t].block_by \in T => s = task[t].block_by
                BY <2>3 DEF WakeBy
            <4> QED BY <2>1, <4>1
        <3>2. PICK i \in Slots : waiters[i].sem = s /\ waiters[i].pid = t /\ s \in S
            BY <3>1
        <3> QED BY <3>1, <3>2
    <2> QED BY <2>2, <2>3
<1>2. \A t \in Tasks : sem_waiter_purge(S)[t] \in TaskRecord(Token)
    <2>1. \A t \in Tasks : task[t] \in TaskRecord(Token)
        BY DEF WaitInv, TypeOK
    <2>2. \A s \in S : s \in Token
        BY SlotTypes
    <2>3. \A t \in Tasks, s \in S : proc_wakeup_by(task[t], s) \in TaskRecord(Token)
        BY <2>1, <2>2, WakeFacts
    <2> QED BY <1>1, <2>1, <2>3
<1>3. sem_waiter_purge(S) \in [Tasks -> TaskRecord(Token)]
    BY <1>2 DEF sem_waiter_purge
<1> QED BY <1>1, <1>3

\* sem_reset() of any set of semaphores: queues purged, waiters woken.
LEMMA ResetStep ==
    ASSUME WaitInv, NEW S \in SUBSET Sems, sem_reset(S),
           ahead' = Tidy(ahead, waiters'),
           \/ UNCHANGED <<sys, stage>>
           \/ UNCHANGED stage /\ sys' = NoCall
           \/ UNCHANGED sys /\ stage' \in [Tasks -> Stages]
              /\ \A t \in Tasks : stage'[t] = "alive" => stage[t] = "alive",
           sys.slot # NoSlot => sys' = sys,
           UNCHANGED <<oncpu, ipc, waiter_seq, want, wrapped>>
    PROVE  WaitInv'
<1> USE DEF WaitInv
<1>1. /\ \A i \in Slots : waiters'[i] = IF waiters[i].sem \in S THEN FreeSlot ELSE waiters[i]
      /\ task' = sem_waiter_purge(S)
      /\ \A s \in Sems : sem'[s] = IF s \in S THEN FreeSem ELSE sem[s]
    BY DEF sem_reset
<1>2. /\ sys' \in Calls /\ stage' \in [Tasks -> Stages]
      /\ (sys' = sys \/ (sys' = NoCall /\ sys'.pid = NoTask))
      /\ \A t \in Tasks : stage'[t] = "alive" => stage[t] = "alive"
    BY DEF TypeOK, Calls, NoCall
<1>3. TypeOK'
    <2>1. waiters' \in [Slots -> Waiters]
        BY ConstantsAssumption DEF sem_reset, TypeOK, FreeSlot, Waiters
    <2>2. sem' \in [Sems -> Semaphores]
        BY ConstantsAssumption DEF sem_reset, TypeOK, FreeSem, Semaphores
    <2>3. holds' \in [Tasks -> SUBSET Sems] /\ permits' \in [Sems -> Int]
        BY DEF sem_reset, TypeOK
    <2>4. orphans' \subseteq Tasks
        BY SlotTypes DEF sem_reset, TypeOK, SlotsOfSems
    <2>5. ahead' \in [Slots -> SUBSET Tasks]
        BY TidyType DEF TypeOK
    <2>6. task' \in [Tasks -> TaskRecord(Token)]
        BY <1>1, PurgeFacts
    <2> QED BY <1>2, <2>1, <2>2, <2>3, <2>4, <2>5, <2>6 DEF TypeOK, ipc
<1>4. \A i \in Slots : waiters'[i].sem # 0 =>
          waiters'[i] = waiters[i] /\ waiters[i].sem \in Sems \ S
          /\ sem'[waiters[i].sem] = sem[waiters[i].sem]
    BY <1>1 DEF FreeSlot, TypeOK, Waiters
<1>5. SlotsOfSems'
    BY <1>1, <1>4 DEF SlotsOfSems, sem_valid_idx, FreeSlot
<1>6. SlotOwner'
    BY <1>2, <1>4, SlotTypes DEF SlotOwner, TypeOK, Calls, NoCall, ipc
<1>7. QueuedMeansTaken'
    BY <1>4 DEF QueuedMeansTaken, sem_occupied
<1>8. \A t \in Tasks :
          /\ task'[t].state = "ZOMBIE" <=> task[t].state = "ZOMBIE"
          /\ task'[t].state = "BLOCK" => task'[t] = task[t]
          /\ task[t].state # "BLOCK" /\ Armed(task[t]) => Armed(task'[t])
    <2> SUFFICES ASSUME NEW t \in Tasks
                 PROVE  /\ task'[t].state = "ZOMBIE" <=> task[t].state = "ZOMBIE"
                        /\ task'[t].state = "BLOCK" => task'[t] = task[t]
                        /\ task[t].state # "BLOCK" /\ Armed(task[t]) => Armed(task'[t])
        OBVIOUS
    <2>1. CASE task'[t] = task[t]
        BY <2>1
    <2>2. CASE \E s \in S : task'[t] = proc_wakeup_by(task[t], s)
        <3>1. PICK s \in S : task'[t] = proc_wakeup_by(task[t], s)
            BY <2>2
        <3>2. s \in Token /\ task[t] \in TaskRecord(Token)
            BY SlotTypes DEF TypeOK
        <3> QED BY <3>1, <3>2, WakeFacts
    <2> QED BY <1>1, <2>1, <2>2, PurgeFacts
<1>9. CallsOfAwake'
    <2>1. sys.pid \in Tasks \cup {NoTask} /\ oncpu \subseteq Tasks
        BY DEF TypeOK, Calls, NoCall
    <2>2. \A t \in Tasks : task[t].state # "BLOCK" => task'[t].state # "BLOCK"
        BY <1>8
    <2> QED BY <1>2, <2>1, <2>2 DEF CallsOfAwake
<1>10. \A i \in Slots : waiters[i].sem \in S =>
           \/ stage'[waiters[i].pid] # "alive"
           \/ Roused(waiters[i].pid)
    <2> SUFFICES ASSUME NEW i \in Slots, waiters[i].sem \in S,
                        stage'[waiters[i].pid] = "alive"
                 PROVE  Roused(waiters[i].pid)
        OBVIOUS
    <2> DEFINE u == waiters[i].pid
               s == waiters[i].sem
    <2>1. /\ u \in Tasks /\ s # 0 /\ s # Generic /\ s \in Token
          /\ task[u] \in TaskRecord(Token) /\ task[u].state # "ZOMBIE"
        BY <1>2, SlotTypes DEF SlotsOfSems, TypeOK, Generic, DeadIsStaged, Live, proc_get
    <2>2. PICK j \in Slots : /\ waiters[j].sem \in S /\ waiters[j].pid = u
                             /\ task'[u] = proc_wakeup_by(task[u], waiters[j].sem)
                             /\ s = task[u].block_by => waiters[j].sem = s
        BY <1>1, <2>1, PurgeFacts
    <2> DEFINE r == waiters[j].sem
    <2>7. r \in Token /\ r # Generic /\ task'[u] = proc_wakeup_by(task[u], r)
          /\ (s = task[u].block_by => r = s)
        BY <2>2, SlotTypes
    <2>3. task[u].state = "BLOCK" => task[u].block_by = s
        BY <1>2, <2>1 DEF SleepToken, Whole
    <2> HIDE DEF r
    <2>4. task'[u].state # "BLOCK"
        BY <2>1, <2>7, <2>3, WakeFacts, <1>8
    <2>5. sys'.slot # NoSlot /\ sys'.pid = u => Armed(task'[u])
        <3> SUFFICES ASSUME sys'.slot # NoSlot, sys'.pid = u
                     PROVE  Armed(task'[u])
            OBVIOUS
        <3>1. sys.pid = u /\ sys.pid # NoTask
            BY <1>2, <2>1, ConstantsAssumption DEF NoCall
        <3>2. task[u].state # "BLOCK"
            BY <3>1 DEF CallsOfAwake
        <3> HIDE DEF u, s
        <3> QED BY <2>1, <2>7, <3>2, WakeFacts
    <2> QED BY <2>4, <2>5 DEF Roused
<1>11. Calm
    <2>1. \A i \in Slots : \/ waiters'[i] = waiters[i]
                           \/ /\ waiters'[i] = FreeSlot
                              /\ \/ stage'[waiters[i].pid] # "alive"
                                 \/ Roused(waiters[i].pid)
        BY <1>1, <1>10
    <2>2. sys'.slot # NoSlot => sys' = sys /\ (Latched(sys.pid) => Latched(sys.pid)')
        <3> SUFFICES ASSUME sys'.slot # NoSlot
                     PROVE  sys' = sys /\ (Latched(sys.pid) => Latched(sys.pid)')
            OBVIOUS
        <3>1. sys' = sys /\ sys.pid \in Tasks /\ sys.pid # NoTask
            BY <1>2, ConstantsAssumption DEF TypeOK, Calls, NoCall
        <3>2. task[sys.pid].state # "BLOCK"
            BY <3>1 DEF CallsOfAwake
        <3> QED BY <1>8, <3>1, <3>2 DEF Latched, Armed
    <2>3. \A t \in Tasks : stage'[t] = "alive" => stage[t] = "alive" /\ Live(t)'
        BY <1>2, <1>8 DEF DeadIsStaged, Live, proc_get
    <2> QED BY <1>8, <2>1, <2>2, <2>3 DEF Calm
<1>12. HandlerInv'
    BY <1>5, <1>11, KeepHandlers
<1> QED BY <1>3, <1>5, <1>6, <1>7, <1>9, <1>11, <1>12, CalmStep

\* semaphore_free().
LEMMA FreeStep ==
    ASSUME WaitInv, NEW t \in Tasks, semaphore_free(t)
    PROVE  WaitInv'
<1>1. /\ sys.pid = t /\ sys.slot = NoSlot /\ sys' = NoCall
      /\ ahead' = Tidy(ahead, waiters')
      /\ UNCHANGED <<oncpu, stage, ipc, waiter_seq, want, wrapped>>
    BY DEF semaphore_free, InCall
<1>2. {sys.sem} \in SUBSET Sems
    BY <1>1, CallerFacts
<1>3. CASE sem_reset({sys.sem})
    BY <1>1, <1>2, <1>3, ResetStep
<1>4. CASE UNCHANGED <<sem, waiters, task, holds, permits, orphans>>
    <2>1. TypeOK'
        BY <1>1, <1>4, TidyType DEF WaitInv, TypeOK, Calls, ipc
    <2>2. CallsOfAwake'
        BY <1>1, <1>4 DEF WaitInv, CallsOfAwake, NoCall
    <2>3. sys'.slot = NoSlot
        BY <1>1 DEF NoCall
    <2>4. \A u \in Tasks : stage'[u] = "alive" => stage[u] = "alive" /\ Live(u)'
        BY <1>1, <1>4 DEF WaitInv, DeadIsStaged, Live
    <2> QED BY <1>1, <1>4, <2>1, <2>2, <2>3, <2>4, QuietStep
<1> QED BY <1>3, <1>4 DEF semaphore_free

\* semaphore_clear(), in the teardown of a PROC.
LEMMA ClearStep ==
    ASSUME WaitInv, NEW p \in Tasks, semaphore_clear(p)
    PROVE  WaitInv'
<1> DEFINE S == {s \in Sems : sem[s].creater = p}
<1>1. /\ sem_reset(S) /\ S \in SUBSET Sems /\ stage[p] = "zombie"
      /\ stage' = [stage EXCEPT ![p] = "reset"]
      /\ ahead' = Tidy(ahead, waiters')
      /\ UNCHANGED <<oncpu, ipc, waiter_seq, sys, want, wrapped>>
    BY DEF semaphore_clear
<1>2. /\ stage' \in [Tasks -> Stages]
      /\ \A t \in Tasks : stage'[t] = "alive" => stage[t] = "alive"
    BY <1>1 DEF WaitInv, TypeOK, Stages
<1> HIDE DEF S
<1> QED BY <1>1, <1>2, ResetStep

-----------------------------------------------------------------------------
(* semaphore_quit and semaphore_clear_occupied.                            *)

\* A permit handed over is one permit less.
LEMMA HandoffSemFacts ==
    ASSUME NEW w \in [Slots -> Waiters], NEW s, NEW c \in Semaphores, c.count > 0
    PROVE  LET d == HandoffSem(w, s, c) IN
           /\ d \in Semaphores /\ d.creater = c.creater
           /\ HandoffSlot(w, s) # NoSlot => d.count = c.count - 1
<1>1. CASE HandoffSlot(w, s) = NoSlot
    BY <1>1 DEF HandoffSem
<1>2. CASE HandoffSlot(w, s) # NoSlot
    <2> DEFINE n == c.count - 1
               o == IF c.max_count = 1 THEN w[HandoffSlot(w, s)].pid ELSE c.occupied_pid
    <2>1. HandoffSlot(w, s) \in Slots
        BY <1>2, HandoffSlotFacts DEF Queue
    <2>2. n \in Nat /\ o \in Tasks \cup {NoTask}
        BY <2>1 DEF Semaphores, Waiters
    <2>3. HandoffSem(w, s, c) = [c EXCEPT !.count = n, !.occupied_pid = o]
        BY <1>2 DEF HandoffSem, Semaphores
    <2> HIDE DEF n, o
    <2>4. HandoffSem(w, s, c) \in Semaphores /\ HandoffSem(w, s, c).creater = c.creater
          /\ HandoffSem(w, s, c).count = n
        BY <2>2, <2>3 DEF Semaphores
    <2> QED BY <2>4 DEF n
<1> QED BY <1>1, <1>2

\* A step that gives permits of S to the table w, which is the wait table, maybe
\* without the slots of a dying task d.
LEMMA HandoffStep ==
    ASSUME WaitInv, NEW S \in SUBSET Sems, NEW w \in [Slots -> Waiters], NEW d \in Tasks,
           \A i \in Slots : \/ w[i] = waiters[i]
                            \/ w[i] = FreeSlot /\ waiters[i].pid = d /\ stage'[d] # "alive",
           waiters' = HandoffWaiters(w, S), task' = HandoffTask(w, S),
           sem' \in [Sems -> Semaphores],
           \A s \in Sems : sem'[s].creater = sem[s].creater,
           \A s \in Sems : sem[s].count = 0 /\ (s \in S => HandoffSlot(w, s) # NoSlot)
                           => sem'[s].count = 0,
           stage' \in [Tasks -> Stages],
           \A t \in Tasks : stage'[t] = "alive" => stage[t] = "alive",
           sys' = sys \/ (sys' = NoCall /\ sys.slot = NoSlot),
           holds' \in [Tasks -> SUBSET Sems], permits' \in [Sems -> Int],
           ahead' = Tidy(ahead, waiters'),
           UNCHANGED <<oncpu, ipc, waiter_seq, want, orphans, wrapped>>
    PROVE  WaitInv'
<1> USE DEF WaitInv
<1>1. \A i \in Slots : w[i].sem # 0 => w[i] = waiters[i] /\ w[i].pid \in Tasks
    BY DEF FreeSlot, SlotsOfSems
<1>3. /\ waiters' \in [Slots -> Waiters]
      /\ \A i \in Slots :
            \/ ~Selected(w, S, i) /\ waiters'[i] = w[i]
            \/ /\ ~Selected(w, S, i) /\ waiters'[i] = FreeSlot
               /\ w[i].sem \in S /\ ~Live(w[i].pid)
            \/ /\ Selected(w, S, i) /\ Live(w[i].pid) /\ ~w[i].granted
               /\ waiters'[i] = [w[i] EXCEPT !.granted = TRUE]
      /\ \A t \in Tasks :
            \/ task'[t] = task[t] /\ ~\E i \in Slots : Selected(w, S, i) /\ w[i].pid = t
            \/ \E i \in Slots : /\ Selected(w, S, i) /\ w[i].pid = t
                                /\ task'[t] = proc_wakeup_by(task[t], w[i].sem)
      /\ \A s \in S : HandoffSlot(w, s) = NoSlot =>
            \A i \in Slots : ~(waiters'[i].sem = s /\ ~waiters'[i].granted)
    BY HandoffFacts
<1>4. \A i \in Slots : Selected(w, S, i) => w[i].sem \in S /\ w[i].sem # 0
    BY SlotTypes DEF Selected
<1>5. \A t \in Tasks :
          /\ task'[t] \in TaskRecord(Token)
          /\ task'[t].state = "ZOMBIE" <=> task[t].state = "ZOMBIE"
          /\ task'[t].state = "BLOCK" => task'[t] = task[t]
          /\ task[t].state # "BLOCK" /\ Armed(task[t]) => Armed(task'[t])
    <2> SUFFICES ASSUME NEW t \in Tasks
                 PROVE  /\ task'[t] \in TaskRecord(Token)
                        /\ task'[t].state = "ZOMBIE" <=> task[t].state = "ZOMBIE"
                        /\ task'[t].state = "BLOCK" => task'[t] = task[t]
                        /\ task[t].state # "BLOCK" /\ Armed(task[t]) => Armed(task'[t])
        OBVIOUS
    <2>1. task[t] \in TaskRecord(Token)
        BY DEF TypeOK
    <2>2. CASE task'[t] = task[t]
        BY <2>1, <2>2
    <2>3. CASE \E s \in S : task'[t] = proc_wakeup_by(task[t], s)
        <3>1. PICK s \in S : task'[t] = proc_wakeup_by(task[t], s)
            BY <2>3
        <3>2. s \in Token
            BY SlotTypes
        <3> QED BY <2>1, <3>1, <3>2, WakeFacts
    <2> QED BY <1>3, <1>4, <2>2, <2>3
<1>6. TypeOK'
    <2>1. task' \in [Tasks -> TaskRecord(Token)]
        BY <1>5 DEF HandoffTask
    <2>2. sys' \in Calls /\ ahead' \in [Slots -> SUBSET Tasks]
        BY TidyType DEF TypeOK, Calls
    <2> QED BY <1>3, <2>1, <2>2 DEF TypeOK, ipc
<1>7. \A i \in Slots : waiters'[i].sem # 0 =>
          /\ waiters'[i].sem = waiters[i].sem /\ waiters'[i].pid = waiters[i].pid
          /\ waiters[i].pid \in Tasks /\ waiters[i].sem \in Sems
          /\ ~waiters'[i].granted => waiters'[i] = waiters[i]
    <2> SUFFICES ASSUME NEW i \in Slots, waiters'[i].sem # 0
                 PROVE  /\ waiters'[i].sem = waiters[i].sem
                        /\ waiters'[i].pid = waiters[i].pid
                        /\ waiters[i].pid \in Tasks /\ waiters[i].sem \in Sems
                        /\ ~waiters'[i].granted => waiters'[i] = waiters[i]
        OBVIOUS
    <2>1. waiters'[i] # FreeSlot /\ waiters[i] \in Waiters /\ w[i] \in Waiters
        BY DEF FreeSlot, TypeOK
    <2>2. CASE waiters'[i] = w[i]
        BY <1>1, <2>1, <2>2 DEF Waiters
    <2>3. CASE waiters'[i] = [w[i] EXCEPT !.granted = TRUE] /\ Selected(w, S, i)
        BY <1>1, <1>4, <2>1, <2>3 DEF Waiters
    <2> QED BY <1>3, <2>1, <2>2, <2>3
<1>8. SlotsOfSems'
    <2> SUFFICES ASSUME NEW i \in Slots
                 PROVE  IF waiters'[i].sem = 0
                        THEN waiters'[i].pid = NoTask /\ ~waiters'[i].granted
                        ELSE /\ waiters'[i].pid \in Tasks
                             /\ sem'[waiters'[i].sem].creater # NoTask
        BY DEF SlotsOfSems, sem_valid_idx
    <2>1. CASE waiters'[i].sem = 0
        <3>1. CASE waiters'[i] = FreeSlot
            BY <3>1 DEF FreeSlot
        <3>2. CASE waiters'[i] = w[i]
            BY <2>1, <3>2 DEF SlotsOfSems, FreeSlot
        <3>3. CASE waiters'[i] = [w[i] EXCEPT !.granted = TRUE] /\ Selected(w, S, i)
            BY <1>4, <2>1, <3>3 DEF Waiters
        <3> QED BY <1>3, <3>1, <3>2, <3>3
    <2>2. CASE waiters'[i].sem # 0
        BY <1>7, <2>2 DEF SlotsOfSems, sem_valid_idx
    <2> QED BY <2>1, <2>2
<1>9. SlotOwner'
    BY <1>7, SlotTypes DEF SlotOwner, ipc
<1>10. CallsOfAwake'
    <2>1. sys.pid \in Tasks \cup {NoTask} /\ oncpu \subseteq Tasks
          /\ (sys' = sys \/ sys'.pid = NoTask)
        BY DEF TypeOK, Calls, NoCall
    <2>2. \A t \in Tasks : task[t].state # "BLOCK" => task'[t].state # "BLOCK"
        BY <1>5
    <2> QED BY <2>1, <2>2 DEF CallsOfAwake
<1>11. QueuedMeansTaken'
    <2> SUFFICES ASSUME NEW i \in Slots, waiters'[i].sem # 0, ~waiters'[i].granted
                 PROVE  sem'[waiters'[i].sem].count = 0
        BY DEF QueuedMeansTaken, sem_occupied
    <2>1. waiters'[i] = waiters[i] /\ waiters[i].sem \in Sems
          /\ sem[waiters[i].sem].count = 0
        BY <1>7 DEF QueuedMeansTaken, sem_occupied
    <2>2. waiters[i].sem \in S => HandoffSlot(w, waiters[i].sem) # NoSlot
        BY <1>3, <2>1
    <2> QED BY <2>1, <2>2
<1>12. \A i \in Slots : Selected(w, S, i) => waiters[i].sem # 0 /\ Roused(waiters[i].pid)
    <2> SUFFICES ASSUME NEW i \in Slots, Selected(w, S, i)
                 PROVE  waiters[i].sem # 0 /\ Roused(waiters[i].pid)
        OBVIOUS
    <2> DEFINE u == waiters[i].pid
               s == waiters[i].sem
    <2>1. w[i] = waiters[i] /\ s \in S /\ s # 0 /\ u \in Tasks /\ Live(u)
        BY <1>1, <1>3, <1>4
    <2>2. s # Generic /\ s \in Token /\ task[u] \in TaskRecord(Token)
          /\ task[u].state # "ZOMBIE"
        BY <2>1, SlotTypes DEF TypeOK, Generic, Live, proc_get
    <2>7. PICK j \in Slots : /\ Selected(w, S, j) /\ w[j].pid = u
                            /\ task'[u] = proc_wakeup_by(task[u], w[j].sem)
        BY <1>3, <2>1
    <2> DEFINE r == w[j].sem
    <2>3. /\ w[j] = waiters[j] /\ r \in Token /\ r # Generic
          /\ task'[u] = proc_wakeup_by(task[u], r)
        BY <1>1, <1>4, <2>7, SlotTypes DEF Generic
    <2>4. Whole(u) /\ task[u].state = "BLOCK" => task[u].block_by = s /\ task[u].block_by = r
        BY <1>4, <2>1, <2>3, <2>7 DEF SleepToken
    <2> HIDE DEF r
    <2>5. (u \in Servers => stage'[u] = "alive") => task'[u].state # "BLOCK"
        <3>1. (u \in Servers => stage'[u] = "alive") => Whole(u)
            BY <2>1 DEF Whole, TypeOK
        <3> QED BY <2>2, <2>3, <2>4, <3>1, WakeFacts, <1>5, <2>1
    <2>6. sys'.slot # NoSlot /\ sys'.pid = u => Armed(task'[u])
        <3> SUFFICES ASSUME sys'.slot # NoSlot, sys'.pid = u
                     PROVE  Armed(task'[u])
            OBVIOUS
        <3>1. sys.pid = u /\ sys.pid # NoTask
            BY <2>1, ConstantsAssumption DEF NoCall
        <3>2. task[u].state # "BLOCK"
            BY <3>1 DEF CallsOfAwake
        <3> HIDE DEF u, s
        <3> QED BY <2>2, <2>3, <3>2, WakeFacts
    <2> QED BY <2>1, <2>5, <2>6 DEF Roused
<1>13. Calm
    <2>1. ASSUME NEW i \in Slots
          PROVE  \/ waiters'[i] = waiters[i]
                 \/ /\ waiters'[i] = FreeSlot
                    /\ waiters[i].sem # 0 => \/ stage'[waiters[i].pid] # "alive"
                                             \/ Roused(waiters[i].pid)
                 \/ /\ waiters'[i] = [waiters[i] EXCEPT !.granted = TRUE]
                    /\ waiters[i].sem # 0 /\ Roused(waiters[i].pid)
        <3>1. CASE waiters'[i] = w[i]
            BY <3>1
        <3>2. CASE waiters'[i] = FreeSlot /\ w[i].sem \in S /\ ~Live(w[i].pid)
            <4>1. w[i] = waiters[i] /\ w[i].pid \in Tasks
                BY <1>1, <3>2, SlotTypes
            <4>2. stage'[waiters[i].pid] # "alive"
                BY <3>2, <4>1 DEF DeadIsStaged
            <4> QED BY <3>2, <4>2
        <3>3. CASE Selected(w, S, i) /\ waiters'[i] = [w[i] EXCEPT !.granted = TRUE]
            BY <1>1, <1>4, <1>12, <3>3
        <3> QED BY <1>3, <3>1, <3>2, <3>3
    <2>2. sys'.slot # NoSlot => sys' = sys /\ (Latched(sys.pid) => Latched(sys.pid)')
        <3> SUFFICES ASSUME sys'.slot # NoSlot
                     PROVE  sys' = sys /\ (Latched(sys.pid) => Latched(sys.pid)')
            OBVIOUS
        <3>1. sys' = sys /\ sys.pid \in Tasks /\ sys.pid # NoTask
            BY ConstantsAssumption DEF TypeOK, Calls, NoCall
        <3>2. task[sys.pid].state # "BLOCK"
            BY <3>1 DEF CallsOfAwake
        <3> QED BY <1>5, <3>1, <3>2 DEF Latched, Armed
    <2>3. \A t \in Tasks : stage'[t] = "alive" => stage[t] = "alive" /\ Live(t)'
        BY <1>5 DEF DeadIsStaged, Live, proc_get
    <2> QED BY <1>5, <2>1, <2>2, <2>3 DEF Calm
<1>14. HandlerInv'
    BY <1>8, <1>13, KeepHandlers
<1> QED BY <1>6, <1>8, <1>9, <1>10, <1>11, <1>13, <1>14, CalmStep

\* semaphore_quit(): a permit comes back and is handed over.
LEMMA QuitStep ==
    ASSUME WaitInv, NEW t \in Tasks, semaphore_quit(t)
    PROVE  WaitInv'
<1> DEFINE s == sys.sem
           c == Returned(t, s)
<1>1. /\ sys.pid = t /\ sys.slot = NoSlot /\ sys' = NoCall /\ ahead' = Tidy(ahead, waiters')
      /\ holds' = [holds EXCEPT ![t] = @ \ {s}]
      /\ UNCHANGED <<oncpu, stage, ipc, waiter_seq, want, orphans, wrapped>>
    BY DEF semaphore_quit, InCall
<1>2. s \in Sems
    BY <1>1, CallerFacts
<1>3. /\ sem \in [Sems -> Semaphores] /\ sem[s] \in Semaphores
      /\ waiters \in [Slots -> Waiters] /\ holds' \in [Tasks -> SUBSET Sems]
      /\ permits \in [Sems -> Int] /\ stage \in [Tasks -> Stages]
    BY <1>1, <1>2 DEF WaitInv, TypeOK
<1>4. CASE UNCHANGED <<sem, waiters, task, permits>>
    <2>1. TypeOK'
        BY <1>1, <1>3, <1>4, TidyType DEF WaitInv, TypeOK, Calls, ipc
    <2>2. CallsOfAwake'
        BY <1>1, <1>4 DEF WaitInv, CallsOfAwake, NoCall
    <2>3. sys'.slot = NoSlot
        BY <1>1 DEF NoCall
    <2>4. \A u \in Tasks : stage'[u] = "alive" => stage[u] = "alive" /\ Live(u)'
        BY <1>1, <1>4 DEF WaitInv, DeadIsStaged, Live
    <2> QED BY <1>1, <1>4, <2>1, <2>2, <2>3, <2>4, QuietStep
<1>5. CASE /\ sem' = [sem EXCEPT ![s] = HandoffSem(waiters, s, c)]
           /\ waiters' = HandoffWaiters(waiters, {s})
           /\ task' = HandoffTask(waiters, {s})
           /\ permits' = [permits EXCEPT ![s] = @ + 1]
    <2>1. c \in Semaphores /\ c.creater = sem[s].creater /\ c.count = sem[s].count + 1
        <3> DEFINE n == sem[s].count + 1
                   o == IF sem_is_binary(s) /\ sem[s].occupied_pid = t
                        THEN NoTask ELSE sem[s].occupied_pid
        <3>1. n \in Nat /\ o \in Tasks \cup {NoTask}
            BY <1>3 DEF Semaphores
        <3>2. c = [sem[s] EXCEPT !.count = n, !.occupied_pid = o]
            BY <1>3 DEF Returned, Semaphores
        <3> HIDE DEF n, o, c
        <3>3. c \in Semaphores /\ c.creater = sem[s].creater /\ c.count = n
            BY <1>3, <3>1, <3>2 DEF Semaphores
        <3> QED BY <3>3 DEF n
    <2>2. sem[s].count \in Nat
        BY <1>3 DEF Semaphores
    <2> HIDE DEF s, c
    <2> DEFINE e == HandoffSem(waiters, s, c)
    <2>3. /\ e \in Semaphores /\ e.creater = sem[s].creater
          /\ HandoffSlot(waiters, s) # NoSlot => e.count = sem[s].count
        BY <1>3, <2>1, <2>2, HandoffSemFacts
    <2> HIDE DEF e
    <2>4. sem' = [sem EXCEPT ![s] = e]
        BY <1>5 DEF e
    <2>5. sem' \in [Sems -> Semaphores] /\ permits' \in [Sems -> Int]
        BY <1>2, <1>3, <1>5, <2>3, <2>4
    <2>6. \A r \in Sems : sem'[r].creater = sem[r].creater
        BY <1>2, <1>3, <2>3, <2>4
    <2>7. \A r \in Sems :
              sem[r].count = 0 /\ (r \in {s} => HandoffSlot(waiters, r) # NoSlot)
              => sem'[r].count = 0
        BY <1>2, <1>3, <2>3, <2>4
    <2>8. {s} \in SUBSET Sems
        BY <1>2
    <2> QED BY <1>1, <1>3, <1>5, <2>5, <2>6, <2>7, <2>8, HandoffStep
<1> QED BY <1>4, <1>5 DEF semaphore_quit

\* semaphore_clear_occupied(): a dead task's permits are recovered.
LEMMA ClearOccupiedStep ==
    ASSUME WaitInv, NEW t \in Tasks, semaphore_clear_occupied(t)
    PROVE  WaitInv'
<1> DEFINE S == GrantsOf(t) \cup OccupiedBy(t)
           w == [i \in Slots |-> IF waiters[i].pid = t THEN FreeSlot ELSE waiters[i]]
<1>1. /\ waiters' = HandoffWaiters(w, S)
      /\ sem' = [s \in Sems |-> IF s \in S THEN HandoffSem(w, s, Recovered(t, s))
                                ELSE sem[s]]
      /\ task' = HandoffTask(w, S) /\ ahead' = Tidy(ahead, waiters')
      /\ stage' = [stage EXCEPT ![t] = "gone"]
      /\ holds' = [holds EXCEPT ![t] = {}]
      /\ permits' = [s \in Sems |->
             IF s \in GrantsOf(t) /\ sem[s].count >= sem[s].max_count
             THEN permits[s] - 1 ELSE permits[s]]
      /\ UNCHANGED <<oncpu, ipc, waiter_seq, sys, want, orphans, wrapped>>
    BY DEF semaphore_clear_occupied
<1>2. /\ S \in SUBSET Sems
      /\ \A s \in S : s \notin GrantsOf(t) => sem[s].max_count = 1
    BY DEF GrantsOf, OccupiedBy, sem_is_binary
<1>3. sem \in [Sems -> Semaphores] /\ waiters \in [Slots -> Waiters]
      /\ FreeSlot \in Waiters
    BY ConstantsAssumption DEF WaitInv, TypeOK, FreeSlot, Waiters
<1>4. /\ stage' \in [Tasks -> Stages] /\ stage'[t] # "alive"
      /\ \A u \in Tasks : stage'[u] = "alive" => stage[u] = "alive"
      /\ holds' \in [Tasks -> SUBSET Sems] /\ permits' \in [Sems -> Int]
    BY <1>1 DEF WaitInv, TypeOK, Stages
<1>5. /\ w \in [Slots -> Waiters]
      /\ \A i \in Slots :
            \/ w[i] = waiters[i]
            \/ w[i] = FreeSlot /\ waiters[i].pid = t /\ stage'[t] # "alive"
    <2>1. \A i \in Slots : w[i] = IF waiters[i].pid = t THEN FreeSlot ELSE waiters[i]
        OBVIOUS
    <2>2. \A i \in Slots : w[i] \in Waiters
        BY <1>3, <2>1
    <2>3. w \in [Slots -> Waiters]
        BY <2>2
    <2> HIDE DEF w
    <2> QED BY <1>4, <2>1, <2>3
<1> HIDE DEF S, w
<1>6. ASSUME NEW s \in S
      PROVE  /\ Recovered(t, s) \in Semaphores
             /\ Recovered(t, s).creater = sem[s].creater
             /\ Recovered(t, s).count > 0
             /\ sem[s].count = 0 => Recovered(t, s).count = 1
    <2>1. sem[s] \in Semaphores
        BY <1>2, <1>3
    <2>2. CASE s \in GrantsOf(t)
        <3> DEFINE n == IF sem[s].count < sem[s].max_count THEN sem[s].count + 1
                        ELSE sem[s].count
                   o == IF sem[s].occupied_pid = t THEN NoTask ELSE sem[s].occupied_pid
        <3>1. /\ n \in Nat /\ n > 0 /\ (sem[s].count = 0 => n = 1)
              /\ o \in Tasks \cup {NoTask}
            BY <2>1 DEF Semaphores
        <3>2. Recovered(t, s) = [sem[s] EXCEPT !.count = n, !.occupied_pid = o]
            BY <2>1, <2>2 DEF Recovered, Semaphores
        <3> HIDE DEF n, o
        <3> QED BY <2>1, <3>1, <3>2 DEF Semaphores
    <2>3. CASE s \notin GrantsOf(t)
        <3>1. sem[s].max_count = 1
            BY <1>2, <2>3
        <3>2. Recovered(t, s) = [sem[s] EXCEPT !.count = 1, !.occupied_pid = NoTask]
            BY <2>1, <2>3, <3>1 DEF Recovered, Semaphores
        <3> DEFINE n == 1
                   o == NoTask
        <3>3. n \in Nat /\ n > 0 /\ n = 1 /\ o \in Tasks \cup {NoTask}
            OBVIOUS
        <3>4. Recovered(t, s) = [sem[s] EXCEPT !.count = n, !.occupied_pid = o]
            BY <3>2
        <3> HIDE DEF n, o
        <3> QED BY <2>1, <3>3, <3>4 DEF Semaphores
    <2> QED BY <2>2, <2>3
<1>7. ASSUME NEW s \in Sems
      PROVE  /\ sem'[s] \in Semaphores /\ sem'[s].creater = sem[s].creater
             /\ sem[s].count = 0 /\ (s \in S => HandoffSlot(w, s) # NoSlot)
                => sem'[s].count = 0
    <2>1. CASE s \notin S
        BY <1>1, <1>3, <2>1
    <2>2. CASE s \in S
        <3> DEFINE e == HandoffSem(w, s, Recovered(t, s))
        <3>1. /\ e \in Semaphores /\ e.creater = sem[s].creater
              /\ HandoffSlot(w, s) # NoSlot => e.count = Recovered(t, s).count - 1
            BY <1>5, <1>6, <2>2, HandoffSemFacts
        <3>2. sem'[s] = e
            BY <1>1, <2>2
        <3> HIDE DEF e
        <3> QED BY <1>6, <2>2, <3>1, <3>2
    <2> QED BY <2>1, <2>2
<1>8. sem' \in [Sems -> Semaphores]
    BY <1>1, <1>7
<1> QED BY <1>1, <1>2, <1>4, <1>5, <1>7, <1>8, HandoffStep

-----------------------------------------------------------------------------
(* The theorems.                                                           *)

\* The invariant holds after semaphore_init().
LEMMA Initially ==
    Init => WaitInv
<1> SUFFICES ASSUME Init PROVE WaitInv
    OBVIOUS
<1> USE ConstantsAssumption DEF Init
<1>1. TypeOK
    <2>1. NewTask("READY") \in TaskRecord(Token)
        BY DEF NewTask, TaskRecord, States, Token, Generic
    <2>2. FreeSem \in Semaphores /\ FreeSlot \in Waiters
        BY DEF FreeSem, Semaphores, FreeSlot, Waiters
    <2>3. NoCall \in Calls /\ NoWait \in Waits /\ "alive" \in Stages
          /\ waiter_seq \in 0 .. SEQ_MOD - 1
        BY DEF Calls, NoWait, Waits, Stages
    <2>4. /\ task \in [Tasks -> TaskRecord(Token)] /\ sem \in [Sems -> Semaphores]
          /\ waiters \in [Slots -> Waiters]
        BY <2>1, <2>2
    <2>5. /\ stage \in [Tasks -> Stages] /\ want \in [Tasks -> Waits] /\ main \in [Tasks -> Waits]
          /\ holds \in [Tasks -> SUBSET Sems] /\ permits \in [Sems -> Int]
          /\ ahead \in [Slots -> SUBSET Tasks]
        BY <2>3
    <2> QED BY <2>3, <2>4, <2>5 DEF TypeOK
<1>2. \A t \in Tasks : task[t].state = "READY"
    BY DEF NewTask
<1>3. \A i \in Slots : waiters[i].sem = 0 /\ waiters[i].pid = NoTask /\ ~waiters[i].granted
    BY DEF FreeSlot
<1>4. sys.pid = NoTask /\ sys.slot = NoSlot
    BY DEF NoCall
<1>5. SlotsOfSems /\ SlotOwner /\ OneSlot /\ QueuedMeansTaken /\ GrantedIsAwake /\ SleepToken
    BY <1>3 DEF SlotsOfSems, SlotOwner, OneSlot, QueuedMeansTaken, GrantedIsAwake, SleepToken
<1>6. CallsOfAwake /\ WindowInv /\ CallSlot
    BY <1>4 DEF CallsOfAwake, WindowInv, CallSlot
<1>7. DeadIsStaged /\ SleeperIsQueued
    BY <1>2 DEF DeadIsStaged, SleeperIsQueued, Live, proc_get
<1>8. HandlerInv
    BY DEF HandlerInv
<1> QED BY <1>1, <1>5, <1>6, <1>7, <1>8 DEF WaitInv

\* A step that changes nothing keeps the invariant.
LEMMA Stuttering ==
    WaitInv /\ UNCHANGED vars => WaitInv'
<1> SUFFICES ASSUME WaitInv, UNCHANGED vars PROVE WaitInv'
    OBVIOUS
<1> USE DEF WaitInv, vars
<1>1. TypeOK'
    BY DEF TypeOK, ipc
<1>2. CallsOfAwake'
    BY DEF CallsOfAwake
<1>3. \A t \in Tasks : stage'[t] = "alive" => stage[t] = "alive" /\ Live(t)'
    BY DEF DeadIsStaged, Live
<1>4. Latched(sys.pid) => Latched(sys.pid)'
    BY DEF Latched
<1> QED BY <1>1, <1>2, <1>3, <1>4, QuietStep

\* The invariant is inductive.
LEMMA Preserved ==
    WaitInv /\ [Next]_vars => WaitInv'
<1> SUFFICES ASSUME WaitInv, Next PROVE WaitInv'
    BY Stuttering
<1>1. PICK t \in Tasks :
          \/ Dispatch(t) \/ Preempt(t) \/ Timer(t) \/ IpcCall(t) \/ IpcEnd(t)
          \/ \E token \in OtherTokens : OtherWake(t, token)
          \/ \E op \in Ops, s \in Sems : svc_handler(t, op, s)
          \/ Handler(t) \/ Fault(t) \/ Teardown(t)
    BY DEF Next
<1>2. CASE Dispatch(t) \/ Preempt(t) \/ Timer(t) \/ IpcCall(t) \/ IpcEnd(t)
    BY <1>2, SchedulingSteps, IpcCallStep, IpcEndStep
<1>3. CASE \E token \in OtherTokens : OtherWake(t, token)
    BY <1>3, OtherWakeStep
<1>4. CASE \E op \in Ops, s \in Sems : svc_handler(t, op, s)
    BY <1>4, TrapStep
<1>5. CASE semaphore_alloc(t) \/ semaphore_alloc_count(t)
    <2>1. CASE semaphore_alloc(t)
        BY <2>1, AllocStep DEF semaphore_alloc
    <2>2. CASE semaphore_alloc_count(t)
        BY <2>2, AllocStep, ConstantsAssumption DEF semaphore_alloc_count
    <2> QED BY <1>5, <2>1, <2>2
<1>6. CASE semaphore_enter_raw(t) \/ semaphore_try_enter(t)
    BY <1>6, EnterEndSteps, ServingStep, RequeueStep, QueueStep, ParkStep
    DEF semaphore_enter_raw
<1>7. CASE semaphore_free(t) \/ semaphore_quit(t)
    BY <1>7, FreeStep, QuitStep
<1>8. CASE Fault(t) \/ TerminateChild(t) \/ ExitBegin(t) \/ CallerDead(t)
    BY <1>8, MarkSteps, CallerDeadStep
<1>9. CASE semaphore_clear(t) \/ semaphore_clear_occupied(t) \/ Leave(t)
    BY <1>9, ClearStep, ClearOccupiedStep, LeaveStep
<1> QED BY <1>1, <1>2, <1>3, <1>4, <1>5, <1>6, <1>7, <1>8, <1>9 DEF Handler, Teardown

\* The inductive invariant holds for any number of tasks, semaphores, slots and
\* cores, whatever the tasks ask for and whenever they fault.
THEOREM WaitInvariant == Spec => []WaitInv
<1>1. Init => WaitInv
    BY Initially
<1>2. WaitInv /\ [Next]_vars => WaitInv'
    BY Preserved
<1> QED BY <1>1, <1>2, PTL DEF Spec

\* The kernel's semaphore state keeps its type: in particular no count ever goes
\* below zero, in any interleaving of handlers and fault teardowns.
THEOREM TypeCorrect == Spec => []TypeOK
<1>1. WaitInv => TypeOK
    BY DEF WaitInv
<1> QED BY <1>1, WaitInvariant, PTL

\* sem_handoff's wake is never lost: nobody sleeps on a permit it has.
THEOREM NoLostWake == Spec => []GrantedIsAwake
<1>1. WaitInv => GrantedIsAwake
    BY DEF WaitInv
<1> QED BY <1>1, WaitInvariant, PTL

\* A live task asleep on a semaphore is in its queue, where semaphore_quit,
\* semaphore_free and the owner's teardown will find it.
THEOREM NoForgottenSleeper == Spec => []SleeperIsQueued
<1>1. WaitInv => SleeperIsQueued
    BY DEF WaitInv
<1> QED BY <1>1, WaitInvariant, PTL

\* No permit lies idle while a live task queues for it: direct handoff and the
\* recovery of a dead task's permits never leave one behind.
THEOREM NoIdlePermit == Spec => []NoStrandedPermit
<1>1. WaitInv => NoStrandedPermit
    BY DEF WaitInv, NoStrandedPermit, QueuedMeansTaken
<1> QED BY <1>1, WaitInvariant, PTL

\* A task has at most one slot of a semaphore, and places in two queues only
\* while a handler that hijacked its wait is in the window of another enter.
THEOREM SlotIsUnique == Spec => []OneSlotPerTask
<1>1. WaitInv => OneSlotPerTask
    <2> HAVE WaitInv
    <2> USE DEF WaitInv
    <2> SUFFICES ASSUME NEW i \in Slots, waiters[i].sem # 0, NEW j \in Slots \ {i},
                        waiters[j].pid = waiters[i].pid
                 PROVE  /\ waiters[j].sem # waiters[i].sem
                        /\ stage[waiters[i].pid] = "alive" =>
                              /\ waiters[i].pid \in handler
                              /\ sys.pid = waiters[i].pid /\ sys.slot \in {i, j}
        BY DEF OneSlotPerTask, SlotsOfSems
    <2> DEFINE t == waiters[i].pid
    <2>1. t \in Tasks /\ waiters[j].sem # 0 /\ waiters[j].sem # waiters[i].sem
        BY ConstantsAssumption DEF SlotsOfSems, OneSlot
    <2>2. ASSUME stage[t] = "alive"
          PROVE  t \in handler /\ sys.pid = t /\ sys.slot \in {i, j}
        <3>1. CASE t \in handler
            BY <2>1, <2>2, <3>1 DEF HandlerInv
        <3>2. CASE t \notin handler
            <4>1. main[t].sem = 0
                BY <2>1, <3>2 DEF HandlerInv, NoWait
            <4>2. sys.pid = t => want[t].sem \in {0, sys.sem}
                BY <2>1, ConstantsAssumption DEF CallsOfAwake
            <4> QED BY <2>1, <4>1, <4>2 DEF SlotOwner
        <3> QED BY <3>1, <3>2
    <2> QED BY <2>1, <2>2
<1> QED BY <1>1, WaitInvariant, PTL
=============================================================================
