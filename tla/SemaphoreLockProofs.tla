------------------------ MODULE SemaphoreLockProofs ------------------------
(***************************************************************************)
(* Kernel semaphores as locks: one owner, recovered from the dead, and the *)
(* refinement of Lock.  The theorems are about the systems in which a      *)
(* teardown cannot overlap a call or another teardown: one core, or any    *)
(* number of cores and programs that do not fault (SYS_EXIT is executed    *)
(* under kernel_lock, a fault is not).  They build on SemaphoreOrderProofs.*)
(***************************************************************************)
EXTENDS SemaphoreLock, SemaphoreOrderProofs

\* No teardown overlaps a call or another teardown.
Apart == Cores = 1 \/ Faulty = {}

-----------------------------------------------------------------------------
(* Who executes, and who dies.                                             *)

OneOnCpu == IsFiniteSet(oncpu) /\ (Cores = 1 => \A t, u \in oncpu : t = u)

LiveStage == \A t \in Tasks : Live(t) <=> stage[t] \in {"alive", "fault"}

\* Whoever is dying, dies with t: it is t or its PROC, or a thread of that PROC
\* once the PROC itself is gone.
Culprit(t) ==
    \A x \in Tasks : Dying(x) =>
        Owner[x] = Owner[t] /\ (x = t \/ x = Owner[t] \/ stage[Owner[t]] = "gone")

\* One task executes the teardown, in SYS_EXIT or, on the only core, in an abort
\* handler.
OneTeardown ==
    (\E x \in Tasks : Dying(x)) =>
        \E t \in oncpu : /\ stage[t] # "alive" /\ Culprit(t)
                         /\ \/ sys.pid = t /\ sys.op = "exiting"
                            \/ sys.pid = NoTask /\ Cores = 1

\* A call is executed by a task that lives, unless it is its SYS_EXIT.
Callers ==
    sys.pid # NoTask => /\ sys.pid \in oncpu
                        /\ (sys.op = "exiting" <=> stage[sys.pid] # "alive")

DeathInv == OneOnCpu /\ LiveStage /\ OneTeardown /\ Callers

\* Nobody dies while a call other than SYS_EXIT is in progress.
LEMMA CallIsCalm ==
    ASSUME WaitInv, DeathInv, sys.pid # NoTask, sys.op # "exiting"
    PROVE  /\ \A x \in Tasks : ~Dying(x)
           /\ sys.pid \in Tasks /\ sys.pid \in oncpu /\ stage[sys.pid] = "alive" /\ Live(sys.pid)
<1>1. \A x \in Tasks : ~Dying(x)
    BY DEF DeathInv, OneTeardown
<1>2. sys.pid \in oncpu /\ stage[sys.pid] = "alive" /\ sys.pid \in Tasks
    BY DEF DeathInv, Callers, WaitInv, TypeOK
<1> QED BY <1>1, <1>2 DEF DeathInv, LiveStage

\* A task that lives has a PROC that lives or is being torn down.
LEMMA LivingHasProc ==
    ASSUME WaitInv, DeathInv, \A x \in Tasks : ~Dying(x), NEW t \in Tasks, stage[t] = "alive"
    PROVE  Live(Owner[t])
<1>1. Owner[t] \in Tasks /\ IsProc(Owner[t])
    BY ConstantsAssumption DEF IsProc
<1>2. stage[Owner[t]] \in Stages
    BY <1>1 DEF WaitInv, TypeOK
<1>3. stage[Owner[t]] \in {"alive", "fault"}
    BY <1>1, <1>2 DEF Dying, Stages
<1> QED BY <1>1, <1>3 DEF DeathInv, LiveStage

\* Dying depends on the stages only.
LEMMA DyingStage ==
    ASSUME stage' = stage
    PROVE  \A x \in Tasks : Dying(x)' <=> Dying(x)
BY DEF Dying

\* A step that changes no stage while nobody dies.
LEMMA CalmDeath ==
    ASSUME WaitInv, DeathInv, \A x \in Tasks : ~Dying(x), stage' = stage,
           oncpu' \subseteq oncpu, LiveStage',
           sys' = NoCall \/ (sys'.pid = sys.pid /\ sys'.op = sys.op /\ oncpu' = oncpu)
    PROVE  DeathInv'
<1>1. OneOnCpu'
    <2>1. oncpu' \in SUBSET oncpu
        OBVIOUS
    <2> QED BY <2>1, FS_Subset DEF DeathInv, OneOnCpu
<1>2. OneTeardown'
    BY DyingStage DEF OneTeardown
<1>3. Callers'
    BY DEF DeathInv, Callers, NoCall
<1> QED BY <1>1, <1>2, <1>3 DEF DeathInv

\* A step that keeps stages, cpus and calls, whatever is going on.
LEMMA SameDeath ==
    ASSUME WaitInv, DeathInv, UNCHANGED <<stage, oncpu, sys>>, LiveStage'
    PROVE  DeathInv'
<1>1. OneOnCpu' /\ Callers'
    BY DEF DeathInv, OneOnCpu, Callers
<1>2. OneTeardown'
    BY DyingStage DEF DeathInv, OneTeardown, Culprit
<1> QED BY <1>1, <1>2 DEF DeathInv

\* Who is dispatched, preempted, woken.
LEMMA DeathSched ==
    ASSUME WaitInv, DeathInv, NEW t \in Tasks,
           \/ Dispatch(t) \/ Preempt(t) \/ Timer(t) \/ IpcCall(t) \/ IpcEnd(t)
           \/ \E token \in OtherTokens : OtherWake(t, token)
    PROVE  DeathInv'
<1>0. task \in [Tasks -> TaskRecord(Token)] /\ oncpu \subseteq Tasks /\ task[t] \in TaskRecord(Token)
    BY DEF WaitInv, TypeOK
<1>1. LiveStage'
    <2>1. stage' = stage
        BY DEF Dispatch, Preempt, Timer, IpcCall, IpcEnd, OtherWake
    <2>2. \A u \in Tasks : Live(u)' <=> Live(u)
        <3>1. CASE Dispatch(t) \/ Preempt(t) \/ IpcEnd(t)
            BY <1>0, <3>1 DEF Dispatch, Preempt, IpcEnd, Live, proc_get, TaskRecord
        <3>2. CASE Timer(t)
            BY <1>0, <3>2 DEF Timer, Live, proc_get, TaskRecord, CanExpire, renew_sleep_counter,
                              proc_ready
        <3>5. ASSUME NEW token \in Token,
                     task' = [task EXCEPT ![t] = proc_wakeup_by(task[t], token)]
              PROVE  \A u \in Tasks : Live(u)' <=> Live(u)
            <4>1. proc_wakeup_by(task[t], token).state = "ZOMBIE" <=> task[t].state = "ZOMBIE"
                BY <1>0, WakeFacts
            <4> QED BY <1>0, <3>5, <4>1 DEF Live, proc_get
        <3>3. CASE IpcCall(t)
            <4>1. \/ task' = task
                  \/ Live(t) /\ task' = [task EXCEPT ![t].state = "RUNNING"]
                  \/ task' = [task EXCEPT ![t] = proc_wakeup_by(task[t], Generic)]
                BY <3>3 DEF IpcCall
            <4>2. CASE task' = task \/ (Live(t) /\ task' = [task EXCEPT ![t].state = "RUNNING"])
                BY <1>0, <4>2 DEF Live, proc_get, TaskRecord
            <4>3. Generic \in Token
                BY SlotTypes DEF Token
            <4> QED BY <3>5, <4>1, <4>2, <4>3
        <3>4. ASSUME NEW token \in OtherTokens, OtherWake(t, token)
              PROVE  \A u \in Tasks : Live(u)' <=> Live(u)
            <4>1. token \in Token
                BY DEF Token
            <4> QED BY <3>4, <3>5, <4>1 DEF OtherWake
        <3> QED BY <3>1, <3>2, <3>3, <3>4
    <2> QED BY <2>1, <2>2 DEF DeathInv, LiveStage
<1>2. CASE \/ Timer(t) \/ (IpcCall(t) /\ oncpu' = oncpu)
           \/ \E token \in OtherTokens : OtherWake(t, token)
    <2>1. UNCHANGED <<stage, oncpu, sys>>
        BY <1>2 DEF Timer, IpcCall, OtherWake
    <2> QED BY <1>1, <2>1, SameDeath
<1>3. CASE Preempt(t)
    <2>1. /\ oncpu' \subseteq oncpu /\ UNCHANGED <<stage, sys>> /\ sys.pid = NoTask
          /\ Cores = 1 => \A u \in oncpu : stage[u] = "alive"
        BY <1>3 DEF Preempt, IrqOn
    <2>2. \A x \in Tasks : ~Dying(x)
        BY <2>1, ConstantsAssumption, <1>0 DEF DeathInv, OneTeardown
    <2>3. sys' = NoCall
        BY <2>1, ConstantsAssumption DEF WaitInv, TypeOK, Calls
    <2> QED BY <1>1, <2>1, <2>2, <2>3, CalmDeath
<1>5. CASE IpcEnd(t)
    <2>1. /\ oncpu' \subseteq oncpu /\ UNCHANGED <<stage, sys>> /\ sys.pid = NoTask
          /\ t \in oncpu /\ Live(t) /\ stage[t] # "fault"
        BY <1>5 DEF IpcEnd
    <2>2. stage[t] = "alive"
        BY <2>1 DEF DeathInv, LiveStage
    <2>3. \A x \in Tasks : ~Dying(x)
        <3>1. ASSUME NEW u \in oncpu, Cores = 1, stage[u] # "alive"
              PROVE  FALSE
            BY <2>1, <2>2, <3>1 DEF DeathInv, OneOnCpu
        <3> QED BY <2>1, <3>1, ConstantsAssumption DEF DeathInv, OneTeardown, WaitInv, TypeOK
    <2>4. sys' = NoCall
        BY <2>1, ConstantsAssumption DEF WaitInv, TypeOK, Calls
    <2> QED BY <1>1, <2>1, <2>3, <2>4, CalmDeath
<1>4. CASE Dispatch(t) \/ (IpcCall(t) /\ oncpu' # oncpu)
    <2>1. /\ oncpu' = oncpu \cup {t} /\ UNCHANGED <<stage, sys>>
          /\ t \in oncpu \/ Cardinality(oncpu) < Cores
        BY <1>4 DEF Dispatch, IpcCall
    <2>2. OneOnCpu'
        <3>1. IsFiniteSet(oncpu')
            BY <2>1, FS_AddElement DEF DeathInv, OneOnCpu
        <3>2. Cores = 1 /\ t \notin oncpu => oncpu = {}
            BY <2>1, FS_CardinalityType, FS_EmptySet DEF DeathInv, OneOnCpu
        <3> QED BY <2>1, <3>1, <3>2 DEF DeathInv, OneOnCpu
    <2>3. Callers'
        BY <2>1 DEF DeathInv, Callers
    <2>4. OneTeardown'
        BY <2>1, DyingStage DEF DeathInv, OneTeardown, Culprit
    <2> QED BY <1>1, <2>2, <2>3, <2>4 DEF DeathInv
<1> QED BY <1>2, <1>3, <1>4, <1>5

\* A trap.
LEMMA DeathTrap ==
    ASSUME WaitInv, DeathInv, NEW t \in Tasks, NEW op \in Ops, NEW s \in Sems,
           svc_handler(t, op, s)
    PROVE  DeathInv'
<1>1. /\ t \in oncpu /\ Live(t) /\ stage[t] # "fault" /\ sys.pid = NoTask
      /\ sys'.pid = t /\ sys'.op = op /\ UNCHANGED <<task, oncpu, stage>>
    BY DEF svc_handler
<1>2. stage[t] = "alive" /\ op # "exiting"
    BY <1>1, ConstantsAssumption DEF DeathInv, LiveStage, Ops
<1>3. \A x \in Tasks : ~Dying(x)
    <2>1. ASSUME NEW u \in oncpu, Cores = 1, stage[u] # "alive"
          PROVE  FALSE
        BY <1>1, <1>2, <2>1 DEF DeathInv, OneOnCpu
    <2> QED BY <1>1, <2>1, ConstantsAssumption DEF DeathInv, OneTeardown, WaitInv, TypeOK
<1>4. LiveStage' /\ OneOnCpu'
    BY <1>1 DEF DeathInv, LiveStage, OneOnCpu, Live
<1>5. OneTeardown'
    BY <1>1, <1>3, DyingStage DEF OneTeardown
<1>6. Callers'
    BY <1>1, <1>2 DEF Callers
<1> QED BY <1>4, <1>5, <1>6 DEF DeathInv

\* The wakes of a handoff revive nobody and kill nobody.
LEMMA HandoffLives ==
    ASSUME WaitInv, NEW w \in [Slots -> Waiters], NEW S \in SUBSET Sems,
           task' = HandoffTask(w, S)
    PROVE  \A u \in Tasks : Live(u)' <=> Live(u)
<1> SUFFICES ASSUME NEW u \in Tasks PROVE Live(u)' <=> Live(u)
    OBVIOUS
<1>1. task[u] \in TaskRecord(Token)
    BY DEF WaitInv, TypeOK
<1>2. \/ task'[u] = task[u]
      \/ \E i \in Slots : w[i].sem \in S /\ task'[u] = proc_wakeup_by(task[u], w[i].sem)
    BY HandoffFacts DEF Selected
<1>3. CASE task'[u] = task[u]
    BY <1>3 DEF Live
<1>4. ASSUME NEW i \in Slots, w[i].sem \in S, task'[u] = proc_wakeup_by(task[u], w[i].sem)
      PROVE  Live(u)' <=> Live(u)
    <2>1. w[i].sem \in Token
        BY <1>4, SlotTypes
    <2>2. task'[u].state = "ZOMBIE" <=> task[u].state = "ZOMBIE"
        BY <1>1, <1>4, <2>1, WakeFacts
    <2> QED BY <2>2 DEF Live, proc_get
<1> QED BY <1>2, <1>3, <1>4

\* Neither do those of a queue that goes away.
LEMMA PurgeLives ==
    ASSUME WaitInv, NEW S \in SUBSET Sems, task' = sem_waiter_purge(S)
    PROVE  \A u \in Tasks : Live(u)' <=> Live(u)
<1> SUFFICES ASSUME NEW u \in Tasks PROVE Live(u)' <=> Live(u)
    OBVIOUS
<1>1. task[u] \in TaskRecord(Token)
    BY DEF WaitInv, TypeOK
<1>2. \/ task'[u] = task[u]
      \/ \E i \in Slots : waiters[i].sem \in S /\ task'[u] = proc_wakeup_by(task[u], waiters[i].sem)
    BY PurgeFacts
<1>3. CASE task'[u] = task[u]
    BY <1>3 DEF Live
<1>4. ASSUME NEW i \in Slots, waiters[i].sem \in S,
             task'[u] = proc_wakeup_by(task[u], waiters[i].sem)
      PROVE  Live(u)' <=> Live(u)
    <2>1. waiters[i].sem \in Token
        BY <1>4, SlotTypes
    <2>2. task'[u].state = "ZOMBIE" <=> task[u].state = "ZOMBIE"
        BY <1>1, <1>4, <2>1, WakeFacts
    <2> QED BY <2>2 DEF Live, proc_get
<1> QED BY <1>2, <1>3, <1>4

\* A system call on semaphores.
LEMMA DeathCall ==
    ASSUME WaitInv, DeathInv, NEW t \in Tasks,
           \/ semaphore_alloc(t) \/ semaphore_alloc_count(t) \/ semaphore_free(t)
           \/ semaphore_enter_raw(t) \/ semaphore_try_enter(t) \/ semaphore_quit(t)
    PROVE  DeathInv'
<1>0. /\ task \in [Tasks -> TaskRecord(Token)] /\ oncpu \subseteq Tasks
      /\ task[t] \in TaskRecord(Token) /\ sys \in Calls
    BY DEF WaitInv, TypeOK
<1>1. sys.pid = t /\ sys.op # "exiting"
    <2>1. sys.pid = t /\ (InWindow(t) \/ sys.op # "exiting")
        BY DEF semaphore_alloc, semaphore_alloc_count, sem_alloc_raw, semaphore_free,
               semaphore_enter_raw, semaphore_try_enter, EnterInvalid, EnterCollect, EnterAcquire,
               EnterRequeue, EnterQueue, EnterFull, EnterServing, EnterPark, EnterCall, InCall,
               InWindow, semaphore_quit
    <2>2. InWindow(t) => sys.op # "exiting"
        BY <2>1, ServingSlot DEF InWindow, EnterOps
    <2> QED BY <2>1, <2>2
<1>2. /\ \A x \in Tasks : ~Dying(x)
      /\ t \in oncpu /\ stage[t] = "alive" /\ Live(t)
    BY <1>1, CallIsCalm, ConstantsAssumption
<1>3. stage' = stage
    BY DEF semaphore_alloc, semaphore_alloc_count, sem_alloc_raw, semaphore_free,
           semaphore_enter_raw, semaphore_try_enter, EnterInvalid, EnterCollect, EnterAcquire,
           EnterRequeue, EnterQueue, EnterFull, EnterServing, EnterPark, semaphore_quit
<1>4. ASSUME \A u \in Tasks : Live(u)' <=> Live(u) PROVE LiveStage'
    BY <1>3, <1>4 DEF DeathInv, LiveStage
<1>5. CASE EnterRequeue(t) \/ EnterQueue(t)
    <2>1. UNCHANGED <<task, oncpu>> /\ \E i : sys' = [sys EXCEPT !.slot = i]
        BY <1>5 DEF EnterRequeue, EnterQueue
    <2>2. sys'.pid = sys.pid /\ sys'.op = sys.op
        BY <1>0, <2>1 DEF Calls, NoCall
    <2>3. LiveStage'
        BY <1>4, <2>1 DEF Live
    <2> QED BY <1>2, <1>3, <2>1, <2>2, <2>3, CalmDeath
<1>6. CASE EnterServing(t)
    <2>1. sys' = NoCall /\ oncpu' \subseteq oncpu
        BY <1>6 DEF EnterServing, Acquired, Return
    <2>2. \/ task' = task
          \/ task' = [task EXCEPT ![t].state = IF Live(t) THEN "READY" ELSE @]
        BY <1>6 DEF EnterServing
    <2>3. \A u \in Tasks : Live(u)' <=> Live(u)
        BY <1>0, <1>2, <2>2 DEF Live, proc_get, TaskRecord
    <2> QED BY <1>2, <1>3, <1>4, <2>1, <2>3, CalmDeath
<1>7. CASE EnterPark(t)
    <2> DEFINE timed == sys.op = "enter_timeout"
               q == Block(task[t], sys.sem, timed)
    <2>1. sys' = NoCall /\ oncpu' \subseteq oncpu
        BY <1>7 DEF EnterPark, Return
    <2>2. task' = [task EXCEPT ![t] = q]
        BY <1>0, <1>7 DEF EnterPark, proc_block_by, proc_block_by_timeout
    <2>3. sys.sem \in Token /\ sys.sem # Generic /\ task[t].state # "BLOCK" /\ timed \in BOOLEAN
        BY <1>1, CallerFacts, SlotTypes
    <2> HIDE DEF timed
    <2>4. q.state = "ZOMBIE" => task[t].state = "ZOMBIE"
        BY <1>0, <2>3, BlockFacts
    <2> HIDE DEF q
    <2>5. \A u \in Tasks : Live(u)' <=> Live(u)
        BY <1>0, <1>2, <2>2, <2>4 DEF Live, proc_get
    <2> QED BY <1>2, <1>3, <1>4, <2>1, <2>5, CalmDeath
<1>8. CASE \/ semaphore_alloc(t) \/ semaphore_alloc_count(t) \/ EnterInvalid(t)
           \/ EnterCollect(t) \/ EnterAcquire(t) \/ EnterFull(t) \/ semaphore_try_enter(t)
    <2>1. sys' = NoCall /\ UNCHANGED <<task, oncpu>>
        BY <1>8 DEF semaphore_alloc, semaphore_alloc_count, sem_alloc_raw, EnterInvalid,
                    EnterCollect, EnterAcquire, EnterFull, semaphore_try_enter, Acquired, Return
    <2>2. LiveStage'
        BY <1>4, <2>1 DEF Live
    <2> QED BY <1>2, <1>3, <2>1, <2>2, CalmDeath
<1>9. CASE semaphore_free(t)
    <2>1. /\ sys' = NoCall /\ oncpu' = oncpu /\ {sys.sem} \in SUBSET Sems
          /\ task' = task \/ task' = sem_waiter_purge({sys.sem})
        BY <1>1, <1>9, CallerFacts DEF semaphore_free, sem_reset
    <2>2. LiveStage'
        BY <1>4, <2>1, PurgeLives DEF Live
    <2> QED BY <1>2, <1>3, <2>1, <2>2, CalmDeath
<1>10. CASE semaphore_quit(t)
    <2>1. /\ sys' = NoCall /\ oncpu' = oncpu /\ {sys.sem} \in SUBSET Sems
          /\ task' = task \/ task' = HandoffTask(waiters, {sys.sem})
        BY <1>1, <1>10, CallerFacts DEF semaphore_quit
    <2>2. waiters \in [Slots -> Waiters]
        BY DEF WaitInv, TypeOK
    <2>3. LiveStage'
        <3>1. CASE task' = task
            BY <1>4, <3>1 DEF Live
        <3>2. CASE task' = HandoffTask(waiters, {sys.sem})
            BY <1>4, <2>1, <2>2, <3>2, HandoffLives
        <3> QED BY <2>1, <3>1, <3>2
    <2> QED BY <1>2, <1>3, <2>1, <2>3, CalmDeath
<1> QED BY <1>5, <1>6, <1>7, <1>8, <1>9, <1>10 DEF semaphore_enter_raw

\* No caller is found dead after its trap.
LEMMA NoCallerDead ==
    ASSUME WaitInv, DeathInv, NEW t \in Tasks
    PROVE  ~CallerDead(t)
<1> SUFFICES ASSUME CallerDead(t) PROVE FALSE
    OBVIOUS
<1>1. /\ sys.pid = t /\ sys.op # "exiting"
      /\ ~Live(t) \/ ~Live(Owner[t])
    BY DEF CallerDead
<1>2. (\A x \in Tasks : ~Dying(x)) /\ stage[t] = "alive" /\ Live(t)
    BY <1>1, CallIsCalm, ConstantsAssumption
<1> QED BY <1>1, <1>2, LivingHasProc

\* SYS_EXIT: the caller begins to die.
LEMMA DeathExit ==
    ASSUME WaitInv, DeathInv, NEW t \in Tasks, ExitBegin(t)
    PROVE  DeathInv'
<1>1. /\ sys.pid = t /\ sys.op = "exit" /\ oncpu' = oncpu /\ Mark(t)
      /\ stage' = [stage EXCEPT ![t] = "zombie"] /\ sys' = [sys EXCEPT !.op = "exiting"]
    BY DEF ExitBegin, InCall
<1>2. sys'.pid = t /\ sys'.op = "exiting"
    BY <1>1 DEF WaitInv, TypeOK, Calls, NoCall
<1>3. (\A x \in Tasks : ~Dying(x)) /\ stage[t] = "alive" /\ t \in oncpu
    BY <1>1, CallIsCalm, ConstantsAssumption
<1>4. stage'[t] = "zombie" /\ \A u \in Tasks : u # t => stage'[u] = stage[u]
    BY <1>1 DEF WaitInv, TypeOK
<1>5. LiveStage'
    <2>1. /\ task'[t].state = "ZOMBIE" /\ \A u \in Tasks : u # t => task'[u] = task[u]
        BY <1>1, MarkFacts
    <2> QED BY <1>4, <2>1 DEF DeathInv, LiveStage, Live, proc_get
<1>6. \A x \in Tasks : Dying(x)' => x = t
    BY <1>3, <1>4 DEF Dying
<1>7. OneTeardown'
    BY <1>1, <1>2, <1>3, <1>4, <1>6 DEF OneTeardown, Culprit
<1>8. Callers' /\ OneOnCpu'
    BY <1>1, <1>2, <1>3, <1>4 DEF DeathInv, OneOnCpu, Callers
<1> QED BY <1>5, <1>7, <1>8 DEF DeathInv

\* A fault on the only core.
LEMMA DeathFault ==
    ASSUME Apart, WaitInv, DeathInv, NEW t \in Tasks, Fault(t)
    PROVE  DeathInv'
<1> DEFINE v == IF Live(Owner[t]) THEN Owner[t] ELSE t
<1>1. /\ t \in Faulty /\ t \in oncpu /\ Live(t) /\ stage[t] # "fault" /\ sys.pid # t /\ Mark(v)
      /\ stage' = [stage EXCEPT ![t] = "fault", ![v] = "zombie"]
      /\ UNCHANGED <<oncpu, sys>>
    BY DEF Fault
<1>2. Cores = 1
    BY <1>1 DEF Apart
<1>3. \A u \in oncpu : u = t
    BY <1>1, <1>2 DEF DeathInv, OneOnCpu
<1>4. sys.pid = NoTask
    BY <1>1, <1>3 DEF DeathInv, Callers
<1>5. stage[t] = "alive"
    BY <1>1 DEF DeathInv, LiveStage
<1>6. \A x \in Tasks : ~Dying(x)
    BY <1>3, <1>5 DEF DeathInv, OneTeardown
<1>7. v = Owner[t] /\ v \in Tasks /\ Owner[v] = v /\ stage[v] # "gone"
    <2>1. Live(Owner[t])
        BY <1>5, <1>6, LivingHasProc
    <2> QED BY <2>1, ConstantsAssumption DEF DeathInv, LiveStage
<1> HIDE DEF v
<1>8. /\ stage'[v] = "zombie" /\ (v # t => stage'[t] = "fault")
      /\ \A u \in Tasks : u # t /\ u # v => stage'[u] = stage[u]
    BY <1>1, <1>7 DEF WaitInv, TypeOK
<1>9. LiveStage'
    <2>1. /\ task'[v].state = "ZOMBIE" /\ \A u \in Tasks : u # v => task'[u] = task[u]
        BY <1>1, <1>7, MarkFacts
    <2> QED BY <1>1, <1>8, <2>1 DEF DeathInv, LiveStage, Live, proc_get
<1>10. \A x \in Tasks : Dying(x)' => x = t \/ x = v
    BY <1>5, <1>6, <1>7, <1>8 DEF Dying
<1>11. OneTeardown'
    <2>1. stage'[t] # "alive" /\ t \in oncpu' /\ sys'.pid = NoTask
        BY <1>1, <1>4, <1>8
    <2>2. Culprit(t)'
        BY <1>7, <1>10 DEF Culprit
    <2> QED BY <1>2, <2>1, <2>2 DEF OneTeardown
<1>12. Callers' /\ OneOnCpu'
    BY <1>1, <1>4 DEF DeathInv, OneOnCpu, Callers
<1> QED BY <1>9, <1>11, <1>12 DEF DeathInv

\* The steps of a teardown under way.
LEMMA DeathTeardown ==
    ASSUME WaitInv, DeathInv, NEW t \in Tasks,
           semaphore_clear(t) \/ semaphore_clear_occupied(t) \/ TerminateChild(t)
    PROVE  DeathInv'
<1>1. /\ UNCHANGED <<oncpu, sys>>
      /\ stage' = [stage EXCEPT ![t] = IF semaphore_clear(t) THEN "reset"
                                       ELSE IF semaphore_clear_occupied(t) THEN "gone"
                                       ELSE "zombie"]
      /\ semaphore_clear(t) => stage[t] = "zombie"
      /\ semaphore_clear_occupied(t) => stage[t] \in {"zombie", "reset"}
      /\ TerminateChild(t) => /\ stage[t] \in {"alive", "fault"} /\ ~IsProc(t)
                              /\ stage[Owner[t]] = "gone"
    BY DEF semaphore_clear, semaphore_clear_occupied, TerminateChild
<1>2. stage \in [Tasks -> Stages] /\ Owner[t] \in Tasks /\ Owner[Owner[t]] = Owner[t]
    BY ConstantsAssumption DEF WaitInv, TypeOK
<1>3. Dying(t) \/ (TerminateChild(t) /\ Dying(Owner[t]))
    BY <1>1, <1>2 DEF Dying, IsProc
<1>4. PICK u \in oncpu : /\ stage[u] # "alive" /\ Culprit(u)
                         /\ \/ sys.pid = u /\ sys.op = "exiting"
                            \/ sys.pid = NoTask /\ Cores = 1
    BY <1>2, <1>3 DEF DeathInv, OneTeardown
<1>5. /\ u \in Tasks /\ \A x \in Tasks : x # t => stage'[x] = stage[x]
      /\ stage'[t] \in {"zombie", "reset", "gone"}
      /\ stage'[t] = IF semaphore_clear(t) THEN "reset"
                     ELSE IF semaphore_clear_occupied(t) THEN "gone" ELSE "zombie"
    BY <1>1, <1>2 DEF WaitInv, TypeOK
<1>6. Owner[t] = Owner[u] /\ (TerminateChild(t) => stage[Owner[u]] = "gone" /\ t # Owner[u])
    <2>1. CASE Dying(t)
        BY <1>1, <1>2, <1>4, <2>1 DEF Culprit, IsProc
    <2>2. CASE TerminateChild(t) /\ Dying(Owner[t])
        BY <1>1, <1>2, <1>4, <2>2 DEF Culprit, IsProc
    <2> QED BY <1>3, <2>1, <2>2
<1>7. stage[Owner[u]] = "gone" => stage'[Owner[u]] = "gone"
    BY <1>1, <1>2, <1>5, <1>6
<1>8. \A x \in Tasks : Dying(x)' => Dying(x) \/ (x = t /\ TerminateChild(t))
    <2> SUFFICES ASSUME NEW x \in Tasks, Dying(x)', ~(x = t /\ TerminateChild(t))
                 PROVE  Dying(x)
        OBVIOUS
    <2>1. \A c \in Tasks : stage'[c] # "gone" => stage[c] # "gone"
        BY <1>1, <1>5
    <2>2. CASE x = t
        BY <1>3, <2>2
    <2>3. CASE x # t
        BY <1>5, <2>1, <2>3 DEF Dying
    <2> QED BY <2>2, <2>3
<1>9. OneTeardown'
    <2>1. Culprit(u)'
        <3> SUFFICES ASSUME NEW x \in Tasks, Dying(x)'
                     PROVE  /\ Owner[x] = Owner[u]
                            /\ x = u \/ x = Owner[u] \/ stage'[Owner[u]] = "gone"
            BY DEF Culprit
        <3>1. CASE Dying(x)
            BY <1>4, <1>7, <3>1 DEF Culprit
        <3>2. CASE x = t /\ TerminateChild(t)
            BY <1>6, <1>7, <3>2
        <3> QED BY <1>8, <3>1, <3>2
    <2>2. stage'[u] # "alive" /\ u \in oncpu'
        BY <1>1, <1>4, <1>5
    <2> QED BY <1>1, <1>4, <2>1, <2>2 DEF OneTeardown
<1>10. Callers'
    BY <1>1, <1>4, <1>5 DEF DeathInv, Callers
<1>11. OneOnCpu'
    BY <1>1 DEF DeathInv, OneOnCpu
<1>12. LiveStage'
    <2>1. CASE TerminateChild(t)
        <3>1. Mark(t) /\ stage'[t] = "zombie"
            BY <1>1, <1>2, <2>1 DEF TerminateChild
        <3>2. /\ task'[t].state = "ZOMBIE" /\ \A x \in Tasks : x # t => task'[x] = task[x]
            BY <3>1, MarkFacts
        <3> QED BY <1>5, <3>1, <3>2 DEF DeathInv, LiveStage, Live, proc_get
    <2>2. CASE semaphore_clear(t)
        <3>1. \A x \in Tasks : Live(x)' <=> Live(x)
            <4>1. {s \in Sems : sem[s].creater = t} \in SUBSET Sems
                OBVIOUS
            <4>2. task' = sem_waiter_purge({s \in Sems : sem[s].creater = t})
                BY <2>2 DEF semaphore_clear, sem_reset
            <4> QED BY <4>1, <4>2, PurgeLives
        <3> QED BY <1>1, <1>5, <2>2, <3>1 DEF DeathInv, LiveStage
    <2>3. CASE semaphore_clear_occupied(t)
        <3>1. \A x \in Tasks : Live(x)' <=> Live(x)
            <4> DEFINE S == GrantsOf(t) \cup OccupiedBy(t)
            <4>1. S \in SUBSET Sems
                BY DEF GrantsOf, OccupiedBy
            <4>2. task' = HandoffTask(Without(t), S)
                BY <2>3 DEF semaphore_clear_occupied, Without
            <4> HIDE DEF S
            <4> QED BY <4>1, <4>2, HandoffLives, WithoutFacts
        <3> QED BY <1>1, <1>5, <2>3, <3>1 DEF DeathInv, LiveStage
    <2> QED BY <2>1, <2>2, <2>3
<1> QED BY <1>9, <1>10, <1>11, <1>12 DEF DeathInv

\* The dead task leaves its cpu when all that died with it is gone.
LEMMA DeathLeave ==
    ASSUME WaitInv, DeathInv, NEW t \in Tasks, Leave(t)
    PROVE  DeathInv'
<1>1. /\ t \in oncpu /\ stage[t] = "gone" /\ ~Dying(Owner[t])
      /\ sys' = IF sys.pid = t THEN NoCall ELSE sys
      /\ oncpu' = oncpu \ {t} /\ UNCHANGED <<task, stage>>
    BY DEF Leave
<1>2. LiveStage'
    BY <1>1 DEF DeathInv, LiveStage, Live
<1>3. Callers'
    BY <1>1, <1>2 DEF DeathInv, Callers, NoCall
<1>4. OneOnCpu'
    <2>1. oncpu' \in SUBSET oncpu
        BY <1>1
    <2> QED BY <2>1, FS_Subset DEF DeathInv, OneOnCpu
<1>5. OneTeardown'
    <2> SUFFICES ASSUME NEW x \in Tasks, Dying(x)
                 PROVE  \E u \in oncpu' : /\ stage'[u] # "alive" /\ Culprit(u)'
                                          /\ \/ sys'.pid = u /\ sys'.op = "exiting"
                                             \/ sys'.pid = NoTask /\ Cores = 1
        BY <1>1, DyingStage DEF OneTeardown
    <2>1. PICK u \in oncpu : /\ stage[u] # "alive" /\ Culprit(u)
                             /\ \/ sys.pid = u /\ sys.op = "exiting"
                                \/ sys.pid = NoTask /\ Cores = 1
        BY DEF DeathInv, OneTeardown
    <2>2. u # t
        <3> SUFFICES ASSUME Culprit(t) PROVE FALSE
            BY <2>1
        <3>1. /\ Owner[x] = Owner[t] /\ x # Owner[t]
              /\ x = t \/ stage[Owner[t]] = "gone"
            BY <1>1 DEF Culprit
        <3>2. ~IsProc(x) /\ IsProc(Owner[t]) /\ Owner[t] \in Tasks
            BY <3>1, ConstantsAssumption DEF IsProc
        <3>3. stage[x] # "gone"
            BY <3>2 DEF Dying
        <3> QED BY <1>1, <3>1, <3>2, <3>3 DEF Dying
    <2>3. Culprit(u)'
        BY <1>1, <2>1, DyingStage DEF Culprit
    <2>4. u \in Tasks /\ u # NoTask /\ t # NoTask
        BY <2>1, ConstantsAssumption DEF WaitInv, TypeOK
    <2>5. sys' = sys
        BY <1>1, <2>1, <2>2, <2>4
    <2> QED BY <1>1, <2>1, <2>2, <2>3, <2>5
<1> QED BY <1>2, <1>3, <1>4, <1>5 DEF DeathInv

\* Who executes, and who dies, after any step.
LEMMA DeathPreserved ==
    ASSUME Apart, WaitInv, DeathInv, [Next]_vars
    PROVE  DeathInv'
<1>1. CASE UNCHANGED vars
    <2>1. UNCHANGED <<stage, oncpu, sys>> /\ LiveStage'
        BY <1>1 DEF vars, DeathInv, LiveStage, Live
    <2> QED BY <2>1, SameDeath
<1>2. CASE Next
    <2>1. PICK t \in Tasks :
            \/ Dispatch(t) \/ Preempt(t) \/ Timer(t) \/ IpcCall(t) \/ IpcEnd(t)
            \/ \E token \in OtherTokens : OtherWake(t, token)
            \/ \E op \in Ops, s \in Sems : svc_handler(t, op, s)
            \/ Handler(t) \/ Fault(t) \/ Teardown(t)
        BY <1>2 DEF Next
    <2>2. CASE Handler(t)
        BY <2>2, DeathCall, DeathExit, NoCallerDead DEF Handler
    <2>3. CASE Teardown(t)
        BY <2>3, DeathTeardown, DeathLeave DEF Teardown
    <2> QED BY <2>1, <2>2, <2>3, DeathSched, DeathTrap, DeathFault
<1> QED BY <1>1, <1>2

\* In every reachable state one task at most executes a teardown, and nobody
\* dies during a call.
LEMMA DeathInvariant ==
    ASSUME Apart
    PROVE  Spec => [](WaitInv /\ DeathInv)
<1>1. Init => WaitInv /\ DeathInv
    <2> SUFFICES ASSUME Init PROVE DeathInv
        BY Initially
    <2> USE DEF Init
    <2>1. OneOnCpu
        BY FS_EmptySet DEF OneOnCpu
    <2>2. LiveStage
        BY DEF LiveStage, Live, proc_get, NewTask
    <2>3. \A x \in Tasks : ~Dying(x)
        BY DEF Dying
    <2>4. OneTeardown /\ Callers
        BY <2>3 DEF OneTeardown, Callers, NoCall
    <2> QED BY <2>1, <2>2, <2>4 DEF DeathInv
<1>2. WaitInv /\ DeathInv /\ [Next]_vars => (WaitInv /\ DeathInv)'
    BY Preserved, DeathPreserved
<1> QED BY <1>1, <1>2, PTL DEF Spec

\* The stages of a teardown only advance.
LEMMA StageForward ==
    ASSUME WaitInv, LiveStage, [Next]_vars,
           NEW t \in Tasks, stage[t] \in {"zombie", "reset", "gone"}
    PROVE  stage'[t] \in {"zombie", "reset", "gone"}
<1>0. stage \in [Tasks -> Stages]
    BY DEF WaitInv, TypeOK
<1>1. \/ stage' = stage
      \/ \E x \in Tasks : \/ Fault(x) \/ ExitBegin(x) \/ semaphore_clear(x)
                          \/ semaphore_clear_occupied(x) \/ TerminateChild(x)
    BY ZenonT(30) DEF Next, vars, Dispatch, Preempt, Timer, IpcCall, IpcEnd, OtherWake, svc_handler, Handler,
           Teardown, Leave, CallerDead, semaphore_alloc, semaphore_alloc_count, sem_alloc_raw,
           semaphore_free, semaphore_enter_raw, semaphore_try_enter, EnterInvalid, EnterCollect,
           EnterAcquire, EnterRequeue, EnterQueue, EnterFull, EnterServing, EnterPark,
           semaphore_quit
<1>2. ASSUME NEW x \in Tasks, Fault(x)
      PROVE  stage'[t] \in {"zombie", "reset", "gone"}
    <2>1. \E v \in Tasks : stage' = [stage EXCEPT ![x] = "fault", ![v] = "zombie"]
        BY <1>2, ConstantsAssumption DEF Fault
    <2>2. x # t
        BY <1>2 DEF Fault, LiveStage
    <2> QED BY <1>0, <2>1, <2>2
<1>3. ASSUME NEW x \in Tasks, \/ ExitBegin(x) \/ semaphore_clear(x)
                              \/ semaphore_clear_occupied(x) \/ TerminateChild(x)
      PROVE  stage'[t] \in {"zombie", "reset", "gone"}
    BY <1>0, <1>3 DEF ExitBegin, semaphore_clear, semaphore_clear_occupied, TerminateChild
<1> QED BY <1>1, <1>2, <1>3

\* A terminated task is never resumed, while no teardown overlaps a call:
\* proc_unready(ZOMBIE) is final, no wake, block or dispatch undoes it.
THEOREM DeathIsFinal ==
    ASSUME Apart
    PROVE  Spec => ZombieStaysDead
<1>1. WaitInv /\ DeathInv /\ (WaitInv /\ DeathInv)' /\ [Next]_vars
      => [\A t \in Tasks : ~Live(t) => ~Live(t)']_vars
    <2> SUFFICES ASSUME WaitInv, DeathInv, DeathInv', [Next]_vars, NEW t \in Tasks, ~Live(t)
                 PROVE  ~Live(t)'
        OBVIOUS
    <2>1. stage[t] \in {"zombie", "reset", "gone"}
        BY DEF DeathInv, LiveStage, WaitInv, TypeOK, Stages
    <2>2. stage'[t] \in {"zombie", "reset", "gone"}
        BY <2>1, StageForward DEF DeathInv
    <2> QED BY <2>2 DEF DeathInv, LiveStage
<1> QED BY <1>1, DeathInvariant, PTL DEF Spec, ZombieStaysDead

-----------------------------------------------------------------------------
(* Who owns what.                                                          *)

\* A release is asked for by the holder of the lock.
CallQuits ==
    sys.pid # NoTask /\ sys.op = "quit" =>
        sys.sem \in holds[sys.pid] \/ ~sem_is_binary(sys.sem)

\* An owner is recorded exactly for the binary semaphores that are taken.
Occupants ==
    \A s \in Sems :
        /\ sem[s].occupied_pid # NoTask => sem_valid_idx(s) /\ sem_is_binary(s) /\ sem_occupied(s)
        /\ sem_valid_idx(s) /\ sem_is_binary(s) /\ sem_occupied(s) => sem[s].occupied_pid # NoTask
        /\ sem_is_binary(s) => sem[s].count <= 1

OwnInv == CallQuits /\ Occupants /\ OccupancyAccurate /\ DeadHoldNothing

\* A release cannot be overtaken: nobody dies during the call.
LEMMA QuitsKept ==
    ASSUME WaitInv, DeathInv, HoldInv, CallQuits, Next
    PROVE  CallQuits'
<1>1. StepKind
    BY Kinds
<1>2. sys.pid # NoTask /\ sys.op = "quit" => \A x \in Tasks : ~Dying(x)
    BY CallIsCalm
<1>3. CASE Aside
    BY <1>3 DEF Aside, CallQuits, NoCall, sem_is_binary
<1>4. ASSUME NEW t \in Tasks, NEW op \in Ops, NEW s \in Sems, svc_handler(t, op, s)
      PROVE  CallQuits'
    <2>1. /\ sys' = [pid |-> t, op |-> op, sem |-> s, slot |-> NoSlot] /\ Asks(t, op, s)
          /\ UNCHANGED <<sem, holds>>
        BY <1>4 DEF svc_handler, user
    <2> QED BY <2>1 DEF Asks, CallQuits, sem_is_binary
<1>5. CASE \E t \in Tasks : EnterQueue(t)
    <2>1. sys' = [sys EXCEPT !.slot = sem_waiter_free] /\ sys.op \in EnterOps
        BY <1>5 DEF EnterQueue, EnterCall, InCall, EnterOps
    <2>2. sys'.op \in EnterOps
        BY <2>1 DEF WaitInv, TypeOK, Calls, NoCall
    <2> QED BY <2>2 DEF CallQuits, EnterOps
<1>6. CASE \E t \in Tasks : semaphore_clear_occupied(t)
    <2>1. PICK t \in Tasks : semaphore_clear_occupied(t)
        BY <1>6
    <2>2. Dying(t) /\ sys' = sys
        BY <2>1 DEF semaphore_clear_occupied, Dying
    <2> QED BY <1>2, <2>2 DEF CallQuits
<1>7. CASE \E S \in SUBSET Sems : Resets(S)
    BY <1>2, <1>7 DEF Resets, CallQuits, NoCall
<1>8. CASE \/ \E s \in Sems, o \in Tasks, count \in Nat, max \in Nat \ {0} :
                 Allocates(s, o, count, max)
           \/ \E t \in Tasks : Collects(t) \/ Takes(t) \/ Forgoes(t) \/ semaphore_quit(t)
    <2>1. sys' = NoCall
        BY <1>8 DEF Allocates, Collects, Takes, Forgoes, Acquired, Return, semaphore_quit
    <2> QED BY <2>1 DEF CallQuits, NoCall
<1> QED BY <1>1, <1>3, <1>4, <1>5, <1>6, <1>7, <1>8 DEF StepKind

\* Owners after the steps that touch no lock, or that make or unmake them.
LEMMA OwnPlain ==
    ASSUME WaitInv, HoldInv, Occupants, OccupancyAccurate,
           \/ Aside
           \/ \E t \in Tasks, op \in Ops, s \in Sems : svc_handler(t, op, s)
           \/ \E s \in Sems, o \in Tasks, count \in Nat, max \in Nat \ {0} :
                 Allocates(s, o, count, max)
           \/ \E S \in SUBSET Sems : Resets(S)
    PROVE  (Occupants /\ OccupancyAccurate)'
<1> USE DEF sem_valid_idx, sem_is_binary, sem_occupied
<1>0. sem \in [Sems -> Semaphores] /\ holds \in [Tasks -> SUBSET Sems]
    BY DEF WaitInv, TypeOK
<1>1. CASE \/ Aside
           \/ \E t \in Tasks, op \in Ops, s \in Sems : svc_handler(t, op, s)
    <2>1. UNCHANGED <<sem, waiters, holds>>
        BY <1>1 DEF Aside, svc_handler, user
    <2> QED BY <2>1 DEF Occupants, OccupancyAccurate, HasGrant
<1>2. CASE \E s \in Sems, o \in Tasks, count \in Nat, max \in Nat \ {0} :
                 Allocates(s, o, count, max)
    <2> PICK s \in Sems, o \in Tasks, count \in Nat, max \in Nat \ {0} :
                 Allocates(s, o, count, max)
        BY <1>2
    <2>1. /\ sem[s].creater = NoTask /\ waiters' = waiters /\ holds' = holds
          /\ max = 1 => count = 1
          /\ sem' = [sem EXCEPT ![s] = [creater |-> o, count |-> count, max_count |-> max,
                                        occupied_pid |-> NoTask]]
        BY DEF Allocates
    <2>2. /\ sem'[s].count = count /\ sem'[s].max_count = max /\ sem'[s].occupied_pid = NoTask
          /\ \A r \in Sems : r # s => sem'[r] = sem[r]
        BY <1>0, <2>1
    <2>3. \A t \in Tasks : s \notin holds[t] /\ ~HasGrant(t, s)
        BY <2>1, SlotTypes DEF HoldInv, HoldsBinary, HasGrant, WaitInv, SlotsOfSems
    <2>4. \A t \in Tasks, r \in Sems : HasGrant(t, r)' <=> HasGrant(t, r)
        BY <2>1 DEF HasGrant
    <2>5. Occupants'
        BY <2>1, <2>2 DEF Occupants
    <2>6. OccupancyAccurate'
        BY <2>1, <2>2, <2>3, <2>4, ConstantsAssumption DEF OccupancyAccurate
    <2> QED BY <2>5, <2>6
<1>3. CASE \E S \in SUBSET Sems : Resets(S)
    <2> PICK S \in SUBSET Sems : Resets(S)
        BY <1>3
    <2>1. /\ \A i \in Slots : waiters'[i] = IF waiters[i].sem \in S THEN FreeSlot ELSE waiters[i]
          /\ \A s \in Sems : sem'[s] = IF s \in S THEN FreeSem ELSE sem[s]
          /\ \A t \in Tasks : holds'[t] = holds[t] \ S
        BY DEF Resets, sem_reset
    <2>2. \A t \in Tasks, s \in Sems : s \notin S => (HasGrant(t, s)' <=> HasGrant(t, s))
        BY <2>1, FreeSlotFacts DEF HasGrant
    <2>3. Occupants'
        BY <2>1 DEF Occupants, FreeSem
    <2>4. OccupancyAccurate'
        BY <2>1, <2>2 DEF OccupancyAccurate, FreeSem
    <2> QED BY <2>3, <2>4
<1> QED BY <1>1, <1>2, <1>3

\* Owners after a call that enters.
LEMMA OwnEnter ==
    ASSUME WaitInv, HoldInv, Occupants, OccupancyAccurate, NEW t \in Tasks,
           Collects(t) \/ Takes(t) \/ Forgoes(t) \/ EnterQueue(t)
    PROVE  (Occupants /\ OccupancyAccurate)'
<1> USE DEF sem_valid_idx, sem_is_binary, sem_occupied
<1> DEFINE s == sys.sem
<1>0. /\ sem \in [Sems -> Semaphores] /\ holds \in [Tasks -> SUBSET Sems]
      /\ waiters \in [Slots -> Waiters]
    BY DEF WaitInv, TypeOK
<1>1. s \in Sems /\ sys.pid = t
    <2>1. sys.pid = t
        BY DEF Collects, Takes, Forgoes, EnterQueue, EnterCall, InCall
    <2> QED BY <2>1, CallerFacts
<1>2. \A u \in Tasks, r \in Sems :
         waiters' = Left(t) => (HasGrant(u, r)' <=> ~(u = t /\ r = s) /\ HasGrant(u, r))
    BY WithoutFacts, FreeSlotFacts DEF HasGrant
<1>3. CASE Collects(t)
    <2>1. /\ sem' = sem /\ HasGrant(t, s) /\ waiters' = Left(t)
          /\ holds' = [holds EXCEPT ![t] = IF sem_is_binary(s) THEN @ \cup {s} ELSE @]
        BY <1>3 DEF Collects, Acquired
    <2>2. \A u \in Tasks : IF u = t THEN holds'[u] = IF sem_is_binary(s) THEN holds[u] \cup {s}
                                                     ELSE holds[u]
                           ELSE holds'[u] = holds[u]
        BY <1>0, <2>1
    <2> HIDE DEF s
    <2>3. Occupants'
        BY <2>1 DEF Occupants
    <2>4. OccupancyAccurate'
        BY <1>1, <1>2, <2>1, <2>2 DEF OccupancyAccurate
    <2> QED BY <2>3, <2>4
<1>4. CASE Takes(t)
    <2>1. /\ sem' = Taken(t, s) /\ ~HasGrant(t, s) /\ waiters' = Left(t)
          /\ holds' = [holds EXCEPT ![t] = IF sem_is_binary(s) THEN @ \cup {s} ELSE @]
          /\ sem_valid_idx(s) /\ sem[s].count > 0
        BY <1>4 DEF Takes, Acquired
    <2>2. \A u \in Tasks : IF u = t THEN holds'[u] = IF sem_is_binary(s) THEN holds[u] \cup {s}
                                                     ELSE holds[u]
                           ELSE holds'[u] = holds[u]
        BY <1>0, <2>1
    <2> DEFINE n == sem[s].count - 1
               o == IF sem_is_binary(s) THEN t ELSE sem[s].occupied_pid
    <2>3. sem' = [sem EXCEPT ![s] = [sem[s] EXCEPT !.count = n, !.occupied_pid = o]]
        BY <1>0, <1>1, <2>1 DEF Taken, Semaphores
    <2>4. sem[s] \in Semaphores
        BY <1>0, <1>1
    <2> HIDE DEF n, o, s
    <2>5. sem'[s] = [sem[s] EXCEPT !.count = n, !.occupied_pid = o]
        BY <1>0, <1>1, <2>3
    <2>6. /\ sem'[s].count = n /\ sem'[s].creater = sem[s].creater
          /\ sem'[s].max_count = sem[s].max_count /\ sem'[s].occupied_pid = o
          /\ \A r \in Sems : r # s => sem'[r] = sem[r]
        BY <1>0, <1>1, <2>3, <2>4, <2>5 DEF Semaphores
    <2>7. sem_is_binary(s) => sem[s].count = 1 /\ n = 0 /\ o = t
        BY <1>1, <2>1, <2>4 DEF Occupants, n, o, Semaphores
    <2>8. ~sem_is_binary(s) => o = NoTask
        BY <1>1 DEF Occupants, o
    <2>9. t # NoTask
        BY ConstantsAssumption
    <2>10. Occupants'
        BY <2>1, <2>6, <2>7, <2>8, <2>9 DEF Occupants
    <2>11. OccupancyAccurate'
        <3> SUFFICES ASSUME NEW r \in Sems, (sem_valid_idx(r) /\ sem_is_binary(r))', NEW u \in Tasks
                     PROVE  (r \in holds'[u] \/ HasGrant(u, r)') <=>
                            (sem'[r].count = 0 /\ sem'[r].occupied_pid = u)
            BY DEF OccupancyAccurate
        <3>1. CASE r = s
            <4>1. r \notin holds[u] /\ ~HasGrant(u, r)
                BY <2>1, <2>6, <2>7, <3>1 DEF OccupancyAccurate
            <4> QED BY <1>2, <2>1, <2>2, <2>6, <2>7, <3>1, <4>1
        <3>2. CASE r # s
            <4>1. (r \in holds[u] \/ HasGrant(u, r)) <=> (sem[r].count = 0 /\ sem[r].occupied_pid = u)
                BY <2>6, <3>2 DEF OccupancyAccurate
            <4>2. r \in holds'[u] <=> r \in holds[u]
                BY <2>2, <3>2
            <4>3. HasGrant(u, r)' <=> HasGrant(u, r)
                BY <1>1, <1>2, <2>1, <3>2
            <4> QED BY <2>6, <3>2, <4>1, <4>2, <4>3
        <3> QED BY <3>1, <3>2
    <2> QED BY <2>10, <2>11
<1>5. CASE Forgoes(t)
    <2>1. /\ UNCHANGED <<sem, holds>>
          /\ waiters' = waiters \/ (waiters' = Left(t) /\ ~HasGrant(t, s))
        BY <1>5 DEF Forgoes
    <2> HIDE DEF s
    <2>2. \A u \in Tasks, r \in Sems : HasGrant(u, r)' <=> HasGrant(u, r)
        <3>1. CASE waiters' = waiters
            BY <3>1 DEF HasGrant
        <3>2. CASE waiters' = Left(t) /\ ~HasGrant(t, s)
            BY <1>1, <1>2, <3>2
        <3> QED BY <2>1, <3>1, <3>2
    <2> QED BY <2>1, <2>2 DEF Occupants, OccupancyAccurate
<1>6. CASE EnterQueue(t)
    <2> DEFINE k == sem_waiter_free
    <2>1. /\ k # NoSlot /\ UNCHANGED <<sem, holds>>
          /\ waiters' = [waiters EXCEPT ![k] =
                [sem |-> s, pid |-> t, seq |-> waiter_seq, granted |-> FALSE]]
        BY <1>6 DEF EnterQueue, user
    <2>2. k \in Slots /\ ~waiters[k].granted
        BY <2>1, FreeFacts DEF WaitInv, SlotsOfSems
    <2>3. \A i \in Slots : IF i = k THEN ~waiters'[i].granted ELSE waiters'[i] = waiters[i]
        BY <1>0, <2>1, <2>2
    <2> HIDE DEF k, s
    <2>4. \A u \in Tasks, r \in Sems : HasGrant(u, r)' <=> HasGrant(u, r)
        BY <2>2, <2>3 DEF HasGrant
    <2> QED BY <2>1, <2>4 DEF Occupants, OccupancyAccurate
<1> QED BY <1>3, <1>4, <1>5, <1>6

GrantIn(w, u, s) == \E i \in Slots : w[i].sem = s /\ w[i].pid = u /\ w[i].granted

\* Owners after a handoff of locks that nobody else has.
LEMMA OwnHanded ==
    ASSUME WaitInv, Occupants, OccupancyAccurate, NEW t \in Tasks,
           NEW w \in [Slots -> Waiters], NEW S \in SUBSET Sems, NEW c \in [S -> Semaphores],
           HandedOver(w, S, c), \A s \in S : sem_valid_idx(s),
           \A i \in Slots : w[i] = waiters[i] \/ (w[i] = FreeSlot /\ waiters[i].pid = t),
           \A s \in S : sem_is_binary(s) =>
              /\ c[s].count = 1 /\ c[s].occupied_pid = NoTask
              /\ \A u \in Tasks : s \notin holds'[u] /\ ~GrantIn(w, u, s),
           \A s \in S : ~sem_is_binary(s) => c[s].occupied_pid = NoTask,
           \A s \in Sems \ S, u \in Tasks : /\ s \in holds'[u] <=> s \in holds[u]
                                            /\ GrantIn(w, u, s) <=> HasGrant(u, s)
    PROVE  (Occupants /\ OccupancyAccurate)'
<1> USE DEF sem_valid_idx, sem_is_binary, sem_occupied
<1>1. \A s \in Sems : /\ sem'[s].creater = sem[s].creater
                      /\ sem'[s].max_count = sem[s].max_count
                      /\ s \notin S => sem'[s] = sem[s]
    BY DEF HandedOver
<1>2. \A s \in S : IF HandoffSlot(w, s) = NoSlot THEN sem'[s] = c[s]
                   ELSE /\ sem'[s].count = c[s].count - 1
                        /\ sem'[s].occupied_pid = IF sem_is_binary(s) THEN w[HandoffSlot(w, s)].pid
                                                  ELSE c[s].occupied_pid
    BY DEF HandedOver
<1>3. \A i \in Slots :
              /\ waiters'[i] # FreeSlot => /\ waiters'[i].sem = w[i].sem
                                           /\ waiters'[i].pid = w[i].pid
                                           /\ waiters'[i].seq = w[i].seq
              /\ w[i].granted => waiters'[i] = w[i]
              /\ w[i].sem \notin S => waiters'[i] = w[i]
              /\ waiters'[i].granted => w[i].granted \/ Selected(w, S, i)
              /\ Selected(w, S, i) => /\ waiters'[i].sem = w[i].sem
                                      /\ waiters'[i].pid = w[i].pid /\ waiters'[i].granted
    BY HandedSlots
<1>4. ASSUME NEW s \in Sems, NEW u \in Tasks
      PROVE  HasGrant(u, s)' <=> \/ GrantIn(w, u, s)
                                 \/ /\ s \in S /\ HandoffSlot(w, s) # NoSlot
                                    /\ w[HandoffSlot(w, s)].pid = u
    <2>1. ASSUME HasGrant(u, s)'
          PROVE  \/ GrantIn(w, u, s)
                 \/ s \in S /\ HandoffSlot(w, s) # NoSlot /\ w[HandoffSlot(w, s)].pid = u
        <3>1. PICK i \in Slots : waiters'[i].sem = s /\ waiters'[i].pid = u /\ waiters'[i].granted
            BY <2>1 DEF HasGrant
        <3>2. w[i].sem = s /\ w[i].pid = u
            BY <1>3, <3>1, FreeSlotFacts
        <3> QED BY <1>3, <3>1, <3>2, SlotTypes DEF GrantIn, Selected
    <2>2. ASSUME GrantIn(w, u, s) PROVE HasGrant(u, s)'
        BY <1>3, <2>2 DEF HasGrant, GrantIn
    <2>3. ASSUME s \in S, HandoffSlot(w, s) # NoSlot, w[HandoffSlot(w, s)].pid = u
          PROVE  HasGrant(u, s)'
        <3>1. /\ HandoffSlot(w, s) \in Slots /\ w[HandoffSlot(w, s)].sem = s
              /\ Selected(w, S, HandoffSlot(w, s))
            BY <2>3, ChosenSlot
        <3> QED BY <1>3, <2>3, <3>1 DEF HasGrant
    <2> QED BY <2>1, <2>2, <2>3
<1>5. \A s \in S : HandoffSlot(w, s) # NoSlot => w[HandoffSlot(w, s)].pid \in Tasks
    <2> SUFFICES ASSUME NEW s \in S, HandoffSlot(w, s) # NoSlot
                 PROVE  w[HandoffSlot(w, s)].pid \in Tasks
        OBVIOUS
    <2>1. HandoffSlot(w, s) \in Slots /\ w[HandoffSlot(w, s)].sem = s
        BY ChosenSlot
    <2>2. w[HandoffSlot(w, s)] = waiters[HandoffSlot(w, s)]
        BY <2>1, FreeSlotFacts
    <2> QED BY <2>1, <2>2, SlotTypes, ZenonT(30) DEF WaitInv, SlotsOfSems
<1>6. Occupants'
    <2> SUFFICES ASSUME NEW s \in Sems
                 PROVE  /\ sem'[s].occupied_pid # NoTask =>
                              (sem_valid_idx(s) /\ sem_is_binary(s) /\ sem_occupied(s))'
                        /\ (sem_valid_idx(s) /\ sem_is_binary(s) /\ sem_occupied(s))' =>
                              sem'[s].occupied_pid # NoTask
                        /\ sem_is_binary(s)' => sem'[s].count <= 1
        BY DEF Occupants
    <2>1. CASE s \notin S
        BY <1>1, <2>1 DEF Occupants
    <2>2. CASE s \in S /\ ~sem_is_binary(s)
        BY <1>1, <1>2, <2>2
    <2>3. CASE s \in S /\ sem_is_binary(s)
        BY <1>1, <1>2, <1>5, <2>3, ConstantsAssumption
    <2> QED BY <2>1, <2>2, <2>3
<1>7. OccupancyAccurate'
    <2> SUFFICES ASSUME NEW s \in Sems, (sem_valid_idx(s) /\ sem_is_binary(s))', NEW u \in Tasks
                 PROVE  (s \in holds'[u] \/ HasGrant(u, s)') <=>
                        (sem'[s].count = 0 /\ sem'[s].occupied_pid = u)
        BY DEF OccupancyAccurate
    <2>1. CASE s \notin S
        BY <1>1, <1>4, <2>1 DEF OccupancyAccurate
    <2>2. CASE s \in S
        <3>1. s \notin holds'[u] /\ ~GrantIn(w, u, s) /\ sem_is_binary(s)
              /\ c[s].count = 1 /\ c[s].occupied_pid = NoTask
            BY <1>1, <2>2
        <3> QED BY <1>2, <1>4, <2>2, <3>1, ConstantsAssumption
    <2> QED BY <2>1, <2>2
<1> QED BY <1>6, <1>7

\* t gives up the semaphores of S, from the wait table w: the locks among them
\* are its own and nobody else's.
Hands(t, w, S, c) ==
    /\ HandedOver(w, S, c) /\ \A s \in S : sem_valid_idx(s)
    /\ \A i \in Slots : w[i] = waiters[i] \/ (w[i] = FreeSlot /\ waiters[i].pid = t)
    /\ \A s \in S : sem_is_binary(s) =>
          /\ sem_occupied(s) /\ sem[s].occupied_pid = t /\ \A i \in Queue(waiters, s) : waiters[i].pid # t
          /\ c[s].count = 1 /\ c[s].occupied_pid = NoTask
          /\ \A u \in Tasks : s \notin holds'[u] /\ ~GrantIn(w, u, s)
    /\ \A s \in S : ~sem_is_binary(s) => c[s].occupied_pid = NoTask
    /\ \A s \in Sems \ S, u \in Tasks : /\ s \in holds'[u] <=> s \in holds[u]
                                        /\ GrantIn(w, u, s) <=> HasGrant(u, s)

\* A release gives up what the caller holds, or changes nothing.
LEMMA QuitHands ==
    ASSUME WaitInv, HoldInv, CallQuits, Occupants, OccupancyAccurate, NEW t \in Tasks,
           semaphore_quit(t)
    PROVE  \/ UNCHANGED <<sem, waiters>> /\ \A u \in Tasks : holds'[u] = holds[u]
           \/ \E S \in SUBSET Sems : \E c \in [S -> Semaphores] : Hands(t, waiters, S, c)
<1> DEFINE s == sys.sem
<1>0. /\ sem \in [Sems -> Semaphores] /\ holds \in [Tasks -> SUBSET Sems]
      /\ waiters \in [Slots -> Waiters]
    BY DEF WaitInv, TypeOK
<1>1. /\ s \in Sems /\ sys.pid = t /\ sys.op = "quit"
      /\ holds' = [holds EXCEPT ![t] = @ \ {s}]
    BY QuitShape
<1>2. s \in holds[t] \/ ~sem_is_binary(s)
    BY <1>1, ConstantsAssumption DEF CallQuits
<1>3. \A u \in Tasks : s \in holds[u] => /\ sem_valid_idx(s) /\ sem_is_binary(s) /\ ~HasSlot(u, s)
                                         /\ sem_occupied(s) /\ sem[s].occupied_pid = u
    BY <1>1 DEF HoldInv, HoldsBinary, OccupancyAccurate
<1>4. sem[s] \in Semaphores
    BY <1>0, <1>1
<1>5. CASE /\ ~sem_valid_idx(s) \/ sem[s].count >= sem[s].max_count
           /\ UNCHANGED <<sem, waiters, task, permits, waiter_seq, want, wrapped>>
           /\ ahead' = Tidy(ahead, waiters')
    <2>1. s \notin holds[t]
        BY <1>3, <1>4, <1>5 DEF sem_occupied, Semaphores
    <2> HIDE DEF s
    <2>2. \A u \in Tasks : holds'[u] = holds[u]
        BY <1>0, <1>1, <2>1
    <2> QED BY <1>5, <2>2
<1>6. CASE /\ sem_valid_idx(s) /\ sem[s].count < sem[s].max_count
           /\ permits' = [permits EXCEPT ![s] = @ + 1]
           /\ \E c \in [{s} -> Semaphores] :
                 /\ c[s].count = sem[s].count + 1
                 /\ c[s].occupied_pid = IF sem_is_binary(s) /\ sem[s].occupied_pid = t
                                        THEN NoTask ELSE sem[s].occupied_pid
                 /\ HandedOver(waiters, {s}, c)
    <2>1. PICK c \in [{s} -> Semaphores] :
                 /\ c[s].count = sem[s].count + 1
                 /\ c[s].occupied_pid = IF sem_is_binary(s) /\ sem[s].occupied_pid = t
                                        THEN NoTask ELSE sem[s].occupied_pid
                 /\ HandedOver(waiters, {s}, c)
        BY <1>6
    <2> HIDE DEF s
    <2>2. \A u \in Tasks, r \in Sems : GrantIn(waiters, u, r) <=> HasGrant(u, r)
        BY DEF GrantIn, HasGrant
    <2>3. sem_is_binary(s) =>
            /\ sem_occupied(s) /\ sem[s].occupied_pid = t
            /\ \A i \in Queue(waiters, s) : waiters[i].pid # t
            /\ c[s].count = 1 /\ c[s].occupied_pid = NoTask
            /\ \A u \in Tasks : s \notin holds'[u] /\ ~GrantIn(waiters, u, s)
        <3> SUFFICES ASSUME sem_is_binary(s)
                     PROVE  /\ sem_occupied(s) /\ sem[s].occupied_pid = t
                            /\ \A i \in Queue(waiters, s) : waiters[i].pid # t
                            /\ c[s].count = 1 /\ c[s].occupied_pid = NoTask
                            /\ \A u \in Tasks : s \notin holds'[u] /\ ~GrantIn(waiters, u, s)
            OBVIOUS
        <3>1. s \in holds[t] /\ ~HasSlot(t, s) /\ sem_occupied(s) /\ sem[s].occupied_pid = t
            BY <1>2, <1>3
        <3>2. c[s].count = 1 /\ c[s].occupied_pid = NoTask
            BY <2>1, <3>1 DEF sem_occupied
        <3>3. ASSUME NEW u \in Tasks PROVE s \notin holds'[u] /\ ~GrantIn(waiters, u, s)
            <4>1. u # t => s \notin holds[u] /\ ~HasGrant(u, s)
                BY <1>1, <1>3, <1>6, <3>1 DEF OccupancyAccurate
            <4>2. ~HasGrant(t, s)
                BY <3>1 DEF HasSlot, HasGrant
            <4> QED BY <1>0, <1>1, <2>2, <4>1, <4>2
        <3> QED BY <3>1, <3>2, <3>3 DEF HasSlot, Queue
    <2>4. ~sem_is_binary(s) => c[s].occupied_pid = NoTask
        BY <1>1, <2>1 DEF Occupants
    <2>5. \A r \in Sems \ {s}, u \in Tasks : r \in holds'[u] <=> r \in holds[u]
        BY <1>0, <1>1
    <2>6. Hands(t, waiters, {s}, c)
        BY <1>6, <2>1, <2>2, <2>3, <2>4, <2>5 DEF Hands
    <2>7. {s} \in SUBSET Sems
        BY <1>1
    <2> QED BY <2>6, <2>7
<1> QED BY <1>5, <1>6, QuitShape

\* The end of a teardown gives up all that the dying task has.
LEMMA ClearHands ==
    ASSUME WaitInv, HoldInv, Occupants, OccupancyAccurate, NEW t \in Tasks,
           semaphore_clear_occupied(t)
    PROVE  \E S \in SUBSET Sems : \E c \in [S -> Semaphores] :
              /\ Hands(t, Without(t), S, c)
              /\ \A s \in Sems : sem[s].occupied_pid = t => s \in S
<1> DEFINE S == GrantsOf(t) \cup OccupiedBy(t)
<1>0. /\ sem \in [Sems -> Semaphores] /\ holds \in [Tasks -> SUBSET Sems]
      /\ waiters \in [Slots -> Waiters]
    BY DEF WaitInv, TypeOK
<1>1. S \in SUBSET Sems /\ holds' = [holds EXCEPT ![t] = {}]
    BY ClearShape
<1>2. PICK c \in [S -> Semaphores] :
         /\ \A s \in S :
               /\ s \in GrantsOf(t) =>
                     /\ c[s].count = IF sem[s].count < sem[s].max_count
                                     THEN sem[s].count + 1 ELSE sem[s].count
                     /\ c[s].occupied_pid = IF sem[s].occupied_pid = t THEN NoTask
                                            ELSE sem[s].occupied_pid
               /\ s \notin GrantsOf(t) =>
                     c[s].count = sem[s].max_count /\ c[s].occupied_pid = NoTask
               /\ c[s].count > 0
         /\ HandedOver(Without(t), S, c)
    BY ClearShape
<1>3. /\ \A s \in S : sem_valid_idx(s)
      /\ \A s \in Sems : sem[s].occupied_pid = t => s \in S
      /\ \A s \in Sems : HasGrant(t, s) => s \in S
      /\ \A s \in S : s \in GrantsOf(t) => HasGrant(t, s)
      /\ \A s \in S : ~sem_is_binary(s) => s \in GrantsOf(t)
      /\ \A s \in S : s \notin GrantsOf(t) => sem_occupied(s) /\ sem[s].occupied_pid = t
    <2>1. \A s \in Sems : HasGrant(t, s) => sem_valid_idx(s)
        BY SlotTypes DEF HasGrant, WaitInv, SlotsOfSems
    <2>2. \A s \in Sems : sem[s].occupied_pid = t =>
             sem_valid_idx(s) /\ sem_is_binary(s) /\ sem_occupied(s)
        BY ConstantsAssumption DEF Occupants
    <2> QED BY <2>1, <2>2 DEF GrantsOf, OccupiedBy, HasGrant
<1> HIDE DEF S
<1>4. ASSUME NEW s \in S, sem_is_binary(s)
      PROVE  sem_occupied(s) /\ sem[s].occupied_pid = t /\ \A i \in Queue(waiters, s) : waiters[i].pid # t
    <2>1. sem_occupied(s) /\ sem[s].occupied_pid = t
        BY <1>1, <1>3, <1>4 DEF OccupancyAccurate
    <2>2. s \in holds[t] \/ HasGrant(t, s)
        BY <1>1, <1>3, <1>4, <2>1 DEF OccupancyAccurate
    <2>3. ASSUME NEW i \in Queue(waiters, s), waiters[i].pid = t PROVE FALSE
        <3>1. i \in Slots /\ waiters[i].sem = s /\ ~waiters[i].granted
            BY DEF Queue
        <3>2. s \notin holds[t]
            BY <2>3, <3>1 DEF HoldInv, HoldsBinary, HasSlot
        <3>3. PICK j \in Slots : waiters[j].sem = s /\ waiters[j].pid = t /\ waiters[j].granted
            BY <2>2, <3>2 DEF HasGrant
        <3> QED BY <1>1, <2>3, <3>1, <3>3, SlotTypes DEF WaitInv, OneSlot
    <2> QED BY <2>1, <2>3
<1>5. \A i \in Slots : Without(t)[i] = IF waiters[i].pid = t THEN FreeSlot ELSE waiters[i]
    BY WithoutFacts
<1>6. \A u \in Tasks, s \in Sems : GrantIn(Without(t), u, s) <=> u # t /\ HasGrant(u, s)
    BY <1>5, FreeSlotFacts DEF GrantIn, HasGrant
<1>7. \A s \in S : sem_is_binary(s) =>
            /\ sem_occupied(s) /\ sem[s].occupied_pid = t
            /\ \A i \in Queue(waiters, s) : waiters[i].pid # t
            /\ c[s].count = 1 /\ c[s].occupied_pid = NoTask
            /\ \A u \in Tasks : s \notin holds'[u] /\ ~GrantIn(Without(t), u, s)
    <2> SUFFICES ASSUME NEW s \in S, sem_is_binary(s)
                 PROVE  /\ c[s].count = 1 /\ c[s].occupied_pid = NoTask
                        /\ \A u \in Tasks : s \notin holds'[u] /\ ~GrantIn(Without(t), u, s)
        BY <1>4
    <2>1. sem_occupied(s) /\ sem[s].occupied_pid = t /\ s \in Sems
        BY <1>1, <1>4
    <2>2. c[s].count = 1 /\ c[s].occupied_pid = NoTask
        BY <1>2, <2>1 DEF sem_is_binary, sem_occupied
    <2>3. ASSUME NEW u \in Tasks PROVE s \notin holds'[u] /\ ~GrantIn(Without(t), u, s)
        <3>1. u # t => s \notin holds[u] /\ ~HasGrant(u, s)
            BY <1>3, <2>1 DEF OccupancyAccurate
        <3> QED BY <1>0, <1>1, <1>6, <2>1, <3>1
    <2> QED BY <2>2, <2>3
<1>8. \A s \in S : ~sem_is_binary(s) => c[s].occupied_pid = NoTask
    BY <1>1, <1>2, <1>3 DEF Occupants
<1>9. \A s \in Sems \ S, u \in Tasks : /\ s \in holds'[u] <=> s \in holds[u]
                                       /\ GrantIn(Without(t), u, s) <=> HasGrant(u, s)
    <2> SUFFICES ASSUME NEW s \in Sems \ S, NEW u \in Tasks
                 PROVE  /\ s \in holds'[u] <=> s \in holds[u]
                        /\ GrantIn(Without(t), u, s) <=> HasGrant(u, s)
        OBVIOUS
    <2>1. s \notin holds[t]
        BY <1>3 DEF HoldInv, HoldsBinary, OccupancyAccurate
    <2> QED BY <1>0, <1>1, <1>3, <1>6, <2>1
<1>10. Hands(t, Without(t), S, c)
    BY <1>2, <1>3, <1>5, <1>7, <1>8, <1>9 DEF Hands
<1> QED BY <1>1, <1>3, <1>10

\* Owners after a release or the end of a teardown.
LEMMA OwnHandoff ==
    ASSUME WaitInv, HoldInv, CallQuits, Occupants, OccupancyAccurate, NEW t \in Tasks,
           semaphore_quit(t) \/ semaphore_clear_occupied(t)
    PROVE  (Occupants /\ OccupancyAccurate)'
<1>1. ASSUME NEW w \in [Slots -> Waiters], NEW S \in SUBSET Sems, NEW c \in [S -> Semaphores],
             Hands(t, w, S, c)
      PROVE  (Occupants /\ OccupancyAccurate)'
    BY <1>1, OwnHanded DEF Hands
<1>2. CASE UNCHANGED <<sem, waiters>> /\ \A u \in Tasks : holds'[u] = holds[u]
    BY <1>2 DEF Occupants, OccupancyAccurate, HasGrant, sem_valid_idx, sem_is_binary, sem_occupied
<1>3. CASE semaphore_quit(t)
    BY <1>1, <1>2, <1>3, QuitHands DEF WaitInv, TypeOK
<1>4. CASE semaphore_clear_occupied(t)
    BY <1>1, <1>4, ClearHands, WithoutFacts
<1> QED BY <1>3, <1>4

\* t is in no queue and owns no semaphore.
NoTrace(t) == /\ \A i \in Slots : waiters[i].pid # t
              /\ \A s \in Sems : sem[s].occupied_pid # t

\* A handoff leaves nothing to a task that is not in the table.
LEMMA HandsNoTrace ==
    ASSUME NEW u \in Tasks, NEW w \in [Slots -> Waiters], NEW S \in SUBSET Sems,
           NEW c \in [S -> Semaphores], Hands(u, w, S, c), NEW t \in Tasks,
           \A i \in Slots : w[i].pid # t, \A s \in Sems \ S : sem[s].occupied_pid # t
    PROVE  NoTrace(t)'
<1>0. HandedOver(w, S, c) /\ NoTask # t
    BY ConstantsAssumption DEF Hands
<1>1. \A i \in Slots : waiters'[i] # FreeSlot => waiters'[i].pid = w[i].pid
    BY <1>0, HandedSlots
<1>2. \A i \in Slots : waiters'[i].pid # t
    BY <1>0, <1>1, FreeSlotFacts
<1>3. ASSUME NEW s \in S PROVE sem'[s].occupied_pid # t
    <2>1. c[s].occupied_pid # t
        BY <1>0 DEF Hands
    <2>2. CASE HandoffSlot(w, s) = NoSlot
        BY <1>0, <2>1, <2>2 DEF HandedOver
    <2>3. CASE HandoffSlot(w, s) # NoSlot
        <3>1. HandoffSlot(w, s) \in Slots
            BY <2>3, ChosenSlot
        <3> QED BY <1>0, <2>1, <2>3, <3>1 DEF HandedOver
    <2> QED BY <2>2, <2>3
<1>4. \A s \in Sems \ S : sem'[s].occupied_pid # t
    BY <1>0 DEF HandedOver
<1> QED BY <1>2, <1>3, <1>4 DEF NoTrace

\* A task that is gone, and has nothing, gets nothing.
LEMMA TraceKept ==
    ASSUME WaitInv, DeathInv, HoldInv, OwnInv, Next, NEW t \in Tasks, stage[t] = "gone", NoTrace(t)
    PROVE  NoTrace(t)'
<1>0. /\ sem \in [Sems -> Semaphores] /\ waiters \in [Slots -> Waiters] /\ NoTask # t
      /\ FreeSlot.pid # t /\ FreeSem.occupied_pid # t
    BY ConstantsAssumption, FreeSlotFacts DEF WaitInv, TypeOK, FreeSem
<1>1. CASE Aside \/ \E u \in Tasks, op \in Ops, s \in Sems : svc_handler(u, op, s)
    BY <1>1 DEF Aside, svc_handler, NoTrace
<1>2. CASE \E s \in Sems, o \in Tasks, count \in Nat, max \in Nat \ {0} :
                 Allocates(s, o, count, max)
    BY <1>0, <1>2 DEF Allocates, NoTrace
<1>3. CASE \E S \in SUBSET Sems : Resets(S)
    BY <1>0, <1>3 DEF Resets, sem_reset, NoTrace
<1>4. ASSUME NEW u \in Tasks, Collects(u) \/ Takes(u) \/ Forgoes(u) \/ EnterQueue(u)
      PROVE  NoTrace(t)'
    <2>1. sys.pid = u /\ sys.op \in EnterOps
        BY <1>4 DEF Collects, Takes, Forgoes, EnterQueue, EnterCall, InCall, EnterOps
    <2>2. u # t /\ sys.sem \in Sems
        BY <2>1, CallIsCalm, CallerFacts, ConstantsAssumption DEF EnterOps
    <2>3. waiters' \in {waiters, Left(u)} => \A i \in Slots : waiters'[i].pid # t
        BY <1>0, WithoutFacts DEF NoTrace
    <2>4. CASE Collects(u) \/ Forgoes(u)
        BY <2>3, <2>4 DEF Collects, Forgoes, NoTrace
    <2>5. CASE Takes(u)
        <3> DEFINE s == sys.sem
                   n == sem[s].count - 1
                   o == IF sem_is_binary(s) THEN u ELSE sem[s].occupied_pid
        <3>1. sem[s] \in Semaphores /\ o # t
            BY <1>0, <2>2 DEF NoTrace
        <3>2. sem' = [sem EXCEPT ![s] = [sem[s] EXCEPT !.count = n, !.occupied_pid = o]]
            BY <2>5, <3>1 DEF Takes, Taken, Semaphores
        <3> HIDE DEF n, o, s
        <3>3. [sem[s] EXCEPT !.count = n, !.occupied_pid = o].occupied_pid = o
            BY <3>1 DEF Semaphores
        <3>4. \A r \in Sems : sem'[r].occupied_pid # t
            BY <1>0, <3>1, <3>2, <3>3 DEF NoTrace
        <3> QED BY <2>3, <2>5, <3>4 DEF Takes, NoTrace
    <2>6. CASE EnterQueue(u)
        <3>1. /\ sem' = sem /\ sem_waiter_free \in Slots
              /\ waiters' = [waiters EXCEPT ![sem_waiter_free] =
                    [sem |-> sys.sem, pid |-> u, seq |-> waiter_seq, granted |-> FALSE]]
            BY <2>6, FreeFacts DEF EnterQueue
        <3> QED BY <1>0, <2>2, <3>1 DEF NoTrace
    <2> QED BY <1>4, <2>4, <2>5, <2>6
<1>5. ASSUME NEW u \in Tasks, semaphore_quit(u)
      PROVE  NoTrace(t)'
    <2>1. CASE UNCHANGED <<sem, waiters>>
        BY <2>1 DEF NoTrace
    <2>2. ASSUME NEW S \in SUBSET Sems, NEW c \in [S -> Semaphores], Hands(u, waiters, S, c)
          PROVE  NoTrace(t)'
        BY <1>0, <2>2, HandsNoTrace DEF NoTrace
    <2> QED BY <1>5, <2>1, <2>2, QuitHands DEF OwnInv
<1>6. ASSUME NEW u \in Tasks, semaphore_clear_occupied(u)
      PROVE  NoTrace(t)'
    <2>1. \E S \in SUBSET Sems : \E c \in [S -> Semaphores] : Hands(u, Without(u), S, c)
        BY <1>6, ClearHands DEF OwnInv
    <2>2. /\ Without(u) \in [Slots -> Waiters] /\ \A i \in Slots : Without(u)[i].pid # t
        BY <1>0, WithoutFacts DEF NoTrace
    <2> QED BY <2>1, <2>2, HandsNoTrace DEF NoTrace
<1> QED BY <1>1, <1>2, <1>3, <1>4, <1>5, <1>6, Kinds DEF StepKind

\* The last section of the teardown leaves nothing of the task behind.
LEMMA TraceCleared ==
    ASSUME WaitInv, HoldInv, OwnInv, NEW t \in Tasks, semaphore_clear_occupied(t)
    PROVE  NoTrace(t)'
<1>1. \E S \in SUBSET Sems : \E c \in [S -> Semaphores] :
         /\ Hands(t, Without(t), S, c)
         /\ \A s \in Sems : sem[s].occupied_pid = t => s \in S
    BY ClearHands DEF OwnInv
<1>2. Without(t) \in [Slots -> Waiters] /\ \A i \in Slots : Without(t)[i].pid # t
    BY WithoutFacts, FreeSlotFacts
<1> QED BY <1>1, <1>2, HandsNoTrace

\* A teardown ends with semaphore_clear_occupied().
LEMMA GoneBy ==
    ASSUME WaitInv, Next, NEW t \in Tasks, stage'[t] = "gone"
    PROVE  stage[t] = "gone" \/ semaphore_clear_occupied(t)
<1>0. stage \in [Tasks -> Stages]
    BY DEF WaitInv, TypeOK
<1>1. \/ stage' = stage
      \/ \E x \in Tasks : \/ Fault(x) \/ ExitBegin(x) \/ semaphore_clear(x)
                          \/ semaphore_clear_occupied(x) \/ TerminateChild(x)
    BY ZenonT(30) DEF Next, Dispatch, Preempt, Timer, IpcCall, IpcEnd, OtherWake, svc_handler, Handler,
           Teardown, Leave, CallerDead, semaphore_alloc, semaphore_alloc_count, sem_alloc_raw,
           semaphore_free, semaphore_enter_raw, semaphore_try_enter, EnterInvalid, EnterCollect,
           EnterAcquire, EnterRequeue, EnterQueue, EnterFull, EnterServing, EnterPark,
           semaphore_quit
<1>2. ASSUME NEW x \in Tasks, Fault(x) PROVE stage[t] = "gone"
    <2>1. \E v \in Tasks : stage' = [stage EXCEPT ![x] = "fault", ![v] = "zombie"]
        BY <1>2, ConstantsAssumption DEF Fault
    <2> QED BY <1>0, <2>1
<1>3. ASSUME NEW x \in Tasks, ExitBegin(x) \/ semaphore_clear(x) \/ TerminateChild(x)
      PROVE  stage[t] = "gone"
    BY <1>0, <1>3 DEF ExitBegin, semaphore_clear, TerminateChild
<1>4. ASSUME NEW x \in Tasks, semaphore_clear_occupied(x)
      PROVE  stage[t] = "gone" \/ x = t
    BY <1>0, <1>4 DEF semaphore_clear_occupied
<1> QED BY <1>1, <1>2, <1>3, <1>4

\* What the proofs below rest on.
LEMMA OwnInvariant ==
    ASSUME Apart
    PROVE  Spec => [](WaitInv /\ DeathInv /\ HoldInv /\ OwnInv)
<1>1. Init => OwnInv
    <2> SUFFICES ASSUME Init PROVE OwnInv
        OBVIOUS
    <2> QED BY ConstantsAssumption DEF Init, OwnInv, CallQuits, NoCall, Occupants, FreeSem,
               OccupancyAccurate, DeadHoldNothing, sem_valid_idx
<1>2. WaitInv /\ DeathInv /\ HoldInv /\ OwnInv /\ [Next]_vars => OwnInv'
    <2> SUFFICES ASSUME WaitInv, DeathInv, HoldInv, OwnInv, [Next]_vars PROVE OwnInv'
        OBVIOUS
    <2>1. CASE UNCHANGED vars
        BY <2>1 DEF vars, OwnInv, CallQuits, Occupants, OccupancyAccurate, DeadHoldNothing,
                    HasGrant, sem_valid_idx, sem_is_binary, sem_occupied
    <2>2. CASE Next
        <3>1. CallQuits'
            BY <2>2, QuitsKept DEF OwnInv
        <3>2. (Occupants /\ OccupancyAccurate)'
            BY <2>2, Kinds, OwnPlain, OwnEnter, OwnHandoff DEF StepKind, OwnInv
        <3>3. ASSUME NEW t \in Tasks, stage'[t] = "gone" PROVE NoTrace(t)'
            <4>1. CASE stage[t] = "gone"
                BY <2>2, <4>1, TraceKept DEF OwnInv, DeadHoldNothing, NoTrace
            <4>2. CASE semaphore_clear_occupied(t)
                BY <4>2, TraceCleared
            <4> QED BY <2>2, <3>3, <4>1, <4>2, GoneBy
        <3>4. DeadHoldNothing'
            BY <3>3 DEF DeadHoldNothing, NoTrace
        <3> QED BY <3>1, <3>2, <3>4 DEF OwnInv
    <2> QED BY <2>1, <2>2
<1> QED BY <1>1, <1>2, DeathInvariant, HoldInvariant, PTL DEF Spec

\* occupied_pid names the one task that has a taken lock, so that
\* semaphore_clear_occupied() can recover the locks of the dead.
THEOREM OwnersAreRecorded ==
    ASSUME Apart
    PROVE  Spec => []OccupancyAccurate
<1>1. OwnInv => OccupancyAccurate
    BY DEF OwnInv
<1> QED BY <1>1, OwnInvariant, PTL

\* A binary semaphore never has two holders, although semaphore_quit() does not
\* check who calls it.
THEOREM OneHolder ==
    ASSUME Apart
    PROVE  Spec => []MutualExclusion
<1>1. WaitInv /\ HoldInv /\ OwnInv => MutualExclusion
    <2> SUFFICES ASSUME WaitInv, HoldInv, OwnInv, NEW s \in Sems, NEW t \in Tasks, NEW u \in Tasks,
                        s \in holds[t], s \in holds[u]
                 PROVE  t = u
        BY DEF MutualExclusion
    <2>1. sem_valid_idx(s) /\ sem_is_binary(s)
        BY DEF HoldInv, HoldsBinary
    <2>2. sem[s].occupied_pid = t /\ sem[s].occupied_pid = u
        BY <2>1 DEF OwnInv, OccupancyAccurate
    <2> QED BY <2>2
<1> QED BY <1>1, OwnInvariant, PTL

\* A task whose teardown is complete is in no queue and owns no semaphore.
THEOREM DeadAreForgotten ==
    ASSUME Apart
    PROVE  Spec => []DeadHoldNothing
<1>1. OwnInv => DeadHoldNothing
    BY DEF OwnInv
<1> QED BY <1>1, OwnInvariant, PTL

-----------------------------------------------------------------------------
(* The refinement of Lock.                                                 *)

IsLock(s) == sem_valid_idx(s) /\ sem_is_binary(s)
LockOwner(s) == IF sem_occupied(s) THEN sem[s].occupied_pid ELSE NoTask
LockQueue(s) == {waiters[i].pid : i \in Queue(waiters, s)}
LockInside(s) == {t \in Tasks : s \in holds[t]}
Dead == {t \in Tasks : ~Live(t)}
Up(o, q, n) == [up |-> TRUE, owner |-> o, queue |-> q, inside |-> n]

\* A lock that stays a lock and moves as Lock allows.
UpMove(s) ==
    \/ UNCHANGED <<LockOwner(s), LockQueue(s), LockInside(s)>>
    \/ /\ LockOwner(s) = NoTask /\ LockQueue(s) \subseteq Dead /\ LockQueue(s)' = LockQueue(s)
       /\ \E t \in Tasks \ Dead : LockOwner(s)' = t /\ LockInside(s)' = {t}
    \/ /\ LockOwner(s) # NoTask /\ UNCHANGED <<LockOwner(s), LockInside(s)>>
       /\ \E t \in Tasks \ LockQueue(s) : LockQueue(s)' = LockQueue(s) \cup {t}
    \/ /\ UNCHANGED <<LockOwner(s), LockInside(s)>>
       /\ \E t \in Tasks : t \in LockQueue(s) /\ LockQueue(s)' = LockQueue(s) \ {t}
    \/ /\ LockOwner(s) \in Tasks /\ UNCHANGED <<LockOwner(s), LockQueue(s)>>
       /\ LockInside(s)' = {LockOwner(s)}
    \/ /\ LockOwner(s) # NoTask /\ LockInside(s)' = {}
       /\ \E gone \in SUBSET (LockQueue(s) \cap Dead) :
             \/ \E t \in (LockQueue(s) \ gone) \ Dead :
                   LockOwner(s)' = t /\ LockQueue(s)' = (LockQueue(s) \ gone) \ {t}
             \/ /\ LockQueue(s) \ gone \subseteq Dead
                /\ LockOwner(s)' = NoTask /\ LockQueue(s)' = LockQueue(s) \ gone

\* A record with these fields is that lock.
LEMMA UpIs ==
    ASSUME NEW o, NEW q, NEW n, NEW r \in [up: {TRUE}, owner: {o}, queue: {q}, inside: {n}]
    PROVE  r = Up(o, q, n)
BY DEF Up

\* What a semaphore is as a lock.
LEMMA LockIs ==
    ASSUME NEW s \in Sems
    PROVE  /\ IsLock(s) => LockOf(s) = Up(LockOwner(s), LockQueue(s), LockInside(s))
           /\ ~IsLock(s) => LockOf(s) = L!Down
           /\ IsLock(s)' => LockOf(s)' = Up(LockOwner(s)', LockQueue(s)', LockInside(s)')
           /\ ~IsLock(s)' => LockOf(s)' = L!Down
           /\ L!Free = Up(NoTask, {}, {})
<1> USE DEF LockOf, IsLock, LockOwner, LockQueue, LockInside, Queue, Up
<1>1. IsLock(s) => LockOf(s) = Up(LockOwner(s), LockQueue(s), LockInside(s))
    OBVIOUS
<1>2. IsLock(s)' => LockOf(s)' = Up(LockOwner(s)', LockQueue(s)', LockInside(s)')
    OBVIOUS
<1>3. (~IsLock(s) => LockOf(s) = L!Down) /\ (~IsLock(s)' => LockOf(s)' = L!Down)
    BY DEF L!Down
<1>4. L!Free = Up(NoTask, {}, {})
    <2>1. L!Down \in [up: {FALSE}, owner: {NoTask}, queue: {{}}, inside: {{}}]
        BY DEF L!Down
    <2>2. [L!Down EXCEPT !.up = TRUE] \in [up: {TRUE}, owner: {NoTask}, queue: {{}}, inside: {{}}]
        BY <2>1
    <2>3. L!Free = [L!Down EXCEPT !.up = TRUE]
        BY DEF L!Free
    <2> QED BY <2>2, <2>3, UpIs
<1> QED BY <1>1, <1>2, <1>3, <1>4

\* The steps of Lock in terms of the values of one lock.
LEMMA LockSteps ==
    ASSUME NEW s \in Sems
    PROVE  /\ ~LockOf(s).up /\ LockOf(s)' = L!Free => L!Create(s)
           /\ LockOf(s).up /\ LockOf(s)' = L!Down => L!Destroy(s)
           /\ \A t : /\ LockOf(s).up /\ LockOf(s).owner = NoTask /\ t \notin Dead
                     /\ LockOf(s).queue \subseteq Dead
                     /\ LockOf(s)' = [LockOf(s) EXCEPT !.owner = t, !.inside = {t}]
                     => L!Take(s, t)
           /\ \A t : /\ LockOf(s).up /\ LockOf(s).owner # NoTask /\ t \notin LockOf(s).queue
                     /\ LockOf(s)' = [LockOf(s) EXCEPT !.queue = LockOf(s).queue \cup {t}]
                     => L!Enqueue(s, t)
           /\ \A t : /\ t \in LockOf(s).queue
                     /\ LockOf(s)' = [LockOf(s) EXCEPT !.queue = LockOf(s).queue \ {t}]
                     => L!Abandon(s, t)
           /\ \A t : /\ LockOf(s).owner = t
                     /\ LockOf(s)' = [LockOf(s) EXCEPT !.inside = {t}]
                     => L!Collect(s, t)
           /\ /\ LockOf(s).owner # NoTask
              /\ \E gone \in SUBSET (LockOf(s).queue \cap (Dead \cup {LockOf(s).owner})) :
                    LET q == LockOf(s).queue \ gone IN
                    \/ \E c \in q \ Dead :
                          LockOf(s)' = [LockOf(s) EXCEPT !.owner = c, !.queue = q \ {c}, !.inside = {}]
                    \/ /\ q \subseteq Dead
                       /\ LockOf(s)' = [LockOf(s) EXCEPT !.owner = NoTask, !.queue = q, !.inside = {}]
              => L!Release(s)
<1>1. [r \in Sems |-> LockOf(r)][s] = LockOf(s)
    OBVIOUS
<1>2. [r \in Sems |-> LockOf(r)]'[s] = LockOf(s)'
    OBVIOUS
<1> USE <1>1, <1>2 DEF Dead
<1>3. ~LockOf(s).up /\ LockOf(s)' = L!Free => L!Create(s)
    BY DEF L!Create
<1>4. LockOf(s).up /\ LockOf(s)' = L!Down => L!Destroy(s)
    BY DEF L!Destroy
<1>5. \A t : /\ LockOf(s).up /\ LockOf(s).owner = NoTask /\ t \notin Dead
             /\ LockOf(s).queue \subseteq Dead
             /\ LockOf(s)' = [LockOf(s) EXCEPT !.owner = t, !.inside = {t}]
             => L!Take(s, t)
    BY DEF L!Take
<1>6. \A t : /\ LockOf(s).up /\ LockOf(s).owner # NoTask /\ t \notin LockOf(s).queue
             /\ LockOf(s)' = [LockOf(s) EXCEPT !.queue = LockOf(s).queue \cup {t}]
             => L!Enqueue(s, t)
    BY DEF L!Enqueue
<1>7. \A t : /\ t \in LockOf(s).queue
             /\ LockOf(s)' = [LockOf(s) EXCEPT !.queue = LockOf(s).queue \ {t}]
             => L!Abandon(s, t)
    BY DEF L!Abandon
<1>8. \A t : /\ LockOf(s).owner = t
             /\ LockOf(s)' = [LockOf(s) EXCEPT !.inside = {t}]
             => L!Collect(s, t)
    BY DEF L!Collect
<1>9. /\ LockOf(s).owner # NoTask
      /\ \E gone \in SUBSET (LockOf(s).queue \cap (Dead \cup {LockOf(s).owner})) :
            LET q == LockOf(s).queue \ gone IN
            \/ \E c \in q \ Dead :
                  LockOf(s)' = [LockOf(s) EXCEPT !.owner = c, !.queue = q \ {c}, !.inside = {}]
            \/ /\ q \subseteq Dead
               /\ LockOf(s)' = [LockOf(s) EXCEPT !.owner = NoTask, !.queue = q, !.inside = {}]
      => L!Release(s)
    BY DEF L!Release
<1> QED BY <1>3, <1>4, <1>5, <1>6, <1>7, <1>8, <1>9

\* The moves of a lock are steps of Lock.
LEMMA UpMoves ==
    ASSUME NEW s \in Sems, IsLock(s), IsLock(s)', UpMove(s)
    PROVE  LockOf(s)' = LockOf(s) \/ L!LockStep(s)
<1> DEFINE o == LockOwner(s)
           q == LockQueue(s)
           n == LockInside(s)
<1>1. LockOf(s) = Up(o, q, n) /\ LockOf(s)' = Up(o', q', n')
    BY LockIs
<1> HIDE DEF o, q, n
<1> DEFINE a == LockOf(s)
<1>2. /\ a.up /\ a.owner = o /\ a.queue = q
      /\ q' = q => a' = [a EXCEPT !.owner = o', !.inside = n']
      /\ o' = o /\ n' = n => a' = [a EXCEPT !.queue = q']
      /\ o' = o /\ q' = q => a' = [a EXCEPT !.inside = n']
      /\ a' = [a EXCEPT !.owner = o', !.queue = q', !.inside = n']
    <2>1. a \in [up: {TRUE}, owner: {o}, queue: {q}, inside: {n}] /\ a' = Up(o', q', n')
        <3>1. a = Up(o, q, n) /\ a' = Up(o', q', n')
            BY <1>1
        <3> HIDE DEF a
        <3> QED BY <3>1 DEF Up
    <2> HIDE DEF a
    <2>2. q' = q => a' = [a EXCEPT !.owner = o', !.inside = n']
        <3>1. [a EXCEPT !.owner = o', !.inside = n']
                 \in [up: {TRUE}, owner: {o'}, queue: {q}, inside: {n'}]
            BY <2>1
        <3>2. [a EXCEPT !.owner = o', !.inside = n'] = Up(o', q, n')
            BY <3>1, UpIs, ZenonT(30)
        <3> QED BY <2>1, <3>2
    <2>3. o' = o /\ n' = n => a' = [a EXCEPT !.queue = q']
        <3>1. [a EXCEPT !.queue = q'] \in [up: {TRUE}, owner: {o}, queue: {q'}, inside: {n}]
            BY <2>1
        <3>2. [a EXCEPT !.queue = q'] = Up(o, q', n)
            BY <3>1, UpIs, ZenonT(30)
        <3> QED BY <2>1, <3>2
    <2>4. o' = o /\ q' = q => a' = [a EXCEPT !.inside = n']
        <3>1. [a EXCEPT !.inside = n'] \in [up: {TRUE}, owner: {o}, queue: {q}, inside: {n'}]
            BY <2>1
        <3>2. [a EXCEPT !.inside = n'] = Up(o, q, n')
            BY <3>1, UpIs, ZenonT(30)
        <3> QED BY <2>1, <3>2
    <2>5. a' = [a EXCEPT !.owner = o', !.queue = q', !.inside = n']
        <3>1. [a EXCEPT !.owner = o', !.queue = q', !.inside = n']
                 \in [up: {TRUE}, owner: {o'}, queue: {q'}, inside: {n'}]
            BY <2>1
        <3>2. [a EXCEPT !.owner = o', !.queue = q', !.inside = n'] = Up(o', q', n')
            BY <3>1, UpIs, ZenonT(30)
        <3> QED BY <2>1, <3>2
    <2>6. a.up /\ a.owner = o /\ a.queue = q
        BY <2>1
    <2> QED BY <2>2, <2>3, <2>4, <2>5, <2>6
<1>3. CASE UNCHANGED <<o, q, n>>
    BY <1>1, <1>3
<1>4. ASSUME o = NoTask, q \subseteq Dead, q' = q, NEW t \in Tasks \ Dead, o' = t, n' = {t}
      PROVE  L!LockStep(s)
    <2>1. LockOf(s)' = [LockOf(s) EXCEPT !.owner = t, !.inside = {t}]
        BY <1>2, <1>4
    <2>2. L!Take(s, t)
        BY <1>2, <1>4, <2>1, LockSteps
    <2> QED BY <2>2 DEF L!LockStep
<1>5. ASSUME o # NoTask, UNCHANGED <<o, n>>, NEW t \in Tasks \ q, q' = q \cup {t}
      PROVE  L!LockStep(s)
    <2>1. LockOf(s)' = [LockOf(s) EXCEPT !.queue = LockOf(s).queue \cup {t}]
        BY <1>2, <1>5
    <2>2. L!Enqueue(s, t)
        BY <1>2, <1>5, <2>1, LockSteps
    <2> QED BY <2>2 DEF L!LockStep
<1>6. ASSUME UNCHANGED <<o, n>>, NEW t \in Tasks, t \in q, q' = q \ {t}
      PROVE  L!LockStep(s)
    <2>1. LockOf(s)' = [LockOf(s) EXCEPT !.queue = LockOf(s).queue \ {t}]
        BY <1>2, <1>6
    <2>2. L!Abandon(s, t)
        BY <1>2, <1>6, <2>1, LockSteps
    <2> QED BY <2>2 DEF L!LockStep
<1>7. ASSUME o \in Tasks, UNCHANGED <<o, q>>, n' = {o}
      PROVE  L!LockStep(s)
    <2>1. LockOf(s)' = [LockOf(s) EXCEPT !.inside = {o}]
        BY <1>2, <1>7
    <2>2. L!Collect(s, o)
        BY <1>2, <1>7, <2>1, LockSteps
    <2> QED BY <1>7, <2>2 DEF L!LockStep
<1>8. ASSUME o # NoTask, n' = {}, NEW gone \in SUBSET (q \cap Dead),
             \/ \E t \in (q \ gone) \ Dead : o' = t /\ q' = (q \ gone) \ {t}
             \/ q \ gone \subseteq Dead /\ o' = NoTask /\ q' = q \ gone
      PROVE  L!LockStep(s)
    <2> DEFINE p == LockOf(s).queue \ gone
    <2>1. gone \in SUBSET (LockOf(s).queue \cap (Dead \cup {LockOf(s).owner})) /\ p = q \ gone
        BY <1>2
    <2>2. \/ \E c \in p \ Dead :
                LockOf(s)' = [LockOf(s) EXCEPT !.owner = c, !.queue = p \ {c}, !.inside = {}]
          \/ /\ p \subseteq Dead
             /\ LockOf(s)' = [LockOf(s) EXCEPT !.owner = NoTask, !.queue = p, !.inside = {}]
        <3> HIDE DEF p, a
        <3>1. CASE \E t \in (q \ gone) \ Dead : o' = t /\ q' = (q \ gone) \ {t}
            <4>1. PICK t \in p \ Dead : o' = t /\ q' = p \ {t}
                BY <2>1, <3>1
            <4>2. a' = [a EXCEPT !.owner = t, !.queue = p \ {t}, !.inside = {}]
                BY <1>2, <1>8, <4>1
            <4> QED BY <4>2 DEF a
        <3>2. CASE q \ gone \subseteq Dead /\ o' = NoTask /\ q' = q \ gone
            <4>1. a' = [a EXCEPT !.owner = NoTask, !.queue = p, !.inside = {}]
                BY <1>2, <1>8, <2>1, <3>2
            <4> QED BY <2>1, <3>2, <4>1 DEF a
        <3> QED BY <1>8, <3>1, <3>2
    <2>3. L!Release(s)
        BY <1>2, <1>8, <2>1, <2>2, LockSteps
    <2> QED BY <2>3 DEF L!LockStep
<1> QED BY <1>3, <1>4, <1>5, <1>6, <1>7, <1>8 DEF UpMove, o, q, n

\* A semaphore that becomes a lock, stops being one, or is none.
LEMMA OtherMoves ==
    ASSUME NEW s \in Sems,
           \/ ~IsLock(s) /\ ~IsLock(s)'
           \/ IsLock(s) /\ ~IsLock(s)'
           \/ /\ ~IsLock(s) /\ IsLock(s)'
              /\ LockOwner(s)' = NoTask /\ LockQueue(s)' = {} /\ LockInside(s)' = {}
    PROVE  LockOf(s)' = LockOf(s) \/ L!LockStep(s)
<1>1. CASE ~IsLock(s) /\ ~IsLock(s)'
    BY <1>1, LockIs
<1>2. CASE IsLock(s) /\ ~IsLock(s)'
    <2>1. LockOf(s).up /\ LockOf(s)' = L!Down
        BY <1>2, LockIs DEF Up
    <2>2. L!Destroy(s)
        BY <2>1, LockSteps
    <2> QED BY <2>2 DEF L!LockStep
<1>3. CASE /\ ~IsLock(s) /\ IsLock(s)'
           /\ LockOwner(s)' = NoTask /\ LockQueue(s)' = {} /\ LockInside(s)' = {}
    <2>1. LockOf(s) = L!Down /\ LockOf(s)' = L!Free
        BY <1>3, LockIs
    <2>2. ~LockOf(s).up
        BY <2>1 DEF L!Down
    <2>3. L!Create(s)
        BY <2>1, <2>2, LockSteps
    <2> QED BY <2>3 DEF L!LockStep
<1> QED BY <1>1, <1>2, <1>3

\* A step that leaves a semaphore alone, but for the place of one task.
LEMMA StayMove ==
    ASSUME NEW s \in Sems, NEW t \in Tasks, sem'[s] = sem[s],
           \A u \in Tasks : s \in holds'[u] <=> s \in holds[u],
           LockQueue(s)' \subseteq LockQueue(s),
           \A u \in LockQueue(s) : u = t \/ u \in LockQueue(s)'
    PROVE  LockOf(s)' = LockOf(s) \/ L!LockStep(s)
<1>1. IsLock(s)' <=> IsLock(s)
    BY DEF IsLock, sem_valid_idx, sem_is_binary
<1>2. LockOwner(s)' = LockOwner(s) /\ LockInside(s)' = LockInside(s)
    BY DEF LockOwner, LockInside, sem_occupied
<1>3. \/ LockQueue(s)' = LockQueue(s)
      \/ t \in LockQueue(s) /\ LockQueue(s)' = LockQueue(s) \ {t}
    OBVIOUS
<1>4. UpMove(s)
    BY <1>2, <1>3 DEF UpMove
<1> QED BY <1>1, <1>4, UpMoves, OtherMoves

\* The steps that touch no lock, or that make or unmake them.
LEMMA LockPlain ==
    ASSUME WaitInv, HoldInv, NEW s \in Sems,
           \/ Aside
           \/ \E t \in Tasks, op \in Ops, r \in Sems : svc_handler(t, op, r)
           \/ \E r \in Sems, o \in Tasks, count \in Nat, max \in Nat \ {0} :
                 Allocates(r, o, count, max)
           \/ \E S \in SUBSET Sems : Resets(S)
    PROVE  LockOf(s)' = LockOf(s) \/ L!LockStep(s)
<1>0. sem \in [Sems -> Semaphores] /\ holds \in [Tasks -> SUBSET Sems]
    BY DEF WaitInv, TypeOK
<1>1. ASSUME UNCHANGED <<waiters, holds>>, sem'[s] = sem[s]
      PROVE  LockOf(s)' = LockOf(s)
    BY <1>1 DEF LockOf, sem_valid_idx, sem_is_binary, sem_occupied
<1>2. CASE \/ Aside
           \/ \E t \in Tasks, op \in Ops, r \in Sems : svc_handler(t, op, r)
    BY <1>1, <1>2 DEF Aside, svc_handler, user
<1>3. ASSUME NEW r \in Sems, NEW o \in Tasks, NEW count \in Nat, NEW max \in Nat \ {0},
             Allocates(r, o, count, max)
      PROVE  LockOf(s)' = LockOf(s) \/ L!LockStep(s)
    <2>1. /\ sem[r].creater = NoTask /\ waiters' = waiters /\ holds' = holds
          /\ max = 1 => count = 1
          /\ sem' = [sem EXCEPT ![r] = [creater |-> o, count |-> count, max_count |-> max,
                                        occupied_pid |-> NoTask]]
        BY <1>3 DEF Allocates, sem_valid_idx
    <2>2. CASE s # r
        BY <1>0, <1>1, <2>1, <2>2
    <2>3. CASE s = r
        <3>1. ~IsLock(s)
            BY <2>1, <2>3 DEF IsLock, sem_valid_idx
        <3>2. LockOwner(s)' = NoTask
            BY <1>0, <2>1, <2>3 DEF LockOwner
        <3>3. LockQueue(s)' = {} /\ LockInside(s)' = {}
            <4>1. \A i \in Slots : waiters[i].sem # s
                BY <2>1, <2>3, SlotTypes DEF WaitInv, SlotsOfSems, sem_valid_idx
            <4>2. \A t \in Tasks : s \notin holds[t]
                BY <2>1, <2>3 DEF HoldInv, HoldsBinary, sem_valid_idx
            <4> QED BY <2>1, <4>1, <4>2 DEF LockQueue, LockInside, Queue
        <3> QED BY <3>1, <3>2, <3>3, OtherMoves
    <2> QED BY <2>2, <2>3
<1>4. ASSUME NEW S \in SUBSET Sems, Resets(S)
      PROVE  LockOf(s)' = LockOf(s) \/ L!LockStep(s)
    <2>1. /\ \A i \in Slots : waiters'[i] = IF waiters[i].sem \in S THEN FreeSlot ELSE waiters[i]
          /\ \A r \in Sems : sem'[r] = IF r \in S THEN FreeSem ELSE sem[r]
          /\ \A t \in Tasks : holds'[t] = holds[t] \ S
        BY <1>4 DEF Resets, sem_reset
    <2>2. CASE s \in S
        <3>1. ~IsLock(s)'
            BY <2>1, <2>2 DEF IsLock, sem_valid_idx, FreeSem
        <3> QED BY <3>1, OtherMoves
    <2>3. CASE s \notin S
        <3>1. \A i \in Slots : /\ waiters[i].sem = s => waiters'[i] = waiters[i]
                               /\ waiters'[i].sem = s => waiters'[i] = waiters[i]
            BY <2>1, <2>3, FreeSlotFacts
        <3>2. LockQueue(s)' = LockQueue(s)
            BY <3>1 DEF LockQueue, Queue
        <3>3. LockOwner(s)' = LockOwner(s) /\ LockInside(s)' = LockInside(s)
            BY <2>1, <2>3 DEF LockOwner, LockInside, sem_occupied
        <3>4. IsLock(s)' <=> IsLock(s)
            BY <2>1, <2>3 DEF IsLock, sem_valid_idx, sem_is_binary
        <3> QED BY <3>2, <3>3, <3>4, UpMoves, OtherMoves DEF UpMove
    <2> QED BY <2>2, <2>3
<1> QED BY <1>2, <1>3, <1>4

\* The queue of a lock once a task has given up its place.
LEMMA QueueLeft ==
    ASSUME WaitInv, NEW t \in Tasks, NEW s \in Sems, waiters' = Left(t)
    PROVE  LockQueue(s)' = LockQueue(s) \ (IF s = sys.sem THEN {t} ELSE {})
<1>1. \A i \in Slots :
         waiters'[i] = IF waiters[i].pid = t /\ waiters[i].sem = sys.sem THEN FreeSlot ELSE waiters[i]
    BY WithoutFacts
<1>2. \A i \in Slots : i \in Queue(waiters, s)' <=>
                          i \in Queue(waiters, s) /\ ~(waiters[i].pid = t /\ s = sys.sem)
    BY <1>1, FreeSlotFacts DEF Queue
<1>3. \A i \in Queue(waiters, s)' : i \in Slots /\ waiters'[i] = waiters[i]
    BY <1>1, <1>2 DEF Queue
<1>4. \A i \in Queue(waiters, s) : i \in Slots
    BY DEF Queue
<1> QED BY <1>2, <1>3, <1>4 DEF LockQueue

\* The steps of a call that enters a semaphore.
LEMMA LockEnter ==
    ASSUME WaitInv, DeathInv, HoldInv, OwnInv, NEW s \in Sems, NEW t \in Tasks,
           Collects(t) \/ Takes(t) \/ Forgoes(t) \/ EnterQueue(t)
    PROVE  LockOf(s)' = LockOf(s) \/ L!LockStep(s)
<1>0. /\ sem \in [Sems -> Semaphores] /\ holds \in [Tasks -> SUBSET Sems]
      /\ waiters \in [Slots -> Waiters]
    BY DEF WaitInv, TypeOK
<1>1. sys.pid = t /\ sys.op \in EnterOps
    BY DEF Collects, Takes, Forgoes, EnterQueue, EnterCall, InCall, EnterOps
<1>2. sys.sem \in Sems /\ t # NoTask
    BY <1>1, CallerFacts, ConstantsAssumption
<1>3. t \notin Dead
    BY <1>1, <1>2, CallIsCalm DEF Dead, EnterOps
<1>5. waiters' = Left(t) => LockQueue(s)' = LockQueue(s) \ (IF s = sys.sem THEN {t} ELSE {})
    BY QueueLeft
<1>6. Acquired(t, sys.sem) => \A u \in Tasks : u # t \/ s # sys.sem => (s \in holds'[u] <=> s \in holds[u])
    BY <1>0, <1>2 DEF Acquired
<1>7. CASE Collects(t)
    <2>1. sem' = sem /\ waiters' = Left(t) /\ HasGrant(t, sys.sem) /\ Acquired(t, sys.sem)
        BY <1>7 DEF Collects
    <2>2. s = sys.sem => t \notin LockQueue(s)
        <3> SUFFICES ASSUME s = sys.sem, NEW i \in Slots, waiters[i].sem = s, ~waiters[i].granted, waiters[i].pid = t
                     PROVE  FALSE
            BY DEF LockQueue, Queue
        <3>1. PICK j \in Slots : waiters[j].pid = t /\ waiters[j].granted /\ waiters[j].sem = sys.sem
            BY <2>1 DEF HasGrant
        <3> QED BY <3>1, SlotTypes DEF WaitInv, OneSlot
    <2>3. LockQueue(s)' = LockQueue(s)
        BY <1>5, <2>1, <2>2
    <2>4. CASE s # sys.sem \/ ~sem_is_binary(s)
        <3>1. \A u \in Tasks : s \in holds'[u] <=> s \in holds[u]
            BY <1>0, <1>2, <2>1, <2>4 DEF Acquired
        <3> QED BY <2>1, <2>3, <3>1, StayMove
    <2>5. CASE s = sys.sem /\ sem_is_binary(s)
        <3>1. sem_valid_idx(s)
            BY <2>1, <2>5, SlotTypes DEF HasGrant, WaitInv, SlotsOfSems
        <3>2. sem_occupied(s) /\ sem[s].occupied_pid = t
            BY <2>1, <2>5, <3>1 DEF OwnInv, OccupancyAccurate
        <3>3. \A u \in Tasks : u # t => s \notin holds[u]
            BY <2>5, <3>1, <3>2 DEF OwnInv, OccupancyAccurate
        <3>4. holds' = [holds EXCEPT ![t] = holds[t] \cup {s}]
            BY <2>1, <2>5 DEF Acquired
        <3>5. LockInside(s)' = {t}
            BY <1>0, <3>3, <3>4 DEF LockInside
        <3>6. IsLock(s) /\ IsLock(s)'
            BY <2>1, <2>5, <3>1 DEF IsLock, sem_valid_idx, sem_is_binary
        <3>7. LockOwner(s) = t /\ LockOwner(s)' = t
            BY <2>1, <3>2 DEF LockOwner, sem_occupied
        <3>8. UpMove(s)
            BY <2>3, <3>5, <3>7 DEF UpMove
        <3> QED BY <3>6, <3>8, UpMoves
    <2> QED BY <2>4, <2>5
<1>8. CASE Takes(t)
    <2>1. /\ sem' = Taken(t, sys.sem) /\ waiters' = Left(t) /\ Acquired(t, sys.sem)
          /\ sem_valid_idx(sys.sem) /\ sem[sys.sem].count > 0
        BY <1>8 DEF Takes
    <2>2. CASE s # sys.sem
        <3>1. sem'[s] = sem[s]
            BY <1>0, <2>1, <2>2 DEF Taken
        <3>2. LockQueue(s)' = LockQueue(s)
            BY <1>5, <2>1, <2>2
        <3> QED BY <1>6, <2>1, <2>2, <3>1, <3>2, StayMove
    <2>3. CASE s = sys.sem
        <3> DEFINE n == sem[s].count - 1
                   o == IF sem_is_binary(s) THEN t ELSE sem[s].occupied_pid
        <3>1. sem[s] \in Semaphores
            BY <1>0
        <3>2. sem' = [sem EXCEPT ![s] = [sem[s] EXCEPT !.count = n, !.occupied_pid = o]]
            BY <2>1, <2>3, <3>1 DEF Taken, Semaphores
        <3> HIDE DEF n, o
        <3>3. sem'[s] = [sem[s] EXCEPT !.count = n, !.occupied_pid = o]
            BY <1>0, <3>2
        <3>4. /\ sem'[s].count = n /\ sem'[s].creater = sem[s].creater
              /\ sem'[s].max_count = sem[s].max_count /\ sem'[s].occupied_pid = o
            BY <3>1, <3>3 DEF Semaphores
        <3>5. IsLock(s)' <=> IsLock(s)
            BY <3>4 DEF IsLock, sem_valid_idx, sem_is_binary
        <3>6. CASE ~IsLock(s)
            BY <3>5, <3>6, OtherMoves
        <3>7. CASE IsLock(s)
            <4>1. sem_is_binary(s) /\ sem_valid_idx(s) /\ sem[s].count = 1 /\ n = 0 /\ o = t
                BY <2>1, <2>3, <3>1, <3>7 DEF IsLock, OwnInv, Occupants, n, o, Semaphores
            <4>2. LockQueue(s) = {} /\ LockQueue(s)' = {}
                <5>1. ASSUME NEW i \in Slots, waiters[i].sem = s, ~waiters[i].granted PROVE FALSE
                    <6>1. waiters[i].sem # 0 /\ QueuedMeansTaken
                        BY <5>1, SlotTypes DEF WaitInv
                    <6>2. sem_occupied(s)
                        BY <5>1, <6>1 DEF QueuedMeansTaken
                    <6> QED BY <4>1, <6>2 DEF sem_occupied
                <5>2. LockQueue(s) = {}
                    BY <5>1 DEF LockQueue, Queue
                <5> QED BY <1>5, <2>1, <5>2
            <4>3. \A u \in Tasks : s \notin holds[u]
                BY <4>1 DEF OwnInv, OccupancyAccurate, sem_occupied
            <4>4. holds' = [holds EXCEPT ![t] = holds[t] \cup {s}]
                BY <2>1, <2>3, <4>1 DEF Acquired
            <4>5. LockInside(s)' = {t}
                BY <1>0, <4>3, <4>4 DEF LockInside
            <4>6. LockOwner(s) = NoTask /\ LockOwner(s)' = t
                BY <3>4, <4>1 DEF LockOwner, sem_occupied
            <4>7. UpMove(s)
                BY <1>3, <4>2, <4>5, <4>6 DEF UpMove
            <4> QED BY <3>5, <3>7, <4>7, UpMoves
        <3> QED BY <3>6, <3>7
    <2> QED BY <2>2, <2>3
<1>9. CASE Forgoes(t)
    <2>1. UNCHANGED <<sem, holds>> /\ (waiters' = waiters \/ waiters' = Left(t))
        BY <1>9 DEF Forgoes
    <2>2. LockQueue(s)' = LockQueue(s) \/ LockQueue(s)' = LockQueue(s) \ {t}
        BY <1>5, <2>1 DEF LockQueue, Queue
    <2> QED BY <2>1, <2>2, StayMove
<1>10. CASE EnterQueue(t)
    <2> DEFINE k == sem_waiter_free
    <2>1. /\ k # NoSlot /\ UNCHANGED <<sem, holds>>
          /\ sem_occupied(sys.sem) /\ sem_valid_idx(sys.sem) /\ MySlot(t) = NoSlot
          /\ waiters' = [waiters EXCEPT ![k] =
                [sem |-> sys.sem, pid |-> t, seq |-> waiter_seq, granted |-> FALSE]]
        BY <1>10 DEF EnterQueue, user
    <2>2. k \in Slots /\ waiters[k].sem = 0
        BY <2>1, FreeFacts
    <2> HIDE DEF k
    <2>3. /\ waiters'[k].sem = sys.sem /\ waiters'[k].pid = t /\ ~waiters'[k].granted
          /\ \A i \in Slots : i # k => waiters'[i] = waiters[i]
        BY <1>0, <2>1, <2>2
    <2>4. CASE s # sys.sem
        <3>1. \A i \in Slots : /\ i \in Queue(waiters, s)' <=> i \in Queue(waiters, s)
                               /\ i \in Queue(waiters, s) => waiters'[i] = waiters[i]
            BY <2>2, <2>3, <2>4, SlotTypes DEF Queue
        <3>2. Queue(waiters, s)' \subseteq Slots /\ Queue(waiters, s) \subseteq Slots
            BY DEF Queue
        <3>3. LockQueue(s)' = LockQueue(s)
            BY <3>1, <3>2 DEF LockQueue
        <3> QED BY <2>1, <3>3, StayMove
    <2>5. CASE s = sys.sem /\ ~sem_is_binary(s)
        <3>1. ~IsLock(s) /\ ~IsLock(s)'
            BY <2>1, <2>5 DEF IsLock, sem_valid_idx, sem_is_binary
        <3> QED BY <3>1, OtherMoves
    <2>6. CASE s = sys.sem /\ sem_is_binary(s)
        <3>1. IsLock(s) /\ IsLock(s)' /\ LockOwner(s) # NoTask
            BY <2>1, <2>6 DEF IsLock, LockOwner, OwnInv, Occupants, sem_valid_idx, sem_is_binary,
                              sem_occupied
        <3>2. UNCHANGED <<LockOwner(s), LockInside(s)>>
            BY <2>1 DEF LockOwner, LockInside, sem_occupied
        <3>3. t \notin LockQueue(s)
            BY <2>1, <2>6, FindFacts, SlotTypes DEF LockQueue, Queue, MySlot
        <3>4. \A i \in Slots : /\ i \in Queue(waiters, s)' <=> i \in Queue(waiters, s) \/ i = k
                               /\ i \in Queue(waiters, s) => waiters'[i] = waiters[i]
            BY <2>2, <2>3, <2>6, SlotTypes DEF Queue
        <3>5. Queue(waiters, s)' \subseteq Slots /\ Queue(waiters, s) \subseteq Slots
            BY DEF Queue
        <3>6. LockQueue(s)' = LockQueue(s) \cup {t}
            BY <2>2, <2>3, <3>4, <3>5 DEF LockQueue
        <3>7. UpMove(s)
            BY <3>1, <3>2, <3>3, <3>6 DEF UpMove
        <3> QED BY <3>1, <3>7, UpMoves
    <2> QED BY <2>4, <2>5, <2>6
<1> QED BY <1>7, <1>8, <1>9, <1>10

\* A release, or the end of a teardown.
LEMMA LockHanded ==
    ASSUME WaitInv, HoldInv, OwnInv, NEW s \in Sems, NEW t \in Tasks,
           NEW w \in [Slots -> Waiters], NEW S \in SUBSET Sems, NEW c \in [S -> Semaphores],
           Hands(t, w, S, c)
    PROVE  LockOf(s)' = LockOf(s) \/ L!LockStep(s)
<1>0. /\ HandedOver(w, S, c) /\ t # NoTask
      /\ \A i \in Slots : w[i] = waiters[i] \/ (w[i] = FreeSlot /\ waiters[i].pid = t)
    BY ConstantsAssumption DEF Hands
<1>1. \A i \in Slots :
              /\ waiters'[i] # FreeSlot => /\ waiters'[i].sem = w[i].sem
                                           /\ waiters'[i].pid = w[i].pid
                                           /\ waiters'[i].seq = w[i].seq
              /\ w[i].granted => waiters'[i] = w[i]
              /\ w[i].sem \notin S => waiters'[i] = w[i]
              /\ waiters'[i].granted => w[i].granted \/ Selected(w, S, i)
              /\ Selected(w, S, i) => /\ waiters'[i].sem = w[i].sem
                                      /\ waiters'[i].pid = w[i].pid /\ waiters'[i].granted
    BY <1>0, HandedSlots
<1>2. ASSUME NEW i \in Slots, i \in Queue(waiters, s)'
      PROVE  i \in Queue(waiters, s) /\ waiters'[i].pid = waiters[i].pid /\ ~Selected(w, S, i)
    <2>1. waiters'[i].sem = s /\ ~waiters'[i].granted
        BY <1>2 DEF Queue
    <2>2. waiters'[i] # FreeSlot /\ ~w[i].granted /\ ~Selected(w, S, i)
        BY <1>1, <2>1, FreeSlotFacts
    <2>3. w[i].sem = s /\ waiters'[i].pid = w[i].pid
        BY <1>1, <2>1, <2>2
    <2>4. w[i] = waiters[i]
        BY <1>0, <2>3, FreeSlotFacts
    <2> QED BY <2>2, <2>3, <2>4 DEF Queue
<1>3. LockQueue(s)' \subseteq LockQueue(s)
    BY <1>2 DEF LockQueue, Queue
<1>4. CASE s \notin S
    <2>1. \A u \in Tasks : s \in holds'[u] <=> s \in holds[u]
        BY <1>4 DEF Hands
    <2>2. sem'[s] = sem[s]
        BY <1>0, <1>4 DEF HandedOver
    <2>3. ASSUME NEW i \in Queue(waiters, s), waiters[i].pid # t
          PROVE  waiters[i].pid \in LockQueue(s)'
        <3>1. i \in Slots /\ w[i] = waiters[i] /\ waiters[i].sem = s /\ ~waiters[i].granted
            BY <1>0, <2>3 DEF Queue
        <3>2. waiters'[i] = waiters[i]
            BY <1>1, <1>4, <3>1
        <3>3. i \in Queue(waiters, s)'
            BY <3>1, <3>2 DEF Queue
        <3> QED BY <3>2, <3>3 DEF LockQueue
    <2>4. \A u \in LockQueue(s) : u = t \/ u \in LockQueue(s)'
        BY <2>3 DEF LockQueue
    <2> QED BY <1>3, <2>1, <2>2, <2>4, StayMove
<1>5. CASE s \in S
    <2>1. /\ sem'[s].creater = sem[s].creater /\ sem'[s].max_count = sem[s].max_count
          /\ IF HandoffSlot(w, s) = NoSlot THEN sem'[s] = c[s]
             ELSE /\ sem'[s].count = c[s].count - 1
                  /\ sem'[s].occupied_pid = IF sem_is_binary(s) THEN w[HandoffSlot(w, s)].pid
                                            ELSE c[s].occupied_pid
        BY <1>0, <1>5 DEF HandedOver
    <2>2. IsLock(s)' <=> IsLock(s)
        BY <2>1 DEF IsLock, sem_valid_idx, sem_is_binary
    <2>3. CASE ~IsLock(s)
        BY <2>2, <2>3, OtherMoves
    <2>4. CASE IsLock(s)
        <3>1. /\ sem_occupied(s) /\ sem[s].occupied_pid = t
              /\ \A i \in Queue(waiters, s) : waiters[i].pid # t
              /\ c[s].count = 1 /\ c[s].occupied_pid = NoTask
              /\ \A u \in Tasks : s \notin holds'[u]
            BY <1>5, <2>4 DEF Hands, IsLock
        <3>2. LockOwner(s) = t /\ LockInside(s)' = {}
            BY <3>1 DEF LockOwner, LockInside
        <3>3. \A i \in Queue(waiters, s) : /\ i \in Slots /\ w[i] = waiters[i] /\ w[i].sem = s
                                           /\ ~w[i].granted /\ waiters[i].pid \in Tasks
            BY <1>0, <3>1, SlotTypes DEF Queue, WaitInv, SlotsOfSems
        <3>4. ASSUME NEW i \in Queue(waiters, s)
              PROVE  \/ i \in Queue(waiters, s)' /\ waiters'[i].pid = waiters[i].pid
                     \/ ~Live(waiters[i].pid)
                     \/ i = HandoffSlot(w, s)
            BY <1>0, <3>3 DEF HandedOver, Selected, Queue
        <3>5. CASE HandoffSlot(w, s) = NoSlot
            <4>1. \A i \in Queue(waiters, s) : ~Live(waiters[i].pid)
                BY <3>3, <3>5, HandoffSlotFacts, SlotTypes DEF Queue
            <4>2. LockQueue(s) \subseteq Dead
                BY <3>3, <4>1 DEF LockQueue, Dead
            <4>3. LockOwner(s)' = NoTask
                BY <2>1, <3>1, <3>5 DEF LockOwner, sem_occupied
            <4> DEFINE gone == LockQueue(s) \ LockQueue(s)'
            <4>4. /\ gone \in SUBSET (LockQueue(s) \cap Dead)
                  /\ LockQueue(s)' = LockQueue(s) \ gone /\ LockQueue(s) \ gone \subseteq Dead
                BY <1>3, <4>2
            <4> HIDE DEF gone
            <4>5. UpMove(s)
                BY <1>0, <3>2, <4>3, <4>4 DEF UpMove
            <4> QED BY <2>2, <2>4, <4>5, UpMoves
        <3>6. CASE HandoffSlot(w, s) # NoSlot
            <4> DEFINE k == HandoffSlot(w, s)
                       v == waiters[k].pid
            <4>1. /\ k \in Slots /\ w[k].sem = s /\ ~w[k].granted /\ Live(w[k].pid)
                  /\ Selected(w, S, k)
                BY <1>5, <3>6, ChosenSlot
            <4>2. w[k] = waiters[k] /\ k \in Queue(waiters, s)
                BY <1>0, <4>1, FreeSlotFacts DEF Queue
            <4> HIDE DEF k
            <4>3. v \in Tasks /\ v \in LockQueue(s) /\ v \notin Dead
                BY <3>3, <4>1, <4>2 DEF LockQueue, Dead
            <4>4. LockOwner(s)' = v
                <5>1. sem'[s].count = 0 /\ sem'[s].occupied_pid = v
                    BY <2>1, <2>4, <3>1, <3>6, <4>2 DEF IsLock, k
                <5> QED BY <5>1 DEF LockOwner, sem_occupied
            <4>5. v \notin LockQueue(s)'
                <5> SUFFICES ASSUME NEW i \in Slots, i \in Queue(waiters, s)', waiters'[i].pid = v
                             PROVE  FALSE
                    BY DEF LockQueue, Queue
                <5>1. i \in Queue(waiters, s) /\ waiters[i].pid = v /\ ~Selected(w, S, i)
                    BY <1>2
                <5>2. i = k
                    BY <4>1, <4>2, <5>1, SlotTypes DEF WaitInv, OneSlot, Queue
                <5> QED BY <4>1, <5>1, <5>2
            <4> DEFINE gone == (LockQueue(s) \ LockQueue(s)') \ {v}
            <4>6. gone \subseteq Dead
                <5> SUFFICES ASSUME NEW i \in Queue(waiters, s), waiters[i].pid # v,
                                    waiters[i].pid \notin LockQueue(s)'
                             PROVE  waiters[i].pid \in Dead
                    BY DEF LockQueue
                <5>1. i # k /\ waiters[i].pid \in Tasks
                    BY <3>3
                <5>2. ~(i \in Queue(waiters, s)' /\ waiters'[i].pid = waiters[i].pid)
                    BY DEF LockQueue
                <5> QED BY <3>4, <5>1, <5>2 DEF Dead, k
            <4> HIDE DEF v
            <4>7. /\ gone \in SUBSET (LockQueue(s) \cap Dead)
                  /\ v \in (LockQueue(s) \ gone) \ Dead
                  /\ LockQueue(s)' = (LockQueue(s) \ gone) \ {v}
                BY <1>3, <4>3, <4>5, <4>6
            <4> HIDE DEF gone
            <4>8. UpMove(s)
                BY <1>0, <3>2, <4>4, <4>7 DEF UpMove
            <4> QED BY <2>2, <2>4, <4>8, UpMoves
        <3> QED BY <3>5, <3>6
    <2> QED BY <2>3, <2>4
<1> QED BY <1>4, <1>5

\* The kernel's binary semaphores implement the locks of Lock: one owner, direct
\* handoff to a living waiter, nobody past the queue, nothing left by the dead.
THEOREM SemaphoreIsLock ==
    ASSUME Apart
    PROVE  Spec => ImplementsLock
<1> DEFINE Inv == WaitInv /\ DeathInv /\ HoldInv /\ OwnInv
<1>1. Init => L!LInit
    <2> SUFFICES ASSUME Init PROVE L!LInit
        OBVIOUS
    <2>1. \A s \in Sems : LockOf(s) = L!Down
        BY DEF Init, LockOf, L!Down, sem_valid_idx, FreeSem
    <2>2. \A t \in Tasks : Live(t)
        BY DEF Init, Live, proc_get, NewTask
    <2> QED BY <2>1, <2>2 DEF L!LInit
<1>2. Inv /\ Inv' /\ [Next]_vars => [L!LNext]_(L!lvars)
    <2> SUFFICES ASSUME Inv, Inv', [Next]_vars PROVE [L!LNext]_(L!lvars)
        OBVIOUS
    <2>1. CASE UNCHANGED vars
        <3>1. UNCHANGED L!lvars
            BY <2>1 DEF vars, L!lvars, LockOf, Live, sem_valid_idx, sem_is_binary, sem_occupied
        <3> QED BY <3>1
    <2>2. CASE Next
        <3>1. ASSUME NEW s \in Sems PROVE LockOf(s)' = LockOf(s) \/ L!LockStep(s)
            <4>1. ASSUME NEW t \in Tasks, semaphore_quit(t)
                  PROVE  LockOf(s)' = LockOf(s) \/ L!LockStep(s)
                <5>1. CASE UNCHANGED <<sem, waiters>> /\ \A u \in Tasks : holds'[u] = holds[u]
                    BY <5>1 DEF LockOf, sem_valid_idx, sem_is_binary, sem_occupied
                <5>2. waiters \in [Slots -> Waiters]
                    BY DEF WaitInv, TypeOK
                <5> QED BY <4>1, <5>1, <5>2, QuitHands, LockHanded DEF OwnInv
            <4>2. ASSUME NEW t \in Tasks, semaphore_clear_occupied(t)
                  PROVE  LockOf(s)' = LockOf(s) \/ L!LockStep(s)
                BY <4>2, ClearHands, LockHanded, WithoutFacts DEF OwnInv
            <4> QED BY <2>2, <4>1, <4>2, Kinds, LockPlain, LockEnter DEF StepKind
        <3>2. \A s \in Sems : /\ [r \in Sems |-> LockOf(r)][s] = LockOf(s)
                              /\ [r \in Sems |-> LockOf(r)]'[s] = LockOf(s)'
            OBVIOUS
        <3>3. \A t \in Tasks : ~Live(t) => ~Live(t)'
            <4> SUFFICES ASSUME NEW t \in Tasks, ~Live(t) PROVE ~Live(t)'
                OBVIOUS
            <4>1. stage[t] \in {"zombie", "reset", "gone"}
                BY DEF DeathInv, LiveStage, WaitInv, TypeOK, Stages
            <4>2. stage'[t] \in {"zombie", "reset", "gone"}
                BY <4>1, StageForward DEF DeathInv
            <4> QED BY <4>2 DEF DeathInv, LiveStage
        <3>4. L!LNext
            BY <3>1, <3>2, <3>3 DEF L!LNext
        <3> QED BY <3>4
    <2> QED BY <2>1, <2>2
<1> QED BY <1>1, <1>2, OwnInvariant, PTL DEF Spec, ImplementsLock, L!LSpec

=============================================================================
