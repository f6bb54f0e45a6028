--------------------------- MODULE IpcPoolProofs ---------------------------
(***************************************************************************)
(* Proofs about IpcPool, for any number of clients, threads, members,       *)
(* request slots and calls.                                                 *)
(***************************************************************************)
EXTENDS IpcPool, FiniteSetTheorems, SequenceTheorems, NaturalsInduction, WellFoundedInduction, TLAPS

\* A nonempty set of naturals has a least member.
LEMMA NatMin ==
    ASSUME NEW T \in SUBSET Nat, T # {}
    PROVE  \E x \in T : \A y \in T : x <= y
<1> DEFINE R == {ss \in Nat \X Nat : ss[1] < ss[2]}
<1>1. IsWellFoundedOn(R, Nat)
    BY NatLessThanWellFounded DEF OpToRel
<1>2. PICK x \in T : \A y \in T : ~ (<<y, x>> \in R)
    <2> HIDE DEF R
    <2> QED BY <1>1, WFMin
<1>3. \A y \in T : ~(y < x)
    BY <1>2
<1> QED BY <1>3

\* Min of a nonempty set of naturals.
LEMMA MinFacts ==
    ASSUME NEW T \in SUBSET Nat, T # {}
    PROVE  Min(T) \in T /\ \A y \in T : Min(T) <= y
BY NatMin DEF Min

-----------------------------------------------------------------------------
(* Tasks.                                                                   *)

\* The type of the task table and of what is computed from it.
TaskMap == [Clients \cup Pids -> TaskRecord({Generic})]

\* A generic wake makes a task that is not dead runnable, whatever it does.
LEMMA WakeOne ==
    ASSUME NEW p \in TaskRecord({Generic})
    PROVE  LET q == proc_wakeup_by(p, Generic) IN
           /\ q \in TaskRecord({Generic})
           /\ q.state = IF p.state = "ZOMBIE" THEN "ZOMBIE" ELSE "READY"
BY DEF TaskRecord, States, proc_wakeup_by, latch, proc_ready, NewTask, Generic

\* A task that executes proc_block() sleeps afterwards, or goes on because of a
\* latched wake.
LEMMA BlockOne ==
    ASSUME NEW p \in TaskRecord({Generic})
    PROVE  LET q == proc_block_by([p EXCEPT !.state = "RUNNING"], Generic) IN
           /\ q \in TaskRecord({Generic})
           /\ q.state \in {"RUNNING", "BLOCK"}
<1> DEFINE r == [p EXCEPT !.state = "RUNNING"]
<1>1. r \in TaskRecord({Generic}) /\ r.state = "RUNNING"
    BY DEF TaskRecord, States
<1> HIDE DEF r
<1>2. consume(r) \in TaskRecord({Generic}) /\ consume(r).state = "RUNNING"
    BY <1>1 DEF consume, TaskRecord, Generic
<1> DEFINE s == consume(r)
<1> HIDE DEF s
<1>3. s \in TaskRecord({Generic}) /\ s.state = "RUNNING"
    BY <1>2 DEF s
<1>4. /\ keep_running(s) \in TaskRecord({Generic}) /\ keep_running(s).state = "RUNNING"
      /\ park(s, Generic, FALSE) \in TaskRecord({Generic})
      /\ park(s, Generic, FALSE).state = "BLOCK"
    BY <1>3 DEF keep_running, park, proc_unready, TaskRecord, States
<1>5. proc_block_by(r, Generic) \in {keep_running(s), park(s, Generic, FALSE)}
    BY DEF proc_block_by, Block, s
<1>6. proc_block_by(r, Generic) \in TaskRecord({Generic})
      /\ proc_block_by(r, Generic).state \in {"RUNNING", "BLOCK"}
    BY <1>4, <1>5
<1> QED BY <1>6 DEF r

\* The wake of a set of tasks.
LEMMA WakeSome ==
    ASSUME NEW t \in TaskMap, NEW Q
    PROVE  /\ proc_wakeup(t, Q) \in TaskMap
           /\ \A x \in Clients \cup Pids :
                 proc_wakeup(t, Q)[x].state =
                    IF x \in Q /\ t[x].state # "ZOMBIE" THEN "READY" ELSE t[x].state
<1>1. \A x \in Clients \cup Pids : LET q == proc_wakeup_by(t[x], Generic) IN
           /\ q \in TaskRecord({Generic})
           /\ q.state = IF t[x].state = "ZOMBIE" THEN "ZOMBIE" ELSE "READY"
    BY WakeOne DEF TaskMap
<1> HIDE DEF Generic
<1> QED BY <1>1 DEF TaskMap, proc_wakeup

\* The tasks after proc_block() of one of them.
LEMMA BlockSelf ==
    ASSUME task \in TaskMap, NEW x \in Clients \cup Pids
    PROVE  /\ proc_block(x) \in TaskMap
           /\ proc_block(x)[x].state \in {"RUNNING", "BLOCK"}
           /\ \A y \in Clients \cup Pids : y # x => proc_block(x)[y] = task[y]
<1> DEFINE q == proc_block_by([task[x] EXCEPT !.state = "RUNNING"], Generic)
<1>1. q \in TaskRecord({Generic}) /\ q.state \in {"RUNNING", "BLOCK"}
    BY BlockOne DEF TaskMap
<1>2. proc_block(x) = [task EXCEPT ![x] = q]
    BY DEF proc_block
<1> HIDE DEF q
<1> QED BY <1>1, <1>2 DEF TaskMap

-----------------------------------------------------------------------------
(* The wait queue.                                                          *)

\* proc_ipc_cancel_wait: nobody but the members of Q is removed.
LEMMA CancelFacts ==
    ASSUME NEW q \in Seq(Clients), NEW Q
    PROVE  LET r == proc_ipc_cancel_wait(q, Q) IN
           /\ r \in Seq(Clients)
           /\ Range(r) \subseteq Range(q)
           /\ \A c \in Range(q) : c \notin Q => c \in Range(r)
<1> DEFINE P == {i \in DOMAIN q : q[i] \in Q}
           r == proc_ipc_cancel_wait(q, Q)
<1>1. CASE P = {}
    BY <1>1 DEF proc_ipc_cancel_wait
<1>2. CASE P # {}
    <2>1. P \in SUBSET Nat
        OBVIOUS
    <2>2. PICK m \in P : m = Min(P)
        BY <1>2, <2>1, MinFacts
    <2>3. r = SubSeq(q, 1, m - 1) \o SubSeq(q, m + 1, Len(q))
        BY <1>2, <2>2 DEF proc_ipc_cancel_wait, RemoveAt
    <2> DEFINE a == SubSeq(q, 1, m - 1)
               b == SubSeq(q, m + 1, Len(q))
    <2>4. m \in 1 .. Len(q)
        OBVIOUS
    <2>5. /\ a \in Seq(Clients) /\ Len(a) = m - 1 
          /\ \A i \in 1 .. m - 1 : a[i] = q[i]
        BY <2>4, SubSeqProperties
    <2>6. /\ b \in Seq(Clients) /\ Len(b) = Len(q) - m
          /\ \A i \in 1 .. Len(q) - m : b[i] = q[m + i]
        BY <2>4, SubSeqProperties
    <2> HIDE DEF a, b, r
    <2>7. /\ r \in Seq(Clients) /\ Len(r) = Len(q) - 1
          /\ \A i \in 1 .. Len(q) - 1 : r[i] = IF i < m THEN q[i] ELSE q[i + 1]
        <3>1. r = a \o b
            BY <2>3 DEF a, b
        <3>2. r \in Seq(Clients) /\ Len(r) = Len(a) + Len(b)
            BY <3>1, <2>5, <2>6
        <3>3. \A i \in 1 .. Len(a) + Len(b) :
                 r[i] = IF i <= Len(a) THEN a[i] ELSE b[i - Len(a)]
            BY <3>1, <2>5, <2>6, ConcatProperties
        <3>4. Len(a) + Len(b) = Len(q) - 1
            BY <2>5, <2>6, <2>4
        <3>5. ASSUME NEW i \in 1 .. Len(q) - 1
              PROVE  r[i] = IF i < m THEN q[i] ELSE q[i + 1]
            <4>1. r[i] = IF i <= Len(a) THEN a[i] ELSE b[i - Len(a)]
                BY <3>3, <3>4
            <4>2. CASE i < m
                BY <4>1, <4>2, <2>4, <2>5
            <4>3. CASE ~(i < m)
                <5>1. i - (m - 1) \in 1 .. Len(q) - m /\ m + (i - (m - 1)) = i + 1
                    BY <4>3, <2>4
                <5>2. r[i] = b[i - (m - 1)]
                    BY <4>1, <4>3, <2>4, <2>5
                <5>3. b[i - (m - 1)] = q[m + (i - (m - 1))]
                    BY <5>1, <2>6
                <5> QED BY <5>1, <5>2, <5>3, <4>3
            <4> QED BY <4>2, <4>3
        <3> QED BY <3>2, <3>4, <3>5
    <2>8. Range(r) \subseteq Range(q)
        BY <2>7, <2>4 DEF Range
    <2>9. ASSUME NEW c \in Range(q), c \notin Q PROVE c \in Range(r)
        <3>1. PICK k \in 1 .. Len(q) : q[k] = c
            BY DEF Range
        <3>2. k # m
            BY <3>1, <2>9
        <3>3. CASE k < m
            BY <3>1, <3>3, <2>7, <2>4 DEF Range
        <3>4. CASE k > m
            <4>1. k - 1 \in 1 .. Len(q) - 1 /\ r[k - 1] = c
                BY <3>1, <3>4, <2>7, <2>4
            <4> QED BY <4>1, <2>7 DEF Range
        <3> QED BY <3>2, <3>3, <3>4, <2>4
    <2> QED BY <2>7, <2>8, <2>9 DEF r
<1> QED BY <1>1, <1>2

\* The waiters of q before position i that a wake would count, and how many it
\* lets in.
Positions(t, q, i) == {j \in 1 .. i - 1 : t[q[j]].state = "BLOCK"}
Budget(ts) == Min({IPC_CTX_MAX - Cardinality(Busy(ts)), IPC_WAKE_BATCH_LIMIT})

\* A wake may always let somebody in, unless every request slot is taken.
LEMMA BudgetFacts ==
    ASSUME NEW ts
    PROVE  Budget(ts) \in Nat /\ (Busy(ts) = {} => Budget(ts) > 0)
<1>1. IPC_CTX_MAX \in Nat /\ IPC_CTX_MAX > 0
      /\ IPC_WAKE_BATCH_LIMIT \in Nat /\ IPC_WAKE_BATCH_LIMIT > 0
    BY PoolAssumption
<1>2. IsFiniteSet(1 .. IPC_CTX_MAX) /\ Cardinality(1 .. IPC_CTX_MAX) = IPC_CTX_MAX
    BY <1>1, FS_Interval
<1>3. Busy(ts) \in SUBSET (1 .. IPC_CTX_MAX)
    BY DEF Busy, Slots
<1>4. IsFiniteSet(Busy(ts)) /\ Cardinality(Busy(ts)) <= IPC_CTX_MAX
    BY <1>2, <1>3, FS_Subset
<1>5. Cardinality(Busy(ts)) \in Nat
    BY <1>4, FS_CardinalityType
<1> DEFINE n == Cardinality(Busy(ts))
           T == {IPC_CTX_MAX - n, IPC_WAKE_BATCH_LIMIT}
<1>6. T \in SUBSET Nat /\ T # {}
    BY <1>1, <1>4, <1>5
<1>7. Min(T) \in T
    BY <1>6, MinFacts
<1>8. Busy(ts) = {} => n = 0
    BY FS_EmptySet
<1>9. Budget(ts) = Min(T)
    BY DEF Budget
<1> QED BY <1>1, <1>6, <1>7, <1>8, <1>9

\* proc_ipc_wakeup pops a prefix of the queue.
LEMMA PoppedPrefix ==
    ASSUME NEW t, NEW q \in Seq(Clients), NEW ts
    PROVE  \E k \in 0 .. Len(q) : /\ Popped(t, q, ts) = 1 .. k
                                  /\ Cardinality(Popped(t, q, ts)) = k
<1> DEFINE P == Popped(t, q, ts)
           T == {j \in 1 .. Len(q) + 1 : j \notin P}
           C(i) == Cardinality(Positions(t, q, i))
<1>1. P = {i \in 1 .. Len(q) : C(i) < Budget(ts)}
    BY DEF Popped, Budget, Positions
<1>2. ASSUME NEW i \in 1 .. Len(q), NEW j \in 1 .. i PROVE C(j) \in Nat /\ C(i) \in Nat /\ C(j) <= C(i)
    <2>1. IsFiniteSet(1 .. i - 1)
        BY FS_Interval
    <2>2. Positions(t, q, i) \in SUBSET (1 .. i - 1)
          /\ Positions(t, q, j) \in SUBSET Positions(t, q, i)
        BY DEF Positions
    <2>3. IsFiniteSet(Positions(t, q, i))
        BY <2>1, <2>2, FS_Subset
    <2>4. IsFiniteSet(Positions(t, q, j)) /\ C(j) <= C(i)
        BY <2>2, <2>3, FS_Subset
    <2> QED BY <2>3, <2>4, FS_CardinalityType
<1>3. Budget(ts) \in Nat
    BY BudgetFacts
<1>4. ASSUME NEW i \in P, NEW j \in 1 .. i PROVE j \in P
    <2> HIDE DEF P, C
    <2>1. i \in 1 .. Len(q) /\ j \in 1 .. Len(q) /\ C(i) < Budget(ts)
        BY <1>1
    <2> QED BY <1>1, <1>2, <1>3, <2>1
<1>5. Len(q) + 1 \in T
    <2> HIDE DEF C
    <2> QED BY <1>1
<1> HIDE DEF P, C
<1>6. T \in SUBSET Nat /\ T # {}
    BY <1>5
<1>7. PICK m \in T : \A y \in T : m <= y
    BY <1>6, NatMin
<1>8. P = 1 .. m - 1
    <2>1. ASSUME NEW i \in P PROVE i \in 1 .. m - 1
        <3>1. i \in 1 .. Len(q)
            BY <1>1
        <3>2. ~(m <= i)
            <4>1. SUFFICES ASSUME m <= i PROVE FALSE
                OBVIOUS
            <4>2. m \in 1 .. i
                BY <4>1, <3>1
            <4> QED BY <4>2, <1>4
        <3> QED BY <3>1, <3>2
    <2>2. ASSUME NEW i \in 1 .. m - 1 PROVE i \in P
        <3>1. i \in 1 .. Len(q) + 1 /\ ~(m <= i)
            OBVIOUS
        <3> QED BY <3>1, <1>7
    <2> QED BY <2>1, <2>2
<1>9. m - 1 \in 0 .. Len(q) /\ Cardinality(1 .. m - 1) = m - 1
    BY FS_Interval
<1> QED BY <1>8, <1>9 DEF P

\* proc_ipc_wakeup: who is let in was blocked in the queue; a waiter that is
\* blocked is let in or stays; and if no request is there, somebody is let in.
LEMMA AdmitFacts ==
    ASSUME NEW t, NEW q \in Seq(Clients), NEW ts
    PROVE  LET r == StillQueued(t, q, ts)
               A == Admitted(t, q, ts) IN
           /\ r \in Seq(Clients)
           /\ Range(r) \subseteq Range(q)
           /\ A \subseteq Clients
           /\ \A c \in A : c \in Range(q) /\ t[c].state = "BLOCK"
           /\ \A c \in Range(q) : t[c].state = "BLOCK" => c \in A \/ c \in Range(r)
           /\ Busy(ts) = {} /\ (\E c \in Range(q) : t[c].state = "BLOCK") => A # {}
<1> DEFINE r == StillQueued(t, q, ts)
           A == Admitted(t, q, ts)
           P == Popped(t, q, ts)
<1>1. PICK k \in 0 .. Len(q) : P = 1 .. k /\ Cardinality(P) = k
    BY PoppedPrefix
<1>2. r = SubSeq(q, k + 1, Len(q))
    BY <1>1 DEF StillQueued
<1>3. A = {q[i] : i \in {j \in P : t[q[j]].state = "BLOCK"}}
    BY DEF Admitted
<1>4. /\ r \in Seq(Clients) /\ Len(r) = Len(q) - k
      /\ \A i \in 1 .. Len(q) - k : r[i] = q[k + i]
    BY <1>2, SubSeqProperties
<1>5. Busy(ts) = {} /\ (\E c \in Range(q) : t[c].state = "BLOCK") => A # {}
    <2> SUFFICES ASSUME Busy(ts) = {}, NEW c \in Range(q), t[c].state = "BLOCK"
                 PROVE  A # {}
        OBVIOUS
    <2> DEFINE T == {j \in 1 .. Len(q) : t[q[j]].state = "BLOCK"}
    <2>1. T \in SUBSET Nat /\ T # {}
        BY DEF Range
    <2>2. PICK m \in T : \A y \in T : m <= y
        BY <2>1, NatMin
    <2>3. Positions(t, q, m) = {}
        BY <2>2 DEF Positions
    <2>4. Cardinality(Positions(t, q, m)) = 0
        BY <2>3, FS_EmptySet
    <2>5. m \in P
        <3>1. 0 < Budget(ts)
            BY BudgetFacts
        <3>2. P = {i \in DOMAIN q : Cardinality(Positions(t, q, i)) < Budget(ts)}
            BY DEF Popped, Positions, Budget
        <3>3. m \in DOMAIN q
            BY <2>2
        <3> QED BY <2>4, <3>1, <3>2, <3>3
    <2> QED BY <2>2, <2>5, <1>3
<1> HIDE DEF r, A, P
<1>6. Range(r) \subseteq Range(q)
    <2>1. ASSUME NEW i \in 1 .. Len(r) PROVE r[i] \in Range(q)
        <3>1. r[i] = q[k + i] /\ k + i \in 1 .. Len(q)
            BY <1>4
        <3> QED BY <3>1 DEF Range
    <2> QED BY <2>1, <1>4 DEF Range
<1>7. A \subseteq Clients /\ \A c \in A : c \in Range(q) /\ t[c].state = "BLOCK"
    BY <1>1, <1>3 DEF Range
<1>8. ASSUME NEW c \in Range(q), t[c].state = "BLOCK" PROVE c \in A \/ c \in Range(r)
    <2>1. PICK i \in 1 .. Len(q) : q[i] = c
        BY DEF Range
    <2>2. CASE i <= k
        BY <2>1, <2>2, <1>1, <1>3, <1>8
    <2>3. CASE i > k
        <3>1. i - k \in 1 .. Len(q) - k /\ r[i - k] = c
            BY <2>1, <2>3, <1>4
        <3> QED BY <3>1, <1>4 DEF Range
    <2> QED BY <2>2, <2>3
<1> QED BY <1>4, <1>5, <1>6, <1>7, <1>8 DEF r, A

-----------------------------------------------------------------------------
(* The inductive invariant.                                                 *)

\* Every uid was handed out for a call that was begun, and each call that is
\* still on its way to the server is going to need one.
Owing == {c \in Clients : client[c].pc = "call"}

\* Each uid is that of a call that was begun and is not on its way any more.
CountInv ==
    /\ last.uid + Cardinality(Owing) <= log.calls
    /\ last.uuid <= last.uid

\* Tasks of a process are runnable, blocked or dead.
StateInv == \A x \in Clients \cup Pids : task[x].state \in {"READY", "RUNNING", "BLOCK", "ZOMBIE"}

\* A request and the worker it was bound to.
Bound(i, w) ==
    /\ w \in threads /\ Live(w) /\ worker[w].uuid = tasks[i].handler_uuid
    /\ worker[w].ipc_task = i /\ worker[w].uid = tasks[i].uid
    /\ worker[w].ret = tasks[i].ret
    /\ tasks[i].client \in Clients /\ worker[w].core = Core[tasks[i].client]

\* Every request is bound to a worker that is attached to it, and vice versa.
BoundInv ==
    /\ \A i \in Slots : tasks[i].uid # 0 =>
          /\ tasks[i].handler \in Pids /\ Bound(i, tasks[i].handler)
    /\ \A w \in Pids : worker[w].ipc_task # 0 =>
          tasks[worker[w].ipc_task].uid # 0 /\ tasks[worker[w].ipc_task].handler = w

\* Threads that are dead serve nothing, those that live are in the table and
\* belong to a server that is up.
ThreadInv ==
    \A w \in Pids :
        /\ Live(w) => w \in threads /\ server.up
        /\ ~Live(w) => worker[w].ipc_task = 0 /\ worker[w].uuid = 0
        /\ worker[w].pc = "reply" => worker[w].ret

\* Every live thread is a member, once; the uuid of a slot was handed out, so
\* a new thread finds no slot that is valid for it; a member that is to quit
\* serves nothing; and under IPC_MULTI_CORE the others are on different cores.
MemberInv ==
    /\ \A w \in Pids : Live(w) => \E j \in 1 .. PoolNum :
          pool[j].pid = w /\ pool[j].uuid = worker[w].uuid
    /\ \A i, j \in 1 .. PoolNum : Member(i) /\ Member(j) /\ pool[i].pid = pool[j].pid => i = j
    /\ \A i \in 1 .. PoolNum : /\ pool[i].uuid <= last.uuid
                               /\ Member(i) /\ pool[i].quit => worker[pool[i].pid].ipc_task = 0
    /\ server.multi_core => \A i, j \in 1 .. PoolNum :
          /\ Member(i) /\ Member(j) /\ ~pool[i].quit /\ ~pool[j].quit
          /\ worker[pool[i].pid].core = worker[pool[j].pid].core
          => i = j

\* Requests have uids of their own, of their client's; under IPC_MULTI_TASK a
\* client has one at a time.
RequestInv ==
    /\ \A i \in Slots : tasks[i].uid # 0 =>
          tasks[i].uid <= last.uid /\ log.asked[tasks[i].uid] = tasks[i].client
    /\ \A i, j \in Slots : tasks[i].uid # 0 /\ tasks[i].uid = tasks[j].uid => i = j
    /\ ~server.multi_core => \A i, j \in Slots :
          tasks[i].uid # 0 /\ tasks[j].uid # 0 /\ tasks[i].client = tasks[j].client => i = j

\* The client of a request that is still to be answered waits for it and has no
\* reply; a published reply lies in the slot of the client until it is taken.
Unanswered(i) == tasks[i].uid # 0 /\ tasks[i].ret /\ worker[tasks[i].handler].pc # "end"

\* Calls, replies and the history of both agree.
ReplyInv ==
    /\ \A u \in log.answered \cup log.failed : u <= last.uid
    /\ \A c \in Clients : client[c].pc = "wait" =>
          /\ client[c].uid \in Uids /\ client[c].uid <= last.uid
          /\ log.asked[client[c].uid] = c /\ client[c].uid \notin log.failed
          /\ client[c].uid \in log.answered =>
                res[c].state = "RETURN" /\ res[c].uid = client[c].uid
          /\ res[c].state = "RETURN" => res[c].uid = client[c].uid
          /\ \A i \in Slots : tasks[i].uid = client[c].uid => tasks[i].ret
    /\ \A c \in Clients : res[c].state = "RETURN" =>
          res[c].uid \in Uids /\ res[c].uid <= last.uid /\ log.asked[res[c].uid] = c
    /\ \A i \in Slots : Unanswered(i) => LET c == tasks[i].client IN
          client[c].pc = "wait" /\ client[c].uid = tasks[i].uid /\ res[c].state # "RETURN"
    /\ log.answered \cap log.failed = {}

\* A client asleep is inside ipc_call().
SleepInv == \A c \in Clients : task[c].state = "BLOCK" => client[c].pc \in {"call", "wait"}

\* Somebody is going to look at the wait queue, unless a client has died.
NoneForgotten == (\A c \in Clients : Live(c)) => NoForgottenWaiter

StructInv == BoundInv /\ ThreadInv /\ MemberInv /\ RequestInv
QueueInv == SleepInv /\ CallerAttended /\ NoneForgotten
PoolInv == TypeOK /\ StateInv /\ CountInv /\ StructInv /\ ReplyInv /\ QueueInv

-----------------------------------------------------------------------------
(* What wakes do to tasks and wait queue.                                   *)

\* From tasks t and wait queue q to t2 and q2: clients are only woken, and who
\* leaves the queue is awake.
Loosens(t, q, t2, q2) ==
    /\ t2 \in TaskMap /\ q2 \in Seq(Clients)
    /\ Range(q2) \subseteq Range(q)
    /\ \A c \in Clients :
          /\ t2[c].state = t[c].state \/ (t[c].state # "ZOMBIE" /\ t2[c].state = "READY")
          /\ t2[c].state = "BLOCK" /\ c \in Range(q) => c \in Range(q2)

\* The threads keep their state.
SamePids(t, t2) == \A w \in Pids : t2[w].state = t[w].state

\* Composition.
LEMMA LoosensTwice ==
    ASSUME NEW t, NEW q, NEW t1, NEW q1, NEW t2, NEW q2,
           Loosens(t, q, t1, q1), Loosens(t1, q1, t2, q2)
    PROVE  Loosens(t, q, t2, q2)
<1>1. Range(q2) \subseteq Range(q)
    BY DEF Loosens
<1>2. ASSUME NEW c \in Clients
      PROVE  /\ t2[c].state = t[c].state \/ (t[c].state # "ZOMBIE" /\ t2[c].state = "READY")
             /\ t2[c].state = "BLOCK" /\ c \in Range(q) => c \in Range(q2)
    BY DEF Loosens
<1> QED BY <1>1, <1>2 DEF Loosens

\* A wake of some tasks, of which some leave the queue.
LEMMA WakeLoosens ==
    ASSUME NEW t \in TaskMap, NEW q \in Seq(Clients), NEW Q
    PROVE  /\ Loosens(t, q, proc_wakeup(t, Q), proc_ipc_cancel_wait(q, Q))
           /\ Loosens(t, q, proc_wakeup(t, Q), q)
           /\ Q \cap Pids = {} => SamePids(t, proc_wakeup(t, Q))
<1> DEFINE t2 == proc_wakeup(t, Q)
           r == proc_ipc_cancel_wait(q, Q)
<1>1. /\ t2 \in TaskMap
      /\ \A x \in Clients \cup Pids :
            t2[x].state = IF x \in Q /\ t[x].state # "ZOMBIE" THEN "READY" ELSE t[x].state
    BY WakeSome
<1>2. /\ r \in Seq(Clients) /\ Range(r) \subseteq Range(q)
      /\ \A c \in Range(q) : c \notin Q => c \in Range(r)
    BY CancelFacts
<1> HIDE DEF t2, r
<1>3. \A c \in Clients : t2[c].state = "BLOCK" => c \notin Q
    BY <1>1
<1>4. Loosens(t, q, t2, r)
    BY <1>1, <1>2, <1>3 DEF Loosens
<1>5. Loosens(t, q, t2, q)
    BY <1>1 DEF Loosens
<1>6. Q \cap Pids = {} => SamePids(t, t2)
    BY <1>1 DEF SamePids
<1> QED BY <1>4, <1>5, <1>6 DEF t2, r

\* proc_ipc_wakeup.
LEMMA AdmitLoosens ==
    ASSUME NEW t \in TaskMap, NEW q \in Seq(Clients), NEW ts
    PROVE  LET t2 == proc_wakeup(t, Admitted(t, q, ts)) IN
           /\ Loosens(t, q, t2, StillQueued(t, q, ts))
           /\ SamePids(t, t2)
           /\ Busy(ts) = {} /\ (\E c \in Range(q) : t[c].state = "BLOCK") =>
                 \E c \in Clients : t[c].state = "BLOCK" /\ t2[c].state = "READY"
<1> DEFINE A == Admitted(t, q, ts)
           r == StillQueued(t, q, ts)
           t2 == proc_wakeup(t, A)
<1>1. /\ r \in Seq(Clients)
      /\ Range(r) \subseteq Range(q)
      /\ A \subseteq Clients
      /\ \A c \in A : c \in Range(q) /\ t[c].state = "BLOCK"
      /\ \A c \in Range(q) : t[c].state = "BLOCK" => c \in A \/ c \in Range(r)
      /\ Busy(ts) = {} /\ (\E c \in Range(q) : t[c].state = "BLOCK") => A # {}
    BY AdmitFacts
<1> HIDE DEF A, r
<1>2. /\ t2 \in TaskMap
      /\ \A x \in Clients \cup Pids :
            t2[x].state = IF x \in A /\ t[x].state # "ZOMBIE" THEN "READY" ELSE t[x].state
    BY WakeSome
<1> HIDE DEF t2
<1>3. \A c \in Clients : t2[c].state = "BLOCK" => c \notin A /\ t[c].state = "BLOCK"
    BY <1>2
<1>4. Loosens(t, q, t2, r)
    BY <1>1, <1>2, <1>3 DEF Loosens
<1>5. SamePids(t, t2)
    <2>1. Clients \cap Pids = {}
        BY PoolAssumption
    <2> QED BY <2>1, <1>1, <1>2 DEF SamePids
<1>6. A # {} => \E c \in Clients : t[c].state = "BLOCK" /\ t2[c].state = "READY"
    <2> SUFFICES ASSUME A # {} PROVE \E c \in Clients : t[c].state = "BLOCK" /\ t2[c].state = "READY"
        OBVIOUS
    <2>1. PICK c \in A : TRUE
        OBVIOUS
    <2>2. c \in Clients /\ t[c].state = "BLOCK" /\ t2[c].state = "READY"
        BY <2>1, <1>1, <1>2
    <2> QED BY <2>2
<1> QED BY <1>1, <1>4, <1>5, <1>6 DEF A, r, t2

\* proc_ipc_pool_park: the worker blocks, clients are only woken, and a client
\* that waits for the reply of the finished request is.
LEMMA ParkedFacts ==
    ASSUME TypeOK, NEW w \in Pids
    PROVE  LET a == Parked(w) IN
           /\ a.tasks = [i \in Slots |-> IF i \in OwnRequest(w) THEN NoRequest ELSE tasks[i]]
           /\ Loosens(task, waitq, a.task, a.waitq)
           /\ a.task[w].state = "BLOCK"
           /\ \A x \in Pids : x # w => a.task[x].state = task[x].state
           /\ \A i \in OwnRequest(w) : tasks[i].ret /\ tasks[i].client \in Clients =>
                 a.task[tasks[i].client].state # "BLOCK"
<1> DEFINE a == Parked(w)
           own == OwnRequest(w)
           ts == [i \in Slots |-> IF i \in own THEN NoRequest ELSE tasks[i]]
           to == UNION {ClientOf(i) : i \in {j \in own : tasks[j].ret}}
           t == [task EXCEPT ![w] = NewTask("BLOCK")]
           t1 == proc_wakeup(t, Admitted(t, waitq, ts))
           q1 == StillQueued(t, waitq, ts)
           t2 == proc_wakeup(t1, to)
           q2 == proc_ipc_cancel_wait(q1, to)
<1>1. a.tasks = ts /\ a.task = t2 /\ a.waitq = q2
    BY DEF Parked
<1>2. task \in TaskMap /\ waitq \in Seq(Clients) /\ Clients \cap Pids = {}
    BY PoolAssumption DEF TypeOK, TaskMap
<1>3. NewTask("BLOCK") \in TaskRecord({Generic}) /\ NewTask("BLOCK").state = "BLOCK"
    BY DEF NewTask, TaskRecord, States
<1>4. /\ t \in TaskMap /\ t[w].state = "BLOCK"
      /\ \A x \in Clients \cup Pids : x # w => t[x] = task[x]
    BY <1>2, <1>3 DEF TaskMap
<1> HIDE DEF t, ts
<1>5. Loosens(task, waitq, t, waitq)
    BY <1>2, <1>4 DEF Loosens
<1>6. Loosens(t, waitq, t1, q1) /\ SamePids(t, t1)
    BY <1>2, <1>4, AdmitLoosens
<1>7. t1 \in TaskMap /\ q1 \in Seq(Clients)
    BY <1>6 DEF Loosens
<1> HIDE DEF t1, q1
<1>8. to \cap Pids = {}
    BY <1>2 DEF ClientOf
<1>9. Loosens(t1, q1, t2, q2) /\ SamePids(t1, t2)
    BY <1>7, <1>8, WakeLoosens
<1>10. Loosens(task, waitq, t1, q1)
    BY <1>5, <1>6, LoosensTwice
<1>11. Loosens(task, waitq, t2, q2)
    BY <1>9, <1>10, LoosensTwice
<1>12. t2[w].state = "BLOCK" /\ \A x \in Pids : x # w => t2[x].state = task[x].state
    BY <1>4, <1>6, <1>9 DEF SamePids
<1>13. ASSUME NEW i \in own, tasks[i].ret, tasks[i].client \in Clients
       PROVE  t2[tasks[i].client].state # "BLOCK"
    <2> DEFINE c == tasks[i].client
    <2>1. \A x \in Clients \cup Pids :
            t2[x].state = IF x \in to /\ t1[x].state # "ZOMBIE" THEN "READY" ELSE t1[x].state
        BY <1>7, WakeSome
    <2>2. CASE Live(c)
        <3>1. c \in ClientOf(i)
            BY <1>13, <2>2 DEF ClientOf
        <3>2. c \in to
            BY <3>1, <1>13
        <3> QED BY <2>1, <3>2, <1>13
    <2>3. CASE ~Live(c)
        <3>1. task[c].state = "ZOMBIE"
            BY <2>3 DEF Live, proc_get
        <3>2. t2[c].state = "ZOMBIE"
            BY <3>1, <1>11, <1>13 DEF Loosens
        <3> QED BY <3>2
    <2> QED BY <2>2, <2>3
<1> HIDE DEF a, own, t2, q2
<1> QED BY <1>1, <1>11, <1>12, <1>13 DEF a, own, ts

-----------------------------------------------------------------------------
(* Requests, threads and members: steps that bind nothing.                  *)

\* Requests are only released, threads only detached or ended, members only
\* told to quit or removed with their thread; a request that stays keeps its
\* live worker.
SameThread(w) == worker'[w].uuid = worker[w].uuid /\ worker'[w].core = worker[w].core

\* Requests that stay keep their worker ...
DropTasks ==
    \A i \in Slots : tasks'[i].uid # 0 =>
        /\ tasks'[i] = tasks[i]
        /\ tasks[i].handler \in Pids =>
             LET w == tasks[i].handler IN
             /\ task'[w].state # "ZOMBIE"
             /\ worker'[w].ipc_task = worker[w].ipc_task
             /\ worker'[w].uid = worker[w].uid /\ worker'[w].ret = worker[w].ret

\* ... threads that stay keep their identity, dead ones have none ...
DropThreads ==
    \A w \in Pids :
        /\ worker'[w].ipc_task # 0 =>
             /\ worker'[w].ipc_task = worker[w].ipc_task
             /\ tasks'[worker[w].ipc_task].uid # 0
        /\ task'[w].state # "ZOMBIE" =>
             task[w].state # "ZOMBIE" /\ w \in threads' /\ server'.up /\ SameThread(w)
        /\ task'[w].state = "ZOMBIE" => worker'[w].ipc_task = 0 /\ worker'[w].uuid = 0
        /\ worker'[w].pc = "reply" => worker'[w].ret

\* ... and members leave the pool only when their thread is dead.
DropMembers ==
    \A j \in 1 .. PoolNum :
        \/ /\ pool'[j].pid = pool[j].pid /\ pool'[j].uuid = pool[j].uuid
           /\ \/ pool'[j].quit = pool[j].quit
              \/ pool'[j].quit /\ worker'[pool[j].pid].ipc_task = 0
        \/ /\ pool'[j].pid = NoProc /\ pool'[j].uuid = 0
           /\ pool[j].pid \in Pids => task'[pool[j].pid].state = "ZOMBIE"

Drops ==
    /\ last' = last /\ log'.asked = log.asked /\ server'.multi_core = server.multi_core
    /\ DropTasks /\ DropThreads /\ DropMembers

\* Such steps keep the invariant.
LEMMA DropStruct ==
    ASSUME TypeOK, StructInv, Drops
    PROVE  StructInv'
<1> USE DEF Live, proc_get
<1>0. NoProc \notin Pids
    BY PoolAssumption
<1>1. ASSUME NEW i \in Slots, tasks'[i].uid # 0
      PROVE  /\ tasks'[i] = tasks[i] /\ tasks[i].uid # 0
             /\ tasks[i].handler \in Pids /\ Bound(i, tasks[i].handler)
             /\ Bound(i, tasks[i].handler)'
    <2>1. tasks'[i] = tasks[i] /\ tasks[i].uid # 0
        BY <1>1 DEF Drops, DropTasks
    <2>2. tasks[i].handler \in Pids /\ Bound(i, tasks[i].handler)
        BY <2>1 DEF StructInv, BoundInv
    <2> DEFINE w == tasks[i].handler
    <2>3. /\ task'[w].state # "ZOMBIE"
          /\ worker'[w].ipc_task = worker[w].ipc_task
          /\ worker'[w].uid = worker[w].uid /\ worker'[w].ret = worker[w].ret
        BY <1>1, <2>2 DEF Drops, DropTasks
    <2>4. w \in threads' /\ SameThread(w)
        BY <2>2, <2>3 DEF Drops, DropThreads
    <2>5. Bound(i, w)'
        BY <2>1, <2>2, <2>3, <2>4 DEF Bound, SameThread
    <2> QED BY <2>1, <2>2, <2>5
<1>2. BoundInv'
    <2>1. \A i \in Slots : tasks'[i].uid # 0 =>
             tasks'[i].handler \in Pids /\ Bound(i, tasks[i].handler)' /\ tasks'[i] = tasks[i]
        BY <1>1
    <2>2. ASSUME NEW w \in Pids, worker'[w].ipc_task # 0
          PROVE  tasks'[worker'[w].ipc_task].uid # 0 /\ tasks'[worker'[w].ipc_task].handler = w
        <3> DEFINE k == worker[w].ipc_task
        <3>1. worker'[w].ipc_task = k /\ tasks'[k].uid # 0
            BY <2>2 DEF Drops, DropThreads
        <3>2. k \in Slots
            BY <2>2, <3>1 DEF TypeOK, Threads
        <3>3. tasks[k].handler = w
            BY <2>2, <3>1 DEF StructInv, BoundInv
        <3> QED BY <3>1, <3>2, <3>3, <1>1
    <2> QED BY <2>1, <2>2 DEF BoundInv
<1>3. ThreadInv'
    BY DEF Drops, DropThreads, ThreadInv
<1>4. ASSUME NEW j \in 1 .. PoolNum, Member(j)'
      PROVE  /\ Member(j) /\ pool'[j].pid = pool[j].pid /\ pool[j].pid \in Pids
             /\ worker'[pool[j].pid].core = worker[pool[j].pid].core
             /\ pool[j].quit => pool'[j].quit
             /\ pool'[j].quit => pool[j].quit \/ worker'[pool[j].pid].ipc_task = 0
    <2>1. /\ pool'[j].pid = pool[j].pid /\ pool'[j].uuid = pool[j].uuid
          /\ \/ pool'[j].quit = pool[j].quit
             \/ pool'[j].quit /\ worker'[pool[j].pid].ipc_task = 0
        BY <1>4 DEF Drops, DropMembers, Member
    <2>2. pool[j].pid \in Pids /\ pool[j].pid # NoProc
        BY <1>4, <2>1 DEF Member, TypeOK, Members
    <2>3. task'[pool[j].pid].state # "ZOMBIE" /\ worker'[pool[j].pid].uuid = pool[j].uuid
        BY <1>4, <2>1 DEF Member
    <2>4. task[pool[j].pid].state # "ZOMBIE" /\ SameThread(pool[j].pid)
        BY <2>2, <2>3 DEF Drops, DropThreads
    <2> QED BY <2>1, <2>2, <2>3, <2>4 DEF Member, SameThread
<1>5. MemberInv'
    <2>1. ASSUME NEW w \in Pids, Live(w)'
          PROVE  \E j \in 1 .. PoolNum : pool'[j].pid = w /\ pool'[j].uuid = worker'[w].uuid
        <3>1. Live(w) /\ SameThread(w)
            BY <2>1 DEF Drops, DropThreads
        <3>2. PICK j \in 1 .. PoolNum : pool[j].pid = w /\ pool[j].uuid = worker[w].uuid
            BY <3>1 DEF StructInv, MemberInv
        <3>3. pool'[j].pid = pool[j].pid /\ pool'[j].uuid = pool[j].uuid
            BY <2>1, <3>2 DEF Drops, DropMembers
        <3> QED BY <3>1, <3>2, <3>3 DEF SameThread
    <2>2. ASSUME NEW i \in 1 .. PoolNum, NEW j \in 1 .. PoolNum, Member(i)', Member(j)',
                 pool'[i].pid = pool'[j].pid
          PROVE  i = j
        BY <2>2, <1>4 DEF StructInv, MemberInv
    <2>3. ASSUME NEW i \in 1 .. PoolNum PROVE pool'[i].uuid <= last'.uuid
        <3>1. pool[i].uuid \in Nat /\ last.uuid \in Nat /\ pool[i].uuid <= last.uuid
            BY DEF TypeOK, Members, StructInv, MemberInv
        <3>2. pool'[i].uuid = pool[i].uuid \/ pool'[i].uuid = 0
            BY DEF Drops, DropMembers
        <3> QED BY <3>1, <3>2 DEF Drops
    <2>4. ASSUME NEW i \in 1 .. PoolNum, Member(i)', pool'[i].quit
          PROVE  worker'[pool'[i].pid].ipc_task = 0
        <3> DEFINE w == pool[i].pid
        <3>1. Member(i) /\ pool'[i].pid = w /\ w \in Pids
            BY <2>4, <1>4
        <3>2. CASE worker'[w].ipc_task = 0
            BY <3>1, <3>2
        <3>3. CASE pool[i].quit
            <4>1. worker[w].ipc_task = 0
                BY <3>1, <3>3 DEF StructInv, MemberInv
            <4>2. worker'[w].ipc_task = 0
                BY <4>1, <3>1 DEF Drops, DropThreads
            <4> QED BY <4>2, <3>1
        <3> QED BY <2>4, <3>2, <3>3, <1>4
    <2>5. ASSUME server'.multi_core, NEW i \in 1 .. PoolNum, NEW j \in 1 .. PoolNum,
                 Member(i)', Member(j)', ~pool'[i].quit, ~pool'[j].quit,
                 worker'[pool'[i].pid].core = worker'[pool'[j].pid].core
          PROVE  i = j
        <3>1. Member(i) /\ Member(j) /\ ~pool[i].quit /\ ~pool[j].quit
            BY <2>5, <1>4
        <3>2. worker[pool[i].pid].core = worker[pool[j].pid].core
            BY <2>5, <1>4
        <3>3. server.multi_core
            BY <2>5 DEF Drops
        <3> QED BY <3>1, <3>2, <3>3 DEF StructInv, MemberInv
    <2> QED BY <2>1, <2>2, <2>3, <2>4, <2>5 DEF MemberInv
<1>6. RequestInv'
    <2>1. \A i \in Slots : tasks'[i].uid # 0 => tasks'[i] = tasks[i] /\ tasks[i].uid # 0
        BY <1>1
    <2> QED BY <2>1 DEF Drops, StructInv, RequestInv
<1> QED BY <1>2, <1>3, <1>5, <1>6 DEF StructInv

-----------------------------------------------------------------------------
(* Tasks and wait queue after each operation.                               *)

\* Types and states of tasks and wait queue.
TaskOK == task \in TaskMap /\ waitq \in Seq(Clients) /\ StateInv

\* No thread is born or dies.
SameLife(t, t2) == \A w \in Pids : t2[w].state = "ZOMBIE" <=> t[w].state = "ZOMBIE"

\* Steps that only wake clients.
LEMMA LoosensOK ==
    ASSUME TaskOK, Loosens(task, waitq, task', waitq'),
           \A w \in Pids : task'[w].state \in {"READY", "RUNNING", "BLOCK", "ZOMBIE"}
    PROVE  TaskOK'
BY DEF TaskOK, Loosens, StateInv, TaskMap

\* Queue and block.
LEMMA WaitEffect ==
    ASSUME TaskOK, NEW c \in Clients, NEW ret, Wait(c, ret)
    PROVE  /\ TaskOK' /\ SamePids(task, task')
           /\ task'[c].state \in {"RUNNING", "BLOCK"}
           /\ \A d \in Clients : d # c => task'[d] = task[d]
           /\ c \in Range(waitq') /\ Range(waitq) \subseteq Range(waitq')
           /\ Range(waitq') \subseteq Range(waitq) \cup {c}
<1>1. task' = proc_block(c)
    BY DEF Wait
<1>2. /\ proc_block(c) \in TaskMap
      /\ proc_block(c)[c].state \in {"RUNNING", "BLOCK"}
      /\ \A y \in Clients \cup Pids : y # c => proc_block(c)[y] = task[y]
    BY BlockSelf DEF TaskOK
<1>3. waitq' = IF c \in Range(waitq) THEN waitq ELSE Append(waitq, c)
    BY DEF Wait
<1>4. /\ waitq' \in Seq(Clients)
      /\ c \in Range(waitq') /\ Range(waitq) \subseteq Range(waitq')
      /\ Range(waitq') \subseteq Range(waitq) \cup {c}
    <2>1. CASE c \in Range(waitq)
        BY <1>3, <2>1 DEF TaskOK
    <2>2. CASE c \notin Range(waitq)
        <3>1. waitq' = Append(waitq, c)
            BY <1>3, <2>2
        <3>2. /\ Append(waitq, c) \in Seq(Clients)
              /\ Len(Append(waitq, c)) = Len(waitq) + 1
              /\ \A i \in 1 .. Len(waitq) : Append(waitq, c)[i] = waitq[i]
              /\ Append(waitq, c)[Len(waitq) + 1] = c
            BY AppendProperties DEF TaskOK
        <3>3. DOMAIN (waitq') = 1 .. Len(waitq) + 1 /\ DOMAIN waitq = 1 .. Len(waitq)
            BY <3>1, <3>2 DEF TaskOK
        <3>4. Len(waitq) \in Nat
            BY DEF TaskOK
        <3> QED BY <3>1, <3>2, <3>3, <3>4 DEF Range
    <2> QED BY <2>1, <2>2
<1>5. Clients \cap Pids = {}
    BY PoolAssumption
<1>6. TaskOK'
    BY <1>1, <1>2, <1>4 DEF TaskOK, StateInv
<1> QED BY <1>1, <1>2, <1>4, <1>5, <1>6 DEF SamePids

\* A death.
LEMMA DeathEffect ==
    ASSUME NEW t \in TaskMap, NEW x \in Clients \cup Pids
    PROVE  LET u == [t EXCEPT ![x] = proc_unready(@, "ZOMBIE")] IN
           /\ u \in TaskMap /\ u[x].state = "ZOMBIE"
           /\ \A y \in Clients \cup Pids : y # x => u[y] = t[y]
<1>1. /\ proc_unready(t[x], "ZOMBIE") \in TaskRecord({Generic})
      /\ proc_unready(t[x], "ZOMBIE").state = "ZOMBIE"
    BY DEF TaskMap, TaskRecord, States, proc_unready
<1> QED BY <1>1 DEF TaskMap

\* A wake of one thread.
LEMMA ThreadWake ==
    ASSUME TaskOK, NEW w \in Pids, task' = proc_wakeup(task, {w}), waitq' = waitq
    PROVE  TaskOK' /\ SameLife(task, task') /\ Loosens(task, waitq, task', waitq')
           /\ (\A c \in Clients : task'[c].state = task[c].state)
           /\ (task[w].state # "ZOMBIE" => task'[w].state = "READY")
           /\ (\A v \in Pids : v # w => task'[v].state = task[v].state)
<1>1. /\ task' \in TaskMap
      /\ \A x \in Clients \cup Pids :
            task'[x].state = IF x \in {w} /\ task[x].state # "ZOMBIE" THEN "READY" ELSE task[x].state
    BY WakeSome DEF TaskOK
<1>2. Clients \cap Pids = {}
    BY PoolAssumption
<1>3. StateInv'
    BY <1>1 DEF StateInv, TaskOK
<1>4. Loosens(task, waitq, task', waitq')
    BY <1>1, <1>2 DEF Loosens, TaskOK
<1> QED BY <1>1, <1>2, <1>3, <1>4 DEF TaskOK, SameLife

\* SYS_WAKEUP.
LEMMA StrayEffect ==
    ASSUME TaskOK, NEW x \in Clients \cup Pids, StrayWake(x)
    PROVE  TaskOK' /\ SameLife(task, task') /\ Loosens(task, waitq, task', waitq')
<1>1. task' = proc_wakeup(task, {x}) /\ waitq' = proc_ipc_cancel_wait(waitq, {x})
    BY DEF StrayWake
<1>2. Loosens(task, waitq, task', waitq')
    BY <1>1, WakeLoosens DEF TaskOK
<1>3. \A y \in Clients \cup Pids :
            task'[y].state = IF y \in {x} /\ task[y].state # "ZOMBIE" THEN "READY" ELSE task[y].state
    BY <1>1, WakeSome DEF TaskOK
<1>4. \A w \in Pids : task'[w].state \in {"READY", "RUNNING", "BLOCK", "ZOMBIE"}
    BY <1>3 DEF TaskOK, StateInv
<1>5. TaskOK'
    BY <1>2, <1>4, LoosensOK
<1> QED BY <1>2, <1>3, <1>5 DEF SameLife

\* Waiters are let in.
LEMMA AdmitEffect ==
    ASSUME TaskOK, task' = proc_wakeup(task, Admitted(task, waitq, tasks)),
           waitq' = StillQueued(task, waitq, tasks)
    PROVE  /\ TaskOK' /\ SamePids(task, task') /\ Loosens(task, waitq, task', waitq')
           /\ Busy(tasks) = {} /\ (\E c \in Range(waitq) : task[c].state = "BLOCK") =>
                 \E c \in Clients : task[c].state = "BLOCK" /\ task'[c].state = "READY"
<1>1. /\ Loosens(task, waitq, task', waitq') /\ SamePids(task, task')
      /\ Busy(tasks) = {} /\ (\E c \in Range(waitq) : task[c].state = "BLOCK") =>
            \E c \in Clients : task[c].state = "BLOCK" /\ task'[c].state = "READY"
    BY AdmitLoosens DEF TaskOK
<1>2. \A w \in Pids : task'[w].state \in {"READY", "RUNNING", "BLOCK", "ZOMBIE"}
    BY <1>1 DEF SamePids, TaskOK, StateInv
<1>3. TaskOK'
    BY <1>1, <1>2, LoosensOK
<1> QED BY <1>1, <1>3

\* A thread blocks.
LEMMA ThreadSleep ==
    ASSUME TaskOK, NEW x \in Clients \cup Pids, task' = proc_block(x), waitq' = waitq,
           task[x].state # "ZOMBIE"
    PROVE  /\ TaskOK' /\ SameLife(task, task')
           /\ task'[x].state \in {"RUNNING", "BLOCK"}
           /\ \A y \in Clients \cup Pids : y # x => task'[y] = task[y]
<1>1. /\ task' \in TaskMap
      /\ task'[x].state \in {"RUNNING", "BLOCK"}
      /\ \A y \in Clients \cup Pids : y # x => task'[y] = task[y]
    BY BlockSelf DEF TaskOK
<1> QED BY <1>1 DEF TaskOK, StateInv, SameLife

\* A worker that ends its request and goes on.
LEMMA EndEffect ==
    ASSUME TypeOK, TaskOK, NEW w \in Pids, End(w), task[w].state # "ZOMBIE"
    PROVE  /\ TaskOK' /\ SameLife(task, task') /\ Loosens(task, waitq, task', waitq')
           /\ tasks' = [i \in Slots |-> IF i \in OwnRequest(w) THEN NoRequest ELSE tasks[i]]
           /\ \A i \in OwnRequest(w) : tasks[i].ret /\ tasks[i].client \in Clients =>
                 task'[tasks[i].client].state # "BLOCK"
<1> DEFINE a == Parked(w)
<1>1. tasks' = a.tasks /\ task' = a.task /\ waitq' = a.waitq
    BY DEF End
<1>2. /\ a.tasks = [i \in Slots |-> IF i \in OwnRequest(w) THEN NoRequest ELSE tasks[i]]
      /\ Loosens(task, waitq, a.task, a.waitq)
      /\ a.task[w].state = "BLOCK"
      /\ \A x \in Pids : x # w => a.task[x].state = task[x].state
      /\ \A i \in OwnRequest(w) : tasks[i].ret /\ tasks[i].client \in Clients =>
            a.task[tasks[i].client].state # "BLOCK"
    BY ParkedFacts
<1> HIDE DEF a
<1>3. \A x \in Pids : task'[x].state \in {"READY", "RUNNING", "BLOCK", "ZOMBIE"}
    BY <1>1, <1>2 DEF TaskOK, StateInv
<1>4. Loosens(task, waitq, task', waitq')
    BY <1>1, <1>2
<1>5. TaskOK'
    BY <1>3, <1>4, LoosensOK
<1>6. SameLife(task, task')
    BY <1>1, <1>2 DEF SameLife
<1> QED BY <1>1, <1>2, <1>4, <1>5, <1>6

\* A worker that ends its request and quits.
LEMMA QuitEffect ==
    ASSUME TypeOK, TaskOK, NEW w \in Pids, EndQuit(w)
    PROVE  /\ TaskOK' /\ Loosens(task, waitq, task', waitq')
           /\ task'[w].state = "ZOMBIE"
           /\ \A x \in Pids : x # w => task'[x].state = task[x].state
           /\ tasks' = [i \in Slots |-> IF i \in OwnRequest(w) THEN NoRequest ELSE tasks[i]]
           /\ \A i \in OwnRequest(w) : tasks[i].ret /\ tasks[i].client \in Clients =>
                 task'[tasks[i].client].state # "BLOCK"
<1> DEFINE a == Parked(w)
           t1 == a.task
           q1 == a.waitq
           t2 == proc_wakeup(t1, Admitted(t1, q1, a.tasks))
           q2 == StillQueued(t1, q1, a.tasks)
           t3 == [t2 EXCEPT ![w] = proc_unready(@, "ZOMBIE")]
<1>0. Clients \cap Pids = {}
    BY PoolAssumption
<1>1. tasks' = a.tasks /\ task' = t3 /\ waitq' = q2
    BY DEF EndQuit
<1>2. /\ a.tasks = [i \in Slots |-> IF i \in OwnRequest(w) THEN NoRequest ELSE tasks[i]]
      /\ Loosens(task, waitq, t1, q1)
      /\ \A x \in Pids : x # w => t1[x].state = task[x].state
      /\ \A i \in OwnRequest(w) : tasks[i].ret /\ tasks[i].client \in Clients =>
            t1[tasks[i].client].state # "BLOCK"
    BY ParkedFacts
<1> HIDE DEF a, t1, q1
<1>3. t1 \in TaskMap /\ q1 \in Seq(Clients)
    BY <1>2 DEF Loosens
<1>4. Loosens(t1, q1, t2, q2) /\ SamePids(t1, t2)
    BY <1>3, AdmitLoosens
<1>5. t2 \in TaskMap /\ q2 \in Seq(Clients)
    BY <1>4 DEF Loosens
<1> HIDE DEF t2, q2
<1>6. /\ t3 \in TaskMap /\ t3[w].state = "ZOMBIE"
      /\ \A y \in Clients \cup Pids : y # w => t3[y] = t2[y]
    BY <1>5, DeathEffect
<1> HIDE DEF t3
<1>7. Loosens(task, waitq, t2, q2)
    BY <1>2, <1>4, LoosensTwice
<1>8. Loosens(task, waitq, t3, q2)
    BY <1>0, <1>6, <1>7 DEF Loosens
<1>9. \A x \in Pids : x # w => task'[x].state = task[x].state
    BY <1>1, <1>2, <1>4, <1>6 DEF SamePids
<1>10. \A x \in Pids : task'[x].state \in {"READY", "RUNNING", "BLOCK", "ZOMBIE"}
    BY <1>1, <1>6, <1>9 DEF TaskOK, StateInv
<1>11. TaskOK'
    BY <1>1, <1>8, <1>10, LoosensOK
<1>12. ASSUME NEW i \in OwnRequest(w), tasks[i].ret, tasks[i].client \in Clients
       PROVE  task'[tasks[i].client].state # "BLOCK"
    <2> DEFINE c == tasks[i].client
    <2>1. t1[c].state # "BLOCK" /\ c # w
        BY <1>0, <1>2, <1>12
    <2>2. t2[c].state # "BLOCK"
        BY <2>1, <1>4, <1>12 DEF Loosens
    <2> QED BY <2>1, <2>2, <1>1, <1>6, <1>12
<1> QED BY <1>1, <1>2, <1>6, <1>8, <1>9, <1>11, <1>12

\* proc_ipc_task_abort: its client is woken.
LEMMA AbortEffect ==
    ASSUME TaskOK, NEW i \in Slots, NEW t \in TaskMap, proc_ipc_task_abort(i, t),
           \A c \in Clients : t[c] = task[c]
    PROVE  /\ Loosens(task, waitq, task', waitq') /\ SamePids(t, task')
           /\ tasks[i].client \in Clients => task'[tasks[i].client].state # "BLOCK"
<1> DEFINE to == ClientOf(i)
<1>1. task' = proc_wakeup(t, to) /\ waitq' = proc_ipc_cancel_wait(waitq, to)
    BY DEF proc_ipc_task_abort
<1>2. to \cap Pids = {}
    BY PoolAssumption DEF ClientOf
<1>3. Loosens(t, waitq, task', waitq') /\ SamePids(t, task')
    BY <1>1, <1>2, WakeLoosens DEF TaskOK
<1>4. Loosens(task, waitq, t, waitq)
    BY DEF Loosens, TaskOK
<1>5. Loosens(task, waitq, task', waitq')
    BY <1>3, <1>4, LoosensTwice
<1>6. \A x \in Clients \cup Pids :
            task'[x].state = IF x \in to /\ t[x].state # "ZOMBIE" THEN "READY" ELSE t[x].state
    BY <1>1, WakeSome
<1>7. tasks[i].client \in Clients => task'[tasks[i].client].state # "BLOCK"
    BY <1>6 DEF ClientOf, Live, proc_get
<1> QED BY <1>3, <1>5, <1>7

\* The watchdog.
LEMMA TimeoutEffect ==
    ASSUME TaskOK, NEW i \in Slots, Timeout(i)
    PROVE  /\ TaskOK' /\ SamePids(task, task') /\ Loosens(task, waitq, task', waitq')
           /\ tasks[i].client \in Clients => task'[tasks[i].client].state # "BLOCK"
<1>1. proc_ipc_task_abort(i, task)
    BY DEF Timeout
<1>2. /\ Loosens(task, waitq, task', waitq') /\ SamePids(task, task')
      /\ tasks[i].client \in Clients => task'[tasks[i].client].state # "BLOCK"
    BY <1>1, AbortEffect DEF TaskOK
<1>3. \A x \in Pids : task'[x].state \in {"READY", "RUNNING", "BLOCK", "ZOMBIE"}
    BY <1>2 DEF SamePids, TaskOK, StateInv
<1> QED BY <1>2, <1>3, LoosensOK

\* The death of a worker.
LEMMA ExitEffect ==
    ASSUME TypeOK, TaskOK, NEW w \in Pids, WorkerExit(w)
    PROVE  /\ TaskOK' /\ Loosens(task, waitq, task', waitq')
           /\ task'[w].state = "ZOMBIE"
           /\ \A x \in Pids : x # w => task'[x].state = task[x].state
           /\ LET i == worker[w].ipc_task IN i # 0 /\ tasks[i].client \in Clients =>
                 task'[tasks[i].client].state # "BLOCK"
<1> DEFINE t == [task EXCEPT ![w] = proc_unready(@, "ZOMBIE")]
           i == worker[w].ipc_task
<1>0. Clients \cap Pids = {}
    BY PoolAssumption
<1>1. /\ t \in TaskMap /\ t[w].state = "ZOMBIE"
      /\ \A y \in Clients \cup Pids : y # w => t[y] = task[y]
    BY DeathEffect DEF TaskOK
<1>2. IF i # 0 THEN proc_ipc_task_abort(i, t) ELSE task' = t /\ UNCHANGED <<tasks, res, log, waitq>>
    BY DEF WorkerExit
<1>3. i \in Slots \cup {0}
    BY DEF TypeOK, Threads
<1> HIDE DEF t, i
<1>4. \A c \in Clients : t[c] = task[c]
    BY <1>0, <1>1
<1>5. CASE i # 0
    <2>1. proc_ipc_task_abort(i, t) /\ i \in Slots
        BY <1>2, <1>3, <1>5
    <2>2. /\ Loosens(task, waitq, task', waitq') /\ SamePids(t, task')
          /\ tasks[i].client \in Clients => task'[tasks[i].client].state # "BLOCK"
        BY <2>1, <1>1, <1>4, AbortEffect
    <2>3. task'[w].state = "ZOMBIE" /\ \A x \in Pids : x # w => task'[x].state = task[x].state
        BY <2>2, <1>1 DEF SamePids
    <2>4. \A x \in Pids : task'[x].state \in {"READY", "RUNNING", "BLOCK", "ZOMBIE"}
        BY <2>3 DEF TaskOK, StateInv
    <2> QED BY <2>2, <2>3, <2>4, LoosensOK DEF i
<1>6. CASE i = 0
    <2>1. task' = t /\ waitq' = waitq
        BY <1>2, <1>6
    <2>2. Loosens(task, waitq, task', waitq')
        BY <2>1, <1>1, <1>4 DEF Loosens, TaskOK
    <2>3. task'[w].state = "ZOMBIE" /\ \A x \in Pids : x # w => task'[x].state = task[x].state
        BY <2>1, <1>1
    <2>4. \A x \in Pids : task'[x].state \in {"READY", "RUNNING", "BLOCK", "ZOMBIE"}
        BY <2>3 DEF TaskOK, StateInv
    <2> QED BY <2>2, <2>3, <2>4, <1>6, LoosensOK DEF i
<1> QED BY <1>5, <1>6

\* The death of the server.
LEMMA ServerEffect ==
    ASSUME TaskOK, ServerExit
    PROVE  /\ TaskOK' /\ Loosens(task, waitq, task', waitq')
           /\ \A w \in Pids : task'[w].state = "ZOMBIE"
           /\ \A c \in Clients : task'[c].state = "BLOCK" =>
                 c \notin ReplyWaiters /\ c \notin Range(waitq)
<1> DEFINE t == [x \in DOMAIN task |-> IF x \in Pids /\ Live(x) THEN proc_unready(task[x], "ZOMBIE")
                                       ELSE task[x]]
           t1 == proc_wakeup(t, ReplyWaiters)
           Q == Range(waitq) \ ReplyWaiters
<1>0. Clients \cap Pids = {}
    BY PoolAssumption
<1>1. task' = proc_wakeup(t1, Q) /\ waitq' = <<>>
    BY DEF ServerExit
<1>2. \A x \in Clients \cup Pids :
         /\ proc_unready(task[x], "ZOMBIE") \in TaskRecord({Generic})
         /\ proc_unready(task[x], "ZOMBIE").state = "ZOMBIE"
    BY DEF TaskOK, TaskMap, TaskRecord, States, proc_unready
<1>3. /\ t \in TaskMap
      /\ \A w \in Pids : t[w].state = "ZOMBIE"
      /\ \A c \in Clients : t[c] = task[c]
    BY <1>0, <1>2 DEF TaskOK, TaskMap, Live, proc_get
<1> HIDE DEF t
<1>4. /\ t1 \in TaskMap
      /\ \A x \in Clients \cup Pids :
         t1[x].state = IF x \in ReplyWaiters /\ t[x].state # "ZOMBIE" THEN "READY" ELSE t[x].state
    BY <1>3, WakeSome
<1> HIDE DEF t1, Q
<1>5. /\ task' \in TaskMap
      /\ \A x \in Clients \cup Pids :
         task'[x].state = IF x \in Q /\ t1[x].state # "ZOMBIE" THEN "READY" ELSE t1[x].state
    BY <1>1, <1>4, WakeSome
<1>6. \A w \in Pids : task'[w].state = "ZOMBIE"
    BY <1>3, <1>4, <1>5
<1>7. ASSUME NEW c \in Clients
      PROVE  /\ task'[c].state = task[c].state \/ (task[c].state # "ZOMBIE" /\ task'[c].state = "READY")
             /\ task'[c].state = "BLOCK" => c \notin ReplyWaiters /\ c \notin Q
    BY <1>3, <1>4, <1>5
<1>8. waitq' \in Seq(Clients) /\ Range(waitq') = {}
    BY <1>1 DEF Range
<1>9. \A c \in Clients : task'[c].state = "BLOCK" =>
                 c \notin ReplyWaiters /\ c \notin Range(waitq)
    BY <1>7 DEF Q
<1>10. Loosens(task, waitq, task', waitq')
    BY <1>5, <1>7, <1>8, <1>9 DEF Loosens
<1> QED BY <1>6, <1>9, <1>10, LoosensOK

\* The death of a client.
LEMMA ClientEffect ==
    ASSUME TaskOK, NEW c \in Clients, ClientExit(c)
    PROVE  /\ TaskOK' /\ SamePids(task, task') /\ task'[c].state = "ZOMBIE"
           /\ \A d \in Clients : d # c => task'[d] = task[d]
           /\ Range(waitq') \subseteq Range(waitq)
           /\ \A d \in Range(waitq) : d # c => d \in Range(waitq')
<1>0. Clients \cap Pids = {}
    BY PoolAssumption
<1>1. /\ task' \in TaskMap /\ task'[c].state = "ZOMBIE"
      /\ \A y \in Clients \cup Pids : y # c => task'[y] = task[y]
    BY DeathEffect, ZenonT(30) DEF ClientExit, TaskOK
<1>2. waitq' = proc_ipc_cancel_wait(waitq, {c})
    BY DEF ClientExit
<1>3. /\ waitq' \in Seq(Clients)
      /\ Range(waitq') \subseteq Range(waitq)
      /\ \A d \in Range(waitq) : d \notin {c} => d \in Range(waitq')
    BY <1>2, CancelFacts DEF TaskOK
<1>4. TaskOK'
    BY <1>1, <1>3 DEF TaskOK, StateInv
<1> QED BY <1>0, <1>1, <1>3, <1>4 DEF SamePids

\* The member a client is given.
LEMMA ServedFacts ==
    ASSUME TypeOK, TaskOK, NEW c \in Clients, NEW ret, CallServed(c, ret)
    PROVE  \E j \in 1 .. PoolNum : LET w == pool[j].pid IN
           /\ w \in Pids /\ Idle(j) /\ worker[w].core = Core[c]
           /\ Bind(c, ret, w, pool[j].uuid, j)
           /\ TaskOK' /\ SameLife(task, task') /\ Loosens(task, waitq, task', waitq')
           /\ \A d \in Clients : task'[d].state = task[d].state
<1> DEFINE j == Min(IdleOn(Core[c]))
           w == pool[j].pid
<1>1. IdleOn(Core[c]) \in SUBSET Nat /\ IdleOn(Core[c]) # {}
    <2>1. PoolNum \in Nat
        BY PoolAssumption
    <2>2. IdleOn(Core[c]) \subseteq 1 .. PoolNum
        BY DEF IdleOn
    <2>3. IdleOn(Core[c]) # {}
        BY DEF CallServed
    <2> QED BY <2>1, <2>2, <2>3
<1>2. j \in IdleOn(Core[c])
    BY <1>1, MinFacts
<1>3. Bind(c, ret, w, pool[j].uuid, j) /\ task' = proc_wakeup(task, {w})
    BY DEF CallServed
<1> HIDE DEF j
<1>4. j \in 1 .. PoolNum /\ Idle(j) /\ worker[w].core = Core[c]
    BY <1>2 DEF IdleOn
<1>5. w \in Pids
    BY <1>4 DEF Idle, Member, TypeOK, Members
<1>6. waitq' = waitq
    BY <1>3 DEF Bind
<1>7. /\ TaskOK' /\ SameLife(task, task') /\ Loosens(task, waitq, task', waitq')
      /\ \A d \in Clients : task'[d].state = task[d].state
    BY <1>3, <1>5, <1>6, ThreadWake
<1> QED BY <1>3, <1>4, <1>5, <1>7

\* A thread is created.
LEMMA SpawnEffect ==
    ASSUME TaskOK, NEW w \in Pids,
           task' = proc_wakeup([task EXCEPT ![w] = NewTask("BLOCK")], {w}), waitq' = waitq
    PROVE  /\ TaskOK' /\ Loosens(task, waitq, task', waitq')
           /\ task'[w].state = "READY"
           /\ \A v \in Pids : v # w => task'[v].state = task[v].state
           /\ \A d \in Clients : task'[d].state = task[d].state
<1> DEFINE t == [task EXCEPT ![w] = NewTask("BLOCK")]
<1>0. Clients \cap Pids = {}
    BY PoolAssumption
<1>1. NewTask("BLOCK") \in TaskRecord({Generic}) /\ NewTask("BLOCK").state = "BLOCK"
    BY DEF NewTask, TaskRecord, States
<1>2. /\ t \in TaskMap /\ t[w].state = "BLOCK"
      /\ \A x \in Clients \cup Pids : x # w => t[x] = task[x]
    BY <1>1 DEF TaskMap, TaskOK
<1> HIDE DEF t
<1>3. /\ task' \in TaskMap
      /\ \A x \in Clients \cup Pids :
            task'[x].state = IF x \in {w} /\ t[x].state # "ZOMBIE" THEN "READY" ELSE t[x].state
    <2>1. task' = proc_wakeup(t, {w})
        BY DEF t
    <2>2. t \in TaskMap
        BY <1>2
    <2>3. /\ proc_wakeup(t, {w}) \in TaskMap
          /\ \A x \in Clients \cup Pids :
               proc_wakeup(t, {w})[x].state =
                  IF x \in {w} /\ t[x].state # "ZOMBIE" THEN "READY" ELSE t[x].state
        BY <2>2, WakeSome
    <2> QED BY <2>1, <2>3
<1>4. \A x \in Clients \cup Pids : x # w => task'[x].state = task[x].state
    BY <1>2, <1>3
<1>5. task'[w].state = "READY"
    BY <1>2, <1>3
<1>6. TaskOK'
    BY <1>3, <1>4, <1>5 DEF TaskOK, StateInv
<1>7. Loosens(task, waitq, task', waitq')
    BY <1>0, <1>3, <1>4 DEF Loosens, TaskOK
<1> QED BY <1>0, <1>4, <1>5, <1>6, <1>7

-----------------------------------------------------------------------------
(* Requests, threads and members: a request is bound.                       *)

\* proc_ipc_req finds a free slot.
LEMMA FreeSlotFacts ==
    ASSUME Open
    PROVE  FreeSlot \in Slots /\ tasks[FreeSlot].uid = 0
<1>1. IPC_CTX_MAX \in Nat
    BY PoolAssumption
<1>2. Slots \ Busy(tasks) \in SUBSET Nat /\ Slots \ Busy(tasks) # {}
    BY <1>1 DEF Open, Slots, Busy
<1>3. FreeSlot \in Slots \ Busy(tasks)
    BY <1>2, MinFacts DEF FreeSlot
<1> QED BY <1>3 DEF Busy

\* ipc_pool_register_locked finds a slot without a live worker.
LEMMA FreeMemberFacts ==
    ASSUME NEW k, MayGrow(k)
    PROVE  FreeMember \in 1 .. PoolNum /\ ~Member(FreeMember)
<1> DEFINE S == {j \in 1 .. PoolNum : ~Member(j)}
           T == {j \in 1 .. PoolNum : Member(j)}
<1>1. PoolNum \in Nat
    BY PoolAssumption
<1>2. Cardinality(1 .. PoolNum) = PoolNum
    BY <1>1, FS_Interval
<1>3. T # 1 .. PoolNum
    <2>1. Cardinality(T) < PoolNum
        BY DEF MayGrow
    <2> HIDE DEF T
    <2>2. T = 1 .. PoolNum => Cardinality(T) = PoolNum
        BY <1>2
    <2> QED BY <1>1, <2>1, <2>2
<1>4. S # {} /\ S \in SUBSET Nat
    BY <1>1, <1>3
<1>5. Min(S) \in S
    BY <1>4, MinFacts
<1>6. FreeMember = Min(S)
    BY DEF FreeMember
<1> QED BY <1>5, <1>6

\* The request is given to w, a parked member or a new thread.
Given(c, ret, w, uuid, j) ==
    /\ Open /\ MayServe(c) /\ Bind(c, ret, w, uuid, j)
    /\ task'[w].state # "ZOMBIE" /\ worker[w].ipc_task = 0
    /\ \A v \in Pids : v # w => task'[v].state = "ZOMBIE" <=> task[v].state = "ZOMBIE"
    /\ threads' = threads \cup {w}
    /\ last'.uid = last.uid + 1
    /\ log'.asked = [log.asked EXCEPT ![last.uid + 1] = c]
    /\ \/ /\ pool[j].pid = w /\ Member(j) /\ ~pool[j].quit /\ uuid = worker[w].uuid
          /\ uuid = pool[j].uuid
          /\ task[w].state # "ZOMBIE"
          /\ worker[w].core = Core[c] /\ last'.uuid = last.uuid
       \/ /\ task[w].state = "ZOMBIE" /\ ~Member(j) /\ uuid = last.uuid + 1
          /\ last'.uuid = last.uuid + 1
          /\ server.multi_core => core_member(Core[c]) = {}

\* A bound request.
LEMMA BindStruct ==
    ASSUME TypeOK, StructInv, CountInv, last.uid < MaxCalls,
           NEW c \in Clients, NEW ret \in BOOLEAN, NEW w \in Pids, NEW uuid \in Nat,
           NEW j \in 1 .. PoolNum, Given(c, ret, w, uuid, j)
    PROVE  StructInv'
<1> DEFINE uid == last.uid + 1
           s == FreeSlot
<1> USE DEF Live, proc_get
<1>0. NoProc \notin Pids /\ MaxCalls \in Nat
    BY PoolAssumption
<1>1. s \in Slots /\ tasks[s].uid = 0
    BY FreeSlotFacts DEF Given
<1>2. last.uid \in Nat /\ last.uuid \in Nat /\ uid \in Uids /\ uid # 0
    BY <1>0 DEF TypeOK, Uids
<1>3. /\ tasks' = [tasks EXCEPT ![s] = [uid |-> uid, client |-> c, ret |-> ret,
                                        handler |-> w, handler_uuid |-> uuid]]
      /\ worker' = [worker EXCEPT ![w] = [uuid |-> uuid, core |-> Core[c],
                            ipc_task |-> s, pc |-> "entry", uid |-> uid, ret |-> ret]]
      /\ pool' = [pool EXCEPT ![j] = [pid |-> w, uuid |-> uuid, idle |-> FALSE, quit |-> FALSE]]
      /\ server' = server
    BY DEF Given, Bind
<1> HIDE DEF uid, s
<1>4. /\ tasks'[s].uid = uid /\ tasks'[s].client = c /\ tasks'[s].ret = ret
      /\ tasks'[s].handler = w /\ tasks'[s].handler_uuid = uuid
      /\ \A i \in Slots : i # s => tasks'[i] = tasks[i]
    BY <1>1, <1>3 DEF TypeOK
<1>5. /\ worker'[w].uuid = uuid /\ worker'[w].core = Core[c] /\ worker'[w].ipc_task = s
      /\ worker'[w].pc = "entry" /\ worker'[w].uid = uid /\ worker'[w].ret = ret
      /\ \A v \in Pids : v # w => worker'[v] = worker[v]
    BY <1>3 DEF TypeOK
<1>6. /\ pool'[j].pid = w /\ pool'[j].uuid = uuid /\ ~pool'[j].quit
      /\ \A k \in 1 .. PoolNum : k # j => pool'[k] = pool[k]
    BY <1>3 DEF TypeOK
<1>7. /\ task'[w].state # "ZOMBIE" /\ worker[w].ipc_task = 0
      /\ \A v \in Pids : v # w => (task'[v].state = "ZOMBIE" <=> task[v].state = "ZOMBIE")
      /\ threads' = threads \cup {w}
      /\ last'.uid = uid
      /\ log'.asked = [log.asked EXCEPT ![uid] = c]
      /\ server.up
    BY DEF Given, uid, Open
<1>8. BoundInv'
    <2>1. ASSUME NEW i \in Slots, tasks'[i].uid # 0
          PROVE  tasks'[i].handler \in Pids /\ Bound(i, tasks[i].handler)'
        <3>1. CASE i = s
            BY <3>1, <1>4, <1>5, <1>7 DEF Bound
        <3>2. CASE i # s
            <4> DEFINE v == tasks[i].handler
            <4>1. v \in Pids /\ Bound(i, v) /\ tasks'[i] = tasks[i]
                BY <2>1, <3>2, <1>4 DEF StructInv, BoundInv
            <4>2. v # w
                BY <4>1, <1>1, <1>7, PoolAssumption DEF Bound, Slots
            <4>3. worker'[v] = worker[v]
                BY <4>1, <4>2, <1>5
            <4> QED BY <4>1, <4>2, <4>3, <1>7 DEF Bound
        <3> QED BY <3>1, <3>2
    <2>2. ASSUME NEW v \in Pids, worker'[v].ipc_task # 0
          PROVE  tasks'[worker'[v].ipc_task].uid # 0 /\ tasks'[worker'[v].ipc_task].handler = v
        <3>1. CASE v = w
            BY <3>1, <1>1, <1>2, <1>4, <1>5
        <3>2. CASE v # w
            <4>1. worker'[v] = worker[v] /\ worker[v].ipc_task \in Slots
                BY <2>2, <3>2, <1>5 DEF TypeOK, Threads
            <4>2. tasks[worker[v].ipc_task].uid # 0 /\ tasks[worker[v].ipc_task].handler = v
                BY <2>2, <4>1 DEF StructInv, BoundInv
            <4> QED BY <4>1, <4>2, <1>1, <1>4
        <3> QED BY <3>1, <3>2
    <2> QED BY <2>1, <2>2 DEF BoundInv
<1>9. ThreadInv'
    BY <1>3, <1>5, <1>7 DEF StructInv, ThreadInv
<1>10. MemberInv'
    <2>1. \A k \in 1 .. PoolNum : pool[k].uuid \in Nat /\ pool[k].uuid <= last.uuid
        <3>1. \A k \in 1 .. PoolNum : pool[k] \in Members
            BY DEF TypeOK
        <3>2. \A k \in 1 .. PoolNum : pool[k].uuid \in Nat
            BY <3>1, PoolAssumption DEF Members
        <3> QED BY <3>2 DEF StructInv, MemberInv
    <2>2. ASSUME NEW k \in 1 .. PoolNum, k # j, Member(k)'
          PROVE  Member(k) /\ pool[k].pid # w /\ pool[k].pid \in Pids
                 /\ worker'[pool[k].pid] = worker[pool[k].pid] /\ pool'[k] = pool[k]
        <3>1. pool'[k] = pool[k]
            BY <2>2, <1>6
        <3>2. pool[k].pid \in Pids
            BY <2>2, <3>1 DEF Member, TypeOK, Members
        <3>3. pool[k].pid # w
            <4>1. SUFFICES ASSUME pool[k].pid = w PROVE FALSE
                OBVIOUS
            <4>2. pool[k].uuid = uuid
                BY <2>2, <3>1, <4>1, <1>5 DEF Member
            <4>3. CASE uuid = last.uuid + 1
                BY <4>2, <4>3, <2>1, <1>2
            <4>4. CASE pool[j].pid = w /\ Member(j) /\ uuid = worker[w].uuid /\ task[w].state # "ZOMBIE"
                <5>1. Member(k)
                    BY <4>1, <4>2, <4>4, <1>0 DEF Member
                <5> QED BY <5>1, <4>1, <4>4, <2>2 DEF StructInv, MemberInv
            <4> QED BY <4>3, <4>4 DEF Given
        <3>4. worker'[pool[k].pid] = worker[pool[k].pid]
            BY <3>2, <3>3, <1>5
        <3> QED BY <2>2, <3>1, <3>2, <3>3, <3>4, <1>7 DEF Member
    <2>3. ASSUME NEW v \in Pids, Live(v)'
          PROVE  \E k \in 1 .. PoolNum : pool'[k].pid = v /\ pool'[k].uuid = worker'[v].uuid
        <3>1. CASE v = w
            BY <3>1, <1>5, <1>6
        <3>2. CASE v # w
            <4>1. Live(v) /\ worker'[v] = worker[v]
                BY <2>3, <3>2, <1>5, <1>7
            <4>2. PICK k \in 1 .. PoolNum : pool[k].pid = v /\ pool[k].uuid = worker[v].uuid
                BY <4>1 DEF StructInv, MemberInv
            <4>3. Member(k)
                BY <4>1, <4>2, <1>0 DEF Member
            <4>4. k # j
                BY <4>2, <4>3, <3>2 DEF Given
            <4> QED BY <4>1, <4>2, <4>4, <1>6
        <3> QED BY <3>1, <3>2
    <2>4. ASSUME NEW k \in 1 .. PoolNum, NEW l \in 1 .. PoolNum, Member(k)', Member(l)',
                 pool'[k].pid = pool'[l].pid
          PROVE  k = l
        <3>1. CASE k = j
            BY <3>1, <2>2, <2>4, <1>6
        <3>2. CASE l = j
            BY <3>2, <2>2, <2>4, <1>6
        <3>3. CASE k # j /\ l # j
            BY <3>3, <2>2, <2>4 DEF StructInv, MemberInv
        <3> QED BY <3>1, <3>2, <3>3
    <2>5. ASSUME NEW k \in 1 .. PoolNum
          PROVE  pool'[k].uuid <= last'.uuid
        <3>1. last'.uuid \in Nat /\ last.uuid <= last'.uuid /\ uuid <= last'.uuid
            BY <1>2, <2>1 DEF Given
        <3> QED BY <3>1, <2>1, <1>2, <1>6
    <2>6. ASSUME NEW k \in 1 .. PoolNum, Member(k)', pool'[k].quit
          PROVE  worker'[pool'[k].pid].ipc_task = 0
        BY <2>2, <2>6, <1>6 DEF StructInv, MemberInv
    <2>7. ASSUME server'.multi_core, NEW k \in 1 .. PoolNum, NEW l \in 1 .. PoolNum,
                 Member(k)', Member(l)', ~pool'[k].quit, ~pool'[l].quit,
                 worker'[pool'[k].pid].core = worker'[pool'[l].pid].core
          PROVE  k = l
        <3>1. server.multi_core
            BY <2>7, <1>3
        <3>2. ASSUME NEW m \in 1 .. PoolNum, m # j, Member(m)', ~pool'[m].quit,
                     worker'[pool'[m].pid].core = Core[c]
              PROVE  FALSE
            <4>1. Member(m) /\ ~pool[m].quit /\ worker[pool[m].pid].core = Core[c]
                BY <3>2, <2>2
            <4>2. CASE core_member(Core[c]) = {}
                BY <4>1, <4>2 DEF core_member
            <4>3. CASE pool[j].pid = w /\ Member(j) /\ ~pool[j].quit /\ worker[w].core = Core[c]
                BY <4>1, <4>3, <3>1, <3>2 DEF StructInv, MemberInv
            <4> QED BY <4>2, <4>3, <3>1 DEF Given
        <3>3. worker'[pool'[j].pid].core = Core[c]
            BY <1>5, <1>6
        <3>4. CASE k = j
            BY <3>2, <3>3, <3>4, <2>7
        <3>5. CASE l = j
            BY <3>2, <3>3, <3>5, <2>7
        <3>6. CASE k # j /\ l # j
            BY <3>1, <3>6, <2>2, <2>7 DEF StructInv, MemberInv
        <3> QED BY <3>4, <3>5, <3>6
    <2> QED BY <2>3, <2>4, <2>5, <2>6, <2>7 DEF MemberInv
<1>11. RequestInv'
    <2>1. \A i \in Slots : tasks[i].uid # 0 =>
             /\ tasks[i].uid \in Uids /\ tasks[i].uid \in Nat
             /\ tasks[i].uid <= last.uid /\ log.asked[tasks[i].uid] = tasks[i].client
        BY <1>0 DEF TypeOK, Requests, Uids, StructInv, RequestInv
    <2>2. ASSUME NEW i \in Slots, i # s, tasks'[i].uid # 0
          PROVE  /\ tasks'[i] = tasks[i] /\ tasks[i].uid # uid /\ tasks[i].uid <= uid
                 /\ log'.asked[tasks[i].uid] = tasks[i].client
        <3>1. tasks'[i] = tasks[i]
            BY <2>2, <1>4
        <3>2. tasks[i].uid # uid /\ tasks[i].uid <= uid
            BY <2>1, <2>2, <3>1, <1>2 DEF uid
        <3>3. log.asked \in [Uids -> Clients \cup {NoProc}]
            BY DEF TypeOK
        <3> QED BY <3>1, <3>2, <3>3, <2>1, <2>2, <1>7
    <2>3. log'.asked[uid] = c
        BY <1>2, <1>7 DEF TypeOK
    <2>4. \A i \in Slots : tasks'[i].uid # 0 =>
             tasks'[i].uid <= last'.uid /\ log'.asked[tasks'[i].uid] = tasks'[i].client
        BY <2>2, <2>3, <1>2, <1>4, <1>7 DEF uid
    <2>5. \A i, k \in Slots : tasks'[i].uid # 0 /\ tasks'[i].uid = tasks'[k].uid => i = k
        BY <2>2, <1>4 DEF StructInv, RequestInv
    <2>6. ASSUME ~server'.multi_core, NEW i \in Slots, NEW k \in Slots,
                 tasks'[i].uid # 0, tasks'[k].uid # 0, tasks'[i].client = tasks'[k].client
          PROVE  i = k
        <3>1. ~client_busy(c)
            BY <2>6, <1>3 DEF Given, MayServe
        <3>2. \A m \in Slots : m # s /\ tasks'[m].uid # 0 => tasks'[m].client # c
            BY <3>1, <2>2 DEF client_busy
        <3>3. i # s /\ k # s => i = k
            BY <2>2, <2>6, <1>3 DEF StructInv, RequestInv
        <3> QED BY <3>2, <3>3, <2>6, <1>4
    <2> QED BY <2>4, <2>5, <2>6 DEF RequestInv
<1> QED BY <1>8, <1>9, <1>10, <1>11 DEF StructInv

-----------------------------------------------------------------------------
(* Requests, threads and members: every operation.                          *)

SameServing ==
    \A w \in Pids : /\ SameThread(w) /\ worker'[w].ipc_task = worker[w].ipc_task
                    /\ worker'[w].uid = worker[w].uid /\ worker'[w].ret = worker[w].ret
                    /\ worker'[w].pc = "reply" => worker'[w].ret

\* A request's worker lives and is attached to it.
LEMMA BusyHandler ==
    ASSUME StructInv, NEW i \in Slots, tasks[i].uid # 0
    PROVE  /\ tasks[i].handler \in Pids /\ Bound(i, tasks[i].handler)
           /\ task[tasks[i].handler].state # "ZOMBIE"
BY DEF StructInv, BoundInv, Bound, Live, proc_get

\* A thread that serves something lives.
LEMMA ServerThread ==
    ASSUME TypeOK, StructInv, NEW w \in Pids, worker[w].ipc_task # 0
    PROVE  LET i == worker[w].ipc_task IN
           i \in Slots /\ tasks[i].uid # 0 /\ tasks[i].handler = w
           /\ task[w].state # "ZOMBIE" /\ w \in threads
BY DEF TypeOK, Threads, StructInv, BoundInv, ThreadInv, Live, proc_get

\* Steps that touch neither requests nor members nor lives.
LEMMA QuietDrops ==
    ASSUME TypeOK, StructInv, SameLife(task, task'), SameServing,
           UNCHANGED <<tasks, pool, threads, last>>, log'.asked = log.asked,
           server'.up = server.up, server'.multi_core = server.multi_core
    PROVE  Drops
<1>1. DropTasks
    BY BusyHandler DEF DropTasks, SameServing, SameLife, SameThread
<1>2. DropThreads
    <2> SUFFICES ASSUME NEW w \in Pids
                 PROVE  /\ worker'[w].ipc_task # 0 =>
                            /\ worker'[w].ipc_task = worker[w].ipc_task
                            /\ tasks'[worker[w].ipc_task].uid # 0
                        /\ task'[w].state # "ZOMBIE" =>
                            task[w].state # "ZOMBIE" /\ w \in threads' /\ server'.up /\ SameThread(w)
                        /\ task'[w].state = "ZOMBIE" => worker'[w].ipc_task = 0 /\ worker'[w].uuid = 0
                        /\ worker'[w].pc = "reply" => worker'[w].ret
        BY DEF DropThreads
    <2>1. /\ SameThread(w) /\ worker'[w].ipc_task = worker[w].ipc_task
          /\ worker'[w].pc = "reply" => worker'[w].ret
          /\ task'[w].state = "ZOMBIE" <=> task[w].state = "ZOMBIE"
        BY DEF SameServing, SameLife
    <2>2. /\ task[w].state # "ZOMBIE" => w \in threads /\ server.up
          /\ task[w].state = "ZOMBIE" => worker[w].ipc_task = 0 /\ worker[w].uuid = 0
        BY DEF StructInv, ThreadInv, Live, proc_get
    <2>3. worker[w].ipc_task # 0 => tasks[worker[w].ipc_task].uid # 0
        BY ServerThread
    <2> QED BY <2>1, <2>2, <2>3 DEF SameThread
<1>3. DropMembers
    BY DEF DropMembers
<1> QED BY <1>1, <1>2, <1>3 DEF Drops

\* The threads are the same but for where they are.
LEMMA PcServing ==
    ASSUME TypeOK, NEW w \in Pids, NEW pc, worker' = [worker EXCEPT ![w].pc = pc],
           ThreadInv, pc = "reply" => worker[w].ret
    PROVE  SameServing
<1>1. /\ worker'[w].pc = pc /\ worker'[w].uuid = worker[w].uuid
      /\ worker'[w].core = worker[w].core /\ worker'[w].ipc_task = worker[w].ipc_task
      /\ worker'[w].uid = worker[w].uid /\ worker'[w].ret = worker[w].ret
      /\ \A v \in Pids : v # w => worker'[v] = worker[v]
    BY DEF TypeOK, Threads
<1> QED BY <1>1 DEF SameServing, SameThread, ThreadInv

\* They are the same.
LEMMA StillServing ==
    ASSUME worker' = worker, ThreadInv
    PROVE  SameServing
BY DEF SameServing, SameThread, ThreadInv

\* Which request a worker finishes.
LEMMA OwnFacts ==
    ASSUME TypeOK, StructInv, NEW w \in Pids
    PROVE  /\ OwnRequest(w) \subseteq Slots
           /\ \A i \in OwnRequest(w) : i = worker[w].ipc_task /\ tasks[i].uid # 0
                                       /\ tasks[i].handler = w
           /\ worker[w].ipc_task # 0 => worker[w].ipc_task \in OwnRequest(w)
<1>1. worker[w].ipc_task # 0 => worker[w].ipc_task \in OwnRequest(w)
    <2> SUFFICES ASSUME worker[w].ipc_task # 0 PROVE worker[w].ipc_task \in OwnRequest(w)
        OBVIOUS
    <2> DEFINE i == worker[w].ipc_task
    <2>1. i \in Slots /\ tasks[i].uid # 0 /\ tasks[i].handler = w
        BY ServerThread
    <2>2. Bound(i, w)
        BY <2>1, BusyHandler
    <2> QED BY <2>1, <2>2 DEF OwnRequest, Bound
<1> QED BY <1>1 DEF OwnRequest

\* The end of a request, w alive or dead.
LEMMA EndDrops ==
    ASSUME TypeOK, StructInv, NEW w \in Pids, task[w].state # "ZOMBIE",
           tasks' = [i \in Slots |-> IF i \in OwnRequest(w) THEN NoRequest ELSE tasks[i]],
           \A v \in Pids : v # w => task'[v].state = "ZOMBIE" <=> task[v].state = "ZOMBIE",
           \A v \in Pids : v # w => worker'[v] = worker[v],
           worker'[w].ipc_task = 0, worker'[w].pc = "reply" => worker'[w].ret,
           \/ task'[w].state # "ZOMBIE" /\ SameThread(w)
           \/ task'[w].state = "ZOMBIE" /\ worker'[w].uuid = 0,
           DropMembers, UNCHANGED <<threads, last, server>>, log'.asked = log.asked
    PROVE  Drops
<1>0. /\ OwnRequest(w) \subseteq Slots
      /\ \A i \in OwnRequest(w) : i = worker[w].ipc_task /\ tasks[i].uid # 0
                                  /\ tasks[i].handler = w
      /\ worker[w].ipc_task # 0 => worker[w].ipc_task \in OwnRequest(w)
    BY OwnFacts
<1>1. DropTasks
    <2> SUFFICES ASSUME NEW i \in Slots, tasks'[i].uid # 0
                 PROVE  /\ tasks'[i] = tasks[i]
                        /\ tasks[i].handler \in Pids =>
                             LET v == tasks[i].handler IN
                             /\ task'[v].state # "ZOMBIE"
                             /\ worker'[v].ipc_task = worker[v].ipc_task
                             /\ worker'[v].uid = worker[v].uid /\ worker'[v].ret = worker[v].ret
        BY DEF DropTasks
    <2>1. i \notin OwnRequest(w) /\ tasks'[i] = tasks[i]
        BY DEF NoRequest
    <2>2. tasks[i].uid # 0
        BY <2>1
    <2>3. Bound(i, tasks[i].handler) /\ task[tasks[i].handler].state # "ZOMBIE"
        BY <2>2, BusyHandler
    <2>4. tasks[i].handler # w
        BY <2>1, <2>3, <1>0, PoolAssumption DEF Bound, Slots
    <2> QED BY <2>1, <2>3, <2>4
<1>2. DropThreads
    <2> SUFFICES ASSUME NEW v \in Pids
                 PROVE  /\ worker'[v].ipc_task # 0 =>
                            /\ worker'[v].ipc_task = worker[v].ipc_task
                            /\ tasks'[worker[v].ipc_task].uid # 0
                        /\ task'[v].state # "ZOMBIE" =>
                            task[v].state # "ZOMBIE" /\ v \in threads' /\ server'.up /\ SameThread(v)
                        /\ task'[v].state = "ZOMBIE" => worker'[v].ipc_task = 0 /\ worker'[v].uuid = 0
                        /\ worker'[v].pc = "reply" => worker'[v].ret
        BY DEF DropThreads
    <2>1. /\ task[v].state # "ZOMBIE" => v \in threads /\ server.up
          /\ task[v].state = "ZOMBIE" => worker[v].ipc_task = 0 /\ worker[v].uuid = 0
          /\ worker[v].pc = "reply" => worker[v].ret
        BY DEF StructInv, ThreadInv, Live, proc_get
    <2>2. CASE v = w
        BY <2>1, <2>2
    <2>3. CASE v # w
        <3>1. worker[v].ipc_task # 0 => tasks'[worker[v].ipc_task].uid # 0
            <4> SUFFICES ASSUME worker[v].ipc_task # 0 PROVE tasks'[worker[v].ipc_task].uid # 0
                OBVIOUS
            <4>1. worker[v].ipc_task \in Slots /\ tasks[worker[v].ipc_task].uid # 0
                  /\ tasks[worker[v].ipc_task].handler = v
                BY ServerThread
            <4>2. worker[v].ipc_task \notin OwnRequest(w)
                BY <4>1, <2>3, <1>0
            <4> QED BY <4>1, <4>2
        <3> QED BY <3>1, <2>1, <2>3 DEF SameThread
    <2> QED BY <2>2, <2>3
<1> QED BY <1>1, <1>2 DEF Drops

\* Dead threads.
LEMMA DeadFacts ==
    ASSUME TypeOK, NEW w \in Pids
    PROVE  /\ Dead(w) \in Threads /\ Dead(w).uuid = 0 /\ Dead(w).ipc_task = 0
           /\ Dead(w).pc = "end" /\ Dead(w).uid = 0 /\ Dead(w).core = worker[w].core
<1>1. MaxCalls \in Nat
    BY PoolAssumption
<1>2. worker[w] \in Threads /\ 0 \in 0 .. MaxCalls
    BY <1>1 DEF TypeOK
<1>3. Dead(w) = [worker[w] EXCEPT !.uuid = 0, !.ipc_task = 0, !.pc = "end", !.uid = 0]
    BY DEF Dead
<1> QED BY <1>2, <1>3 DEF Threads

\* Members of a live thread.
LEMMA SlotOfFacts ==
    ASSUME TypeOK, NEW w \in Pids, NEW j \in SlotOf(w)
    PROVE  j \in 1 .. PoolNum /\ Member(j) /\ pool[j].pid = w
BY DEF SlotOf

\* SYS_IPC_END of a worker that goes on.
LEMMA EndStruct ==
    ASSUME TypeOK, TaskOK, StructInv, NEW w \in Pids, End(w)
    PROVE  Drops
<1>1. task[w].state # "ZOMBIE"
    BY DEF End, At, Runnable
<1>2. /\ SameLife(task, task')
      /\ tasks' = [i \in Slots |-> IF i \in OwnRequest(w) THEN NoRequest ELSE tasks[i]]
    BY <1>1, EndEffect
<1>3. worker' = [worker EXCEPT ![w] = [worker[w] EXCEPT !.ipc_task = 0, !.pc = "entry", !.uid = 0]]
    BY DEF End
<1>4. /\ worker'[w].ipc_task = 0 /\ worker'[w].pc = "entry" /\ SameThread(w)
      /\ \A v \in Pids : v # w => worker'[v] = worker[v]
    BY <1>3 DEF TypeOK, Threads, SameThread
<1>5. DropMembers
    <2> SUFFICES ASSUME NEW j \in 1 .. PoolNum
                 PROVE  pool'[j].pid = pool[j].pid /\ pool'[j].uuid = pool[j].uuid
                        /\ pool'[j].quit = pool[j].quit
        BY DEF DropMembers
    <2>1. pool'[j] = IF j \in SlotOf(w) THEN [pool[j] EXCEPT !.idle = TRUE] ELSE pool[j]
        BY DEF End
    <2>2. pool[j] \in Members
        BY DEF TypeOK
    <2> QED BY <2>1, <2>2 DEF Members
<1>6. UNCHANGED <<threads, last, server>> /\ log'.asked = log.asked
    BY DEF End
<1>7. task'[w].state # "ZOMBIE" /\ \A v \in Pids : task'[v].state = "ZOMBIE" <=> task[v].state = "ZOMBIE"
    BY <1>1, <1>2 DEF SameLife
<1> QED BY <1>1, <1>2, <1>4, <1>5, <1>6, <1>7, EndDrops

\* ... and of one that quits.
LEMMA QuitStruct ==
    ASSUME TypeOK, TaskOK, StructInv, NEW w \in Pids, EndQuit(w)
    PROVE  Drops
<1>1. task[w].state # "ZOMBIE"
    BY DEF EndQuit, At, Runnable
<1>2. /\ task'[w].state = "ZOMBIE"
      /\ \A x \in Pids : x # w => task'[x].state = task[x].state
      /\ tasks' = [i \in Slots |-> IF i \in OwnRequest(w) THEN NoRequest ELSE tasks[i]]
    BY QuitEffect
<1>3. worker' = [worker EXCEPT ![w] = Dead(w)]
    BY DEF EndQuit
<1>4. /\ worker'[w] = Dead(w) /\ \A v \in Pids : v # w => worker'[v] = worker[v]
    BY <1>3 DEF TypeOK
<1>5. worker'[w].ipc_task = 0 /\ worker'[w].pc = "end" /\ worker'[w].uuid = 0
    BY <1>4, DeadFacts
<1>6. DropMembers
    <2> SUFFICES ASSUME NEW j \in 1 .. PoolNum
                 PROVE  \/ pool'[j] = pool[j]
                        \/ /\ pool'[j].pid = NoProc /\ pool'[j].uuid = 0
                           /\ task'[pool[j].pid].state = "ZOMBIE"
        BY DEF DropMembers
    <2>1. pool'[j] = IF j \in SlotOf(w) THEN NoMember ELSE pool[j]
        BY DEF EndQuit
    <2>2. j \in SlotOf(w) => pool[j].pid = w
        BY SlotOfFacts
    <2> QED BY <2>1, <2>2, <1>2 DEF NoMember
<1>7. UNCHANGED <<threads, last, server>> /\ log'.asked = log.asked
    BY DEF EndQuit
<1> QED BY <1>1, <1>2, <1>4, <1>5, <1>6, <1>7, EndDrops

\* The watchdog takes a request away from its worker.
LEMMA TimeoutStruct ==
    ASSUME TypeOK, TaskOK, StructInv, NEW i \in Slots, Timeout(i)
    PROVE  Drops
<1> DEFINE w == tasks[i].handler
<1>1. tasks[i].uid # 0 /\ worker' = Detached(i) /\ proc_ipc_task_abort(i, task)
      /\ UNCHANGED <<client, server, pool, threads, last>>
    BY DEF Timeout
<1>2. w \in Pids /\ Bound(i, w) /\ task[w].state # "ZOMBIE"
    BY <1>1, BusyHandler
<1>3. SamePids(task, task')
    BY TimeoutEffect
<1>4. tasks' = [tasks EXCEPT ![i] = NoRequest] /\ log'.asked = log.asked
    BY <1>1 DEF proc_ipc_task_abort, TypeOK
<1>5. OwnRequest(w) = {i}
    <2>1. worker[w].ipc_task = i /\ i # 0
        BY <1>2, PoolAssumption DEF Bound, Slots
    <2>2. i \in OwnRequest(w)
        BY <1>2, <2>1, OwnFacts
    <2> QED BY <1>2, <2>1, <2>2, OwnFacts
<1>6. tasks' = [k \in Slots |-> IF k \in OwnRequest(w) THEN NoRequest ELSE tasks[k]]
    BY <1>4, <1>5 DEF TypeOK
<1>7. worker'[w] = [worker[w] EXCEPT !.ipc_task = 0] /\ \A v \in Pids : v # w => worker'[v] = worker[v]
    BY <1>1, <1>2 DEF Detached, Bound
<1>8. worker'[w].ipc_task = 0 /\ SameThread(w) /\ worker'[w].pc = worker[w].pc
      /\ worker'[w].ret = worker[w].ret
    BY <1>2, <1>7 DEF TypeOK, Threads, SameThread
<1>9. worker'[w].pc = "reply" => worker'[w].ret
    BY <1>2, <1>8 DEF StructInv, ThreadInv
<1>10. DropMembers
    BY <1>1 DEF DropMembers
<1> HIDE DEF w
<1>11. \A v \in Pids : task'[v].state = "ZOMBIE" <=> task[v].state = "ZOMBIE"
    BY <1>3 DEF SamePids
<1>12. task'[w].state # "ZOMBIE"
    BY <1>2, <1>11
<1> QED BY <1>1, <1>2, <1>4, <1>6, <1>7, <1>8, <1>9, <1>10, <1>11, <1>12, EndDrops

\* A worker exits.
LEMMA ExitStruct ==
    ASSUME TypeOK, TaskOK, StructInv, NEW w \in Pids, WorkerExit(w)
    PROVE  Drops
<1> DEFINE i == worker[w].ipc_task
           t == [task EXCEPT ![w] = proc_unready(@, "ZOMBIE")]
<1>1. task[w].state # "ZOMBIE"
    BY DEF WorkerExit, At, Runnable
<1>2. /\ task'[w].state = "ZOMBIE"
      /\ \A x \in Pids : x # w => task'[x].state = task[x].state
    BY ExitEffect
<1>3. worker' = [worker EXCEPT ![w] = Dead(w)] /\ UNCHANGED <<client, server, pool, threads, last>>
    BY DEF WorkerExit
<1>4. /\ worker'[w] = Dead(w) /\ \A v \in Pids : v # w => worker'[v] = worker[v]
    BY <1>3 DEF TypeOK
<1>5. worker'[w].ipc_task = 0 /\ worker'[w].pc = "end" /\ worker'[w].uuid = 0
    BY <1>4, DeadFacts
<1>6. /\ tasks' = [k \in Slots |-> IF k \in OwnRequest(w) THEN NoRequest ELSE tasks[k]]
      /\ log'.asked = log.asked
    <2>1. CASE i # 0
        <3>1. proc_ipc_task_abort(i, t)
            BY <2>1 DEF WorkerExit
        <3>2. tasks' = [tasks EXCEPT ![i] = NoRequest] /\ log'.asked = log.asked
            BY <3>1 DEF proc_ipc_task_abort, TypeOK
        <3>3. OwnRequest(w) = {i}
            BY <2>1, OwnFacts
        <3> QED BY <3>2, <3>3 DEF TypeOK
    <2>2. CASE i = 0
        <3>1. UNCHANGED <<tasks, log>>
            BY <2>2 DEF WorkerExit
        <3>2. OwnRequest(w) = {}
            BY <2>2, PoolAssumption DEF OwnRequest, Slots
        <3> QED BY <3>1, <3>2 DEF TypeOK
    <2> QED BY <2>1, <2>2
<1>7. DropMembers
    BY <1>3 DEF DropMembers
<1> QED BY <1>1, <1>2, <1>3, <1>4, <1>5, <1>6, <1>7, EndDrops

\* The server exits.
LEMMA ServerStruct ==
    ASSUME TypeOK, TaskOK, StructInv, ServerExit
    PROVE  Drops
<1>1. \A w \in Pids : task'[w].state = "ZOMBIE"
    BY ServerEffect
<1>2. /\ worker' = [w \in Pids |-> IF Live(w) THEN Dead(w) ELSE worker[w]]
      /\ tasks' = [i \in Slots |-> NoRequest]
      /\ server' = [server EXCEPT !.up = FALSE]
      /\ UNCHANGED <<client, res, pool, threads, last, log>>
    BY DEF ServerExit
<1>3. ASSUME NEW w \in Pids
      PROVE  worker'[w].ipc_task = 0 /\ worker'[w].uuid = 0
             /\ (worker'[w].pc = "reply" => worker'[w].ret)
    <2>1. worker'[w] = IF Live(w) THEN Dead(w) ELSE worker[w]
        BY <1>2
    <2>2. /\ ~Live(w) => worker[w].ipc_task = 0 /\ worker[w].uuid = 0
          /\ worker[w].pc = "reply" => worker[w].ret
        BY DEF StructInv, ThreadInv
    <2>3. Dead(w).uuid = 0 /\ Dead(w).ipc_task = 0 /\ Dead(w).pc = "end"
        BY DeadFacts
    <2> QED BY <2>1, <2>2, <2>3
<1>4. server'.multi_core = server.multi_core
    BY <1>2 DEF TypeOK
<1>5. DropTasks
    BY <1>2 DEF DropTasks, NoRequest
<1>6. DropThreads
    BY <1>1, <1>3 DEF DropThreads
<1>7. DropMembers
    BY <1>2 DEF DropMembers
<1> QED BY <1>2, <1>4, <1>5, <1>6, <1>7 DEF Drops

\* A dead thread is buried.
LEMMA FuneralStruct ==
    ASSUME TypeOK, TaskOK, StructInv, NEW w \in Pids, Funeral(w)
    PROVE  Drops
<1>1. SamePids(task, task')
    BY AdmitEffect DEF Funeral
<1>2. /\ threads' = threads \ {w} /\ task[w].state = "ZOMBIE"
      /\ UNCHANGED <<client, res, server, tasks, pool, worker, last, log>>
    BY DEF Funeral, Live, proc_get
<1>3. \A v \in Pids : task'[v].state = task[v].state
    BY <1>1 DEF SamePids
<1>4. DropTasks
    BY <1>2, <1>3, BusyHandler DEF DropTasks
<1>5. DropThreads
    <2>1. \A v \in Pids : worker[v].ipc_task # 0 => tasks[worker[v].ipc_task].uid # 0
        BY ServerThread
    <2> QED BY <2>1, <1>2, <1>3 DEF DropThreads, SameThread, StructInv, ThreadInv, Live, proc_get
<1>6. DropMembers
    BY <1>2 DEF DropMembers
<1> QED BY <1>2, <1>4, <1>5, <1>6 DEF Drops

\* A parked member is told to quit.
LEMMA ShrinkStruct ==
    ASSUME TypeOK, TaskOK, StructInv, NEW i \in 1 .. PoolNum, Shrink(i)
    PROVE  Drops
<1> DEFINE w == pool[i].pid
<1>1. w \in Pids /\ worker[w].ipc_task = 0
    BY DEF Shrink, Idle, Member, TypeOK, Members
<1>2. SameLife(task, task')
    BY <1>1, ThreadWake DEF Shrink
<1>3. /\ pool' = [pool EXCEPT ![i].quit = TRUE]
      /\ UNCHANGED <<client, res, server, tasks, worker, threads, last, log>>
    BY DEF Shrink
<1>4. DropTasks
    BY <1>2, <1>3, BusyHandler DEF DropTasks, SameLife
<1>5. DropThreads
    <2>1. \A v \in Pids : worker[v].ipc_task # 0 => tasks[worker[v].ipc_task].uid # 0
        BY ServerThread
    <2> QED BY <2>1, <1>2, <1>3 DEF DropThreads, SameThread, SameLife, StructInv, ThreadInv, Live, proc_get
<1>6. DropMembers
    <2>1. /\ pool'[i].pid = w /\ pool'[i].uuid = pool[i].uuid /\ pool'[i].quit
          /\ \A j \in 1 .. PoolNum : j # i => pool'[j] = pool[j]
        BY <1>3 DEF TypeOK, Members
    <2> QED BY <2>1, <1>1, <1>3 DEF DropMembers
<1> QED BY <1>3, <1>4, <1>5, <1>6 DEF Drops

-----------------------------------------------------------------------------
(* Calls: what SYS_IPC_CALL of c does.                                      *)

\* libc begins a call (n = 1) or makes it again (n = 0).
Calling(c, ret, n) ==
    /\ proc_ipc_call(c, ret, n)
    /\ task[c].state \in {"READY", "RUNNING"}
    /\ \/ n = 1 /\ client[c].pc = "run" /\ log.calls < MaxCalls
       \/ n = 0 /\ client[c].pc = "call"

\* The request is refused, the client waits or is to try again, or the request
\* is bound.
Refused(c) ==
    /\ ~server.up /\ client' = [client EXCEPT ![c] = NoCall]
    /\ UNCHANGED <<task, res, server, tasks, pool, worker, threads, waitq, last>>

Waiting(c, ret) ==
    /\ server.up
    /\ client' = [client EXCEPT ![c] = [pc |-> "call", uid |-> 0, ret |-> ret]]
    /\ res' = res \/ res' = [res EXCEPT ![c].state = "BUSY"]
    /\ \/ Wait(c, ret) \/ UNCHANGED <<task, waitq>>
    /\ UNCHANGED <<server, tasks, pool, worker, threads, last>>
    /\ \/ server.disabled \/ Busy(tasks) = Slots \/ UNCHANGED <<task, waitq>>
       \/ client_busy(c) \/ ~MayGrow(Core[c])
       \/ ~server.multi_core /\ (threads = {} => log'.short)

Taken(c, ret) ==
    /\ TaskOK' /\ Loosens(task, waitq, task', waitq')
    /\ \A d \in Clients : task'[d].state = task[d].state
    /\ \E w \in Pids, j \in 1 .. PoolNum, uuid \in 0 .. MaxCalls : Given(c, ret, w, uuid, j)

\* What a call leaves in the history.
LEMMA CallLog ==
    ASSUME TypeOK, NEW c \in Clients, NEW ret, NEW n, Calling(c, ret, n)
    PROVE  /\ last'.uid = last.uid => log'.asked = log.asked
           /\ last'.uid # last.uid => log'.asked = [log.asked EXCEPT ![last'.uid] = c]
           /\ log'.calls = log.calls + n /\ log'.answered = log.answered
           /\ log'.failed = log.failed /\ log'.short \in BOOLEAN
           /\ log' = [calls |-> log'.calls, asked |-> log'.asked, answered |-> log.answered,
                      failed |-> log.failed, short |-> log'.short]
<1> DEFINE s == IF Spawns(c) THEN last'.uid = last.uid /\ threads = {} ELSE log.short
           a == IF last'.uid = last.uid THEN log.asked ELSE [log.asked EXCEPT ![last'.uid] = c]
<1>0. /\ log \in [calls: 0 .. MaxCalls, asked: [Uids -> Clients \cup {NoProc}],
                   answered: SUBSET Uids, failed: SUBSET Uids, short: BOOLEAN]
    BY DEF TypeOK
<1>1. log.short \in BOOLEAN
    BY <1>0
<1>2. s \in BOOLEAN
    BY <1>1, Zenon
<1>3. log' = [log EXCEPT !.calls = @ + n, !.asked = a, !.short = s]
    BY Zenon DEF Calling, proc_ipc_call
<1>4. /\ last'.uid = last.uid => a = log.asked
      /\ last'.uid # last.uid => a = [log.asked EXCEPT ![last'.uid] = c]
    OBVIOUS
<1> HIDE DEF s, a
<1>5. /\ log'.calls = log.calls + n /\ log'.asked = a /\ log'.answered = log.answered
      /\ log'.failed = log.failed /\ log'.short = s
    BY <1>0, <1>3
<1>6. log' = [calls |-> log.calls + n, asked |-> a, answered |-> log.answered,
              failed |-> log.failed, short |-> s]
    BY <1>0, <1>3
<1> QED BY <1>2, <1>4, <1>5, <1>6

\* Cardinalities of the calls under way.
LEMMA OwingFinite == IsFiniteSet(Owing) /\ Cardinality(Owing) \in Nat
<1>1. IsFiniteSet(Clients)
    BY PoolAssumption
<1>2. Owing \in SUBSET Clients
    BY DEF Owing
<1>3. IsFiniteSet(Owing)
    BY <1>1, <1>2, FS_Subset
<1> QED BY <1>3, FS_CardinalityType

\* There is a uid left for the call.
LEMMA CallRoom ==
    ASSUME TypeOK, CountInv, NEW c \in Clients, NEW ret, NEW n \in Nat, Calling(c, ret, n)
    PROVE  last.uid < MaxCalls /\ last.uuid < MaxCalls /\ last.uid \in Nat /\ last.uuid \in Nat
<1>1. /\ MaxCalls \in Nat /\ last.uid \in Nat /\ last.uuid \in Nat /\ log.calls \in 0 .. MaxCalls
    BY PoolAssumption DEF TypeOK
<1>2. last.uid + Cardinality(Owing) <= log.calls /\ last.uuid <= last.uid
    BY DEF CountInv
<1>3. Cardinality(Owing) \in Nat
    BY OwingFinite
<1>4. CASE log.calls < MaxCalls
    BY <1>1, <1>2, <1>3, <1>4
<1>5. CASE client[c].pc = "call"
    <2>1. c \in Owing
        BY <1>5 DEF Owing
    <2>2. Cardinality(Owing) # 0
        BY <2>1, OwingFinite, FS_EmptySet
    <2> QED BY <1>1, <1>2, <1>3, <2>2
<1> QED BY <1>4, <1>5 DEF Calling

\* A parked member takes the request.
LEMMA ServedTaken ==
    ASSUME TypeOK, TaskOK, CountInv, StructInv, NEW c \in Clients, NEW ret, NEW n \in Nat,
           Calling(c, ret, n), CallServed(c, ret)
    PROVE  Taken(c, ret)
<1>1. PICK j \in 1 .. PoolNum :
           /\ pool[j].pid \in Pids /\ Idle(j) /\ worker[pool[j].pid].core = Core[c]
           /\ Bind(c, ret, pool[j].pid, pool[j].uuid, j)
           /\ TaskOK' /\ SameLife(task, task') /\ Loosens(task, waitq, task', waitq')
           /\ \A d \in Clients : task'[d].state = task[d].state
    BY ServedFacts
<1> DEFINE w == pool[j].pid
           uuid == pool[j].uuid
<1>2. /\ Open /\ MayServe(c) /\ last' = [last EXCEPT !.uid = @ + 1] /\ threads' = threads
    BY DEF CallServed
<1>3. last'.uid = last.uid + 1 /\ last'.uuid = last.uuid /\ last'.uid # last.uid
    BY <1>2, CallRoom DEF TypeOK
<1>4. log'.asked = [log.asked EXCEPT ![last.uid + 1] = c]
    BY <1>3, CallLog
<1>5. /\ Member(j) /\ ~pool[j].quit /\ worker[w].ipc_task = 0
      /\ worker[w].uuid = uuid /\ task[w].state # "ZOMBIE"
    BY <1>1 DEF Idle, Member, Live, proc_get
<1>6. w \in threads
    BY <1>1, <1>5 DEF StructInv, ThreadInv, Live, proc_get
<1>7. uuid \in 0 .. MaxCalls
    BY DEF TypeOK, Members
<1>8. \A v \in Pids : task'[v].state = "ZOMBIE" <=> task[v].state = "ZOMBIE"
    BY <1>1 DEF SameLife
<1>9. Given(c, ret, w, uuid, j)
    BY <1>1, <1>2, <1>3, <1>4, <1>5, <1>6, <1>8 DEF Given
<1> QED BY <1>1, <1>7, <1>9 DEF Taken

\* A new thread takes it.
LEMMA SpawnedTaken ==
    ASSUME TypeOK, TaskOK, CountInv, StructInv, NEW c \in Clients, NEW ret, NEW n \in Nat,
           Calling(c, ret, n), CallSpawned(c, ret)
    PROVE  Taken(c, ret)
<1> DEFINE uuid == last.uuid + 1
           j == FreeMember
<1>1. PICK w \in Pids \ threads :
          /\ Bind(c, ret, w, uuid, j)
          /\ task' = proc_wakeup([task EXCEPT ![w] = NewTask("BLOCK")], {w})
          /\ threads' = threads \cup {w}
    BY DEF CallSpawned
<1>2. Open /\ MayServe(c) /\ MayGrow(Core[c])
      /\ last' = [uid |-> last.uid + 1, uuid |-> last.uuid + 1]
    BY DEF CallSpawned, Spawns
<1>3. j \in 1 .. PoolNum /\ ~Member(j)
    BY <1>2, FreeMemberFacts
<1>4. waitq' = waitq
    BY <1>1 DEF Bind
<1>5. /\ TaskOK' /\ Loosens(task, waitq, task', waitq')
      /\ task'[w].state = "READY"
      /\ \A v \in Pids : v # w => task'[v].state = task[v].state
      /\ \A d \in Clients : task'[d].state = task[d].state
    BY <1>1, <1>4, SpawnEffect
<1>6. last'.uid = last.uid + 1 /\ last'.uuid = uuid /\ last'.uid # last.uid
    BY <1>2, CallRoom
<1>7. log'.asked = [log.asked EXCEPT ![last.uid + 1] = c]
    BY <1>6, CallLog
<1>8. task[w].state = "ZOMBIE" /\ worker[w].ipc_task = 0
    BY <1>1 DEF StructInv, ThreadInv, Live, proc_get
<1>9. server.multi_core => core_member(Core[c]) = {}
    BY <1>2 DEF MayGrow
<1> HIDE DEF j
<1>10. uuid \in 0 .. MaxCalls
    BY CallRoom, PoolAssumption
<1>11. Given(c, ret, w, uuid, j)
    BY <1>1, <1>2, <1>3, <1>5, <1>6, <1>7, <1>8, <1>9 DEF Given
<1> QED BY <1>3, <1>5, <1>10, <1>11 DEF Taken

\* Nothing else happens.
LEMMA CallKinds ==
    ASSUME TypeOK, TaskOK, CountInv, StructInv, NEW c \in Clients, NEW ret, NEW n \in Nat,
           Calling(c, ret, n)
    PROVE  /\ Refused(c) \/ Waiting(c, ret) \/ Taken(c, ret)
           /\ last' = last => log'.asked = log.asked
           /\ log'.calls = log.calls + n /\ log'.answered = log.answered
           /\ log'.failed = log.failed
<1>0. /\ last' = last => log'.asked = log.asked
      /\ log'.calls = log.calls + n /\ log'.answered = log.answered
      /\ log'.failed = log.failed
    BY CallLog
<1> SUFFICES Refused(c) \/ Waiting(c, ret) \/ Taken(c, ret)
    BY <1>0
<1>1. CASE CallRefused(c)
    BY <1>1 DEF CallRefused, Refused
<1>2. CASE CallClosed(c, ret)
    BY <1>2 DEF CallClosed, Waiting, Wait
<1>3. CASE CallBusy(c, ret) \/ CallUnspawned(c, ret)
    <2>1. TurnedAway(c, ret) /\ server.up
        BY <1>3 DEF CallBusy, CallUnspawned, Spawns, Open
    <2>2. client' = [client EXCEPT ![c] = [pc |-> "call", uid |-> 0, ret |-> ret]]
        BY <2>1 DEF TurnedAway, Wait
    <2>3. Wait(c, ret) \/ UNCHANGED <<task, waitq>>
        BY <2>1 DEF TurnedAway
    <2>4. CASE CallBusy(c, ret)
        <3>1. client_busy(c) \/ ~MayGrow(Core[c]) \/ UNCHANGED <<task, waitq>>
            BY <2>4 DEF CallBusy, TurnedAway, MayServe
        <3> QED BY <2>1, <2>2, <2>3, <3>1 DEF TurnedAway, Waiting
    <2>5. CASE CallUnspawned(c, ret)
        <3>1. server.multi_core => UNCHANGED <<task, waitq>>
            BY <2>1 DEF TurnedAway
        <3>2. Spawns(c) /\ last' = last
            BY <2>1, <2>5 DEF CallUnspawned, TurnedAway
        <3>3. threads = {} => log'.short
            BY <3>2 DEF Calling, proc_ipc_call, TypeOK
        <3> QED BY <2>1, <2>2, <2>3, <3>1, <3>3 DEF TurnedAway, Waiting
    <2> QED BY <1>3, <2>4, <2>5
<1>4. CASE CallServed(c, ret)
    BY <1>4, ServedTaken
<1>5. CASE CallSpawned(c, ret)
    BY <1>5, SpawnedTaken
<1> QED BY <1>1, <1>2, <1>3, <1>4, <1>5 DEF Calling, proc_ipc_call

\* TypeOK without the clauses of TaskOK.
RestOK ==
    /\ client \in [Clients -> Calls] /\ res \in [Clients -> Results]
    /\ server \in [up: BOOLEAN, disabled: BOOLEAN, multi_core: Modes]
    /\ tasks \in [Slots -> Requests] /\ pool \in [1 .. PoolNum -> Members]
    /\ worker \in [Pids -> Threads] /\ threads \subseteq Pids
    /\ last \in [uid: 0 .. MaxCalls, uuid: 0 .. MaxCalls]
    /\ log \in [calls: 0 .. MaxCalls, asked: [Uids -> Clients \cup {NoProc}],
                answered: SUBSET Uids, failed: SUBSET Uids, short: BOOLEAN]

\* Types, with and without those of tasks and queue.
LEMMA TypeSplit == (TypeOK /\ StateInv <=> RestOK /\ TaskOK)
                   /\ (TypeOK' /\ StateInv' <=> RestOK' /\ TaskOK')
BY DEF TypeOK, RestOK, TaskOK, TaskMap

\* The facts about a call that is bound, field by field.
LEMMA GivenFacts ==
    ASSUME TypeOK, CountInv, last.uid < MaxCalls, NEW c \in Clients, NEW ret \in BOOLEAN,
           NEW w \in Pids, NEW uuid \in 0 .. MaxCalls, NEW j \in 1 .. PoolNum,
           Given(c, ret, w, uuid, j)
    PROVE  /\ FreeSlot \in Slots /\ tasks[FreeSlot].uid = 0
           /\ last.uid + 1 \in Uids /\ last.uid + 1 # 0 /\ last'.uid = last.uid + 1
           /\ tasks'[FreeSlot] = [uid |-> last.uid + 1, client |-> c, ret |-> ret,
                                  handler |-> w, handler_uuid |-> uuid]
           /\ \A i \in Slots : i # FreeSlot => tasks'[i] = tasks[i]
           /\ worker'[w] = [uuid |-> uuid, core |-> Core[c], ipc_task |-> FreeSlot,
                            pc |-> "entry", uid |-> last.uid + 1, ret |-> ret]
           /\ \A v \in Pids : v # w => worker'[v] = worker[v]
           /\ client'[c] = IF ret THEN [pc |-> "wait", uid |-> last.uid + 1, ret |-> TRUE]
                           ELSE NoCall
           /\ \A d \in Clients : d # c => client'[d] = client[d] /\ res'[d] = res[d]
           /\ res'[c].state = "BUSY" /\ res'[c].uid = res[c].uid
           /\ log'.asked = [log.asked EXCEPT ![last.uid + 1] = c]
           /\ server' = server /\ waitq' = waitq /\ server.up
<1>1. FreeSlot \in Slots /\ tasks[FreeSlot].uid = 0
    BY FreeSlotFacts DEF Given
<1>2. last.uid + 1 \in Uids /\ last.uid + 1 # 0
    BY PoolAssumption DEF TypeOK, Uids
<1>3. last'.uid = last.uid + 1 /\ log'.asked = [log.asked EXCEPT ![last.uid + 1] = c] /\ server.up
    BY DEF Given, Open
<1> DEFINE i == FreeSlot
           uid == last.uid + 1
<1>4. /\ tasks' = [tasks EXCEPT ![i] = [uid |-> uid, client |-> c, ret |-> ret,
                                        handler |-> w, handler_uuid |-> uuid]]
      /\ worker' = [worker EXCEPT ![w] = [uuid |-> uuid, core |-> Core[c],
                            ipc_task |-> i, pc |-> "entry", uid |-> uid, ret |-> ret]]
      /\ res' = [res EXCEPT ![c].state = "BUSY"]
      /\ client' = [client EXCEPT ![c] =
               IF ret THEN [pc |-> "wait", uid |-> uid, ret |-> TRUE] ELSE NoCall]
      /\ UNCHANGED <<server, waitq>>
    BY DEF Given, Bind
<1> HIDE DEF i, uid
<1>5. /\ tasks'[i] = [uid |-> uid, client |-> c, ret |-> ret, handler |-> w, handler_uuid |-> uuid]
      /\ \A k \in Slots : k # i => tasks'[k] = tasks[k]
    BY <1>1, <1>4 DEF TypeOK, i
<1>6. /\ worker'[w] = [uuid |-> uuid, core |-> Core[c], ipc_task |-> i,
                       pc |-> "entry", uid |-> uid, ret |-> ret]
      /\ \A v \in Pids : v # w => worker'[v] = worker[v]
    BY <1>4 DEF TypeOK
<1>7. /\ client'[c] = IF ret THEN [pc |-> "wait", uid |-> uid, ret |-> TRUE] ELSE NoCall
      /\ \A d \in Clients : d # c => client'[d] = client[d] /\ res'[d] = res[d]
      /\ res'[c].state = "BUSY" /\ res'[c].uid = res[c].uid
    BY <1>4 DEF TypeOK, Results
<1> QED BY <1>1, <1>2, <1>3, <1>4, <1>5, <1>6, <1>7 DEF i, uid

\* The calls under way without one.
LEMMA OwingWithout ==
    ASSUME NEW c
    PROVE  /\ Cardinality(Owing \ {c}) \in Nat /\ Cardinality(Owing \ {c}) <= Cardinality(Owing)
           /\ c \in Owing => Cardinality(Owing \ {c}) + 1 = Cardinality(Owing)
<1>1. /\ IsFiniteSet(Owing \ {c})
      /\ Cardinality(Owing \ {c}) = IF c \in Owing THEN Cardinality(Owing) - 1 ELSE Cardinality(Owing)
    BY OwingFinite, FS_RemoveElement
<1>2. Cardinality(Owing \ {c}) \in Nat
    BY <1>1, FS_CardinalityType
<1>3. Cardinality(Owing) \in Nat
    BY OwingFinite
<1> QED BY <1>1, <1>2, <1>3

\* The reply slot of a client whose call is under way.
LEMMA BusyResult ==
    ASSUME TypeOK, NEW c \in Clients, res' = [res EXCEPT ![c].state = "BUSY"]
    PROVE  res' \in [Clients -> Results]
<1>1. res[c] \in Results
    BY DEF TypeOK
<1>2. [res[c] EXCEPT !.state = "BUSY"] \in Results
    BY <1>1 DEF Results
<1> HIDE DEF Results
<1>3. res' = [res EXCEPT ![c] = [res[c] EXCEPT !.state = "BUSY"]]
    OBVIOUS
<1> QED BY <1>2, <1>3 DEF TypeOK

\* A call keeps types, the count of uids and the structure.
LEMMA CallStruct ==
    ASSUME TypeOK, StateInv, CountInv, StructInv, NEW c \in Clients, NEW ret \in BOOLEAN,
           NEW n \in {0, 1}, Calling(c, ret, n)
    PROVE  TypeOK' /\ StateInv' /\ CountInv' /\ StructInv'
<1>0. TaskOK /\ RestOK /\ MaxCalls \in Nat
    BY TypeSplit, PoolAssumption
<1>1. /\ Refused(c) \/ Waiting(c, ret) \/ Taken(c, ret)
      /\ last' = last => log'.asked = log.asked
      /\ log'.calls = log.calls + n /\ log'.answered = log.answered
      /\ log'.failed = log.failed
    <2>1. n \in Nat
        OBVIOUS
    <2> QED BY <2>1, <1>0, CallKinds
<1>2. log.calls \in Nat /\ log'.calls \in 0 .. MaxCalls
    <2>1. log.calls \in 0 .. MaxCalls
        BY DEF TypeOK
    <2> QED BY <2>1, <1>0, <1>1 DEF Calling
<1>3. /\ last.uid < MaxCalls /\ last.uuid < MaxCalls /\ last.uid \in Nat /\ last.uuid \in Nat
    <2>1. n \in Nat
        OBVIOUS
    <2> QED BY <2>1, CallRoom
<1>4. ASSUME last' = last
      PROVE  log' \in [calls: 0 .. MaxCalls, asked: [Uids -> Clients \cup {NoProc}],
                       answered: SUBSET Uids, failed: SUBSET Uids, short: BOOLEAN]
    <2>1. /\ log'.asked = log.asked /\ log'.short \in BOOLEAN
          /\ log' = [calls |-> log'.calls, asked |-> log'.asked, answered |-> log.answered,
                     failed |-> log.failed, short |-> log'.short]
        BY <1>4, CallLog
    <2>2. /\ log.asked \in [Uids -> Clients \cup {NoProc}]
          /\ log.answered \subseteq Uids /\ log.failed \subseteq Uids
        BY DEF TypeOK
    <2> QED BY <2>1, <2>2, <1>2
<1>5. NoCall \in Calls /\ [pc |-> "call", uid |-> 0, ret |-> ret] \in Calls
    BY DEF NoCall, Calls
<1>6. CASE Refused(c)
    <2>1. RestOK'
        BY <1>0, <1>4, <1>5, <1>6 DEF Refused, RestOK
    <2>2. TaskOK'
        BY <1>0, <1>6 DEF Refused, TaskOK, StateInv
    <2>3. Owing' = Owing \ {c}
        BY <1>6 DEF Refused, Owing, TypeOK, NoCall
    <2>4. Cardinality(Owing') <= Cardinality(Owing) /\ Cardinality(Owing') \in Nat
        BY <2>3, OwingWithout
    <2>5. CountInv'
        BY <2>4, <1>1, <1>2, <1>3, <1>6, OwingFinite DEF CountInv, Refused
    <2>6. SameLife(task, task') /\ SameServing
        BY <1>6, StillServing DEF Refused, SameLife, StructInv
    <2>7. Drops
        BY <2>6, <1>1, <1>6, QuietDrops DEF Refused
    <2> QED BY <2>1, <2>2, <2>5, <2>7, DropStruct, TypeSplit
<1>7. CASE Waiting(c, ret)
    <2>1. res' \in [Clients -> Results]
        BY <1>7, BusyResult DEF Waiting, TypeOK
    <2>2. RestOK'
        BY <2>1, <1>0, <1>4, <1>5, <1>7 DEF Waiting, RestOK
    <2>3. TaskOK' /\ SamePids(task, task')
        <3>1. CASE Wait(c, ret)
            BY <3>1, <1>0, WaitEffect
        <3>2. CASE UNCHANGED <<task, waitq>>
            BY <3>2, <1>0 DEF TaskOK, StateInv, SamePids
        <3> QED BY <3>1, <3>2, <1>7 DEF Waiting
    <2>4. Owing' = Owing \cup {c}
        BY <1>7 DEF Waiting, Owing, TypeOK
    <2>5. n = 0 => c \in Owing
        BY DEF Calling, Owing
    <2>6. Cardinality(Owing') <= Cardinality(Owing) + n /\ Cardinality(Owing') \in Nat
        BY <2>4, <2>5, OwingFinite, FS_AddElement
    <2>7. CountInv'
        BY <2>6, <1>1, <1>2, <1>3, <1>7, OwingFinite DEF CountInv, Waiting
    <2>8. SameLife(task, task') /\ SameServing
        BY <1>7, <2>3, StillServing DEF Waiting, SameLife, SamePids, StructInv
    <2>9. Drops
        BY <2>8, <1>1, <1>7, QuietDrops DEF Waiting
    <2> QED BY <2>2, <2>3, <2>7, <2>9, DropStruct, TypeSplit
<1>8. CASE Taken(c, ret)
    <2>1. PICK w \in Pids, j \in 1 .. PoolNum, uuid \in 0 .. MaxCalls : Given(c, ret, w, uuid, j)
        BY <1>8 DEF Taken
    <2>2. TaskOK'
        BY <1>8 DEF Taken
    <2>3. uuid \in Nat
        OBVIOUS
    <2>4. StructInv'
        BY <2>1, <2>3, <1>3, BindStruct
    <2> DEFINE uid == last.uid + 1
               s == FreeSlot
    <2>5. s \in Slots /\ uid \in Uids /\ Core[c] \in Cores
        BY <1>3, <2>1, FreeSlotFacts, PoolAssumption DEF Given, Uids, Cores
    <2>6. /\ last' \in [uid: 0 .. MaxCalls, uuid: 0 .. MaxCalls]
          /\ last'.uid = last.uid + 1 /\ last'.uuid <= last.uuid + 1
        <3>1. CASE CallServed(c, ret)
            <4>1. last' = [last EXCEPT !.uid = @ + 1]
                BY <3>1 DEF CallServed
            <4>2. last \in [uid: 0 .. MaxCalls, uuid: 0 .. MaxCalls] /\ last.uid + 1 \in 0 .. MaxCalls
                BY <1>3, <1>0 DEF TypeOK
            <4>3. last' \in [uid: 0 .. MaxCalls, uuid: 0 .. MaxCalls]
                BY <4>1, <4>2
            <4>4. last'.uid = last.uid + 1 /\ last'.uuid = last.uuid
                BY <4>1, <4>2
            <4> QED BY <4>3, <4>4, <1>3
        <3>2. CASE CallSpawned(c, ret)
            BY <3>2, <1>3, <1>0 DEF CallSpawned, TypeOK
        <3>3. last' # last
            BY <2>1, <1>3 DEF Given
        <3> QED BY <3>1, <3>2, <3>3 DEF Calling, proc_ipc_call, CallRefused, CallClosed, CallBusy,
                                       CallUnspawned, TurnedAway
    <2>7. log' \in [calls: 0 .. MaxCalls, asked: [Uids -> Clients \cup {NoProc}],
                    answered: SUBSET Uids, failed: SUBSET Uids, short: BOOLEAN]
        <3>1. /\ log'.short \in BOOLEAN
              /\ log' = [calls |-> log'.calls, asked |-> log'.asked, answered |-> log.answered,
                         failed |-> log.failed, short |-> log'.short]
            BY CallLog
        <3>2. log'.asked \in [Uids -> Clients \cup {NoProc}]
            BY <2>1, <2>5 DEF Given, TypeOK
        <3>3. log.answered \subseteq Uids /\ log.failed \subseteq Uids
            BY DEF TypeOK
        <3> QED BY <3>1, <3>2, <3>3, <1>2
    <2>8. /\ tasks' = [tasks EXCEPT ![s] = [uid |-> uid, client |-> c, ret |-> ret,
                                            handler |-> w, handler_uuid |-> uuid]]
          /\ worker' = [worker EXCEPT ![w] = [uuid |-> uuid, core |-> Core[c],
                            ipc_task |-> s, pc |-> "entry", uid |-> uid, ret |-> ret]]
          /\ pool' = [pool EXCEPT ![j] = [pid |-> w, uuid |-> uuid, idle |-> FALSE, quit |-> FALSE]]
          /\ res' = [res EXCEPT ![c].state = "BUSY"]
          /\ client' = [client EXCEPT ![c] =
               IF ret THEN [pc |-> "wait", uid |-> uid, ret |-> TRUE] ELSE NoCall]
          /\ UNCHANGED <<server, waitq>>
        BY <2>1 DEF Given, Bind
    <2> HIDE DEF uid, s
    <2>9. /\ tasks' \in [Slots -> Requests] /\ pool' \in [1 .. PoolNum -> Members]
          /\ worker' \in [Pids -> Threads]
        <3>1. [uid |-> uid, client |-> c, ret |-> ret, handler |-> w, handler_uuid |-> uuid] \in Requests
            BY <2>5 DEF Requests
        <3>2. [uuid |-> uuid, core |-> Core[c], ipc_task |-> s, pc |-> "entry", uid |-> uid,
               ret |-> ret] \in Threads
            BY <2>5 DEF Threads
        <3>3. [pid |-> w, uuid |-> uuid, idle |-> FALSE, quit |-> FALSE] \in Members
            BY DEF Members
        <3> QED BY <3>1, <3>2, <3>3, <2>8 DEF TypeOK
    <2>10. res' \in [Clients -> Results] /\ client' \in [Clients -> Calls]
        <3>1. [pc |-> "wait", uid |-> uid, ret |-> TRUE] \in Calls
            BY <2>5 DEF Calls
        <3>2. res' \in [Clients -> Results]
            BY <2>8, BusyResult
        <3> QED BY <3>1, <3>2, <2>8, <1>5 DEF TypeOK
    <2>11. threads' \subseteq Pids
        BY <2>1 DEF Given, TypeOK
    <2>12. RestOK'
        BY <2>6, <2>7, <2>8, <2>9, <2>10, <2>11, <1>0 DEF RestOK
    <2>13. Owing' = Owing \ {c}
        <3>1. client'[c].pc \in {"wait", "run"}
            BY <2>8 DEF TypeOK, NoCall
        <3> QED BY <3>1, <2>8 DEF Owing, TypeOK
    <2>14. n = 0 => c \in Owing
        BY DEF Calling, Owing
    <2>15. Cardinality(Owing') + 1 <= Cardinality(Owing) + n /\ Cardinality(Owing') \in Nat
        BY <2>13, <2>14, OwingWithout, OwingFinite
    <2>16. last'.uuid \in Nat /\ last'.uid \in Nat
        BY <2>6
    <2>17. CountInv'
        BY <2>6, <2>15, <2>16, <1>1, <1>2, <1>3, OwingFinite DEF CountInv
    <2> QED BY <2>2, <2>4, <2>12, <2>17, TypeSplit
<1> QED BY <1>1, <1>6, <1>7, <1>8

-----------------------------------------------------------------------------
(* Types, count and structure: every step.                                  *)

BaseInv == TypeOK /\ StateInv /\ CountInv /\ StructInv

\* What has to be shown of a step that is not a call.
LEMMA BaseFrom ==
    ASSUME BaseInv, RestOK', TaskOK', Drops, log'.calls = log.calls, Owing' = Owing
    PROVE  BaseInv'
<1>1. TypeOK' /\ StateInv'
    BY TypeSplit
<1>2. CountInv'
    BY DEF BaseInv, CountInv, Drops
<1>3. StructInv'
    BY DropStruct DEF BaseInv
<1> QED BY <1>1, <1>2, <1>3 DEF BaseInv

\* Steps of a client.
LEMMA ClientBase ==
    ASSUME BaseInv, NEW c \in Clients, client[c].pc = "wait" => client[c].uid \in Uids,
           GetReply(c) \/ AwaitReply(c) \/ CallFails(c) \/ ClientExit(c)
    PROVE  BaseInv' /\ Drops
<1>0. TaskOK /\ RestOK /\ TypeOK /\ StructInv
    BY TypeSplit DEF BaseInv
<1>1. UNCHANGED <<server, tasks, pool, worker, threads, last>>
    BY DEF GetReply, AwaitReply, CallFails, ClientExit
<1>2. TaskOK' /\ SameLife(task, task')
    <2>1. CASE UNCHANGED <<task, waitq>>
        BY <2>1, <1>0 DEF TaskOK, StateInv, SameLife
    <2>2. CASE AwaitReply(c)
        <3>1. task[c].state # "ZOMBIE" /\ task' = proc_block(c) /\ waitq' = waitq
            BY <2>2 DEF AwaitReply, Runnable
        <3> QED BY <3>1, <1>0, ThreadSleep
    <2>3. CASE ClientExit(c)
        BY <2>3, <1>0, ClientEffect DEF SamePids, SameLife
    <2> QED BY <2>1, <2>2, <2>3 DEF GetReply, CallFails
<1>3. SameServing
    BY <1>0, <1>1, StillServing DEF StructInv
<1>4. log'.asked = log.asked /\ log'.calls = log.calls
    BY <1>0 DEF GetReply, AwaitReply, CallFails, ClientExit, RestOK
<1>5. Drops
    BY <1>0, <1>1, <1>2, <1>3, <1>4, QuietDrops
<1>6. NoCall \in Calls /\ NoResult \in Results
    BY DEF NoCall, NoResult, Calls, Results
<1>7. client' \in [Clients -> Calls] /\ res' \in [Clients -> Results]
    BY <1>0, <1>6 DEF GetReply, AwaitReply, CallFails, ClientExit, RestOK
<1>8. log' \in [calls: 0 .. MaxCalls, asked: [Uids -> Clients \cup {NoProc}],
                answered: SUBSET Uids, failed: SUBSET Uids, short: BOOLEAN]
    <2>1. CASE CallFails(c)
        <3>1. log' = [log EXCEPT !.failed = @ \cup {client[c].uid}]
            BY <2>1 DEF CallFails
        <3>2. client[c].uid \in Uids
            BY <2>1 DEF CallFails
        <3> QED BY <3>1, <3>2, <1>0 DEF RestOK
    <2>2. CASE log' = log
        BY <2>2, <1>0 DEF RestOK
    <2> QED BY <2>1, <2>2 DEF GetReply, AwaitReply, ClientExit
<1>9. RestOK'
    BY <1>0, <1>1, <1>7, <1>8 DEF RestOK
<1>10. Owing' = Owing
    BY <1>0 DEF GetReply, AwaitReply, CallFails, ClientExit, RestOK, Owing, NoCall
<1> QED BY <1>2, <1>4, <1>5, <1>9, <1>10, BaseFrom

\* Steps of a worker inside a request.
LEMMA WorkerBase ==
    ASSUME BaseInv, NEW w \in Pids,
           GetArg(w) \/ Work(w) \/ SetReturn(w) \/ Sleep(w) \/ Resume(w)
    PROVE  BaseInv' /\ Drops
<1>0. TaskOK /\ RestOK /\ TypeOK /\ StructInv
    BY TypeSplit DEF BaseInv
<1>1. UNCHANGED <<client, server, tasks, pool, threads, last, waitq>>
    BY DEF GetArg, Work, SetReturn, Sleep, Resume
<1>2. TaskOK' /\ SameLife(task, task')
    <2>1. CASE UNCHANGED task
        BY <2>1, <1>0, <1>1 DEF TaskOK, StateInv, SameLife
    <2>2. CASE Sleep(w)
        <3>1. task[w].state # "ZOMBIE" /\ task' = proc_block(w)
            BY <2>2 DEF Sleep, At, Runnable
        <3> QED BY <3>1, <1>0, <1>1, ThreadSleep
    <2>3. CASE Resume(w)
        BY <2>3, <1>0, <1>1, ThreadWake DEF Resume
    <2> QED BY <2>1, <2>2, <2>3 DEF GetArg, Work, SetReturn
<1>3. SameServing /\ worker' \in [Pids -> Threads]
    <2>1. CASE UNCHANGED worker
        BY <2>1, <1>0, StillServing DEF StructInv, RestOK
    <2>2. CASE GetArg(w) \/ Work(w) \/ SetReturn(w)
        <3>1. \E pc \in {"body", "end", "reply"} :
                 worker' = [worker EXCEPT ![w].pc = pc] /\ (pc = "reply" => worker[w].ret)
            BY <2>2 DEF GetArg, Work, SetReturn
        <3>2. PICK pc \in {"body", "end", "reply"} :
                 worker' = [worker EXCEPT ![w].pc = pc] /\ (pc = "reply" => worker[w].ret)
            BY <3>1
        <3>3. SameServing
            BY <3>2, <1>0, PcServing DEF StructInv
        <3>4. [worker[w] EXCEPT !.pc = pc] \in Threads
            <4>1. worker[w] \in Threads
                BY <1>0 DEF RestOK
            <4> QED BY <4>1 DEF Threads
        <3>5. worker' = [worker EXCEPT ![w] = [worker[w] EXCEPT !.pc = pc]]
            BY <3>2
        <3> HIDE DEF Threads
        <3> QED BY <3>3, <3>4, <3>5, <1>0 DEF RestOK
    <2> QED BY <2>1, <2>2 DEF Sleep, Resume
<1>4. log'.asked = log.asked /\ log'.calls = log.calls
    BY <1>0 DEF GetArg, Work, SetReturn, Sleep, Resume, RestOK
<1>5. Drops
    BY <1>0, <1>1, <1>2, <1>3, <1>4, QuietDrops
<1>6. CASE SetReturn(w)
    <2> DEFINE to == IF Serving(w) THEN ClientOf(worker[w].ipc_task) ELSE {}
    <2>1. /\ res' = [c \in Clients |-> IF c \in to THEN [uid |-> worker[w].uid, state |-> "RETURN"]
                                       ELSE res[c]]
          /\ log' = [log EXCEPT !.answered = IF to = {} THEN @ ELSE @ \cup {worker[w].uid}]
        BY <1>6 DEF SetReturn
    <2>2. to # {} => worker[w].uid \in Uids
        BY <1>0 DEF Serving, RestOK, Threads
    <2>3. worker[w].uid \in Uids \cup {0}
        BY <1>0 DEF RestOK, Threads
    <2> HIDE DEF to
    <2>4. [uid |-> worker[w].uid, state |-> "RETURN"] \in Results
        BY <2>3 DEF Results
    <2>5. res' \in [Clients -> Results]
        BY <2>1, <2>4, <1>0 DEF RestOK
    <2>6. log' \in [calls: 0 .. MaxCalls, asked: [Uids -> Clients \cup {NoProc}],
                    answered: SUBSET Uids, failed: SUBSET Uids, short: BOOLEAN]
        <3>1. CASE to = {}
            BY <3>1, <2>1, <1>0 DEF RestOK
        <3>2. CASE to # {}
            BY <3>2, <2>1, <2>2, <1>0 DEF RestOK
        <3> QED BY <3>1, <3>2
    <2>7. RestOK'
        BY <2>5, <2>6, <1>0, <1>1, <1>3 DEF RestOK
    <2>8. Owing' = Owing
        BY <1>1 DEF Owing
    <2> QED BY <2>7, <2>8, <1>2, <1>4, <1>5, BaseFrom
<1>7. CASE UNCHANGED <<res, log>>
    <2>1. RestOK'
        BY <1>7, <1>0, <1>1, <1>3 DEF RestOK
    <2>2. Owing' = Owing
        BY <1>1 DEF Owing
    <2> QED BY <2>1, <2>2, <1>2, <1>4, <1>5, BaseFrom
<1> QED BY <1>6, <1>7 DEF GetArg, Work, Sleep, Resume

\* Nobody's call changes.
LEMMA OwingSame == ASSUME client' = client PROVE Owing' = Owing
BY DEF Owing

\* Free slots.
LEMMA EmptyTypes == NoRequest \in Requests /\ NoMember \in Members /\ NoResult \in Results
<1>1. MaxCalls \in Nat
    BY PoolAssumption
<1> QED BY <1>1 DEF NoRequest, NoMember, NoResult, Requests, Members, Results

\* The end of a request.
LEMMA EndBase ==
    ASSUME BaseInv, NEW w \in Pids, End(w) \/ EndQuit(w)
    PROVE  BaseInv' /\ Drops
<1>0. TaskOK /\ RestOK /\ TypeOK /\ StructInv
    BY TypeSplit DEF BaseInv
<1>1. UNCHANGED <<client, res, server, threads, last, log>>
    BY DEF End, EndQuit
<1>2. /\ TaskOK' /\ Drops
      /\ tasks' = [i \in Slots |-> IF i \in OwnRequest(w) THEN NoRequest ELSE tasks[i]]
    <2>1. CASE End(w)
        <3>1. task[w].state # "ZOMBIE"
            BY <2>1 DEF End, At, Runnable
        <3> QED BY <2>1, <3>1, <1>0, EndEffect, EndStruct
    <2>2. CASE EndQuit(w)
        BY <2>2, <1>0, QuitEffect, QuitStruct
    <2> QED BY <2>1, <2>2
<1>3. tasks' \in [Slots -> Requests]
    BY <1>0, <1>2, EmptyTypes DEF RestOK
<1>4. worker' \in [Pids -> Threads] /\ pool' \in [1 .. PoolNum -> Members]
    <2>1. CASE End(w)
        <3> DEFINE e == [worker[w] EXCEPT !.ipc_task = 0, !.pc = "entry", !.uid = 0]
        <3>1. e \in Threads
            <4>1. worker[w] \in Threads
                BY <1>0 DEF RestOK
            <4> QED BY <4>1 DEF Threads
        <3>2. worker' = [worker EXCEPT ![w] = e]
            BY <2>1 DEF End
        <3> HIDE DEF e
        <3>3. \A j \in 1 .. PoolNum : [pool[j] EXCEPT !.idle = TRUE] \in Members
            <4>1. \A j \in 1 .. PoolNum : pool[j] \in Members
                BY <1>0 DEF RestOK
            <4> QED BY <4>1 DEF Members
        <3>4. pool' = [j \in 1 .. PoolNum |-> IF j \in SlotOf(w) THEN [pool[j] EXCEPT !.idle = TRUE]
                                              ELSE pool[j]]
            BY <2>1 DEF End
        <3> QED BY <3>1, <3>2, <3>3, <3>4, <1>0 DEF RestOK
    <2>2. CASE EndQuit(w)
        <3>1. Dead(w) \in Threads
            BY <1>0, DeadFacts
        <3> QED BY <3>1, <2>2, <1>0, EmptyTypes DEF EndQuit, RestOK
    <2> QED BY <2>1, <2>2
<1>5. RestOK'
    BY <1>0, <1>1, <1>3, <1>4 DEF RestOK
<1> QED BY <1>1, <1>2, <1>5, OwingSame, BaseFrom

\* proc_ipc_task_abort.
LEMMA AbortTypes ==
    ASSUME RestOK, NEW i \in Slots, NEW t, proc_ipc_task_abort(i, t)
    PROVE  /\ tasks' \in [Slots -> Requests] /\ res' \in [Clients -> Results]
           /\ log' \in [calls: 0 .. MaxCalls, asked: [Uids -> Clients \cup {NoProc}],
                        answered: SUBSET Uids, failed: SUBSET Uids, short: BOOLEAN]
           /\ log'.calls = log.calls
<1>1. log' = [log EXCEPT !.answered = @ \ {tasks[i].uid}]
    BY DEF proc_ipc_task_abort
<1>2. tasks' \in [Slots -> Requests]
    BY EmptyTypes DEF proc_ipc_task_abort, RestOK
<1>3. res' \in [Clients -> Results]
    BY EmptyTypes DEF proc_ipc_task_abort, RestOK
<1> QED BY <1>1, <1>2, <1>3 DEF RestOK

\* Watchdog, exits, burial, sweep, stray wakes, disabling.
LEMMA OtherBase ==
    ASSUME BaseInv,
           \/ \E i \in Slots : Timeout(i)
           \/ \E w \in Pids : WorkerExit(w) \/ Funeral(w)
           \/ \E i \in 1 .. PoolNum : Shrink(i)
           \/ \E x \in Clients \cup Pids : StrayWake(x)
           \/ ServerExit \/ proc_ipc_disable \/ proc_ipc_enable
    PROVE  BaseInv' /\ Drops
<1>0. TaskOK /\ RestOK /\ TypeOK /\ StructInv
    BY TypeSplit DEF BaseInv
<1>1. ASSUME NEW i \in Slots, Timeout(i) PROVE BaseInv' /\ Drops
    <2>1. proc_ipc_task_abort(i, task) /\ worker' = Detached(i)
          /\ UNCHANGED <<client, server, pool, threads, last>>
        BY <1>1 DEF Timeout
    <2>2. TaskOK' /\ Drops
        BY <1>0, <1>1, TimeoutEffect, TimeoutStruct
    <2>3. worker' \in [Pids -> Threads]
        <3>1. \A w \in Pids : [worker[w] EXCEPT !.ipc_task = 0] \in Threads
            BY <1>0, SMTT(30) DEF RestOK, Threads
        <3> QED BY <3>1, <2>1, <1>0 DEF Detached, RestOK
    <2>4. RestOK' /\ log'.calls = log.calls
        BY <1>0, <2>1, <2>3, AbortTypes DEF RestOK
    <2> QED BY <2>1, <2>2, <2>4, OwingSame, BaseFrom
<1>2. ASSUME NEW w \in Pids, WorkerExit(w) PROVE BaseInv' /\ Drops
    <2> DEFINE i == worker[w].ipc_task
               t == [task EXCEPT ![w] = proc_unready(@, "ZOMBIE")]
    <2>1. worker' = [worker EXCEPT ![w] = Dead(w)] /\ UNCHANGED <<client, server, pool, threads, last>>
        BY <1>2 DEF WorkerExit
    <2>2. TaskOK' /\ Drops
        BY <1>0, <1>2, ExitEffect, ExitStruct
    <2>3. worker' \in [Pids -> Threads]
        BY <2>1, <1>0, DeadFacts DEF RestOK
    <2>4. RestOK' /\ log'.calls = log.calls
        <3>1. CASE i # 0
            <4>1. proc_ipc_task_abort(i, t) /\ i \in Slots
                BY <3>1, <1>0, <1>2 DEF WorkerExit, RestOK, Threads
            <4> QED BY <4>1, <1>0, <2>1, <2>3, AbortTypes DEF RestOK
        <3>2. CASE i = 0
            <4>1. UNCHANGED <<tasks, res, log>>
                BY <3>2, <1>2 DEF WorkerExit
            <4> QED BY <4>1, <1>0, <2>1, <2>3 DEF RestOK
        <3> QED BY <3>1, <3>2
    <2> QED BY <2>1, <2>2, <2>4, OwingSame, BaseFrom
<1>3. ASSUME NEW w \in Pids, Funeral(w) PROVE BaseInv' /\ Drops
    <2>1. TaskOK'
        BY <1>0, <1>3, AdmitEffect DEF Funeral
    <2>2. Drops
        BY <1>0, <1>3, FuneralStruct
    <2>3. RestOK' /\ log' = log /\ client' = client
        BY <1>0, <1>3 DEF Funeral, RestOK
    <2> QED BY <2>1, <2>2, <2>3, OwingSame, BaseFrom
<1>4. ASSUME NEW i \in 1 .. PoolNum, Shrink(i) PROVE BaseInv' /\ Drops
    <2>1. pool[i].pid \in Pids
        BY <1>0, <1>4 DEF Shrink, Idle, Member, RestOK, Members
    <2>2. TaskOK'
        BY <1>0, <1>4, <2>1, ThreadWake DEF Shrink
    <2>3. Drops
        BY <1>0, <1>4, ShrinkStruct
    <2>4. pool' \in [1 .. PoolNum -> Members]
        <3>1. [pool[i] EXCEPT !.quit = TRUE] \in Members
            <4>1. pool[i] \in Members
                BY <1>0 DEF RestOK
            <4> QED BY <4>1 DEF Members
        <3>2. pool' = [pool EXCEPT ![i] = [pool[i] EXCEPT !.quit = TRUE]]
            BY <1>4 DEF Shrink
        <3> QED BY <3>1, <3>2, <1>0 DEF RestOK
    <2>5. RestOK' /\ log' = log /\ client' = client
        BY <1>0, <1>4, <2>4 DEF Shrink, RestOK
    <2> QED BY <2>2, <2>3, <2>5, OwingSame, BaseFrom
<1>5. ASSUME NEW x \in Clients \cup Pids, StrayWake(x) PROVE BaseInv' /\ Drops
    <2>1. TaskOK' /\ SameLife(task, task')
        BY <1>0, <1>5, StrayEffect
    <2>2. UNCHANGED <<client, res, server, tasks, pool, worker, threads, last, log>>
        BY <1>5 DEF StrayWake
    <2>3. SameServing
        BY <1>0, <2>2, StillServing DEF StructInv
    <2>4. Drops
        BY <1>0, <2>1, <2>2, <2>3, QuietDrops
    <2>5. RestOK'
        BY <1>0, <2>2 DEF RestOK
    <2> QED BY <2>1, <2>2, <2>4, <2>5, OwingSame, BaseFrom
<1>6. CASE ServerExit
    <2>1. TaskOK' /\ Drops
        BY <1>0, <1>6, ServerEffect, ServerStruct
    <2>2. /\ worker' = [w \in Pids |-> IF Live(w) THEN Dead(w) ELSE worker[w]]
          /\ tasks' = [i \in Slots |-> NoRequest]
          /\ server' = [server EXCEPT !.up = FALSE]
          /\ UNCHANGED <<client, res, pool, threads, last, log>>
        BY <1>6 DEF ServerExit
    <2>3. worker' \in [Pids -> Threads]
        BY <2>2, <1>0, DeadFacts DEF RestOK
    <2>4. tasks' \in [Slots -> Requests]
        BY <2>2, EmptyTypes
    <2>5. RestOK'
        BY <2>2, <2>3, <2>4, <1>0 DEF RestOK
    <2> QED BY <2>1, <2>2, <2>5, OwingSame, BaseFrom
<1>7. CASE proc_ipc_disable \/ proc_ipc_enable
    <2>1. TaskOK' /\ SameLife(task, task')
        <3>1. CASE proc_ipc_disable
            BY <3>1, <1>0 DEF proc_ipc_disable, TaskOK, StateInv, SameLife
        <3>2. CASE proc_ipc_enable
            BY <3>2, <1>0, AdmitEffect DEF proc_ipc_enable, SamePids, SameLife
        <3> QED BY <3>1, <3>2, <1>7
    <2>2. UNCHANGED <<client, res, tasks, pool, worker, threads, last, log>>
        BY <1>7 DEF proc_ipc_disable, proc_ipc_enable
    <2>3. /\ server'.up = server.up /\ server'.multi_core = server.multi_core
          /\ server' \in [up: BOOLEAN, disabled: BOOLEAN, multi_core: Modes]
        BY <1>0, <1>7 DEF proc_ipc_disable, proc_ipc_enable, RestOK
    <2>4. SameServing
        BY <1>0, <2>2, StillServing DEF StructInv
    <2>5. Drops
        BY <1>0, <2>1, <2>2, <2>3, <2>4, QuietDrops
    <2>6. RestOK'
        BY <1>0, <2>2, <2>3 DEF RestOK
    <2> QED BY <2>1, <2>2, <2>5, <2>6, OwingSame, BaseFrom
<1> QED BY <1>1, <1>2, <1>3, <1>4, <1>5, <1>6, <1>7

-----------------------------------------------------------------------------
(* Replies.                                                                 *)

\* The parts of ReplyInv.
WaitsRight(c) ==
    client[c].pc = "wait" =>
        /\ client[c].uid \in Uids /\ client[c].uid <= last.uid
        /\ log.asked[client[c].uid] = c /\ client[c].uid \notin log.failed
        /\ client[c].uid \in log.answered =>
              res[c].state = "RETURN" /\ res[c].uid = client[c].uid
        /\ res[c].state = "RETURN" => res[c].uid = client[c].uid
        /\ \A i \in Slots : tasks[i].uid = client[c].uid => tasks[i].ret

FindsRight(c) ==
    res[c].state = "RETURN" =>
        res[c].uid \in Uids /\ res[c].uid <= last.uid /\ log.asked[res[c].uid] = c

AskerWaits(i) ==
    Unanswered(i) => LET c == tasks[i].client IN
        client[c].pc = "wait" /\ client[c].uid = tasks[i].uid /\ res[c].state # "RETURN"

UidsUsed == \A u \in log.answered \cup log.failed : u <= last.uid

\* The parts of the invariant.
LEMMA ReplyParts ==
    /\ ReplyInv <=> /\ UidsUsed /\ (\A c \in Clients : WaitsRight(c) /\ FindsRight(c))
                    /\ (\A i \in Slots : AskerWaits(i)) /\ log.answered \cap log.failed = {}
    /\ ReplyInv' <=> /\ UidsUsed' /\ (\A c \in Clients : WaitsRight(c)' /\ FindsRight(c)')
                     /\ (\A i \in Slots : AskerWaits(i)') /\ log'.answered \cap log'.failed = {}
BY DEF ReplyInv, UidsUsed, WaitsRight, FindsRight, AskerWaits

\* Requests that stay.
LEMMA KeptRequest ==
    ASSUME BaseInv, Drops, NEW i \in Slots, tasks'[i].uid # 0
    PROVE  tasks'[i] = tasks[i] /\ tasks[i].handler \in Pids /\ tasks[i].client \in Clients
           /\ Bound(i, tasks[i].handler) /\ server.up
BY BusyHandler DEF Drops, DropTasks, BaseInv, StructInv, ThreadInv, Bound

\* A handler that is through stays so while its request is there.
Finished ==
    \A i \in Slots : tasks'[i].uid # 0 /\ worker[tasks[i].handler].pc = "end"
                        => worker'[tasks[i].handler].pc = "end"

\* A request that is not answered after such a step was not before.
LEMMA StillUnanswered ==
    ASSUME BaseInv, Drops, Finished, NEW i \in Slots, Unanswered(i)'
    PROVE  Unanswered(i) /\ tasks'[i] = tasks[i] /\ tasks[i].client \in Clients
<1>1. tasks'[i].uid # 0
    BY DEF Unanswered
<1>2. tasks'[i] = tasks[i] /\ tasks[i].client \in Clients
    BY <1>1, KeptRequest
<1>3. worker[tasks[i].handler].pc # "end"
    BY <1>1, <1>2 DEF Finished, Unanswered
<1> QED BY <1>1, <1>2, <1>3 DEF Unanswered

\* Steps that change neither calls nor replies.
LEMMA ReplyDrop ==
    ASSUME BaseInv, ReplyInv, UNCHANGED <<client, res, log, last>>, Drops, Finished
    PROVE  ReplyInv'
<1>1. ASSUME NEW c \in Clients PROVE WaitsRight(c)' /\ FindsRight(c)'
    <2>1. WaitsRight(c) /\ FindsRight(c)
        BY ReplyParts
    <2>2. ASSUME client[c].pc = "wait", NEW i \in Slots, tasks'[i].uid = client[c].uid
          PROVE  tasks'[i].ret
        <3>1. tasks'[i].uid # 0
            BY <2>1, <2>2 DEF WaitsRight, Uids
        <3>2. tasks'[i] = tasks[i]
            BY <3>1, KeptRequest
        <3> QED BY <2>1, <2>2, <3>2 DEF WaitsRight
    <2> QED BY <2>1, <2>2 DEF WaitsRight, FindsRight
<1>2. ASSUME NEW i \in Slots PROVE AskerWaits(i)'
    <2>1. AskerWaits(i)
        BY ReplyParts
    <2> QED BY <2>1, StillUnanswered DEF AskerWaits
<1>3. UidsUsed' /\ log'.answered \cap log'.failed = {}
    BY ReplyParts DEF UidsUsed
<1> QED BY <1>1, <1>2, <1>3, ReplyParts

\* The client takes its reply.
LEMMA GetReplyReply ==
    ASSUME BaseInv, ReplyInv, NEW c \in Clients, GetReply(c)
    PROVE  ReplyInv'
<1>1. /\ client[c].pc = "wait" /\ res[c].state = "RETURN"
      /\ res' = [res EXCEPT ![c] = NoResult] /\ client' = [client EXCEPT ![c] = NoCall]
      /\ UNCHANGED <<tasks, worker, last, log>>
    BY DEF GetReply
<1>2. /\ client'[c].pc = "run" /\ res'[c].state = "IDLE"
      /\ \A d \in Clients : d # c => client'[d] = client[d] /\ res'[d] = res[d]
    BY <1>1 DEF BaseInv, TypeOK, NoCall, NoResult
<1>3. ASSUME NEW d \in Clients PROVE WaitsRight(d)' /\ FindsRight(d)'
    <2>1. WaitsRight(d) /\ FindsRight(d)
        BY ReplyParts
    <2> QED BY <2>1, <1>1, <1>2 DEF WaitsRight, FindsRight
<1>4. ASSUME NEW i \in Slots PROVE AskerWaits(i)'
    <2> SUFFICES ASSUME Unanswered(i)
                 PROVE  LET d == tasks[i].client IN
                        client'[d].pc = "wait" /\ client'[d].uid = tasks[i].uid /\ res'[d].state # "RETURN"
        BY <1>1 DEF AskerWaits, Unanswered
    <2>1. LET d == tasks[i].client IN
          client[d].pc = "wait" /\ client[d].uid = tasks[i].uid /\ res[d].state # "RETURN"
        BY ReplyParts DEF AskerWaits
    <2>2. tasks[i].client \in Clients
        BY BusyHandler DEF Unanswered, BaseInv, Bound
    <2> QED BY <2>1, <2>2, <1>1, <1>2
<1>5. UidsUsed' /\ log'.answered \cap log'.failed = {}
    BY <1>1, ReplyParts DEF UidsUsed
<1> QED BY <1>3, <1>4, <1>5, ReplyParts

\* The call fails: no reply of its request was published, and none is to come.
LEMMA CallFailsReply ==
    ASSUME BaseInv, ReplyInv, NEW c \in Clients, CallFails(c)
    PROVE  ReplyInv'
<1> DEFINE u == client[c].uid
<1>1. /\ client[c].pc = "wait" /\ NoReply(c) /\ client' = [client EXCEPT ![c] = NoCall]
      /\ log' = [log EXCEPT !.failed = @ \cup {u}]
      /\ UNCHANGED <<res, server, tasks, worker, last>>
    BY DEF CallFails
<1>2. /\ client'[c].pc = "run"
      /\ \A d \in Clients : d # c => client'[d] = client[d]
    BY <1>1 DEF BaseInv, TypeOK, NoCall
<1>3. log'.failed = log.failed \cup {u} /\ log'.answered = log.answered /\ log'.asked = log.asked
    BY <1>1 DEF BaseInv, TypeOK
<1>4. u \in Uids /\ u <= last.uid /\ log.asked[u] = c
      /\ (u \in log.answered => res[c].state = "RETURN" /\ res[c].uid = u)
    BY <1>1, ReplyParts DEF WaitsRight
<1>5. u \notin log.answered
    BY <1>1, <1>4 DEF NoReply
<1> HIDE DEF u
<1>6. ASSUME NEW d \in Clients PROVE WaitsRight(d)' /\ FindsRight(d)'
    <2>1. WaitsRight(d) /\ FindsRight(d)
        BY ReplyParts
    <2>2. CASE d = c
        BY <2>1, <2>2, <1>1, <1>2, <1>3 DEF WaitsRight, FindsRight
    <2>3. CASE d # c
        <3>1. client[d].pc = "wait" => client[d].uid # u
            BY <2>1, <2>3, <1>4 DEF WaitsRight
        <3> QED BY <2>1, <2>3, <3>1, <1>1, <1>2, <1>3 DEF WaitsRight, FindsRight
    <2> QED BY <2>2, <2>3
<1>7. ASSUME NEW i \in Slots PROVE AskerWaits(i)'
    <2> SUFFICES ASSUME Unanswered(i)
                 PROVE  LET d == tasks[i].client IN
                        client'[d].pc = "wait" /\ client'[d].uid = tasks[i].uid /\ res[d].state # "RETURN"
        BY <1>1 DEF AskerWaits, Unanswered
    <2>1. LET d == tasks[i].client IN
          client[d].pc = "wait" /\ client[d].uid = tasks[i].uid /\ res[d].state # "RETURN"
        BY ReplyParts DEF AskerWaits
    <2>2. tasks[i].client \in Clients /\ server.up
        BY BusyHandler DEF Unanswered, BaseInv, Bound, StructInv, ThreadInv, Live, proc_get
    <2>3. tasks[i].client # c
        BY <2>1, <2>2, <1>1 DEF NoReply, Pending
    <2> QED BY <2>1, <2>2, <2>3, <1>2
<1>8. UidsUsed' /\ log'.answered \cap log'.failed = {}
    BY <1>1, <1>3, <1>4, <1>5, ReplyParts DEF UidsUsed
<1> QED BY <1>6, <1>7, <1>8, ReplyParts

\* The reply is published.
LEMMA SetReturnReply ==
    ASSUME BaseInv, ReplyInv, NEW w \in Pids, SetReturn(w), Drops
    PROVE  ReplyInv'
<1> DEFINE i == worker[w].ipc_task
           u == worker[w].uid
           to == IF Serving(w) THEN ClientOf(i) ELSE {}
<1>1. /\ worker[w].pc = "reply" /\ worker' = [worker EXCEPT ![w].pc = "end"]
      /\ res' = [c \in Clients |-> IF c \in to THEN [uid |-> u, state |-> "RETURN"] ELSE res[c]]
      /\ log' = [log EXCEPT !.answered = IF to = {} THEN @ ELSE @ \cup {u}]
      /\ UNCHANGED <<task, client, server, tasks, last>>
    BY DEF SetReturn, At
<1>2. worker'[w].pc = "end" /\ \A v \in Pids : v # w => worker'[v] = worker[v]
    BY <1>1 DEF BaseInv, TypeOK, Threads
<1>3. Finished
    BY <1>1, <1>2, BusyHandler DEF Finished, BaseInv
<1>4. CASE to = {}
    <2>1. res' = res
        BY <1>1, <1>4 DEF BaseInv, TypeOK
    <2>2. log' = log
        BY <1>1, <1>4 DEF BaseInv, TypeOK
    <2> QED BY <2>1, <2>2, <1>1, <1>3, ReplyDrop
<1>5. CASE to # {}
    <2>1. Serving(w) /\ to = ClientOf(i)
        BY <1>5
    <2>2. i # 0 /\ u # 0 /\ tasks[i].uid = u
        BY <2>1 DEF Serving
    <2>3. i \in Slots /\ tasks[i].handler = w /\ Bound(i, w)
        BY <2>2, ServerThread, BusyHandler DEF BaseInv
    <2> DEFINE c == tasks[i].client
    <2>4. c \in Clients /\ tasks[i].ret /\ worker[w].ret
        BY <2>3, <1>1 DEF Bound, BaseInv, StructInv, ThreadInv
    <2>5. to = {c}
        BY <2>1, <2>4, <1>5 DEF ClientOf
    <2>6. Unanswered(i)
        BY <2>2, <2>3, <2>4, <1>1 DEF Unanswered
    <2>7. client[c].pc = "wait" /\ client[c].uid = u /\ res[c].state # "RETURN"
        BY <2>2, <2>3, <2>6, ReplyParts DEF AskerWaits
    <2>8. u \in Uids /\ u <= last.uid /\ log.asked[u] = c /\ u \notin log.failed
        BY <2>4, <2>7, ReplyParts DEF WaitsRight
    <2> HIDE DEF to, u
    <2>9. res'[c].state = "RETURN" /\ res'[c].uid = u /\ \A d \in Clients : d # c => res'[d] = res[d]
        BY <1>1, <2>4, <2>5
    <2>10. log'.answered = log.answered \cup {u} /\ log'.asked = log.asked /\ log'.failed = log.failed
        BY <1>1, <1>5 DEF BaseInv, TypeOK
    <2> HIDE DEF c
    <2>11. ASSUME NEW d \in Clients PROVE WaitsRight(d)' /\ FindsRight(d)'
        <3>1. WaitsRight(d) /\ FindsRight(d)
            BY ReplyParts
        <3>2. CASE d = c
            BY <3>1, <3>2, <2>7, <2>8, <2>9, <2>10, <1>1 DEF WaitsRight, FindsRight
        <3>3. CASE d # c
            <4>1. client[d].pc = "wait" => client[d].uid # u
                BY <3>1, <3>3, <2>8 DEF WaitsRight
            <4> QED BY <3>1, <3>3, <4>1, <2>9, <2>10, <1>1 DEF WaitsRight, FindsRight
        <3> QED BY <3>2, <3>3
    <2>12. ASSUME NEW k \in Slots PROVE AskerWaits(k)'
        <3> SUFFICES ASSUME Unanswered(k)'
                     PROVE  LET d == tasks'[k].client IN
                            client'[d].pc = "wait" /\ client'[d].uid = tasks'[k].uid /\ res'[d].state # "RETURN"
            BY DEF AskerWaits
        <3>1. Unanswered(k) /\ tasks'[k] = tasks[k] /\ tasks[k].client \in Clients
            BY <1>3, StillUnanswered
        <3>2. LET d == tasks[k].client IN
              client[d].pc = "wait" /\ client[d].uid = tasks[k].uid /\ res[d].state # "RETURN"
            BY <3>1, ReplyParts DEF AskerWaits
        <3>3. k # i
            BY <1>1, <1>2, <2>3 DEF Unanswered
        <3>4. tasks[k].client # c
            <4>1. tasks[k].client = c => tasks[k].uid = tasks[i].uid /\ tasks[k].uid # 0
                BY <3>2, <2>2, <2>7 
            <4> QED BY <4>1, <3>3, <2>3 DEF BaseInv, StructInv, RequestInv
        <3> QED BY <3>1, <3>2, <3>4, <2>9, <1>1
    <2>13. UidsUsed' /\ log'.answered \cap log'.failed = {}
        BY <1>1, <2>8, <2>10, ReplyParts DEF UidsUsed
    <2> QED BY <2>11, <2>12, <2>13, ReplyParts
<1> QED BY <1>4, <1>5

\* A request is aborted: its reply, if there is one, is withdrawn.
LEMMA AbortReply ==
    ASSUME BaseInv, ReplyInv, NEW i \in Slots, NEW t, proc_ipc_task_abort(i, t), tasks[i].uid # 0,
           Drops, Finished, UNCHANGED <<client, last>>
    PROVE  ReplyInv'
<1> DEFINE u == tasks[i].uid
           to == ClientOf(i)
<1>1. /\ res' = [c \in Clients |-> IF c \in to /\ res[c].uid = u THEN NoResult ELSE res[c]]
      /\ log' = [log EXCEPT !.answered = @ \ {u}]
    BY DEF proc_ipc_task_abort
<1>2. log'.answered = log.answered \ {u} /\ log'.asked = log.asked /\ log'.failed = log.failed
    BY <1>1 DEF BaseInv, TypeOK
<1> HIDE DEF u, to
<1>3. \A d \in Clients : res'[d] = res[d] \/ (res[d].uid = u /\ res'[d].state = "IDLE")
    BY <1>1 DEF NoResult
<1>4. ASSUME NEW d \in Clients PROVE WaitsRight(d)' /\ FindsRight(d)'
    <2>1. WaitsRight(d) /\ FindsRight(d)
        BY ReplyParts
    <2>2. ASSUME client[d].pc = "wait", NEW k \in Slots, tasks'[k].uid = client[d].uid
          PROVE  tasks'[k].ret
        <3>1. tasks'[k].uid # 0
            BY <2>1, <2>2 DEF WaitsRight, Uids
        <3>2. tasks'[k] = tasks[k]
            BY <3>1, KeptRequest
        <3> QED BY <2>1, <2>2, <3>2 DEF WaitsRight
    <2>3. FindsRight(d)'
        BY <2>1, <1>2, <1>3 DEF FindsRight
    <2>4. WaitsRight(d)'
        BY <2>1, <2>2, <1>2, <1>3 DEF WaitsRight
    <2> QED BY <2>3, <2>4
<1>5. ASSUME NEW k \in Slots PROVE AskerWaits(k)'
    <2> SUFFICES ASSUME Unanswered(k)'
                 PROVE  LET d == tasks'[k].client IN
                        client'[d].pc = "wait" /\ client'[d].uid = tasks'[k].uid /\ res'[d].state # "RETURN"
        BY DEF AskerWaits
    <2>1. Unanswered(k) /\ tasks'[k] = tasks[k] /\ tasks[k].client \in Clients
        BY StillUnanswered
    <2>2. LET d == tasks[k].client IN
          client[d].pc = "wait" /\ client[d].uid = tasks[k].uid /\ res[d].state # "RETURN"
        BY <2>1, ReplyParts DEF AskerWaits
    <2> QED BY <2>1, <2>2, <1>3
<1>6. UidsUsed' /\ log'.answered \cap log'.failed = {}
    BY <1>2, ReplyParts DEF UidsUsed
<1> QED BY <1>4, <1>5, <1>6, ReplyParts

\* Calls.
LEMMA CallReply ==
    ASSUME BaseInv, ReplyInv, NEW c \in Clients, NEW ret \in BOOLEAN,
           NEW n \in {0, 1}, Calling(c, ret, n)
    PROVE  ReplyInv'
<1>0. TaskOK /\ TypeOK /\ CountInv /\ StructInv /\ n \in Nat
    BY TypeSplit DEF BaseInv
<1>1. /\ Refused(c) \/ Waiting(c, ret) \/ Taken(c, ret)
      /\ last' = last => log'.asked = log.asked
      /\ log'.answered = log.answered /\ log'.failed = log.failed
    BY <1>0, CallKinds
<1>2. client[c].pc # "wait"
    BY DEF Calling
<1>3. ASSUME NEW i \in Slots, Unanswered(i)
      PROVE  /\ tasks[i].client \in Clients /\ tasks[i].client # c
             /\ LET d == tasks[i].client IN
                client[d].pc = "wait" /\ client[d].uid = tasks[i].uid /\ res[d].state # "RETURN"
    <2>1. LET d == tasks[i].client IN
          client[d].pc = "wait" /\ client[d].uid = tasks[i].uid /\ res[d].state # "RETURN"
        BY <1>3, ReplyParts DEF AskerWaits
    <2>2. tasks[i].client \in Clients
        BY <1>3, BusyHandler DEF Unanswered, BaseInv, Bound
    <2> QED BY <2>1, <2>2, <1>2
<1>4. CASE Refused(c) \/ Waiting(c, ret)
    <2>1. UNCHANGED <<tasks, worker, last>>
        BY <1>4 DEF Refused, Waiting
    <2>2. /\ client'[c].pc # "wait"
          /\ \A d \in Clients : d # c => client'[d] = client[d]
        BY <1>4 DEF Refused, Waiting, BaseInv, TypeOK, NoCall
    <2>3. /\ res'[c] = res[c] \/ res'[c].state = "BUSY"
          /\ \A d \in Clients : d # c => res'[d] = res[d]
        BY <1>4 DEF Refused, Waiting, BaseInv, TypeOK, Results
    <2>4. ASSUME NEW d \in Clients PROVE WaitsRight(d)' /\ FindsRight(d)'
        <3>1. WaitsRight(d) /\ FindsRight(d)
            BY ReplyParts
        <3>2. CASE d = c
            BY <3>1, <3>2, <2>1, <2>2, <2>3, <1>1 DEF WaitsRight, FindsRight
        <3>3. CASE d # c
            BY <3>1, <3>3, <2>1, <2>2, <2>3, <1>1 DEF WaitsRight, FindsRight
        <3> QED BY <3>2, <3>3
    <2>5. ASSUME NEW i \in Slots PROVE AskerWaits(i)'
        BY <1>3, <2>1, <2>2, <2>3 DEF AskerWaits, Unanswered
    <2>6. UidsUsed' /\ log'.answered \cap log'.failed = {}
        BY <2>1, <1>1, ReplyParts DEF UidsUsed
    <2> QED BY <2>4, <2>5, <2>6, ReplyParts
<1>5. CASE Taken(c, ret)
    <2>1. PICK w \in Pids, j \in 1 .. PoolNum, uuid \in 0 .. MaxCalls : Given(c, ret, w, uuid, j)
        BY <1>5 DEF Taken
    <2>2. last.uid < MaxCalls /\ last.uid \in Nat
        BY <1>0, CallRoom
    <2> DEFINE u == last.uid + 1
               s == FreeSlot
    <2>3. /\ s \in Slots /\ tasks[s].uid = 0
          /\ u \in Uids /\ u # 0 /\ last'.uid = u
          /\ tasks'[s] = [uid |-> u, client |-> c, ret |-> ret, handler |-> w, handler_uuid |-> uuid]
          /\ \A i \in Slots : i # s => tasks'[i] = tasks[i]
          /\ \A v \in Pids : v # w => worker'[v] = worker[v]
          /\ client'[c] = IF ret THEN [pc |-> "wait", uid |-> u, ret |-> TRUE] ELSE NoCall
          /\ \A d \in Clients : d # c => client'[d] = client[d] /\ res'[d] = res[d]
          /\ res'[c].state = "BUSY"
          /\ log'.asked = [log.asked EXCEPT ![u] = c]
        <3>1. /\ FreeSlot \in Slots /\ tasks[FreeSlot].uid = 0
              /\ last.uid + 1 \in Uids /\ last.uid + 1 # 0 /\ last'.uid = last.uid + 1
              /\ tasks'[FreeSlot] = [uid |-> last.uid + 1, client |-> c, ret |-> ret,
                                     handler |-> w, handler_uuid |-> uuid]
              /\ \A i \in Slots : i # FreeSlot => tasks'[i] = tasks[i]
              /\ worker'[w] = [uuid |-> uuid, core |-> Core[c], ipc_task |-> FreeSlot,
                               pc |-> "entry", uid |-> last.uid + 1, ret |-> ret]
              /\ \A v \in Pids : v # w => worker'[v] = worker[v]
              /\ client'[c] = IF ret THEN [pc |-> "wait", uid |-> last.uid + 1, ret |-> TRUE]
                              ELSE NoCall
              /\ \A d \in Clients : d # c => client'[d] = client[d] /\ res'[d] = res[d]
              /\ res'[c].state = "BUSY" /\ res'[c].uid = res[c].uid
              /\ log'.asked = [log.asked EXCEPT ![last.uid + 1] = c]
              /\ server' = server /\ waitq' = waitq /\ server.up
            <4> HIDE DEF u, s
            <4> QED BY <2>1, <2>2, <1>0, GivenFacts
        <3> QED BY <3>1, Zenon
    <2> HIDE DEF u, s
    <2>4. \A x \in Uids : x <= last.uid => x # u /\ x <= u
        BY <2>2 DEF u, Uids
    <2>5. log'.asked[u] = c /\ \A x \in Uids : x # u => log'.asked[x] = log.asked[x]
        BY <2>3 DEF BaseInv, TypeOK
    <2>6. log.answered \subseteq Uids /\ log.failed \subseteq Uids
        BY DEF BaseInv, TypeOK
    <2>7. u \notin log.answered /\ u \notin log.failed
        BY <2>4, <2>6, ReplyParts DEF UidsUsed
    <2>8. \A i \in Slots : tasks[i].uid # u
        <3>1. \A i \in Slots : tasks[i].uid # 0 => tasks[i].uid \in Uids /\ tasks[i].uid <= last.uid
            BY DEF BaseInv, TypeOK, Requests, StructInv, RequestInv
        <3> QED BY <3>1, <2>3, <2>4
    <2>9. ASSUME NEW d \in Clients PROVE WaitsRight(d)' /\ FindsRight(d)'
        <3>1. WaitsRight(d) /\ FindsRight(d)
            BY ReplyParts
        <3>2. CASE d = c
            <4>1. FindsRight(d)'
                BY <3>2, <2>3 DEF FindsRight
            <4>2. ASSUME ret
                  PROVE  WaitsRight(d)'
                <5>1. client'[c].uid = u
                    BY <4>2, <2>3
                <5>2. \A i \in Slots : tasks'[i].uid = u => tasks'[i].ret
                    BY <4>2, <2>3, <2>8
                <5> QED BY <5>1, <5>2, <3>2, <2>3, <2>5, <2>7, <2>2, <1>1 DEF WaitsRight, u
            <4>3. ASSUME ~ret PROVE WaitsRight(d)'
                BY <4>3, <3>2, <2>3 DEF WaitsRight, NoCall
            <4> QED BY <4>1, <4>2, <4>3
        <3>3. CASE d # c
            <4>1. client'[d] = client[d] /\ res'[d] = res[d]
                BY <3>3, <2>3
            <4>2. FindsRight(d)'
                BY <4>1, <3>1, <2>3, <2>4, <2>5 DEF FindsRight
            <4>3. ASSUME client[d].pc = "wait", NEW i \in Slots, tasks'[i].uid = client[d].uid
                  PROVE  tasks'[i].ret
                <5>1. client[d].uid \in Uids /\ client[d].uid <= last.uid
                    BY <4>3, <3>1 DEF WaitsRight
                <5>2. i # s
                    BY <5>1, <4>3, <2>3, <2>4
                <5> QED BY <5>2, <4>3, <3>1, <2>3 DEF WaitsRight
            <4>4. WaitsRight(d)'
                BY <4>1, <4>3, <3>1, <2>3, <2>4, <2>5, <1>1 DEF WaitsRight
            <4> QED BY <4>2, <4>4
        <3> QED BY <3>2, <3>3
    <2>10. ASSUME NEW i \in Slots PROVE AskerWaits(i)'
        <3> SUFFICES ASSUME Unanswered(i)'
                     PROVE  LET d == tasks'[i].client IN
                            client'[d].pc = "wait" /\ client'[d].uid = tasks'[i].uid /\ res'[d].state # "RETURN"
            BY DEF AskerWaits
        <3>1. CASE i = s
            BY <3>1, <2>3 DEF Unanswered
        <3>2. CASE i # s
            <4>1. tasks'[i] = tasks[i] /\ tasks[i].uid # 0 /\ tasks[i].ret
                BY <3>2, <2>3 DEF Unanswered
            <4>2. tasks[i].handler \in Pids /\ Bound(i, tasks[i].handler)
                BY <4>1, <1>0, BusyHandler
            <4>3. tasks[i].handler # w
                <5>1. worker[w].ipc_task = 0
                    BY <2>1 DEF Given
                <5> QED BY <5>1, <4>2, PoolAssumption DEF Bound, Slots
            <4>4. Unanswered(i)
                BY <4>1, <4>2, <4>3, <2>3 DEF Unanswered
            <4> QED BY <4>1, <4>4, <1>3, <2>3
        <3> QED BY <3>1, <3>2
    <2>11. UidsUsed' /\ log'.answered \cap log'.failed = {}
        BY <2>3, <2>4, <2>6, <1>1, ReplyParts DEF UidsUsed
    <2> QED BY <2>9, <2>10, <2>11, ReplyParts
<1> QED BY <1>1, <1>4, <1>5

-----------------------------------------------------------------------------
(* Every step.                                                              *)

\* A call that begins or is tried again.
LEMMA CallIs ==
    ASSUME BaseInv, NEW c \in Clients, Call(c) \/ RetryCall(c)
    PROVE  \E ret \in BOOLEAN, n \in {0, 1} : Calling(c, ret, n)
<1>1. CASE Call(c)
    <2>1. PICK ret \in Kinds : proc_ipc_call(c, ret, 1)
        BY <1>1 DEF Call
    <2>2. ret \in BOOLEAN
        BY PoolAssumption
    <2>3. Calling(c, ret, 1)
        BY <1>1, <2>1 DEF Call, Calling, Runnable
    <2> QED BY <2>2, <2>3
<1>2. CASE RetryCall(c)
    <2>1. client[c].ret \in BOOLEAN
        BY DEF BaseInv, TypeOK, Calls
    <2>2. Calling(c, client[c].ret, 0)
        BY <1>2 DEF RetryCall, Calling, Runnable
    <2> QED BY <2>1, <2>2
<1> QED BY <1>1, <1>2

\* The steps that are not calls.
OtherStep ==
    \/ \E c \in Clients : GetReply(c) \/ AwaitReply(c) \/ CallFails(c) \/ ClientExit(c)
    \/ \E w \in Pids : GetArg(w) \/ Work(w) \/ SetReturn(w) \/ Sleep(w) \/ Resume(w)
    \/ \E w \in Pids : End(w) \/ EndQuit(w)
    \/ \/ \E i \in Slots : Timeout(i)
       \/ \E w \in Pids : WorkerExit(w) \/ Funeral(w)
       \/ \E i \in 1 .. PoolNum : Shrink(i)
       \/ \E x \in Clients \cup Pids : StrayWake(x)
       \/ ServerExit \/ proc_ipc_disable \/ proc_ipc_enable

\* A step is one of these or a call.
LEMMA NextKinds ==
    ASSUME BaseInv, Next
    PROVE  \/ OtherStep
           \/ \E c \in Clients, ret \in BOOLEAN, n \in {0, 1} : Calling(c, ret, n)
<1>1. OtherStep \/ \E c \in Clients : Call(c) \/ RetryCall(c)
    BY DEF Next, OtherStep, ClientStep, WorkerStep
<1> QED BY <1>1, CallIs

\* Those drop requests and threads and take none.
LEMMA OtherDrops ==
    ASSUME BaseInv, ReplyInv, OtherStep
    PROVE  BaseInv' /\ Drops
<1>1. ASSUME NEW c \in Clients, GetReply(c) \/ AwaitReply(c) \/ CallFails(c) \/ ClientExit(c)
      PROVE  BaseInv' /\ Drops
    BY <1>1, ClientBase DEF ReplyInv
<1> QED BY <1>1, WorkerBase, EndBase, OtherBase DEF OtherStep

\* A handler that is through stays so until its worker parks.
LEMMA EndKept ==
    ASSUME TypeOK, OtherStep, NEW v \in Pids, worker[v].pc = "end"
    PROVE  worker'[v].pc = "end" \/ End(v)
<1> USE DEF TypeOK, Threads
<1>1. CASE worker' = worker
    BY <1>1
<1>2. ASSUME NEW w \in Pids, GetArg(w) \/ Work(w) PROVE worker'[v].pc = "end"
    BY <1>2 DEF GetArg, Work, At
<1>3. ASSUME NEW w \in Pids, SetReturn(w) PROVE worker'[v].pc = "end"
    BY <1>3 DEF SetReturn
<1>4. ASSUME NEW w \in Pids, End(w) PROVE worker'[v].pc = "end" \/ End(v)
    <2>1. worker' = [worker EXCEPT ![w] = [worker[w] EXCEPT !.ipc_task = 0, !.pc = "entry",
                                                       !.uid = 0]]
        BY <1>4 DEF End
    <2>2. v # w => worker'[v] = worker[v]
        BY <2>1
    <2> QED BY <1>4, <2>2
<1>5. ASSUME NEW w \in Pids, EndQuit(w) \/ WorkerExit(w) PROVE worker'[v].pc = "end"
    <2>1. worker' = [worker EXCEPT ![w] = Dead(w)]
        BY <1>5 DEF EndQuit, WorkerExit
    <2>2. Dead(w).pc = "end"
        BY DeadFacts
    <2> QED BY <2>1, <2>2
<1>6. ASSUME NEW i \in Slots, Timeout(i) PROVE worker'[v].pc = "end"
    BY <1>6 DEF Timeout, Detached
<1>7. ASSUME ServerExit PROVE worker'[v].pc = "end"
    <2>1. worker' = [w \in Pids |-> IF Live(w) THEN Dead(w) ELSE worker[w]]
        BY <1>7 DEF ServerExit
    <2>2. Dead(v).pc = "end"
        BY DeadFacts
    <2> QED BY <2>1, <2>2
<1>8. \/ worker' = worker \/ ServerExit \/ \E i \in Slots : Timeout(i)
      \/ \E w \in Pids : \/ GetArg(w) \/ Work(w) \/ SetReturn(w) \/ End(w) \/ EndQuit(w)
                         \/ WorkerExit(w)
    BY DEF OtherStep, GetReply, AwaitReply, CallFails, ClientExit, Sleep, Resume, Funeral,
           Shrink, StrayWake, proc_ipc_disable, proc_ipc_enable
<1> QED BY <1>1, <1>2, <1>3, <1>4, <1>5, <1>6, <1>7, <1>8

\* ... which closes its request.
LEMMA OtherFinished ==
    ASSUME BaseInv, ReplyInv, OtherStep
    PROVE  Finished
<1>0. TypeOK /\ StructInv /\ Drops
    BY OtherDrops DEF BaseInv
<1> SUFFICES ASSUME NEW i \in Slots, tasks'[i].uid # 0, worker[tasks[i].handler].pc = "end"
             PROVE  worker'[tasks[i].handler].pc = "end"
    BY DEF Finished
<1> DEFINE v == tasks[i].handler
<1>1. v \in Pids /\ Bound(i, v)
    BY <1>0, KeptRequest
<1>2. ASSUME End(v) PROVE FALSE
    <2>1. tasks'[i] = IF i \in OwnRequest(v) THEN NoRequest ELSE tasks[i]
        BY <1>1, <1>2, <1>0, ParkedFacts DEF End
    <2>2. i \in OwnRequest(v)
        BY <1>1, <1>0, OwnFacts, PoolAssumption DEF Bound, Slots
    <2> QED BY <2>1, <2>2 DEF NoRequest
<1> QED BY <1>0, <1>1, <1>2, EndKept

\* Replies are kept.
LEMMA OtherReply ==
    ASSUME BaseInv, ReplyInv, OtherStep
    PROVE  ReplyInv'
<1>0. TypeOK /\ StructInv /\ Drops /\ Finished /\ last' = last
    BY OtherDrops, OtherFinished DEF BaseInv, Drops
<1>1. CASE UNCHANGED <<client, res, log>>
    BY <1>0, <1>1, ReplyDrop
<1>2. ASSUME NEW c \in Clients, GetReply(c) \/ CallFails(c) PROVE ReplyInv'
    BY <1>2, GetReplyReply, CallFailsReply
<1>3. ASSUME NEW w \in Pids, SetReturn(w) PROVE ReplyInv'
    BY <1>0, <1>3, SetReturnReply
<1>4. ASSUME NEW i \in Slots, Timeout(i) PROVE ReplyInv'
    <2>1. proc_ipc_task_abort(i, task) /\ tasks[i].uid # 0 /\ client' = client
        BY <1>4 DEF Timeout
    <2> QED BY <2>1, <1>0, AbortReply
<1>5. ASSUME NEW w \in Pids, WorkerExit(w) PROVE ReplyInv'
    <2> DEFINE i == worker[w].ipc_task
               t == [task EXCEPT ![w] = proc_unready(@, "ZOMBIE")]
    <2>1. client' = client
        BY <1>5 DEF WorkerExit
    <2>2. CASE i = 0
        <3>1. UNCHANGED <<res, log>>
            BY <1>5, <2>2 DEF WorkerExit
        <3> QED BY <3>1, <2>1, <1>1
    <2>3. CASE i # 0
        <3>1. proc_ipc_task_abort(i, t)
            BY <1>5, <2>3 DEF WorkerExit
        <3>2. i \in Slots /\ tasks[i].uid # 0
            BY <2>3, <1>0, ServerThread
        <3> HIDE DEF i, t
        <3> QED BY <3>1, <3>2, <2>1, <1>0, AbortReply
    <2> QED BY <2>2, <2>3
<1>6. \/ UNCHANGED <<client, res, log>> \/ \E i \in Slots : Timeout(i)
      \/ \E c \in Clients : GetReply(c) \/ CallFails(c)
      \/ \E w \in Pids : SetReturn(w) \/ WorkerExit(w)
    BY DEF OtherStep, AwaitReply, ClientExit, GetArg, Work, Sleep, Resume, End, EndQuit,
           Funeral, Shrink, StrayWake, ServerExit, proc_ipc_disable, proc_ipc_enable
<1> QED BY <1>1, <1>2, <1>3, <1>4, <1>5, <1>6

-----------------------------------------------------------------------------
(* Clients asleep.                                                          *)

\* What is shown of each client.
Attended(c) ==
    task[c].state = "BLOCK" =>
        /\ server.up /\ client[c].pc \in {"call", "wait"}
        /\ client[c].pc = "wait" => Pending(c)
        /\ client[c].pc = "call" => c \in Range(waitq)

\* The parts of the invariant.
LEMMA AttendParts ==
    /\ SleepInv /\ CallerAttended <=> \A c \in Clients : Attended(c)
    /\ SleepInv' /\ CallerAttended' <=> \A c \in Clients : Attended(c)'
BY DEF SleepInv, CallerAttended, Attended

\* A client that is asleep after the step was so before, in the same call, and
\* keeps its request or its place.
StaysAsleep(c) ==
    task'[c].state = "BLOCK" =>
        /\ task[c].state = "BLOCK" /\ client'[c] = client[c] /\ server'.up = server.up
        /\ c \in Range(waitq) => c \in Range(waitq')
        /\ client[c].pc = "wait" =>
              \A i \in Slots : tasks[i].uid = client[c].uid /\ tasks[i].client = c
                               => tasks'[i] = tasks[i]

\* Such clients are attended to as before.
LEMMA AsleepAttended ==
    ASSUME NEW c \in Clients, Attended(c), StaysAsleep(c)
    PROVE  Attended(c)'
BY DEF Attended, StaysAsleep, Pending

\* The slots in which the request of a waiting client may lie ask for a reply.
LEMMA WaitedFor ==
    ASSUME ReplyInv, NEW c \in Clients, client[c].pc = "wait", NEW i \in Slots,
           tasks[i].uid = client[c].uid
    PROVE  tasks[i].ret /\ tasks[i].uid # 0
<1>1. WaitsRight(c)
    BY ReplyParts
<1> QED BY <1>1 DEF WaitsRight, Uids

\* The end of a request wakes who waits for it.
LEMMA EndAsleep ==
    ASSUME BaseInv, ReplyInv, NEW w \in Pids, End(w) \/ EndQuit(w), NEW c \in Clients
    PROVE  StaysAsleep(c)
<1>0. TaskOK /\ TypeOK /\ StructInv
    BY TypeSplit DEF BaseInv
<1>1. UNCHANGED <<client, server>>
    BY DEF End, EndQuit
<1>2. /\ Loosens(task, waitq, task', waitq')
      /\ tasks' = [i \in Slots |-> IF i \in OwnRequest(w) THEN NoRequest ELSE tasks[i]]
      /\ \A i \in OwnRequest(w) : tasks[i].ret /\ tasks[i].client \in Clients =>
            task'[tasks[i].client].state # "BLOCK"
    <2>1. CASE End(w)
        <3>1. task[w].state # "ZOMBIE"
            BY <2>1 DEF End, At, Runnable
        <3> QED BY <3>1, <2>1, <1>0, EndEffect
    <2>2. CASE EndQuit(w)
        BY <2>2, <1>0, QuitEffect
    <2> QED BY <2>1, <2>2
<1>3. task'[c].state = "BLOCK" => task[c].state = "BLOCK" /\ (c \in Range(waitq) => c \in Range(waitq'))
    BY <1>2 DEF Loosens
<1>4. ASSUME task'[c].state = "BLOCK", client[c].pc = "wait", NEW i \in Slots,
             tasks[i].uid = client[c].uid, tasks[i].client = c
      PROVE  tasks'[i] = tasks[i]
    BY <1>4, <1>2, WaitedFor
<1> QED BY <1>1, <1>3, <1>4 DEF StaysAsleep

\* So does an abort.
LEMMA AbortAsleep ==
    ASSUME BaseInv, ReplyInv, NEW c \in Clients,
           (\E i \in Slots : Timeout(i)) \/ \E w \in Pids : WorkerExit(w)
    PROVE  StaysAsleep(c)
<1>0. TaskOK /\ TypeOK /\ StructInv
    BY TypeSplit DEF BaseInv
<1>1. UNCHANGED <<client, server>> /\ Loosens(task, waitq, task', waitq')
    BY <1>0, TimeoutEffect, ExitEffect DEF Timeout, WorkerExit
<1>2. task'[c].state = "BLOCK" => task[c].state = "BLOCK" /\ (c \in Range(waitq) => c \in Range(waitq'))
    BY <1>1 DEF Loosens
<1>3. \/ tasks' = tasks
      \/ \E i \in Slots : /\ tasks' = [tasks EXCEPT ![i] = NoRequest]
                          /\ tasks[i].client \in Clients => task'[tasks[i].client].state # "BLOCK"
    <2>1. ASSUME NEW i \in Slots, Timeout(i)
          PROVE  /\ tasks' = [tasks EXCEPT ![i] = NoRequest]
                 /\ tasks[i].client \in Clients => task'[tasks[i].client].state # "BLOCK"
        BY <2>1, <1>0, TimeoutEffect DEF Timeout, proc_ipc_task_abort
    <2>2. ASSUME NEW w \in Pids, WorkerExit(w), worker[w].ipc_task # 0
          PROVE  LET i == worker[w].ipc_task IN
                 /\ i \in Slots /\ tasks' = [tasks EXCEPT ![i] = NoRequest]
                 /\ tasks[i].client \in Clients => task'[tasks[i].client].state # "BLOCK"
        <3>1. worker[w].ipc_task \in Slots
            BY <2>2, <1>0, ServerThread
        <3> QED BY <3>1, <2>2, <1>0, ExitEffect DEF WorkerExit, proc_ipc_task_abort
    <2>3. ASSUME NEW w \in Pids, WorkerExit(w), worker[w].ipc_task = 0
          PROVE  tasks' = tasks
        BY <2>3 DEF WorkerExit
    <2> QED BY <2>1, <2>2, <2>3
<1>4. ASSUME task'[c].state = "BLOCK", client[c].pc = "wait", NEW i \in Slots,
             tasks[i].uid = client[c].uid, tasks[i].client = c
      PROVE  tasks'[i] = tasks[i]
    BY <1>4, <1>3, <1>0 DEF TypeOK
<1> QED BY <1>1, <1>2, <1>4 DEF StaysAsleep

\* The death of the server wakes everybody.
LEMMA ServerAsleep ==
    ASSUME BaseInv, ReplyInv, ServerExit, NEW c \in Clients, Attended(c)
    PROVE  StaysAsleep(c)
<1>0. TaskOK /\ TypeOK
    BY TypeSplit DEF BaseInv
<1>1. /\ Loosens(task, waitq, task', waitq')
      /\ task'[c].state = "BLOCK" => c \notin ReplyWaiters /\ c \notin Range(waitq)
    BY <1>0, ServerEffect
<1> SUFFICES ASSUME task'[c].state = "BLOCK" PROVE FALSE
    BY DEF StaysAsleep
<1>2. task[c].state = "BLOCK"
    BY <1>1 DEF Loosens
<1>3. client[c].pc = "wait" /\ Pending(c)
    BY <1>1, <1>2 DEF Attended
<1>4. PICK i \in Slots : tasks[i].uid = client[c].uid /\ tasks[i].client = c
    BY <1>3 DEF Pending
<1>5. tasks[i].ret /\ tasks[i].uid # 0
    BY <1>3, <1>4, WaitedFor
<1>6. c \in ClientOf(i)
    BY <1>2, <1>4 DEF ClientOf, Live, proc_get
<1>7. i \in {j \in Busy(tasks) : tasks[j].ret}
    BY <1>5 DEF Busy
<1>8. c \in ReplyWaiters
    BY <1>6, <1>7 DEF ReplyWaiters
<1> QED BY <1>1, <1>8

\* The other steps in which nobody goes to sleep.
LEMMA QuietAsleep ==
    ASSUME BaseInv, NEW c \in Clients, OtherStep,
           ~ServerExit, ~(\E d \in Clients : AwaitReply(d)),
           ~(\E i \in Slots : Timeout(i)),
           ~(\E w \in Pids : End(w) \/ EndQuit(w) \/ WorkerExit(w))
    PROVE  StaysAsleep(c)
<1>0. TaskOK /\ TypeOK
    BY TypeSplit DEF BaseInv
<1>1. ASSUME NEW d \in Clients, GetReply(d) \/ CallFails(d) PROVE StaysAsleep(c)
    <2>1. /\ UNCHANGED <<task, tasks, waitq, server>> /\ task[d].state # "BLOCK"
          /\ client' = [client EXCEPT ![d] = NoCall]
        BY <1>1 DEF GetReply, CallFails, Runnable
    <2>2. c # d => client'[c] = client[c]
        BY <2>1, <1>0 DEF TypeOK
    <2> QED BY <2>1, <2>2 DEF StaysAsleep
<1>2. ASSUME NEW d \in Clients, ClientExit(d) PROVE StaysAsleep(c)
    <2>1. /\ task'[d].state = "ZOMBIE" /\ \A x \in Clients : x # d => task'[x] = task[x]
          /\ \A x \in Range(waitq) : x # d => x \in Range(waitq')
        BY <1>2, <1>0, ClientEffect
    <2>2. UNCHANGED <<client, server, tasks>>
        BY <1>2 DEF ClientExit
    <2> QED BY <2>1, <2>2 DEF StaysAsleep
<1>3. CASE /\ UNCHANGED <<client, tasks>> /\ server'.up = server.up
           /\ Loosens(task, waitq, task', waitq')
    BY <1>3 DEF StaysAsleep, Loosens
<1>4. CASE /\ UNCHANGED <<client, tasks, waitq>> /\ server'.up = server.up
           /\ task'[c].state = task[c].state
    BY <1>4 DEF StaysAsleep
<1>5. ASSUME NEW w \in Pids, GetArg(w) \/ Work(w) \/ SetReturn(w)
      PROVE  StaysAsleep(c)
    BY <1>5, <1>4 DEF GetArg, Work, SetReturn
<1>6. ASSUME NEW w \in Pids, Sleep(w) PROVE StaysAsleep(c)
    <2>1. /\ task' = proc_block(w) /\ task[w].state # "ZOMBIE"
          /\ UNCHANGED <<client, tasks, waitq, server>>
        BY <1>6 DEF Sleep, At, Runnable
    <2>2. c # w /\ c \in Clients \cup Pids /\ w \in Clients \cup Pids
        BY PoolAssumption
    <2>3. task'[c] = task[c]
        BY <2>1, <2>2, <1>0, ThreadSleep
    <2> QED BY <2>1, <2>3, <1>4
<1>7. ASSUME NEW w \in Pids, Resume(w) PROVE StaysAsleep(c)
    <2>1. /\ task' = proc_wakeup(task, {w})
          /\ UNCHANGED <<client, tasks, waitq, server>>
        BY <1>7 DEF Resume
    <2>2. Loosens(task, waitq, task', waitq')
        BY <2>1, <1>0, ThreadWake
    <2> QED BY <2>1, <2>2, <1>3
<1>8. ASSUME NEW i \in 1 .. PoolNum, Shrink(i) PROVE StaysAsleep(c)
    <2>1. /\ task' = proc_wakeup(task, {pool[i].pid}) /\ pool[i].pid # NoProc
          /\ UNCHANGED <<client, tasks, waitq, server>>
        BY <1>8 DEF Shrink, Idle, Member
    <2>2. pool[i].pid \in Pids
        BY <2>1, <1>0 DEF TypeOK, Members
    <2>3. Loosens(task, waitq, task', waitq')
        BY <2>1, <2>2, <1>0, ThreadWake
    <2> QED BY <2>1, <2>3, <1>3
<1>9. ASSUME NEW x \in Clients \cup Pids, StrayWake(x) PROVE StaysAsleep(c)
    <2>1. UNCHANGED <<client, tasks, server>>
        BY <1>9 DEF StrayWake
    <2> QED BY <2>1, <1>9, <1>0, <1>3, StrayEffect
<1>10. ASSUME (\E w \in Pids : Funeral(w)) \/ proc_ipc_enable PROVE StaysAsleep(c)
    <2>1. /\ task' = proc_wakeup(task, Admitted(task, waitq, tasks))
          /\ waitq' = StillQueued(task, waitq, tasks) /\ UNCHANGED <<client, tasks>>
        BY <1>10 DEF Funeral, proc_ipc_enable
    <2>2. server'.up = server.up
        BY <1>10, <1>0 DEF Funeral, proc_ipc_enable, TypeOK
    <2>3. Loosens(task, waitq, task', waitq')
        BY <2>1, <1>0, AdmitEffect
    <2> QED BY <2>1, <2>2, <2>3, <1>3
<1>11. ASSUME proc_ipc_disable PROVE StaysAsleep(c)
    BY <1>11, <1>0, <1>4 DEF proc_ipc_disable, TypeOK
<1> QED BY <1>1, <1>2, <1>5, <1>6, <1>7, <1>8, <1>9, <1>10, <1>11 DEF OtherStep

\* A step that is not a call leaves clients attended to.
LEMMA OtherAttended ==
    ASSUME BaseInv, ReplyInv, OtherStep, NEW c \in Clients, Attended(c)
    PROVE  Attended(c)'
<1>0. TaskOK
    BY TypeSplit DEF BaseInv
<1>1. ASSUME NEW d \in Clients, AwaitReply(d) PROVE Attended(c)'
    <2>1. /\ task' = proc_block(d) /\ task[d].state # "ZOMBIE" /\ client[d].pc = "wait" /\ Pending(d)
          /\ UNCHANGED <<client, server, tasks, waitq>>
        BY <1>1 DEF AwaitReply, Runnable
    <2>2. \A x \in Clients : x # d => task'[x] = task[x]
        BY <2>1, <1>0, ThreadSleep
    <2>3. CASE c = d
        BY <2>1, <2>3 DEF Attended, Pending
    <2>4. CASE c # d
        <3>1. StaysAsleep(c)
            BY <2>1, <2>2, <2>4 DEF StaysAsleep
        <3> QED BY <3>1, AsleepAttended
    <2> QED BY <2>3, <2>4
<1>2. ASSUME NEW w \in Pids, End(w) \/ EndQuit(w) PROVE StaysAsleep(c)
    BY <1>2, EndAsleep
<1>3. ASSUME (\E i \in Slots : Timeout(i)) \/ \E w \in Pids : WorkerExit(w) PROVE StaysAsleep(c)
    BY <1>3, AbortAsleep
<1>4. ASSUME ServerExit PROVE StaysAsleep(c)
    BY <1>4, ServerAsleep
<1>5. StaysAsleep(c) \/ \E d \in Clients : AwaitReply(d)
    BY <1>2, <1>3, <1>4, QuietAsleep
<1> QED BY <1>1, <1>5, AsleepAttended

\* Nor does a call.
LEMMA CallAttended ==
    ASSUME BaseInv, ReplyInv, NEW c \in Clients, NEW ret \in BOOLEAN,
           NEW n \in {0, 1}, Calling(c, ret, n), NEW d \in Clients, Attended(d)
    PROVE  Attended(d)'
<1>0. TaskOK /\ TypeOK /\ CountInv /\ StructInv /\ n \in Nat
    BY TypeSplit DEF BaseInv
<1>1. Refused(c) \/ Waiting(c, ret) \/ Taken(c, ret)
    BY <1>0, CallKinds
<1>2. task[c].state # "BLOCK"
    BY DEF Calling
<1>3. CASE Refused(c)
    <2>1. UNCHANGED <<task, server, tasks, waitq>> /\ (d # c => client'[d] = client[d])
        BY <1>3, <1>0 DEF Refused, TypeOK
    <2>2. StaysAsleep(d)
        BY <2>1, <1>2 DEF StaysAsleep
    <2> QED BY <2>2, AsleepAttended
<1>4. CASE Waiting(c, ret)
    <2>1. /\ server.up /\ UNCHANGED <<server, tasks>> /\ client'[c].pc = "call"
          /\ d # c => client'[d] = client[d]
        BY <1>4, <1>0 DEF Waiting, TypeOK
    <2>2. /\ task'[c].state = "BLOCK" => c \in Range(waitq')
          /\ d # c => task'[d] = task[d]
          /\ Range(waitq) \subseteq Range(waitq')
        <3>1. CASE Wait(c, ret)
            BY <3>1, <1>0, WaitEffect
        <3>2. CASE UNCHANGED <<task, waitq>>
            BY <3>2, <1>2
        <3> QED BY <3>1, <3>2, <1>4 DEF Waiting
    <2>3. CASE d = c
        BY <2>1, <2>2, <2>3 DEF Attended
    <2>4. CASE d # c
        <3>1. StaysAsleep(d)
            BY <2>1, <2>2, <2>4 DEF StaysAsleep
        <3> QED BY <3>1, AsleepAttended
    <2> QED BY <2>3, <2>4
<1>5. CASE Taken(c, ret)
    <2>1. PICK w \in Pids, j \in 1 .. PoolNum, uuid \in 0 .. MaxCalls : Given(c, ret, w, uuid, j)
        BY <1>5 DEF Taken
    <2>2. last.uid < MaxCalls /\ last.uid \in Nat
        BY <1>0, CallRoom
    <2>3. tasks[FreeSlot].uid = 0
        BY <2>1, <2>2, <1>0, GivenFacts
    <2>4. \A i \in Slots : i # FreeSlot => tasks'[i] = tasks[i]
        BY <2>1, <2>2, <1>0, GivenFacts
    <2>5. \A x \in Clients : x # c => client'[x] = client[x] /\ res'[x] = res[x]
        BY <2>1, <2>2, <1>0, GivenFacts, ZenonT(30)
    <2>6. UNCHANGED <<server, waitq>>
        BY <2>1 DEF Given, Bind
    <2>7. task'[d].state = task[d].state
        BY <1>5 DEF Taken
    <2>8. client[d].pc = "wait" => \A i \in Slots : tasks[i].uid = client[d].uid => tasks'[i] = tasks[i]
        BY <2>3, <2>4, WaitedFor
    <2>9. StaysAsleep(d)
        BY <2>5, <2>6, <2>7, <2>8, <1>2 DEF StaysAsleep
    <2> QED BY <2>9, AsleepAttended
<1> QED BY <1>1, <1>3, <1>4, <1>5

-----------------------------------------------------------------------------
(* Waiters are not forgotten.                                               *)

\* Without a thread no request is in a slot.
LEMMA NoThreadNoRequest ==
    ASSUME TypeOK, StructInv, threads = {}
    PROVE  /\ Busy(tasks) = {} /\ \A i \in Slots : tasks[i].uid = 0
           /\ \A i \in 1 .. PoolNum : ~Member(i)
<1>1. \A i \in Slots : tasks[i].uid = 0
    BY DEF StructInv, BoundInv, Bound
<1>2. \A w \in Pids : ~Live(w)
    BY DEF StructInv, ThreadInv
<1>3. \A i \in 1 .. PoolNum : ~Member(i)
    BY <1>2 DEF Member, TypeOK, Members
<1> QED BY <1>1, <1>3 DEF Busy

\* ... so the pool may grow.
LEMMA NoThreadGrows ==
    ASSUME TypeOK, StructInv, threads = {}, NEW core
    PROVE  MayGrow(core)
<1>1. \A i \in 1 .. PoolNum : ~Member(i)
    BY NoThreadNoRequest
<1>2. core_member(core) = {} /\ {i \in 1 .. PoolNum : Member(i)} = {}
    BY <1>1 DEF core_member
<1>3. Cardinality({}) = 0
    BY FS_EmptySet
<1>4. PoolNum > 0 /\ Stacks > 0
    BY PoolAssumption
<1> QED BY <1>2, <1>3, <1>4 DEF MayGrow

\* Everybody lives, somebody is asleep in the queue and there is no thread.
Stranded == /\ \A c \in Clients : Live(c)
            /\ \E c \in Range(waitq) : task[c].state = "BLOCK"
            /\ ~server.disabled /\ threads = {} /\ ~StaysShort

\* A client on its way.
OnItsWay(c) == Runnable(c) /\ client[c].pc = "call"

\* The parts of the invariant.
LEMMA ForgottenParts ==
    /\ NoneForgotten <=> (Stranded => \E c \in Clients : OnItsWay(c))
    /\ NoneForgotten' <=> (Stranded' => \E c \in Clients : OnItsWay(c)')
BY DEF NoneForgotten, NoForgottenWaiter, NeverForgotten, Stranded, StaysShort, OnItsWay, Live,
       Runnable

\* Steps that only wake clients and change neither threads nor the server.
LEMMA SameStranded ==
    ASSUME TaskOK, Stranded', Loosens(task, waitq, task', waitq'), threads' = threads,
           server'.disabled = server.disabled, server'.multi_core = server.multi_core,
           log'.short = log.short
    PROVE  Stranded
<1>1. Range(waitq) \subseteq Clients
    BY DEF TaskOK, Range
<1>2. \A c \in Clients : Live(c)
    BY DEF Stranded, Live, proc_get, Loosens
<1>3. PICK c \in Range(waitq') : task'[c].state = "BLOCK"
    BY DEF Stranded
<1>4. c \in Range(waitq) /\ c \in Clients /\ task[c].state = "BLOCK"
    BY <1>1, <1>3 DEF Loosens
<1> QED BY <1>2, <1>4 DEF Stranded, StaysShort

\* Who is on its way stays so.
LEMMA StillOnItsWay ==
    ASSUME Loosens(task, waitq, task', waitq'), NEW c \in Clients, OnItsWay(c),
           client'[c] = client[c]
    PROVE  OnItsWay(c)'
BY DEF OnItsWay, Runnable, Loosens

\* Nothing happens to clients and queue.
LEMMA LoosensNone ==
    ASSUME TaskOK, TaskOK', waitq' = waitq, \A c \in Clients : task'[c].state = task[c].state
    PROVE  Loosens(task, waitq, task', waitq')
BY DEF TaskOK, Loosens

\* The steps that do nothing else to clients and queue.
LEMMA OtherLoosens ==
    ASSUME BaseInv, ReplyInv, OtherStep,
           ~(\E d \in Clients : AwaitReply(d) \/ ClientExit(d))
    PROVE  Loosens(task, waitq, task', waitq')
<1>0. TaskOK /\ TypeOK
    BY TypeSplit DEF BaseInv
<1>1. TaskOK'
    BY OtherDrops, TypeSplit DEF BaseInv, TypeOK, TaskOK, TaskMap
<1>2. CASE UNCHANGED <<task, waitq>>
    BY <1>0, <1>1, <1>2, LoosensNone
<1>3. ASSUME NEW w \in Pids, Sleep(w) PROVE Loosens(task, waitq, task', waitq')
    <2>1. task' = proc_block(w) /\ task[w].state # "ZOMBIE" /\ waitq' = waitq
        BY <1>3 DEF Sleep, At, Runnable
    <2>2. \A y \in Clients \cup Pids : y # w => task'[y] = task[y]
        BY <2>1, <1>0, ThreadSleep
    <2>3. \A c \in Clients : task'[c].state = task[c].state
        BY <2>2, PoolAssumption
    <2> QED BY <2>1, <2>3, <1>0, <1>1, LoosensNone
<1>4. ASSUME NEW w \in Pids, Resume(w) PROVE Loosens(task, waitq, task', waitq')
    BY <1>4, <1>0, ThreadWake DEF Resume
<1>5. ASSUME NEW i \in 1 .. PoolNum, Shrink(i) PROVE Loosens(task, waitq, task', waitq')
    <2>1. task' = proc_wakeup(task, {pool[i].pid}) /\ pool[i].pid # NoProc /\ waitq' = waitq
        BY <1>5 DEF Shrink, Idle, Member
    <2>2. pool[i].pid \in Pids
        BY <2>1, <1>0 DEF TypeOK, Members
    <2> QED BY <2>1, <2>2, <1>0, ThreadWake
<1>6. ASSUME NEW w \in Pids, End(w) PROVE Loosens(task, waitq, task', waitq')
    <2>1. task[w].state # "ZOMBIE"
        BY <1>6 DEF End, At, Runnable
    <2> QED BY <2>1, <1>6, <1>0, EndEffect
<1>7. ASSUME (\E w \in Pids : Funeral(w)) \/ proc_ipc_enable
      PROVE  Loosens(task, waitq, task', waitq')
    BY <1>7, <1>0, AdmitEffect DEF Funeral, proc_ipc_enable
<1>8. \/ UNCHANGED <<task, waitq>> \/ proc_ipc_enable
      \/ \E w \in Pids : \/ Sleep(w) \/ Resume(w) \/ End(w) \/ EndQuit(w) \/ WorkerExit(w)
                         \/ Funeral(w)
      \/ \E i \in Slots : Timeout(i)
      \/ \E i \in 1 .. PoolNum : Shrink(i)
      \/ \E x \in Clients \cup Pids : StrayWake(x)
      \/ ServerExit
    BY DEF OtherStep, GetReply, CallFails, GetArg, Work, SetReturn, proc_ipc_disable
<1> QED BY <1>0, <1>2, <1>3, <1>4, <1>5, <1>6, <1>7, <1>8, QuitEffect, ExitEffect,
           TimeoutEffect, StrayEffect, ServerEffect

\* Only a call tries to create a worker.
LEMMA OtherShort ==
    ASSUME TypeOK, OtherStep
    PROVE  log'.short = log.short
<1>1. \/ log' = log
      \/ \E S : log' = [log EXCEPT !.answered = S] \/ log' = [log EXCEPT !.failed = S]
    BY DEF OtherStep, GetReply, AwaitReply, CallFails, ClientExit, GetArg, Work, SetReturn, Sleep,
           Resume, End, EndQuit, Timeout, WorkerExit, Funeral, Shrink, StrayWake, ServerExit,
           proc_ipc_disable, proc_ipc_enable, proc_ipc_task_abort
<1> QED BY <1>1 DEF TypeOK

\* A burial and an enabling let somebody in.
LEMMA AdmitRemembers ==
    ASSUME BaseInv, BaseInv', ReplyInv, \A c \in Clients : Attended(c), Stranded',
           task' = proc_wakeup(task, Admitted(task, waitq, tasks)),
           waitq' = StillQueued(task, waitq, tasks), UNCHANGED <<client, tasks>>
    PROVE  \E c \in Clients : OnItsWay(c)'
<1>0. TaskOK /\ TypeOK
    BY TypeSplit DEF BaseInv
<1>1. \A i \in Slots : tasks[i].uid = 0
    BY DEF BaseInv, StructInv, BoundInv, Bound, Stranded
<1>2. Busy(tasks) = {}
    BY <1>1 DEF Busy
<1>3. /\ Loosens(task, waitq, task', waitq')
      /\ Busy(tasks) = {} /\ (\E c \in Range(waitq) : task[c].state = "BLOCK") =>
            \E c \in Clients : task[c].state = "BLOCK" /\ task'[c].state = "READY"
    BY <1>0, AdmitEffect
<1>4. \E c \in Range(waitq) : task[c].state = "BLOCK"
    <2>1. PICK c \in Range(waitq') : task'[c].state = "BLOCK"
        BY DEF Stranded
    <2>2. Range(waitq) \subseteq Clients
        BY <1>0 DEF TaskOK, Range
    <2>3. c \in Range(waitq) /\ c \in Clients
        BY <2>1, <2>2, <1>3 DEF Loosens
    <2> QED BY <2>1, <2>3, <1>3 DEF Loosens
<1>5. PICK c \in Clients : task[c].state = "BLOCK" /\ task'[c].state = "READY"
    BY <1>2, <1>3, <1>4
<1>6. client[c].pc # "wait"
    <2> SUFFICES ASSUME client[c].pc = "wait" PROVE FALSE
        OBVIOUS
    <2>1. PICK i \in Slots : tasks[i].uid = client[c].uid
        BY <1>5 DEF Attended, Pending
    <2> QED BY <2>1, <1>1, WaitedFor
<1>7. OnItsWay(c)'
    BY <1>5, <1>6 DEF Attended, OnItsWay, Runnable
<1> QED BY <1>7

\* A step that is not a call forgets nobody.
LEMMA OtherRemembers ==
    ASSUME BaseInv, ReplyInv, OtherStep, \A c \in Clients : Attended(c), NoneForgotten
    PROVE  NoneForgotten'
<1>0. TaskOK /\ TypeOK /\ StructInv /\ BaseInv'
    BY TypeSplit, OtherDrops DEF BaseInv
<1> SUFFICES ASSUME Stranded' PROVE \E c \in Clients : OnItsWay(c)'
    BY ForgottenParts
<1>1. ASSUME NEW d \in Clients, AwaitReply(d) PROVE FALSE
    <2>1. client[d].pc = "wait" /\ Pending(d) /\ threads' = threads
        BY <1>1 DEF AwaitReply
    <2>2. PICK i \in Slots : tasks[i].uid = client[d].uid
        BY <2>1 DEF Pending
    <2>3. tasks[i].uid # 0
        BY <2>1, <2>2, WaitedFor
    <2> QED BY <2>1, <2>3, <1>0, BusyHandler DEF Bound, Stranded
<1>2. ASSUME NEW d \in Clients, ClientExit(d) PROVE FALSE
    <2>1. task'[d].state = "ZOMBIE"
        BY <1>2, <1>0, ClientEffect
    <2> QED BY <2>1 DEF Stranded, Live, proc_get
<1>3. ASSUME proc_ipc_disable PROVE FALSE
    BY <1>3, <1>0 DEF proc_ipc_disable, TypeOK, Stranded
<1>4. ASSUME (\E w \in Pids : Funeral(w)) \/ proc_ipc_enable
      PROVE  \E c \in Clients : OnItsWay(c)'
    <2>1. /\ task' = proc_wakeup(task, Admitted(task, waitq, tasks))
          /\ waitq' = StillQueued(task, waitq, tasks) /\ UNCHANGED <<client, tasks>>
        BY <1>4 DEF Funeral, proc_ipc_enable
    <2> QED BY <2>1, <1>0, AdmitRemembers
<1>5. ASSUME ~(\E d \in Clients : AwaitReply(d) \/ ClientExit(d)), ~proc_ipc_disable,
             ~proc_ipc_enable, ~(\E w \in Pids : Funeral(w))
      PROVE  \E c \in Clients : OnItsWay(c)'
    <2>1. Loosens(task, waitq, task', waitq')
        BY <1>5, OtherLoosens
    <2>2. threads' = threads
        BY <1>5 DEF OtherStep, GetReply, CallFails, GetArg, Work, SetReturn, Sleep, Resume,
                    End, EndQuit, Timeout, WorkerExit, Shrink, StrayWake, ServerExit
    <2>3. server'.disabled = server.disabled
        <3>1. server' = server \/ ServerExit
            BY <1>5 DEF OtherStep, GetReply, CallFails, GetArg, Work, SetReturn, Sleep, Resume,
                        End, EndQuit, Timeout, WorkerExit, Shrink, StrayWake
        <3>2. ASSUME ServerExit PROVE server'.disabled = server.disabled
            BY <3>2, <1>0 DEF ServerExit, TypeOK
        <3> QED BY <3>1, <3>2
    <2>4. PICK c \in Clients : OnItsWay(c)
        <3>1. server'.multi_core = server.multi_core
            BY OtherDrops DEF Drops
        <3>2. log'.short = log.short
            BY <1>0, OtherShort
        <3> QED BY <2>1, <2>2, <2>3, <3>1, <3>2, <1>0, SameStranded, ForgottenParts
    <2>5. client'[c] = client[c]
        <3>1. \/ client' = client
              \/ \E d \in Clients : client[d].pc = "wait" /\ client' = [client EXCEPT ![d] = NoCall]
            BY <1>5 DEF OtherStep, GetReply, CallFails, GetArg, Work, SetReturn, Sleep, Resume,
                        End, EndQuit, Timeout, WorkerExit, Shrink, StrayWake, ServerExit
        <3> QED BY <3>1, <2>4, <1>0 DEF OnItsWay, TypeOK
    <2> QED BY <2>1, <2>4, <2>5, StillOnItsWay
<1> QED BY <1>1, <1>2, <1>3, <1>4, <1>5

\* Nor does a call: a client that finds no thread gets a new one, or is to try
\* again, or the pool stays short.
LEMMA CallRemembers ==
    ASSUME BaseInv, NEW c \in Clients, NEW ret \in BOOLEAN, NEW n \in {0, 1},
           Calling(c, ret, n), \A d \in Clients : Attended(d)
    PROVE  NoneForgotten'
<1>0. TaskOK /\ TypeOK /\ CountInv /\ StructInv /\ n \in Nat
    BY TypeSplit DEF BaseInv
<1> SUFFICES ASSUME Stranded' PROVE \E d \in Clients : OnItsWay(d)'
    BY ForgottenParts
<1>1. Refused(c) \/ Waiting(c, ret) \/ Taken(c, ret)
    BY <1>0, CallKinds
<1>2. CASE Refused(c)
    <2>1. PICK d \in Range(waitq) : task[d].state = "BLOCK"
        BY <1>2 DEF Refused, Stranded
    <2>2. d \in Clients
        BY <1>0 DEF TaskOK, Range
    <2> QED BY <2>1, <2>2, <1>2 DEF Attended, Refused
<1>3. CASE Taken(c, ret)
    <2>1. threads' # {}
        BY <1>3 DEF Taken, Given
    <2> QED BY <2>1 DEF Stranded
<1>4. CASE Waiting(c, ret)
    <2>1. threads = {} /\ ~server.disabled
        BY <1>4 DEF Waiting, Stranded
    <2>2. MayGrow(Core[c]) /\ Busy(tasks) = {} /\ \A i \in Slots : tasks[i].uid = 0
        BY <2>1, <1>0, NoThreadGrows, NoThreadNoRequest
    <2>3. Slots # {}
        <3>1. 1 \in Slots
            BY PoolAssumption DEF Slots
        <3> QED BY <3>1
    <2>4. ~client_busy(c)
        BY <2>2 DEF client_busy
    <2>5. UNCHANGED <<task, waitq>>
        BY <2>1, <2>2, <2>3, <2>4, <1>4 DEF Waiting, Stranded, StaysShort
    <2>6. client'[c].pc = "call"
        BY <1>4, <1>0 DEF Waiting, TypeOK
    <2>7. OnItsWay(c)'
        BY <2>5, <2>6 DEF OnItsWay, Runnable, Calling
    <2> QED BY <2>7
<1> QED BY <1>1, <1>2, <1>3, <1>4

-----------------------------------------------------------------------------
(* The invariant.                                                           *)

\* It holds at first.
LEMMA InitInv == Init => PoolInv
<1> SUFFICES ASSUME Init PROVE PoolInv
    OBVIOUS
<1>1. MaxCalls \in Nat /\ Modes \subseteq BOOLEAN
    BY PoolAssumption
<1>2. \A x \in Clients \cup Pids : /\ task[x] \in TaskRecord({Generic})
                                   /\ task[x].state = IF x \in Clients THEN "READY" ELSE "ZOMBIE"
    BY DEF Init, NewTask, TaskRecord, States
<1>3. NoCall \in Calls /\ NoThread \in Threads
    <2>1. (CHOOSE k \in Cores : TRUE) \in Cores
        BY PoolAssumption DEF Cores
    <2> QED BY <2>1, <1>1 DEF NoCall, NoThread, Calls, Threads
<1>4. TypeOK
    <2>1. task \in [Clients \cup Pids -> TaskRecord({Generic})]
        BY <1>2 DEF Init
    <2>2. waitq \in Seq(Clients) /\ threads \subseteq Pids
        BY DEF Init
    <2>3. last \in [uid: 0 .. MaxCalls, uuid: 0 .. MaxCalls]
        BY <1>1 DEF Init
    <2>4. log \in [calls: 0 .. MaxCalls, asked: [Uids -> Clients \cup {NoProc}],
                   answered: SUBSET Uids, failed: SUBSET Uids, short: BOOLEAN]
        BY <1>1 DEF Init
    <2>5. server \in [up: BOOLEAN, disabled: BOOLEAN, multi_core: Modes]
        BY DEF Init
    <2> QED BY <2>1, <2>2, <2>3, <2>4, <2>5, <1>3, EmptyTypes DEF Init, TypeOK
<1>5. StateInv
    BY <1>2 DEF StateInv
<1>6. CountInv
    <2>1. Owing = {}
        BY DEF Init, Owing, NoCall
    <2>2. Cardinality(Owing) = 0
        BY <2>1, FS_EmptySet
    <2> QED BY <2>2 DEF Init, CountInv
<1>7. \A w \in Pids : ~Live(w) /\ worker[w] = NoThread
    BY <1>2, PoolAssumption DEF Init, Live, proc_get
<1>8. StructInv
    <2>1. BoundInv
        BY <1>7 DEF Init, BoundInv, NoRequest, NoThread
    <2>2. ThreadInv
        <3>1. NoThread.ipc_task = 0 /\ NoThread.uuid = 0 /\ NoThread.pc = "entry"
            BY DEF NoThread
        <3>2. ASSUME NEW w \in Pids
              PROVE  /\ worker[w].ipc_task = 0 /\ worker[w].uuid = 0 /\ worker[w].pc = "entry"
                     /\ ~Live(w)
            BY <3>1, <1>7
        <3> QED BY <3>2 DEF ThreadInv
    <2>3. MemberInv
        <3>1. \A i \in 1 .. PoolNum : pool[i] = NoMember
            BY DEF Init
        <3>2. \A i \in 1 .. PoolNum : ~Member(i) /\ pool[i].uuid = 0
            BY <3>1 DEF Member, NoMember
        <3>3. last.uuid = 0
            BY DEF Init
        <3> QED BY <3>2, <3>3, <1>7 DEF MemberInv
    <2>4. RequestInv
        BY DEF Init, RequestInv, NoRequest
    <2> QED BY <2>1, <2>2, <2>3, <2>4 DEF StructInv
<1>9. ReplyInv
    BY DEF Init, ReplyInv, NoCall, NoResult, Unanswered, NoRequest
<1>10. QueueInv
    <2>1. \A c \in Clients : task[c].state # "BLOCK"
        BY <1>2
    <2>2. Range(waitq) = {}
        BY DEF Init, Range
    <2> QED BY <2>1, <2>2 DEF QueueInv, SleepInv, CallerAttended, NoneForgotten,
                                NoForgottenWaiter, NeverForgotten
<1> QED BY <1>4, <1>5, <1>6, <1>8, <1>9, <1>10 DEF PoolInv

\* Every step keeps it.
LEMMA StepInv == PoolInv /\ [Next]_vars => PoolInv'
<1>1. ASSUME PoolInv, Next PROVE PoolInv'
    <2>0. BaseInv /\ ReplyInv /\ NoneForgotten /\ \A c \in Clients : Attended(c)
        BY <1>1, AttendParts DEF PoolInv, BaseInv, QueueInv
    <2> SUFFICES BaseInv' /\ ReplyInv' /\ NoneForgotten' /\ \A c \in Clients : Attended(c)'
        BY AttendParts DEF PoolInv, BaseInv, QueueInv
    <2>1. CASE OtherStep
        BY <2>0, <2>1, OtherDrops, OtherReply, OtherAttended, OtherRemembers
    <2>2. ASSUME NEW c \in Clients, NEW ret \in BOOLEAN, NEW n \in {0, 1}, Calling(c, ret, n)
          PROVE  BaseInv' /\ ReplyInv' /\ NoneForgotten' /\ \A d \in Clients : Attended(d)'
        <3>1. BaseInv'
            BY <2>0, <2>2, CallStruct DEF BaseInv
        <3>2. ReplyInv'
            BY <2>0, <2>2, CallReply
        <3>3. \A d \in Clients : Attended(d)'
            BY <2>0, <2>2, CallAttended
        <3>4. NoneForgotten'
            BY <2>0, <2>2, CallRemembers
        <3> QED BY <3>1, <3>2, <3>3, <3>4
    <2> QED BY <1>1, <2>0, <2>1, <2>2, NextKinds
<1>2. ASSUME PoolInv, UNCHANGED vars PROVE PoolInv'
    <2>1. TypeOK' /\ StateInv' /\ CountInv'
        BY <1>2 DEF vars, PoolInv, TypeOK, StateInv, CountInv, Owing
    <2>2. StructInv'
        BY <1>2 DEF vars, PoolInv, StructInv, BoundInv, Bound, ThreadInv, MemberInv, Member,
                    RequestInv, Live
    <2>3. ReplyInv'
        BY <1>2 DEF vars, PoolInv, ReplyInv, Unanswered
    <2>4. SleepInv' /\ CallerAttended'
        BY <1>2 DEF vars, PoolInv, QueueInv, SleepInv, CallerAttended, Pending
    <2>5. NoneForgotten'
        BY <1>2 DEF vars, PoolInv, QueueInv, NoneForgotten, NoForgottenWaiter, NeverForgotten,
                    StaysShort, Runnable, Live
    <2> QED BY <2>1, <2>2, <2>3, <2>4, <2>5 DEF PoolInv, QueueInv
<1> QED BY <1>1, <1>2

\* A step that is not a call starts no handler over that is not through.
LEMMA OtherEntry ==
    ASSUME BaseInv, OtherStep, NEW v \in Pids, worker[v].pc \in {"body", "reply"}
    PROVE  worker'[v].pc # "entry"
<1>0. TypeOK
    BY DEF BaseInv
<1> USE DEF TypeOK, Threads
<1>1. CASE worker' = worker
    BY <1>1
<1>2. ASSUME NEW w \in Pids, GetArg(w) \/ Work(w) PROVE worker'[v].pc # "entry"
    <2>1. \E p \in {"body", "reply", "end"} : worker' = [worker EXCEPT ![w].pc = p]
        BY <1>2 DEF GetArg, Work
    <2> QED BY <1>0, <2>1
<1>3. ASSUME NEW w \in Pids, SetReturn(w) PROVE worker'[v].pc # "entry"
    BY <1>0, <1>3 DEF SetReturn
<1>4. ASSUME NEW w \in Pids, End(w) PROVE worker'[v].pc # "entry"
    <2>1. /\ worker' = [worker EXCEPT ![w] = [worker[w] EXCEPT !.ipc_task = 0, !.pc = "entry",
                                                       !.uid = 0]]
          /\ worker[w].pc = "end"
        BY <1>4 DEF End, At
    <2>2. worker'[v] = worker[v]
        BY <1>0, <2>1
    <2> QED BY <2>2
<1>5. ASSUME NEW w \in Pids, EndQuit(w) \/ WorkerExit(w) PROVE worker'[v].pc # "entry"
    <2>1. worker' = [worker EXCEPT ![w] = Dead(w)]
        BY <1>5 DEF EndQuit, WorkerExit
    <2>2. Dead(w).pc = "end"
        BY <1>0, DeadFacts
    <2> QED BY <1>0, <2>1, <2>2
<1>6. ASSUME NEW i \in Slots, Timeout(i) PROVE worker'[v].pc # "entry"
    BY <1>0, <1>6 DEF Timeout, Detached
<1>7. ASSUME ServerExit PROVE worker'[v].pc # "entry"
    <2>1. worker' = [w \in Pids |-> IF Live(w) THEN Dead(w) ELSE worker[w]]
        BY <1>7 DEF ServerExit
    <2>2. Dead(v).pc = "end"
        BY <1>0, DeadFacts
    <2> QED BY <2>1, <2>2
<1>8. \/ worker' = worker \/ ServerExit \/ \E i \in Slots : Timeout(i)
      \/ \E w \in Pids : \/ GetArg(w) \/ Work(w) \/ SetReturn(w) \/ End(w) \/ EndQuit(w)
                         \/ WorkerExit(w)
    BY DEF OtherStep, GetReply, AwaitReply, CallFails, ClientExit, Sleep, Resume, Funeral,
           Shrink, StrayWake, proc_ipc_disable, proc_ipc_enable
<1> QED BY <1>1, <1>2, <1>3, <1>4, <1>5, <1>6, <1>7, <1>8

\* A call starts only a worker that serves nothing.
LEMMA CallEntry ==
    ASSUME BaseInv, NEW c \in Clients, NEW ret \in BOOLEAN, NEW n \in {0, 1},
           Calling(c, ret, n), NEW v \in Pids, worker[v].pc \in {"body", "reply"}, Serving(v)
    PROVE  worker'[v].pc # "entry"
<1>0. TaskOK /\ TypeOK /\ CountInv /\ StructInv /\ n \in Nat
    BY TypeSplit DEF BaseInv
<1>1. Refused(c) \/ Waiting(c, ret) \/ Taken(c, ret)
    BY <1>0, CallKinds
<1>2. CASE Refused(c) \/ Waiting(c, ret)
    BY <1>2 DEF Refused, Waiting
<1>3. CASE Taken(c, ret)
    <2>1. PICK w \in Pids, j \in 1 .. PoolNum, uuid \in 0 .. MaxCalls : Given(c, ret, w, uuid, j)
        BY <1>3 DEF Taken
    <2>2. v # w
        BY <2>1 DEF Given, Serving
    <2>3. last.uid < MaxCalls
        BY <1>0, CallRoom
    <2>4. worker' = [worker EXCEPT ![w] = worker'[w]]
        BY <2>1, <1>0 DEF Given, Bind, TypeOK
    <2> QED BY <2>2, <2>4, <1>0 DEF TypeOK
<1> QED BY <1>1, <1>2, <1>3

\* The inductive invariant of the worker pool: types and states; no more uids
\* than calls begun; requests, workers and members agree; what a client waits
\* for or finds is its own; and a client asleep has a request or a place.
THEOREM PoolInvariant == Spec => []PoolInv
BY InitInv, StepInv, PTL DEF Spec

\* The variables keep their types.
THEOREM TypeCorrect == Spec => []TypeOK
<1>1. PoolInv => TypeOK
    BY DEF PoolInv
<1> QED BY <1>1, PoolInvariant, PTL

\* A request in flight and the worker it was handed to agree about each other,
\* for any number of clients, workers, slots and cores, whatever dies.
THEOREM HandlersAgree == Spec => []HandlerAgreement
<1>1. PoolInv => HandlerAgreement
    <2> SUFFICES ASSUME PoolInv PROVE HandlerAgreement
        OBVIOUS
    <2>1. ASSUME NEW i \in Busy(tasks)
          PROVE  Bound(i, tasks[i].handler)
        BY DEF PoolInv, StructInv, BoundInv, Busy
    <2>2. \A w \in Pids : worker[w].ipc_task # 0 => tasks[worker[w].ipc_task].handler = w
        BY DEF PoolInv, StructInv, BoundInv
    <2> QED BY <2>1, <2>2 DEF HandlerAgreement, Bound
<1> QED BY <1>1, PoolInvariant, PTL

\* Every live worker is a member of the pool, once, and under IPC_MULTI_CORE a
\* core has at most one member that is not about to quit.
THEOREM MembersAreRegistered == Spec => []MembersRegistered
<1>1. PoolInv => MembersRegistered
    <2> SUFFICES ASSUME PoolInv PROVE MembersRegistered
        OBVIOUS
    <2>0. TypeOK /\ MemberInv
        BY DEF PoolInv, StructInv
    <2>1. ASSUME NEW w \in threads, Live(w) PROVE Cardinality(SlotOf(w)) = 1
        <3>1. w \in Pids /\ w # NoProc
            BY <2>0, PoolAssumption DEF TypeOK
        <3>2. PICK j \in 1 .. PoolNum : pool[j].pid = w /\ pool[j].uuid = worker[w].uuid
            BY <2>0, <2>1, <3>1 DEF MemberInv
        <3>3. Member(j)
            BY <2>1, <3>1, <3>2 DEF Member
        <3>4. \A i \in SlotOf(w) : i = j
            BY <2>0, <3>2, <3>3 DEF SlotOf, MemberInv
        <3>5. SlotOf(w) = {j}
            BY <3>2, <3>3, <3>4 DEF SlotOf
        <3> QED BY <3>5, FS_Singleton
    <2>2. ASSUME server.multi_core, NEW k \in Cores PROVE Cardinality(core_member(k)) <= 1
        <3>1. \A i, j \in core_member(k) : i = j
            BY <2>0, <2>2 DEF core_member, MemberInv
        <3>2. CASE core_member(k) = {}
            <4>1. Cardinality(core_member(k)) = 0
                BY <3>2, FS_EmptySet
            <4> QED BY <4>1
        <3>3. CASE core_member(k) # {}
            <4>1. PICK j \in core_member(k) : TRUE
                BY <3>3
            <4>2. core_member(k) = {j}
                BY <3>1, <4>1
            <4>3. Cardinality(core_member(k)) = 1
                BY <4>2, FS_Singleton
            <4> QED BY <4>3
        <3> QED BY <3>2, <3>3
    <2> QED BY <2>1, <2>2 DEF MembersRegistered
<1> QED BY <1>1, PoolInvariant, PTL

\* Requests of one client are handled one at a time, by either kind of pool.
THEOREM ClientsOneAtATime == Spec => []OneAtATime
<1>1. PoolInv => OneAtATime
    <2> SUFFICES ASSUME PoolInv, NEW v \in threads, NEW w \in threads, v # w,
                        Serving(v), Serving(w),
                        log.asked[worker[v].uid] = log.asked[worker[w].uid]
                 PROVE  FALSE
        BY DEF OneAtATime
    <2>0. TypeOK /\ StructInv
        BY DEF PoolInv
    <2> DEFINE i == worker[v].ipc_task
               j == worker[w].ipc_task
    <2>1. v \in Pids /\ w \in Pids /\ i # 0 /\ j # 0
        BY <2>0 DEF TypeOK, Serving
    <2>2. i \in Slots /\ tasks[i].uid # 0 /\ tasks[i].handler = v /\ v \in threads
        BY <2>0, <2>1, ServerThread
    <2>3. j \in Slots /\ tasks[j].uid # 0 /\ tasks[j].handler = w
        BY <2>0, <2>1, ServerThread
    <2>4. Bound(i, v) /\ Bound(j, w)
        BY <2>0, <2>2, <2>3, BusyHandler
    <2>5. tasks[i].client = tasks[j].client
        BY <2>0, <2>2, <2>3, <2>4 DEF StructInv, RequestInv, Bound
    <2>6. CASE ~server.multi_core
        <3>1. i = j
            BY <2>0, <2>2, <2>3, <2>5, <2>6 DEF StructInv, RequestInv
        <3> QED BY <3>1, <2>2, <2>3
    <2>7. CASE server.multi_core
        <3>1. worker[v].core = worker[w].core /\ Live(v) /\ Live(w)
            BY <2>4, <2>5 DEF Bound
        <3>2. ASSUME NEW x \in Pids, Live(x), worker[x].ipc_task # 0
              PROVE  \E k \in 1 .. PoolNum : Member(k) /\ pool[k].pid = x /\ ~pool[k].quit
            <4>1. PICK k \in 1 .. PoolNum : pool[k].pid = x /\ pool[k].uuid = worker[x].uuid
                BY <3>2, <2>0 DEF StructInv, MemberInv
            <4>2. Member(k)
                BY <3>2, <4>1, PoolAssumption DEF Member
            <4>3. ~pool[k].quit
                BY <4>1, <4>2, <3>2, <2>0 DEF StructInv, MemberInv
            <4> QED BY <4>1, <4>2, <4>3
        <3>3. PICK k \in 1 .. PoolNum : Member(k) /\ pool[k].pid = v /\ ~pool[k].quit
            BY <3>1, <3>2, <2>1
        <3>4. PICK l \in 1 .. PoolNum : Member(l) /\ pool[l].pid = w /\ ~pool[l].quit
            BY <3>1, <3>2, <2>1
        <3>5. k = l
            BY <3>1, <3>3, <3>4, <2>0, <2>7 DEF StructInv, MemberInv
        <3> QED BY <3>3, <3>4, <3>5
    <2> QED BY <2>6, <2>7
<1> QED BY <1>1, PoolInvariant, PTL

\* A published reply that was not withdrawn reaches the client that asked.
THEOREM RepliesAreDelivered == Spec => []RepliesDelivered
<1>1. PoolInv => RepliesDelivered
    BY DEF PoolInv, ReplyInv, RepliesDelivered
<1> QED BY <1>1, PoolInvariant, PTL

\* A client asleep in ipc_call() has its request in a slot or a place in the
\* wait queue, of a server that is alive.
THEOREM CallersAttended == Spec => []CallerAttended
<1>1. PoolInv => CallerAttended
    BY DEF PoolInv, QueueInv
<1> QED BY <1>1, PoolInvariant, PTL

\* As long as every client lives, somebody is going to look at the wait queue,
\* unless the first worker of an empty IPC_MULTI_TASK pool could not be created.
THEOREM NobodyForgotten == Spec => []((\A c \in Clients : Live(c)) => NoForgottenWaiter)
<1>1. PoolInv => ((\A c \in Clients : Live(c)) => NoForgottenWaiter)
    BY DEF PoolInv, QueueInv, NoneForgotten
<1> QED BY <1>1, PoolInvariant, PTL

\* A handler that serves a request is not started over: only End, of a handler
\* that is through, and a call that takes a parked worker, set the entry.
THEOREM HandlersNotStartedOver == Spec => NotStartedOver
<1>1. ASSUME PoolInv, [Next]_vars
      PROVE  [\A w \in Pids : worker[w].pc \in {"body", "reply"} /\ Serving(w)
                              => worker'[w].pc # "entry"]_vars
    <2>0. BaseInv /\ TypeOK
        BY <1>1 DEF PoolInv, BaseInv
    <2>1. CASE UNCHANGED vars
        BY <2>1
    <2>2. CASE Next
        <3> SUFFICES ASSUME NEW v \in Pids, worker[v].pc \in {"body", "reply"}, Serving(v)
                     PROVE  worker'[v].pc # "entry"
            OBVIOUS
        <3>1. CASE OtherStep
            BY <2>0, <3>1, OtherEntry
        <3>2. ASSUME NEW c \in Clients, NEW ret \in BOOLEAN, NEW n \in {0, 1}, Calling(c, ret, n)
              PROVE  worker'[v].pc # "entry"
            BY <2>0, <3>2, CallEntry
        <3> QED BY <2>0, <2>2, <3>1, <3>2, NextKinds
    <2> QED BY <1>1, <2>1, <2>2
<1> QED BY <1>1, PoolInvariant, PTL DEF Spec, NotStartedOver

=============================================================================
