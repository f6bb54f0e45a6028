-------------------------- MODULE IpcServerEffects -------------------------
(***************************************************************************)
(* What the operators of IpcServer do to a kernel state, and so what every   *)
(* step of it does: Effect(k, m) says it in terms of a few relations between *)
(* kernel states (a task is woken, a core is given away, a request accepted, *)
(* put back, closed ...), and NextEffect that every step is one of these.    *)
(* The proofs of the properties (IpcServerProofs) look at the relations only.*)
(***************************************************************************)
EXTENDS IpcServer, FiniteSetTheorems, SequenceTheorems, NaturalsInduction, WellFoundedInduction, TLAPS

-----------------------------------------------------------------------------
(* The parts of the invariant.                                              *)

\* A core executes its own processes.
CurOK(k) == \A c \in Cores : k.cur[c] # NoProc => Core[k.cur[c]] = c

\* Only servers have handlers.
ModesOK(k) ==
    /\ \A p \in Procs \ Servers : k.ctx[p].mode # "handler"
    /\ \A c \in Cores : k.cur[c] \notin Servers => k.frame[c].mode # "handler"

\* A context in a call knows the server; its request is one with a reply.
CallOK(k, f) ==
    /\ f.pc \in {"call", "wait"} => f.to \in Servers
    /\ f.pc = "wait" =>
          /\ f.uid \in Uids /\ f.uid <= k.ipc_uid
          /\ \A s \in Servers : \A i \in DOMAIN k.srv[s].ring :
                k.srv[s].ring[i].uid = f.uid => k.srv[s].ring[i].ret

CallsOK(k) ==
    /\ \A p \in Procs : CallOK(k, k.ctx[p])
    /\ \A c \in Cores : CallOK(k, k.frame[c])
    /\ \A s \in Servers : CallOK(k, k.srv[s].saved.ctx)

\* The log names the process that made a request.
RequestOK(k, r) ==
    /\ r.uid <= k.ipc_uid /\ k.log.asked[r.uid] = <<r.client, r.uuid>>
    /\ r.uuid <= k.last_uuid

\* A reply in a slot of p belongs to p.
ReplyOK(k, p, res) ==
    res.state = "RETURN" => /\ res.uid \in Uids /\ res.uid <= k.ipc_uid
                            /\ k.log.asked[res.uid] = <<p, k.uuid[p]>>

AskedOK(k) ==
    /\ \A s \in Servers : \A i \in DOMAIN k.srv[s].ring : RequestOK(k, k.srv[s].ring[i])
    /\ \A p \in Procs : Live(k, p) => ReplyOK(k, p, k.res[p])
    /\ \A s \in Servers : Live(k, s) => ReplyOK(k, s, k.srv[s].saved.res)

\* The dead hold no requests, no main context was saved dead, and incarnations
\* are numbered.
DeadOK(k) ==
    /\ \A s \in Servers : /\ ~Live(k, s) => k.srv[s].ring = <<>> /\ ~k.srv[s].do_switch
                          /\ k.srv[s].saved.state # "ZOMBIE"
    /\ \A p \in Procs : k.uuid[p] <= k.last_uuid

NoRestore(k) == \A s \in Servers : k.srv[s].restore_pending => Watchdog

BaseInv(k) ==
    k \in Kernels /\ CurOK(k) /\ ModesOK(k) /\ CallsOK(k) /\ AskedOK(k) /\ DeadOK(k) /\ NoRestore(k)

-----------------------------------------------------------------------------
(* Kernel states.                                                           *)

\* Two states that differ in nothing but tasks and server records.
Alike(k, m) ==
    /\ m.ctx = k.ctx /\ m.res = k.res /\ m.uuid = k.uuid /\ m.wait_for = k.wait_for
    /\ m.cur = k.cur /\ m.frame = k.frame /\ m.need_resched = k.need_resched
    /\ m.ipc_uid = k.ipc_uid /\ m.last_uuid = k.last_uuid /\ m.log = k.log

\* A non-empty set of numbers has a least member.
LEMMA NatMin ==
    ASSUME NEW T \in SUBSET Nat, T # {}
    PROVE  \E x \in T : \A y \in T : x <= y
<1> DEFINE R == {ss \in Nat \X Nat : ss[1] < ss[2]}
<1>1. IsWellFoundedOn(R, Nat)
    BY NatLessThanWellFounded DEF OpToRel
<1>2. PICK x \in T : \A y \in T : ~ (<<y, x>> \in R)
    <2> HIDE DEF R
    <2> QED BY <1>1, WFMin
<1>3. \A y \in T : ~(y < x)
    BY <1>2
<1> QED BY <1>3

\* What the constants are.
LEMMA Constants ==
    /\ Servers \subseteq Procs /\ NonBlock \subseteq Servers
    /\ NoProc \notin Procs /\ Core \in [Procs -> Cores] /\ 0 \in Cores
    /\ MainCalls \in [Procs -> SUBSET Servers]
    /\ HandlerCalls \in [Servers -> SUBSET Servers]
    /\ \A p \in Servers : p \notin MainCalls[p] \cup HandlerCalls[p]
    /\ Kinds \subseteq BOOLEAN /\ Mortal \subseteq Procs /\ Watchdog \in BOOLEAN
    /\ IPC_CTX_MAX \in Nat \ {0} /\ IPC_WAKE_BATCH_LIMIT \in Nat \ {0}
    /\ MaxCalls \in Nat /\ MaxSteps \in Nat /\ MaxUuid \in Nat
BY ConstantsAssumption

\* The types of the fields of a state.
LEMMA KernelFields ==
    ASSUME NEW k \in Kernels
    PROVE  /\ k.task \in [Procs -> Tasks] /\ k.ctx \in [Procs -> Contexts]
           /\ k.res \in [Procs -> Results] /\ k.uuid \in [Procs -> Nat]
           /\ k.wait_for \in [Procs -> Procs \cup {NoProc}]
           /\ k.srv \in [Servers -> ServerRecords]
           /\ k.cur \in [Cores -> Procs \cup {NoProc}] /\ k.frame \in [Cores -> Contexts]
           /\ k.need_resched \in [Cores -> {"no", "raised", "due"}]
           /\ k.ipc_uid \in 0 .. MaxCalls /\ k.last_uuid \in Nat /\ k.log \in Logs
BY DEF Kernels

\* A state with other tasks.
LEMMA OtherTasks ==
    ASSUME NEW k \in Kernels, NEW T \in [Procs -> Tasks]
    PROVE  LET m == [k EXCEPT !.task = T] IN
           m \in Kernels /\ m.task = T /\ m.srv = k.srv /\ Alike(k, m)
BY DEF Kernels, Alike

\* A state with other server records.
LEMMA OtherServers ==
    ASSUME NEW k \in Kernels, NEW V \in [Servers -> ServerRecords]
    PROVE  LET m == [k EXCEPT !.srv = V] IN
           m \in Kernels /\ m.srv = V /\ m.task = k.task /\ Alike(k, m)
BY DEF Kernels, Alike

\* The task of one process is replaced.
LEMMA SetTaskFacts ==
    ASSUME NEW k \in Kernels, NEW p \in Procs, NEW t \in Tasks
    PROVE  LET m == SetTask(k, p, t) IN
           /\ m \in Kernels /\ m.srv = k.srv /\ Alike(k, m)
           /\ m.task = [k.task EXCEPT ![p] = t]
<1> DEFINE T == [q \in Procs |-> IF q = p THEN t ELSE k.task[q]]
<1>1. T \in [Procs -> Tasks] /\ T = [k.task EXCEPT ![p] = t]
    BY KernelFields
<1>2. SetTask(k, p, t) = [k EXCEPT !.task = T]
    BY DEF SetTask
<1> HIDE DEF T
<1> QED BY <1>1, <1>2, OtherTasks

\* The record of one server is replaced.
LEMMA SetServerFacts ==
    ASSUME NEW k \in Kernels, NEW s \in Servers, NEW v \in ServerRecords
    PROVE  LET m == SetServer(k, s, v) IN
           /\ m \in Kernels /\ m.task = k.task /\ Alike(k, m)
           /\ m.srv = [k.srv EXCEPT ![s] = v]
<1> DEFINE V == [q \in Servers |-> IF q = s THEN v ELSE k.srv[q]]
<1>1. V \in [Servers -> ServerRecords] /\ V = [k.srv EXCEPT ![s] = v]
    BY KernelFields
<1>2. SetServer(k, s, v) = [k EXCEPT !.srv = V]
    BY DEF SetServer
<1> HIDE DEF V
<1> QED BY <1>1, <1>2, OtherServers

-----------------------------------------------------------------------------
(* Queues.                                                                  *)

\* Membership in a queue that grows at its tail.
LEMMA HasAppend ==
    ASSUME NEW S, NEW q \in Seq(S), NEW x \in S
    PROVE  /\ Append(q, x) \in Seq(S)
           /\ \A y : Has(Append(q, x), y) <=> Has(q, y) \/ y = x
<1> DEFINE a == Append(q, x)
<1>1. a \in Seq(S) /\ Len(q) \in Nat /\ Len(a) = Len(q) + 1 /\ DOMAIN a = 1 .. Len(a)
      /\ DOMAIN q = 1 .. Len(q)
    BY AppendProperties, LenProperties
<1>2. a[Len(q) + 1] = x /\ \A i \in 1 .. Len(q) : a[i] = q[i]
    BY AppendProperties
<1> HIDE DEF a
<1>3. \A y : Has(a, y) <=> Has(q, y) \/ y = x
    BY <1>1, <1>2 DEF Has
<1> QED BY <1>1, <1>3 DEF a

\* Nobody is in the empty queue.
LEMMA HasNone == \A x : ~Has(<<>>, x)
BY DEF Has

\* The recursive definition of Without() has a solution.
LEMMA WithoutExists ==
    ASSUME NEW q \in Seq(Procs), NEW Q
    PROVE  \E f \in [0 .. Len(q) -> Seq(Procs)] : \A i \in 0 .. Len(q) :
               f[i] = IF i = 0 THEN <<>>
                      ELSE IF q[i] \in Q THEN f[i - 1] ELSE Append(f[i - 1], q[i])
<1> DEFINE n == Len(q)
           step(i, e) == IF q[i] \in Q THEN e ELSE Append(e, q[i])
           P(j) == \E f \in [0 .. j -> Seq(Procs)] :
                      f[0] = <<>> /\ \A i \in 1 .. j : f[i] = step(i, f[i - 1])
           T == {j \in 0 .. n : ~P(j)}
<1>0. n \in Nat /\ \A i \in 1 .. n : q[i] \in Procs
    BY LenProperties, ElementOfSeq
<1>1. P(0)
    <2> DEFINE f == [i \in 0 .. 0 |-> <<>>]
    <2>1. f \in [0 .. 0 -> Seq(Procs)] /\ f[0] = <<>> /\ 1 .. 0 = {}
        OBVIOUS
    <2> HIDE DEF f
    <2> QED BY <2>1
<1>2. ASSUME NEW j \in 1 .. n, P(j - 1)
      PROVE  P(j)
    <2>1. PICK f \in [0 .. j - 1 -> Seq(Procs)] :
              f[0] = <<>> /\ \A i \in 1 .. j - 1 : f[i] = step(i, f[i - 1])
        BY <1>2
    <2> DEFINE g == [i \in 0 .. j |-> IF i = j THEN step(j, f[j - 1]) ELSE f[i]]
    <2>2. j \in Nat /\ j # 0 /\ j - 1 \in 0 .. j - 1 /\ q[j] \in Procs
        BY <1>0
    <2>3. step(j, f[j - 1]) \in Seq(Procs)
        <3>1. f[j - 1] \in Seq(Procs)
            BY <2>1, <2>2
        <3> QED BY <2>2, <3>1, AppendProperties
    <2> HIDE DEF step
    <2>4. g \in [0 .. j -> Seq(Procs)] /\ g[0] = <<>>
        BY <2>1, <2>2, <2>3
    <2>5. ASSUME NEW i \in 1 .. j
          PROVE  g[i] = step(i, g[i - 1])
        <3>1. CASE i = j
            BY <2>2, <3>1
        <3>2. CASE i # j
            BY <2>1, <2>2, <3>2
        <3> QED BY <3>1, <3>2
    <2> HIDE DEF g
    <2> QED BY <2>4, <2>5
<1>3. P(n)
    <2> SUFFICES ASSUME ~P(n) PROVE FALSE
        OBVIOUS
    <2> HIDE DEF P
    <2>1. T \in SUBSET Nat /\ T # {}
        BY <1>0
    <2>2. PICK j \in T : \A y \in T : j <= y
        <3> HIDE DEF T
        <3> QED BY <2>1, NatMin
    <2>3. j \in 1 .. n /\ ~P(j)
        BY <1>0, <1>1, <2>2
    <2>4. j - 1 \in 0 .. n /\ ~(j <= j - 1)
        BY <1>0, <2>3
    <2>5. P(j - 1)
        BY <2>2, <2>4
    <2> QED BY <1>2, <2>3, <2>5
<1>4. PICK f \in [0 .. n -> Seq(Procs)] :
          f[0] = <<>> /\ \A i \in 1 .. n : f[i] = step(i, f[i - 1])
    BY <1>3
<1>5. \A i \in 0 .. n : f[i] = IF i = 0 THEN <<>> ELSE step(i, f[i - 1])
    <2> HIDE DEF step
    <2> QED BY <1>0, <1>4
<1> QED BY <1>4, <1>5

\* Without() removes the members of Q, and nothing else.
LEMMA WithoutFacts ==
    ASSUME NEW q \in Seq(Procs), NEW Q
    PROVE  /\ Without(q, Q) \in Seq(Procs)
           /\ \A x : Has(Without(q, Q), x) <=> Has(q, x) /\ x \notin Q
<1> DEFINE n == Len(q)
           F(f) == [i \in 0 .. n |->
                      IF i = 0 THEN <<>>
                      ELSE IF q[i] \in Q THEN f[i - 1] ELSE Append(f[i - 1], q[i])]
           l == CHOOSE f : f = F(f)
           R(j) == /\ l[j] \in Seq(Procs)
                   /\ \A x : Has(l[j], x) <=> x \notin Q /\ \E i \in 1 .. j : q[i] = x
           T == {j \in 0 .. n : ~R(j)}
<1>0. n \in Nat /\ \A i \in 1 .. n : q[i] \in Procs
    BY LenProperties, ElementOfSeq
<1>1. Without(q, Q) = l[n]
    BY DEF Without
<1>2. l = F(l)
    <2>0. PICK f \in [0 .. n -> Seq(Procs)] : \A i \in 0 .. n :
                 f[i] = IF i = 0 THEN <<>>
                        ELSE IF q[i] \in Q THEN f[i - 1] ELSE Append(f[i - 1], q[i])
        BY WithoutExists, SMTT(30)
    <2>1. f = F(f)
        BY <2>0
    <2> HIDE DEF F
    <2> QED BY <2>1
<1> HIDE DEF l
<1>3. R(0)
    <2>1. l[0] = <<>>
        BY <1>0, <1>2
    <2>2. <<>> \in Seq(Procs) /\ 1 .. 0 = {}
        OBVIOUS
    <2> QED BY <2>1, <2>2, HasNone
<1>4. ASSUME NEW j \in 1 .. n, R(j - 1)
      PROVE  R(j)
    <2>0. j \in 0 .. n /\ j # 0 /\ q[j] \in Procs
        BY <1>0
    <2>1. l[j] = IF q[j] \in Q THEN l[j - 1] ELSE Append(l[j - 1], q[j])
        BY <1>2, <2>0
    <2>2. \A x : (\E i \in 1 .. j : q[i] = x) <=> (\E i \in 1 .. j - 1 : q[i] = x) \/ q[j] = x
        BY <1>0
    <2>3. CASE q[j] \in Q
        BY <1>4, <2>1, <2>2, <2>3
    <2>4. CASE q[j] \notin Q
        <3> DEFINE e == l[j - 1]
        <3>1. e \in Seq(Procs)
            BY <1>4
        <3>2. l[j] = Append(e, q[j])
            BY <2>1, <2>4
        <3> HIDE DEF e
        <3>3. l[j] \in Seq(Procs) /\ \A y : Has(l[j], y) <=> Has(e, y) \/ y = q[j]
            BY <2>0, <3>1, <3>2, HasAppend
        <3>4. \A x : Has(e, x) <=> x \notin Q /\ \E i \in 1 .. j - 1 : q[i] = x
            BY <1>4 DEF e
        <3> QED BY <2>2, <2>4, <3>3, <3>4
    <2> QED BY <2>3, <2>4
<1>5. R(n)
    <2> SUFFICES ASSUME ~R(n) PROVE FALSE
        OBVIOUS
    <2> HIDE DEF R
    <2>1. T \in SUBSET Nat /\ T # {}
        BY <1>0
    <2>2. PICK j \in T : \A y \in T : j <= y
        <3> HIDE DEF T
        <3> QED BY <2>1, NatMin
    <2>3. j \in 1 .. n /\ ~R(j)
        BY <1>0, <1>3, <2>2
    <2>4. j - 1 \in 0 .. n /\ ~(j <= j - 1)
        BY <1>0, <2>3
    <2>5. R(j - 1)
        BY <2>2, <2>4
    <2> QED BY <1>4, <2>3, <2>5
<1>6. DOMAIN q = 1 .. n
    BY LenProperties
<1> QED BY <1>1, <1>5, <1>6 DEF Has

-----------------------------------------------------------------------------
(* Waking.                                                                  *)

\* A server record that differs only in the queue for admission and in the
\* saved state of the main context, which may have become READY.
EasedServer(v, w) ==
    /\ w.ring = v.ring /\ w.disabled = v.disabled /\ w.do_switch = v.do_switch
    /\ w.restore_pending = v.restore_pending
    /\ w.saved.ctx = v.saved.ctx /\ w.saved.res = v.saved.res
    /\ w.saved.sleep_counter = v.saved.sleep_counter
    /\ w.saved.state # v.saved.state => w.saved.state = "READY" /\ ~v.do_switch

\* From k to m the live members of Q are woken.
Eases(k, m, Q) ==
    /\ m \in Kernels /\ Alike(k, m)
    /\ \A p \in Procs : IF p \in Q /\ Live(k, p) THEN m.task[p].state = "READY"
                        ELSE m.task[p] = k.task[p]
    /\ \A s \in Servers :
          /\ EasedServer(k.srv[s], m.srv[s])
          /\ s \notin Q => m.srv[s].saved = k.srv[s].saved
          /\ \A p \in Procs :
                /\ Has(m.srv[s].waitq, p) => Has(k.srv[s].waitq, p)
                /\ Has(k.srv[s].waitq, p) /\ k.task[p].state = "BLOCK" /\ p \notin Q =>
                      Has(m.srv[s].waitq, p)

\* Task records.
LEMMA TaskFacts ==
    ASSUME NEW t \in Tasks
    PROVE  /\ t.state \in States \cup {"UNUSED"} /\ t.sleep_counter \in BOOLEAN
           /\ proc_ready(t) \in Tasks /\ proc_ready(t).state = "READY"
           /\ \A st \in States : /\ proc_unready(t, st) \in Tasks
                                 /\ proc_unready(t, st).state = st
           /\ proc_wakeup_by(t, Generic) \in Tasks
           /\ proc_get(t) => proc_wakeup_by(t, Generic).state = "READY"
<1>1. t.state \in States \cup {"UNUSED"} /\ t.sleep_counter \in BOOLEAN
    BY DEF Tasks
<1>2. proc_ready(t) \in Tasks /\ proc_ready(t).state = "READY"
    BY DEF Tasks, proc_ready, States
<1>3. \A st \in States : proc_unready(t, st) \in Tasks /\ proc_unready(t, st).state = st
    BY DEF Tasks, proc_unready
<1>4. proc_wakeup_by(t, Generic) \in Tasks
    <2>1. NewTask("READY") \in Tasks
        BY DEF NewTask, Tasks, States
    <2>2. latch(proc_ready(t), Generic) \in Tasks
        BY <1>2 DEF latch, Tasks
    <2> HIDE DEF Tasks, latch, proc_ready, NewTask
    <2> QED BY <2>1, <2>2 DEF proc_wakeup_by
<1>5. proc_get(t) => proc_wakeup_by(t, Generic).state = "READY"
    <2>1. NewTask("READY").state = "READY"
        BY DEF NewTask
    <2>2. latch(proc_ready(t), Generic).state = "READY"
        BY <1>2 DEF latch, Tasks
    <2> QED BY <2>1, <2>2 DEF proc_wakeup_by, proc_get
<1> QED BY <1>1, <1>2, <1>3, <1>4, <1>5

\* The types of the fields of a server record.
LEMMA ServerFields ==
    ASSUME NEW v \in ServerRecords
    PROVE  /\ v.ring \in Seq(Requests) /\ Len(v.ring) <= IPC_CTX_MAX
           /\ v.waitq \in Seq(Procs) /\ v.disabled \in BOOLEAN /\ v.do_switch \in BOOLEAN
           /\ v.restore_pending \in BOOLEAN /\ v.saved \in Saved
BY DEF ServerRecords

\* The types of what is saved.
LEMMA SavedFields ==
    ASSUME NEW v \in Saved
    PROVE  /\ v.state \in States \cup {"UNUSED"} /\ v.sleep_counter \in BOOLEAN
           /\ v.ctx \in Contexts /\ v.res \in Results
BY DEF Saved

\* A server record with another queue.
LEMMA OtherQueue ==
    ASSUME NEW v \in ServerRecords, NEW q \in Seq(Procs)
    PROVE  LET w == [v EXCEPT !.waitq = q] IN
           /\ w \in ServerRecords /\ w.waitq = q /\ w.saved = v.saved
           /\ EasedServer(v, w)
BY DEF ServerRecords, EasedServer

\* A server record whose main context is READY.
LEMMA OtherState ==
    ASSUME NEW v \in ServerRecords, ~v.do_switch
    PROVE  LET w == [v EXCEPT !.saved.state = "READY"] IN
           /\ w \in ServerRecords /\ w.waitq = v.waitq
           /\ EasedServer(v, w)
<1>1. v.saved \in Saved
    BY ServerFields
<1> DEFINE u == [v.saved EXCEPT !.state = "READY"]
<1>2. u \in Saved /\ u.ctx = v.saved.ctx /\ u.res = v.saved.res /\ u.state = "READY"
      /\ u.sleep_counter = v.saved.sleep_counter
    BY <1>1 DEF Saved, States
<1>3. [v EXCEPT !.saved.state = "READY"] = [v EXCEPT !.saved = u]
    OBVIOUS
<1> HIDE DEF u
<1>4. LET w == [v EXCEPT !.saved = u] IN
      /\ w \in ServerRecords /\ w.waitq = v.waitq /\ w.saved = u
      /\ w.ring = v.ring /\ w.disabled = v.disabled /\ w.do_switch = v.do_switch
      /\ w.restore_pending = v.restore_pending
    BY <1>2 DEF ServerRecords
<1> QED BY <1>2, <1>3, <1>4 DEF EasedServer

\* A record that is eased twice is eased.
LEMMA EasedTwice ==
    ASSUME NEW u, NEW v, NEW w, EasedServer(u, v), EasedServer(v, w)
    PROVE  EasedServer(u, w)
BY DEF EasedServer

\* proc_ipc_cancel_wait() changes queues only.
LEMMA CancelFacts ==
    ASSUME NEW k \in Kernels, NEW Q
    PROVE  LET m == proc_ipc_cancel_wait(k, Q) IN
           /\ m \in Kernels /\ Alike(k, m) /\ m.task = k.task
           /\ \A s \in Servers :
                 /\ EasedServer(k.srv[s], m.srv[s])
                 /\ m.srv[s].saved = k.srv[s].saved
                 /\ \A p \in Procs : Has(m.srv[s].waitq, p) <=> Has(k.srv[s].waitq, p) /\ p \notin Q
<1> DEFINE m == proc_ipc_cancel_wait(k, Q)
           V == [s \in Servers |-> [k.srv[s] EXCEPT !.waitq = Without(k.srv[s].waitq, Q)]]
<1>1. m = [k EXCEPT !.srv = V]
    BY DEF proc_ipc_cancel_wait
<1>2. ASSUME NEW s \in Servers
      PROVE  /\ V[s] \in ServerRecords /\ EasedServer(k.srv[s], V[s])
             /\ V[s].saved = k.srv[s].saved
             /\ \A p \in Procs : Has(V[s].waitq, p) <=> Has(k.srv[s].waitq, p) /\ p \notin Q
    <2>1. k.srv[s] \in ServerRecords
        BY KernelFields
    <2>2. k.srv[s].waitq \in Seq(Procs)
        BY <2>1, ServerFields
    <2> DEFINE q == Without(k.srv[s].waitq, Q)
    <2>3. q \in Seq(Procs) /\ \A p : Has(q, p) <=> Has(k.srv[s].waitq, p) /\ p \notin Q
        BY <2>2, WithoutFacts
    <2>4. V[s] = [k.srv[s] EXCEPT !.waitq = q]
        OBVIOUS
    <2> HIDE DEF q, V
    <2>5. LET w == V[s] IN
          /\ w \in ServerRecords /\ w.waitq = q /\ w.saved = k.srv[s].saved
          /\ EasedServer(k.srv[s], w)
        BY <2>1, <2>3, <2>4, OtherQueue
    <2> QED BY <2>3, <2>4, <2>5 DEF q
<1>3. V \in [Servers -> ServerRecords]
    <2>1. \A s \in Servers : V[s] \in ServerRecords
        BY <1>2
    <2> QED BY <2>1
<1> HIDE DEF V
<1>4. m \in Kernels /\ m.srv = V /\ m.task = k.task /\ Alike(k, m)
    BY <1>1, <1>3, OtherServers
<1> HIDE DEF m
<1> QED BY <1>2, <1>4 DEF m

\* WakeSaved() changes saved states only.
LEMMA WakeSavedFacts ==
    ASSUME NEW k \in Kernels, NEW Q
    PROVE  LET m == WakeSaved(k, Q) IN
           /\ m \in Kernels /\ Alike(k, m) /\ m.task = k.task
           /\ \A s \in Servers :
                 /\ EasedServer(k.srv[s], m.srv[s]) /\ m.srv[s].waitq = k.srv[s].waitq
                 /\ s \notin Q => m.srv[s] = k.srv[s]
<1> DEFINE m == WakeSaved(k, Q)
           V == [s \in Servers |-> IF s \in Q /\ ~k.srv[s].do_switch
                                   THEN [k.srv[s] EXCEPT !.saved.state = "READY"]
                                   ELSE k.srv[s]]
<1>1. m = [k EXCEPT !.srv = V]
    BY DEF WakeSaved
<1>2. ASSUME NEW s \in Servers
      PROVE  /\ V[s] \in ServerRecords /\ EasedServer(k.srv[s], V[s])
             /\ V[s].waitq = k.srv[s].waitq
             /\ s \notin Q => V[s] = k.srv[s]
    <2>1. k.srv[s] \in ServerRecords
        BY KernelFields
    <2>2. CASE s \in Q /\ ~k.srv[s].do_switch
        <3>1. V[s] = [k.srv[s] EXCEPT !.saved.state = "READY"]
            BY <2>2
        <3> HIDE DEF V
        <3> QED BY <2>1, <2>2, <3>1, OtherState
    <2>3. CASE ~(s \in Q /\ ~k.srv[s].do_switch)
        <3>1. V[s] = k.srv[s]
            BY <2>3
        <3> HIDE DEF V
        <3> QED BY <2>1, <3>1 DEF EasedServer
    <2> QED BY <2>2, <2>3
<1>3. V \in [Servers -> ServerRecords]
    <2>1. \A s \in Servers : V[s] \in ServerRecords
        BY <1>2
    <2> QED BY <2>1
<1> HIDE DEF V
<1>4. m \in Kernels /\ m.srv = V /\ m.task = k.task /\ Alike(k, m)
    BY <1>1, <1>3, OtherServers
<1> HIDE DEF m
<1> QED BY <1>2, <1>4 DEF m

\* States that are alike.
LEMMA AlikeTwice ==
    ASSUME NEW k, NEW m, NEW n, Alike(k, m), Alike(m, n)
    PROVE  Alike(k, n)
BY DEF Alike

\* proc_wakeup() wakes whoever is alive, and nobody else.
LEMMA WakeFacts ==
    ASSUME NEW k \in Kernels, NEW Q \in SUBSET Procs
    PROVE  Eases(k, proc_wakeup(k, Q), Q)
<1> DEFINE L == {p \in Q : Live(k, p)}
           k1 == proc_ipc_cancel_wait(k, L)
           k2 == WakeSaved(k1, L)
           T == [p \in Procs |-> IF p \in L THEN proc_wakeup_by(k.task[p], Generic)
                                 ELSE k.task[p]]
           m == proc_wakeup(k, Q)
<1>1. m = [k2 EXCEPT !.task = T]
    BY DEF proc_wakeup
<1>2. /\ k1 \in Kernels /\ Alike(k, k1)
      /\ \A s \in Servers :
            /\ EasedServer(k.srv[s], k1.srv[s]) /\ k1.srv[s].saved = k.srv[s].saved
            /\ \A p \in Procs : Has(k1.srv[s].waitq, p) <=> Has(k.srv[s].waitq, p) /\ p \notin L
    <2> HIDE DEF L
    <2> QED BY CancelFacts
<1>3. /\ k2 \in Kernels /\ Alike(k1, k2)
      /\ \A s \in Servers :
            /\ EasedServer(k1.srv[s], k2.srv[s]) /\ k2.srv[s].waitq = k1.srv[s].waitq
            /\ s \notin L => k2.srv[s] = k1.srv[s]
    <2> HIDE DEF L, k1
    <2> QED BY <1>2, WakeSavedFacts
<1>4. ASSUME NEW p \in Procs
      PROVE  /\ T[p] \in Tasks
             /\ IF p \in Q /\ Live(k, p) THEN T[p].state = "READY" ELSE T[p] = k.task[p]
    <2>1. k.task[p] \in Tasks
        BY KernelFields
    <2>2. T[p] = IF p \in L THEN proc_wakeup_by(k.task[p], Generic) ELSE k.task[p]
        OBVIOUS
    <2> HIDE DEF T
    <2>3. /\ proc_wakeup_by(k.task[p], Generic) \in Tasks
          /\ Live(k, p) => proc_wakeup_by(k.task[p], Generic).state = "READY"
        BY <2>1, TaskFacts DEF Live
    <2> QED BY <2>1, <2>2, <2>3
<1>5. T \in [Procs -> Tasks]
    <2>1. \A p \in Procs : T[p] \in Tasks
        BY <1>4
    <2> QED BY <2>1
<1> HIDE DEF T, k1, k2
<1>6. m \in Kernels /\ m.task = T /\ m.srv = k2.srv /\ Alike(k2, m)
    BY <1>1, <1>3, <1>5, OtherTasks
<1> HIDE DEF m
<1>7. Alike(k, m)
    BY <1>2, <1>3, <1>6, AlikeTwice
<1>8. ASSUME NEW s \in Servers
      PROVE  /\ EasedServer(k.srv[s], m.srv[s])
             /\ s \notin Q => m.srv[s].saved = k.srv[s].saved
             /\ \A p \in Procs :
                   /\ Has(m.srv[s].waitq, p) => Has(k.srv[s].waitq, p)
                   /\ Has(k.srv[s].waitq, p) /\ p \notin Q => Has(m.srv[s].waitq, p)
    <2>1. EasedServer(k.srv[s], m.srv[s])
        BY <1>2, <1>3, <1>6, EasedTwice
    <2>2. s \notin Q => m.srv[s].saved = k.srv[s].saved
        BY <1>2, <1>3, <1>6
    <2>3. m.srv[s].waitq = k1.srv[s].waitq
        BY <1>3, <1>6
    <2> QED BY <1>2, <2>1, <2>2, <2>3
<1>9. \A p \in Procs : IF p \in Q /\ Live(k, p) THEN m.task[p].state = "READY"
                       ELSE m.task[p] = k.task[p]
    BY <1>4, <1>6
<1>10. Eases(k, m, Q)
    BY <1>6, <1>7, <1>8, <1>9 DEF Eases
<1> QED BY <1>10 DEF m

\* Nothing is woken.
LEMMA EasesNobody ==
    ASSUME NEW k \in Kernels, NEW Q, \A p \in Procs \cap Q : ~Live(k, p)
    PROVE  Eases(k, k, Q)
BY DEF Eases, Alike, EasedServer

\* One wake after the other.
LEMMA EasesTwice ==
    ASSUME NEW k, NEW m, NEW n, NEW Q, NEW R, Eases(k, m, Q), Eases(m, n, R)
    PROVE  Eases(k, n, Q \cup R)
<1>1. n \in Kernels /\ Alike(k, n)
    BY AlikeTwice DEF Eases
<1>2. ASSUME NEW p \in Procs
      PROVE  IF p \in Q \cup R /\ Live(k, p) THEN n.task[p].state = "READY"
             ELSE n.task[p] = k.task[p]
    BY DEF Eases, Live, proc_get
<1>3. ASSUME NEW s \in Servers
      PROVE  /\ EasedServer(k.srv[s], n.srv[s])
             /\ s \notin Q \cup R => n.srv[s].saved = k.srv[s].saved
    BY EasedTwice DEF Eases
<1>4. ASSUME NEW s \in Servers, NEW p \in Procs
      PROVE  /\ Has(n.srv[s].waitq, p) => Has(k.srv[s].waitq, p)
             /\ Has(k.srv[s].waitq, p) /\ k.task[p].state = "BLOCK" /\ p \notin Q \cup R =>
                   Has(n.srv[s].waitq, p)
    <2>1. Has(n.srv[s].waitq, p) => Has(k.srv[s].waitq, p)
        BY DEF Eases
    <2>2. ASSUME Has(k.srv[s].waitq, p), k.task[p].state = "BLOCK", p \notin Q \cup R
          PROVE  Has(n.srv[s].waitq, p)
        <3>1. m.task[p] = k.task[p] /\ Has(m.srv[s].waitq, p)
            BY <2>2 DEF Eases
        <3> QED BY <2>2, <3>1 DEF Eases
    <2> QED BY <2>1, <2>2
<1> QED BY <1>1, <1>2, <1>3, <1>4 DEF Eases

\* proc_wakeup_all_state() is a wake of one.
LEMMA WakeAllStateFacts ==
    ASSUME NEW k \in Kernels, NEW p \in Procs
    PROVE  LET m == proc_wakeup_all_state(k, p) IN
           /\ Live(k, p) => Eases(k, m, {p})
           /\ \A s \in Servers : m.srv[s].waitq = k.srv[s].waitq
<1> DEFINE t == proc_ready(k.task[p])
           k1 == SetTask(k, p, t)
           m == WakeSaved(k1, {p})
<1>1. k.task \in [Procs -> Tasks] /\ t \in Tasks /\ t.state = "READY"
    <2>1. k.task[p] \in Tasks /\ k.task \in [Procs -> Tasks]
        BY KernelFields
    <2> QED BY <2>1, TaskFacts
<1> HIDE DEF t
<1>2. /\ k1 \in Kernels /\ k1.srv = k.srv /\ Alike(k, k1)
      /\ k1.task = [k.task EXCEPT ![p] = t]
    BY <1>1, SetTaskFacts
<1> HIDE DEF k1
<1>3. /\ m \in Kernels /\ Alike(k1, m) /\ m.task = k1.task
      /\ \A s \in Servers :
            /\ EasedServer(k1.srv[s], m.srv[s]) /\ m.srv[s].waitq = k1.srv[s].waitq
            /\ s \notin {p} => m.srv[s] = k1.srv[s]
    BY <1>2, WakeSavedFacts
<1>4. proc_wakeup_all_state(k, p) = m
    BY DEF proc_wakeup_all_state, k1, t
<1> HIDE DEF m
<1>5. Alike(k, m)
    BY <1>2, <1>3, AlikeTwice
<1>6. Live(k, p) => Eases(k, m, {p})
    BY <1>1, <1>2, <1>3, <1>5 DEF Eases
<1> QED BY <1>2, <1>3, <1>4, <1>6

\* The positions that come before at most b - 1 members of A are a prefix.
LEMMA PrefixFacts ==
    ASSUME NEW n \in Nat, NEW A \in SUBSET (1 .. n), NEW b \in Int
    PROVE  \E k \in 0 .. n : LET P == {i \in 1 .. n : Cardinality({j \in A : j < i}) < b} IN
               P = 1 .. k /\ Cardinality(P) = k
<1> DEFINE C(i) == Cardinality({j \in A : j < i})
           P == {i \in 1 .. n : C(i) < b}
           T == {j \in 1 .. n + 1 : j \notin P}
<1>2. ASSUME NEW i \in 1 .. n, NEW j \in 1 .. i
      PROVE  C(j) \in Nat /\ C(i) \in Nat /\ C(j) <= C(i)
    <2> DEFINE I == {x \in A : x < i}
               J == {x \in A : x < j}
    <2>1. IsFiniteSet(1 .. n)
        BY FS_Interval
    <2>2. I \in SUBSET (1 .. n) /\ J \in SUBSET I
        <3>1. ASSUME NEW x \in A, x < j PROVE x < i
            <4>1. x \in Int /\ j \in Int /\ i \in Int /\ j <= i
                OBVIOUS
            <4> QED BY <3>1, <4>1
        <3> HIDE DEF C, P, T
        <3> QED BY <3>1
    <2> HIDE DEF I, J
    <2>3. IsFiniteSet(I)
        BY <2>1, <2>2, FS_Subset
    <2>4. IsFiniteSet(J) /\ Cardinality(J) <= Cardinality(I)
        BY <2>2, <2>3, FS_Subset
    <2>5. Cardinality(J) \in Nat /\ Cardinality(I) \in Nat
        BY <2>3, <2>4, FS_CardinalityType
    <2> QED BY <2>4, <2>5 DEF I, J
<1>4. ASSUME NEW i \in P, NEW j \in 1 .. i PROVE j \in P
    <2> HIDE DEF C
    <2>1. i \in 1 .. n /\ j \in 1 .. n /\ C(i) < b
        OBVIOUS
    <2>2. C(j) < b
        BY <1>2, <2>1
    <2> QED BY <2>1, <2>2
<1>5. n + 1 \in T
    <2> HIDE DEF C
    <2> QED OBVIOUS
<1>6. P \subseteq 1 .. n
    <2> HIDE DEF C
    <2> QED OBVIOUS
<1> HIDE DEF P
<1>7. T \in SUBSET Nat /\ T # {}
    BY <1>5
<1>8. PICK m \in T : \A y \in T : m <= y
    BY <1>7, NatMin
<1>9. P = 1 .. m - 1
    <2>1. ASSUME NEW i \in P PROVE i \in 1 .. m - 1
        <3>1. i \in 1 .. n
            BY <1>6
        <3>2. ~(m <= i)
            <4>1. SUFFICES ASSUME m <= i PROVE FALSE
                OBVIOUS
            <4>2. m \in 1 .. i
                BY <4>1, <3>1
            <4> QED BY <4>2, <1>4
        <3> QED BY <3>1, <3>2
    <2>2. ASSUME NEW i \in 1 .. m - 1 PROVE i \in P
        <3>1. i \in 1 .. n + 1 /\ ~(m <= i)
            OBVIOUS
        <3> QED BY <3>1, <1>8
    <2> QED BY <2>1, <2>2
<1>10. m - 1 \in 0 .. n /\ Cardinality(1 .. m - 1) = m - 1
    BY FS_Interval
<1> QED BY <1>9, <1>10 DEF P

\* proc_ipc_wakeup() wakes some that wait for s; whoever stays asleep keeps its
\* place.
LEMMA IpcWakeFacts ==
    ASSUME NEW k \in Kernels, NEW s \in Servers
    PROVE  \E Q \in SUBSET Procs : /\ Eases(k, proc_ipc_wakeup(k, s), Q)
                                   /\ \A p \in Q : Has(k.srv[s].waitq, p)
<1> DEFINE q == k.srv[s].waitq
           room == IPC_CTX_MAX - Len(k.srv[s].ring)
           budget == IF room > IPC_WAKE_BATCH_LIMIT THEN IPC_WAKE_BATCH_LIMIT ELSE room
           asleep == {i \in DOMAIN q : k.task[q[i]].state \in Asleep}
           popped == {i \in DOMAIN q : Cardinality({j \in asleep : j < i}) < budget}
           rest == SubSeq(q, Cardinality(popped) + 1, Len(q))
           k1 == SetServer(k, s, [k.srv[s] EXCEPT !.waitq = rest])
           Q == {q[i] : i \in popped \cap asleep}
           m == proc_wakeup(k1, Q)
<1>0. proc_ipc_wakeup(k, s) = m
    BY DEF proc_ipc_wakeup
<1>1. k.srv[s] \in ServerRecords /\ k.srv \in [Servers -> ServerRecords]
    BY KernelFields
<1>2. q \in Seq(Procs) /\ Len(k.srv[s].ring) \in Nat
    BY <1>1, ServerFields, LenProperties
<1>3. Len(q) \in Nat /\ DOMAIN q = 1 .. Len(q) /\ \A i \in 1 .. Len(q) : q[i] \in Procs
    BY <1>2, LenProperties, ElementOfSeq
<1>4. budget \in Int
    BY <1>2, Constants
<1> HIDE DEF q, budget
<1>5. asleep \in SUBSET (1 .. Len(q))
    BY <1>3
<1>6. popped = {i \in 1 .. Len(q) : Cardinality({j \in asleep : j < i}) < budget}
    BY <1>3
<1> HIDE DEF asleep, popped
<1>7. PICK n \in 0 .. Len(q) : popped = 1 .. n /\ Cardinality(popped) = n
    <2>1. \E x \in 0 .. Len(q) :
             LET P == {i \in 1 .. Len(q) : Cardinality({j \in asleep : j < i}) < budget} IN
             P = 1 .. x /\ Cardinality(P) = x
        BY <1>3, <1>4, <1>5, PrefixFacts
    <2> QED BY <1>6, <2>1
<1>8. /\ rest \in Seq(Procs) /\ Len(rest) = Len(q) - n
      /\ \A i \in 1 .. Len(q) - n : rest[i] = q[n + i]
    <2>1. rest = SubSeq(q, n + 1, Len(q))
        BY <1>7
    <2> DEFINE a == n + 1
               l == Len(q)
    <2>2. a \in Int /\ l \in Int /\ n \in Nat /\ n <= l /\ \A i \in a .. l : q[i] \in Procs
        BY <1>3
    <2>3. rest = SubSeq(q, a, l)
        BY <2>1
    <2> HIDE DEF rest, a, l
    <2>4. /\ rest \in Seq(Procs) /\ Len(rest) = IF a <= l THEN l - a + 1 ELSE 0
          /\ \A i \in 1 .. l - a + 1 : rest[i] = q[a + i - 1]
        BY <2>2, <2>3, SubSeqProperties
    <2>5. l - a + 1 = l - n /\ (a > l => l - n = 0)
        BY <2>2 DEF a
    <2>6. \A i \in 1 .. l - n : a + i - 1 = n + i
        BY <2>2 DEF a
    <2> QED BY <2>2, <2>4, <2>5, <2>6 DEF l
<1>9. DOMAIN rest = 1 .. Len(q) - n
    <2> HIDE DEF rest
    <2> QED BY <1>8, LenProperties
<1> HIDE DEF rest
<1>10. \A p : Has(rest, p) => Has(q, p)
    <2> SUFFICES ASSUME NEW i \in 1 .. Len(q) - n PROVE \E j \in 1 .. Len(q) : q[j] = rest[i]
        BY <1>3, <1>9 DEF Has
    <2>1. n + i \in 1 .. Len(q) /\ rest[i] = q[n + i]
        BY <1>3, <1>7, <1>8
    <2> QED BY <2>1
<1>11. Q \in SUBSET Procs /\ \A p \in Q : Has(q, p)
    BY <1>3, <1>7 DEF Has
<1>12. ASSUME NEW p \in Procs, Has(q, p), k.task[p].state = "BLOCK", p \notin Q
       PROVE  Has(rest, p)
    <2>1. PICK i \in 1 .. Len(q) : q[i] = p
        BY <1>3, <1>12 DEF Has
    <2>2. i \in asleep
        BY <1>3, <1>12, <2>1 DEF asleep, Asleep
    <2>3. i \notin 1 .. n
        BY <1>7, <1>12, <2>1, <2>2
    <2>4. i - n \in 1 .. Len(q) - n /\ n + (i - n) = i
        BY <1>3, <1>7, <2>3
    <2>5. rest[i - n] = p
        BY <1>8, <2>1, <2>4
    <2> QED BY <1>9, <2>4, <2>5 DEF Has
<1> HIDE DEF Q
<1> DEFINE v == [k.srv[s] EXCEPT !.waitq = rest]
<1>13. v \in ServerRecords /\ v.waitq = rest /\ v.saved = k.srv[s].saved
       /\ EasedServer(k.srv[s], v)
    BY <1>1, <1>8, OtherQueue
<1> HIDE DEF v
<1>14. k1 \in Kernels /\ k1.task = k.task /\ Alike(k, k1) /\ k1.srv = [k.srv EXCEPT ![s] = v]
    <2>1. k1 = SetServer(k, s, v)
        BY DEF v
    <2> HIDE DEF k1
    <2> QED BY <1>13, <2>1, SetServerFacts
<1> HIDE DEF k1
<1>15. Eases(k1, m, Q)
    BY <1>11, <1>14, WakeFacts
<1> HIDE DEF m
<1>16. \A x \in Servers : /\ EasedServer(k.srv[x], k1.srv[x])
                          /\ k1.srv[x].saved = k.srv[x].saved
                          /\ x # s => k1.srv[x] = k.srv[x]
                          /\ x = s => k1.srv[x].waitq = rest
    BY <1>1, <1>13, <1>14 DEF EasedServer
<1>17. Eases(k, m, Q)
    <2>1. m \in Kernels /\ Alike(k, m)
        BY <1>14, <1>15, AlikeTwice DEF Eases
    <2>2. ASSUME NEW p \in Procs
          PROVE  IF p \in Q /\ Live(k, p) THEN m.task[p].state = "READY"
                 ELSE m.task[p] = k.task[p]
        BY <1>14, <1>15 DEF Eases, Live
    <2>3. ASSUME NEW x \in Servers
          PROVE  EasedServer(k.srv[x], m.srv[x]) /\ (x \notin Q => m.srv[x].saved = k.srv[x].saved)
        BY <1>15, <1>16, EasedTwice DEF Eases
    <2>4. ASSUME NEW x \in Servers, NEW p \in Procs
          PROVE  /\ Has(m.srv[x].waitq, p) => Has(k.srv[x].waitq, p)
                 /\ Has(k.srv[x].waitq, p) /\ k.task[p].state = "BLOCK" /\ p \notin Q =>
                       Has(m.srv[x].waitq, p)
        <3>1. /\ Has(m.srv[x].waitq, p) => Has(k1.srv[x].waitq, p)
              /\ Has(k1.srv[x].waitq, p) /\ k.task[p].state = "BLOCK" /\ p \notin Q =>
                    Has(m.srv[x].waitq, p)
            BY <1>14, <1>15 DEF Eases
        <3>2. CASE x = s
            BY <1>10, <1>12, <1>16, <3>1, <3>2 DEF q
        <3>3. CASE x # s
            BY <1>16, <3>1, <3>3
        <3> QED BY <3>2, <3>3
    <2> QED BY <2>1, <2>2, <2>3, <2>4 DEF Eases
<1> QED BY <1>0, <1>11, <1>17 DEF q

-----------------------------------------------------------------------------
(* The context switch.                                                      *)

\* What stays of a server when its context is switched.
SameService(v, w) ==
    /\ w.ring = v.ring /\ w.waitq = v.waitq /\ w.disabled = v.disabled
    /\ w.saved.state = v.saved.state /\ w.saved.res = v.saved.res
    /\ w.saved.sleep_counter = v.saved.sleep_counter

\* The context of p once the task that runs on c is stored.
Stored(k, c, p) ==
    IF p = k.cur[c] /\ Live(k, p) /\ ~(p \in Servers /\ k.srv[p].restore_pending)
    THEN k.frame[c] ELSE k.ctx[p]

\* The context of a server is turned into a handler when it is dispatched.
Injected(k, to) == to \in Servers /\ k.srv[to].do_switch /\ k.srv[to].ring # <<>>

\* Everything but tasks, contexts and server records stays.
Unswitched(k, m) ==
    /\ m.res = k.res /\ m.uuid = k.uuid /\ m.wait_for = k.wait_for
    /\ m.need_resched = k.need_resched /\ m.ipc_uid = k.ipc_uid
    /\ m.last_uuid = k.last_uuid /\ m.log = k.log

\* From k to m the core c is given to the process to, or to nobody.
Switches(k, m, c, to) ==
    /\ m \in Kernels /\ Unswitched(k, m) /\ m.cur = [k.cur EXCEPT ![c] = to]
    /\ \A x \in Cores \ {c} : m.frame[x] = k.frame[x]
    /\ m.frame[c] = IF to = NoProc THEN ZeroCtx ELSE m.ctx[to]
    /\ \A p \in Procs :
          /\ m.ctx[p] = IF p = to /\ Injected(k, to) THEN HandlerCtx(Head(k.srv[to].ring).uid)
                        ELSE Stored(k, c, p)
          /\ m.task[p].state = IF p = to THEN "RUNNING"
                               ELSE IF p = k.cur[c] /\ k.task[p].state = "RUNNING" THEN "READY"
                               ELSE k.task[p].state
    /\ \A s \in Servers :
          /\ SameService(k.srv[s], m.srv[s])
          /\ m.srv[s].do_switch <=> k.srv[s].do_switch /\ s # to
          /\ m.srv[s].restore_pending <=>
                k.srv[s].restore_pending /\ ~(s = k.cur[c] /\ Live(k, s))
          /\ m.srv[s].saved.ctx = IF s = to /\ Injected(k, to) THEN Stored(k, c, s)
                                  ELSE k.srv[s].saved.ctx

\* The contexts that the kernel makes.
LEMMA ContextFacts ==
    /\ MainCtx \in Contexts /\ MainCtx.mode = "main" /\ MainCtx.pc = "run" /\ MainCtx.n = 0
    /\ ZeroCtx \in Contexts /\ ZeroCtx.mode = "zero" /\ ZeroCtx.pc = "run"
    /\ \A u \in Uids : LET f == HandlerCtx(u) IN
          f \in Contexts /\ f.mode = "handler" /\ f.pc = "entry" /\ f.serving = u
<1>1. 0 \in 0 .. MaxSteps
    BY Constants
<1> QED BY <1>1 DEF MainCtx, ZeroCtx, HandlerCtx, Context, Contexts

\* The request at the head of a ring.
LEMMA HeadFacts ==
    ASSUME NEW v \in ServerRecords, v.ring # <<>>
    PROVE  /\ Head(v.ring) \in Requests /\ Head(v.ring).uid \in Uids
           /\ Head(v.ring).client \in Procs /\ Head(v.ring).ret \in BOOLEAN
           /\ Head(v.ring).uuid \in Nat
           /\ 1 \in DOMAIN v.ring /\ v.ring[1] = Head(v.ring)
<1>1. v.ring \in Seq(Requests)
    BY ServerFields
<1>2. Head(v.ring) \in Requests
    BY <1>1, HeadTailProperties
<1>3. 1 \in DOMAIN v.ring /\ v.ring[1] = Head(v.ring)
    BY <1>1, EmptySeq, LenProperties
<1> QED BY <1>2, <1>3 DEF Requests

\* States with another context of p.
LEMMA SetContext ==
    ASSUME NEW k \in Kernels, NEW p \in Procs, NEW f \in Contexts
    PROVE  LET m == [k EXCEPT !.ctx[p] = f] IN
           /\ m \in Kernels /\ Unswitched(k, m) /\ m.cur = k.cur /\ m.frame = k.frame
           /\ m.task = k.task /\ m.srv = k.srv /\ m.ctx = [k.ctx EXCEPT ![p] = f]
<1>1. [k.ctx EXCEPT ![p] = f] \in [Procs -> Contexts]
    BY KernelFields
<1> QED BY <1>1 DEF Kernels, Unswitched

\* Updates of the flags and of the saved context of a server.
LEMMA FlagFacts ==
    ASSUME NEW v \in ServerRecords
    PROVE  /\ LET w == [v EXCEPT !.restore_pending = FALSE] IN
              /\ w \in ServerRecords /\ SameService(v, w) /\ w.do_switch = v.do_switch
              /\ w.saved = v.saved /\ ~w.restore_pending
           /\ LET w == [v EXCEPT !.do_switch = FALSE] IN
              /\ w \in ServerRecords /\ SameService(v, w) /\ ~w.do_switch
              /\ w.saved = v.saved /\ w.restore_pending = v.restore_pending
<1>1. LET w == [v EXCEPT !.restore_pending = FALSE] IN
      /\ w \in ServerRecords /\ SameService(v, w) /\ w.do_switch = v.do_switch
      /\ w.saved = v.saved /\ ~w.restore_pending
    BY DEF ServerRecords, SameService
<1>2. LET w == [v EXCEPT !.do_switch = FALSE] IN
      /\ w \in ServerRecords /\ SameService(v, w) /\ ~w.do_switch
      /\ w.saved = v.saved /\ w.restore_pending = v.restore_pending
    BY DEF ServerRecords, SameService
<1> QED BY <1>1, <1>2

\* The registers of the main context are saved.
LEMMA SaveContextFacts ==
    ASSUME NEW v \in ServerRecords, NEW f \in Contexts
    PROVE  LET w == [v EXCEPT !.do_switch = FALSE, !.saved.ctx = f] IN
           /\ w \in ServerRecords /\ SameService(v, w) /\ ~w.do_switch
           /\ w.saved.ctx = f /\ w.restore_pending = v.restore_pending
<1> DEFINE u == [v.saved EXCEPT !.ctx = f]
<1>1. v.saved \in Saved
    BY ServerFields
<1>2. u \in Saved /\ u.ctx = f /\ u.state = v.saved.state /\ u.res = v.saved.res
      /\ u.sleep_counter = v.saved.sleep_counter
    BY <1>1 DEF Saved
<1>3. [v EXCEPT !.do_switch = FALSE, !.saved.ctx = f] = [v EXCEPT !.do_switch = FALSE, !.saved = u]
    OBVIOUS
<1> HIDE DEF u
<1>4. LET w == [v EXCEPT !.do_switch = FALSE, !.saved = u] IN
      /\ w \in ServerRecords /\ w.saved = u /\ ~w.do_switch
      /\ w.restore_pending = v.restore_pending
      /\ w.ring = v.ring /\ w.waitq = v.waitq /\ w.disabled = v.disabled
    BY <1>2 DEF ServerRecords
<1> QED BY <1>2, <1>3, <1>4 DEF SameService

\* Store() keeps the frame of the outgoing task, or drops it if the watchdog has
\* put another context in its place.
LEMMA StoreFacts ==
    ASSUME NEW k \in Kernels, NEW c \in Cores
    PROVE  LET m == Store(k, c) IN
           /\ m \in Kernels /\ Unswitched(k, m) /\ m.cur = k.cur /\ m.frame = k.frame
           /\ m.task = k.task
           /\ \A p \in Procs : m.ctx[p] = Stored(k, c, p)
           /\ \A s \in Servers :
                 /\ SameService(k.srv[s], m.srv[s]) /\ m.srv[s].do_switch = k.srv[s].do_switch
                 /\ m.srv[s].restore_pending <=>
                       k.srv[s].restore_pending /\ ~(s = k.cur[c] /\ Live(k, s))
                 /\ m.srv[s].saved = k.srv[s].saved
<1> DEFINE p == k.cur[c]
           m == Store(k, c)
<1>0. /\ p \in Procs \cup {NoProc} /\ k.frame[c] \in Contexts /\ k.ctx \in [Procs -> Contexts]
      /\ k.srv \in [Servers -> ServerRecords] /\ NoProc \notin Procs /\ Servers \subseteq Procs
    BY KernelFields, Constants
<1>1. CASE p = NoProc \/ ~Live(k, p)
    <2>1. m = k
        BY <1>1 DEF Store
    <2>2. \A q \in Procs : Stored(k, c, q) = k.ctx[q]
        BY <1>0, <1>1 DEF Stored
    <2>3. \A s \in Servers : ~(s = k.cur[c] /\ Live(k, s))
        BY <1>0, <1>1
    <2> QED BY <2>1, <2>2, <2>3 DEF Unswitched, SameService
<1>2. CASE p # NoProc /\ Live(k, p) /\ p \in Servers /\ k.srv[p].restore_pending
    <2> DEFINE v == [k.srv[p] EXCEPT !.restore_pending = FALSE]
    <2>1. m = SetServer(k, p, v)
        BY <1>2 DEF Store
    <2>2. k.srv[p] \in ServerRecords
        BY <1>0, <1>2
    <2>3. /\ v \in ServerRecords /\ SameService(k.srv[p], v) /\ v.do_switch = k.srv[p].do_switch
          /\ v.saved = k.srv[p].saved /\ ~v.restore_pending
        BY <2>2, FlagFacts
    <2> HIDE DEF v
    <2>4. m \in Kernels /\ m.task = k.task /\ Alike(k, m) /\ m.srv = [k.srv EXCEPT ![p] = v]
        <3> HIDE DEF m, p
        <3> QED BY <1>2, <2>1, <2>3, SetServerFacts
    <2> HIDE DEF m, p
    <2>5. \A q \in Procs : m.ctx[q] = Stored(k, c, q)
        BY <1>2, <2>4 DEF Stored, Alike, p
    <2>6. ASSUME NEW s \in Servers
          PROVE  /\ SameService(k.srv[s], m.srv[s]) /\ m.srv[s].do_switch = k.srv[s].do_switch
                 /\ m.srv[s].restore_pending <=>
                       k.srv[s].restore_pending /\ ~(s = k.cur[c] /\ Live(k, s))
                 /\ m.srv[s].saved = k.srv[s].saved
        <3>1. CASE s = p
            <4>1. m.srv[s] = v
                BY <1>0, <2>4, <3>1
            <4>2. s = k.cur[c] /\ Live(k, s)
                BY <1>2, <3>1 DEF p
            <4> QED BY <2>3, <3>1, <4>1, <4>2
        <3>2. CASE s # p
            <4>1. m.srv[s] = k.srv[s] /\ s # k.cur[c]
                BY <1>0, <2>4, <3>2 DEF p
            <4> QED BY <4>1 DEF SameService
        <3> QED BY <3>1, <3>2
    <2> QED BY <2>4, <2>5, <2>6 DEF Unswitched, Alike, m
<1>3. CASE p # NoProc /\ Live(k, p) /\ ~(p \in Servers /\ k.srv[p].restore_pending)
    <2>1. m = [k EXCEPT !.ctx[p] = k.frame[c]]
        BY <1>3 DEF Store
    <2>2. /\ m \in Kernels /\ Unswitched(k, m) /\ m.cur = k.cur /\ m.frame = k.frame
          /\ m.task = k.task /\ m.srv = k.srv /\ m.ctx = [k.ctx EXCEPT ![p] = k.frame[c]]
        <3> HIDE DEF m, p
        <3>1. p \in Procs
            BY <1>0, <1>3
        <3> QED BY <1>0, <2>1, <3>1, SetContext
    <2> HIDE DEF m, p
    <2>3. \A q \in Procs : m.ctx[q] = Stored(k, c, q)
        BY <1>0, <1>3, <2>2 DEF Stored, p
    <2>4. \A s \in Servers : k.srv[s].restore_pending => ~(s = k.cur[c] /\ Live(k, s))
        BY <1>3 DEF p
    <2> QED BY <2>2, <2>3, <2>4 DEF SameService, m
<1> QED BY <1>1, <1>2, <1>3

\* Inject() turns the context of an armed server into a handler.
LEMMA InjectFacts ==
    ASSUME NEW k \in Kernels, NEW to \in Procs \cup {NoProc}
    PROVE  LET m == Inject(k, to) IN
           /\ m \in Kernels /\ Unswitched(k, m) /\ m.cur = k.cur /\ m.frame = k.frame
           /\ m.task = k.task
           /\ \A p \in Procs :
                 m.ctx[p] = IF p = to /\ Injected(k, to) THEN HandlerCtx(Head(k.srv[to].ring).uid)
                            ELSE k.ctx[p]
           /\ \A s \in Servers :
                 /\ SameService(k.srv[s], m.srv[s])
                 /\ m.srv[s].do_switch <=> k.srv[s].do_switch /\ s # to
                 /\ m.srv[s].restore_pending = k.srv[s].restore_pending
                 /\ m.srv[s].saved.ctx = IF s = to /\ Injected(k, to) THEN k.ctx[s]
                                         ELSE k.srv[s].saved.ctx
<1> DEFINE m == Inject(k, to)
<1>0. /\ k.ctx \in [Procs -> Contexts] /\ k.srv \in [Servers -> ServerRecords]
      /\ NoProc \notin Procs /\ Servers \subseteq Procs
    BY KernelFields, Constants
<1>1. CASE to \notin Servers \/ ~k.srv[to].do_switch
    <2>1. m = k /\ ~Injected(k, to)
        BY <1>1 DEF Inject, Injected
    <2>2. \A s \in Servers : k.srv[s].do_switch => s # to
        BY <1>1
    <2>3. \A s \in Servers : k.srv[s].do_switch \in BOOLEAN
        BY <1>0, ServerFields
    <2> QED BY <2>1, <2>2, <2>3 DEF Unswitched, SameService
<1>2. CASE to \in Servers /\ k.srv[to].do_switch /\ k.srv[to].ring = <<>>
    <2> DEFINE v == [k.srv[to] EXCEPT !.do_switch = FALSE]
    <2>1. m = SetServer(k, to, v) /\ ~Injected(k, to)
        BY <1>2 DEF Inject, Injected
    <2>2. k.srv[to] \in ServerRecords
        BY <1>0, <1>2
    <2>3. /\ v \in ServerRecords /\ SameService(k.srv[to], v) /\ ~v.do_switch
          /\ v.saved = k.srv[to].saved /\ v.restore_pending = k.srv[to].restore_pending
        BY <2>2, FlagFacts
    <2> HIDE DEF v
    <2>4. m \in Kernels /\ m.task = k.task /\ Alike(k, m) /\ m.srv = [k.srv EXCEPT ![to] = v]
        <3> HIDE DEF m
        <3> QED BY <1>2, <2>1, <2>3, SetServerFacts
    <2> HIDE DEF m
    <2>6. ASSUME NEW s \in Servers
          PROVE  /\ SameService(k.srv[s], m.srv[s])
                 /\ m.srv[s].do_switch <=> k.srv[s].do_switch /\ s # to
                 /\ m.srv[s].restore_pending = k.srv[s].restore_pending
                 /\ m.srv[s].saved.ctx = k.srv[s].saved.ctx
        <3>1. CASE s = to
            <4>1. m.srv[s] = v
                BY <1>0, <2>4, <3>1
            <4> QED BY <2>3, <3>1, <4>1
        <3>2. CASE s # to
            <4>1. m.srv[s] = k.srv[s] /\ m.srv[s].do_switch \in BOOLEAN
                BY <1>0, <2>4, <3>2, ServerFields
            <4> QED BY <3>2, <4>1 DEF SameService
        <3> QED BY <3>1, <3>2
    <2> QED BY <2>1, <2>4, <2>6 DEF Unswitched, Alike, m
<1>3. CASE Injected(k, to)
    <2> DEFINE v == [k.srv[to] EXCEPT !.do_switch = FALSE, !.saved.ctx = k.ctx[to]]
               k1 == SetServer(k, to, v)
               f == HandlerCtx(Head(k.srv[to].ring).uid)
    <2>1. m = [k1 EXCEPT !.ctx[to] = f]
        BY <1>3 DEF Inject, Injected
    <2>2. k.srv[to] \in ServerRecords /\ k.ctx[to] \in Contexts /\ to \in Procs /\ to \in Servers
        BY <1>0, <1>3 DEF Injected
    <2>3. /\ v \in ServerRecords /\ SameService(k.srv[to], v) /\ ~v.do_switch
          /\ v.saved.ctx = k.ctx[to] /\ v.restore_pending = k.srv[to].restore_pending
        BY <2>2, SaveContextFacts
    <2>4. f \in Contexts
        <3>1. Head(k.srv[to].ring).uid \in Uids
            BY <1>3, <2>2, HeadFacts DEF Injected
        <3> QED BY <3>1, ContextFacts
    <2> HIDE DEF v
    <2>5. k1 \in Kernels /\ k1.task = k.task /\ Alike(k, k1) /\ k1.srv = [k.srv EXCEPT ![to] = v]
        BY <2>2, <2>3, SetServerFacts
    <2> HIDE DEF k1, f, m
    <2>6. /\ m \in Kernels /\ Unswitched(k1, m) /\ m.cur = k1.cur /\ m.frame = k1.frame
          /\ m.task = k1.task /\ m.srv = k1.srv /\ m.ctx = [k1.ctx EXCEPT ![to] = f]
        BY <2>1, <2>2, <2>4, <2>5, SetContext
    <2>7. \A p \in Procs : m.ctx[p] = IF p = to THEN f ELSE k.ctx[p]
        BY <1>0, <2>5, <2>6 DEF Alike
    <2>8. ASSUME NEW s \in Servers
          PROVE  /\ SameService(k.srv[s], m.srv[s])
                 /\ m.srv[s].do_switch <=> k.srv[s].do_switch /\ s # to
                 /\ m.srv[s].restore_pending = k.srv[s].restore_pending
                 /\ m.srv[s].saved.ctx = IF s = to THEN k.ctx[s] ELSE k.srv[s].saved.ctx
        <3>1. CASE s = to
            <4>1. m.srv[s] = v
                BY <1>0, <2>5, <2>6, <3>1
            <4> QED BY <2>3, <3>1, <4>1
        <3>2. CASE s # to
            <4>1. m.srv[s] = k.srv[s] /\ m.srv[s].do_switch \in BOOLEAN
                BY <1>0, <2>5, <2>6, <3>2, ServerFields
            <4> QED BY <3>2, <4>1 DEF SameService
        <3> QED BY <3>1, <3>2
    <2> QED BY <1>3, <2>5, <2>6, <2>7, <2>8 DEF Unswitched, Alike, m, f
<1> QED BY <1>1, <1>2, <1>3 DEF Injected

\* Requeue() puts the outgoing task back into the ready queue.
LEMMA RequeueFacts ==
    ASSUME NEW k \in Kernels, NEW c \in Cores, NEW to
    PROVE  LET m == Requeue(k, c, to) IN
           /\ m \in Kernels /\ Alike(k, m) /\ m.srv = k.srv
           /\ \A p \in Procs :
                 m.task[p].state = IF p # to /\ p = k.cur[c] /\ k.task[p].state = "RUNNING"
                                   THEN "READY" ELSE k.task[p].state
<1> DEFINE p == k.cur[c]
           m == Requeue(k, c, to)
<1>0. p \in Procs \cup {NoProc} /\ k.task \in [Procs -> Tasks] /\ NoProc \notin Procs
    BY KernelFields, Constants
<1>1. CASE p \notin {NoProc, to} /\ k.task[p].state = "RUNNING"
    <2> DEFINE t == proc_ready(k.task[p])
    <2>1. m = SetTask(k, p, t)
        BY <1>1 DEF Requeue
    <2>2. p \in Procs /\ t \in Tasks /\ t.state = "READY"
        BY <1>0, <1>1, TaskFacts
    <2> HIDE DEF t, p, m
    <2>3. m \in Kernels /\ m.srv = k.srv /\ Alike(k, m) /\ m.task = [k.task EXCEPT ![p] = t]
        BY <2>1, <2>2, SetTaskFacts
    <2>4. \A q \in Procs : m.task[q].state = IF q = p THEN "READY" ELSE k.task[q].state
        BY <1>0, <2>2, <2>3
    <2> QED BY <1>1, <2>3, <2>4 DEF p, m
<1>2. CASE ~(p \notin {NoProc, to} /\ k.task[p].state = "RUNNING")
    <2>1. m = k
        BY <1>2 DEF Requeue
    <2> QED BY <1>0, <1>2, <2>1 DEF Alike
<1> QED BY <1>1, <1>2

\* proc_switch()
LEMMA SwitchFacts ==
    ASSUME NEW k \in Kernels, NEW c \in Cores, NEW to \in Procs \cup {NoProc}
    PROVE  Switches(k, proc_switch(k, c, to), c, to)
<1> DEFINE a == Store(k, c)
           b == Inject(a, to)
           d == Requeue(b, c, to)
           m == proc_switch(k, c, to)
<1>0. NoProc \notin Procs /\ Servers \subseteq Procs /\ k.cur \in [Cores -> Procs \cup {NoProc}]
      /\ k.frame \in [Cores -> Contexts]
    BY Constants, KernelFields
<1>1. /\ a \in Kernels /\ Unswitched(k, a) /\ a.cur = k.cur /\ a.frame = k.frame
      /\ a.task = k.task
      /\ \A p \in Procs : a.ctx[p] = Stored(k, c, p)
      /\ \A s \in Servers :
            /\ SameService(k.srv[s], a.srv[s]) /\ a.srv[s].do_switch = k.srv[s].do_switch
            /\ a.srv[s].restore_pending <=>
                  k.srv[s].restore_pending /\ ~(s = k.cur[c] /\ Live(k, s))
            /\ a.srv[s].saved = k.srv[s].saved
    BY StoreFacts
<1> HIDE DEF a
<1>2. /\ b \in Kernels /\ Unswitched(a, b) /\ b.cur = a.cur /\ b.frame = a.frame
      /\ b.task = a.task
      /\ \A p \in Procs :
            b.ctx[p] = IF p = to /\ Injected(a, to) THEN HandlerCtx(Head(a.srv[to].ring).uid)
                       ELSE a.ctx[p]
      /\ \A s \in Servers :
            /\ SameService(a.srv[s], b.srv[s])
            /\ b.srv[s].do_switch <=> a.srv[s].do_switch /\ s # to
            /\ b.srv[s].restore_pending = a.srv[s].restore_pending
            /\ b.srv[s].saved.ctx = IF s = to /\ Injected(a, to) THEN a.ctx[s]
                                    ELSE a.srv[s].saved.ctx
    BY <1>1, InjectFacts
<1> HIDE DEF b
<1>3. /\ d \in Kernels /\ Alike(b, d) /\ d.srv = b.srv
      /\ \A p \in Procs :
            d.task[p].state = IF p # to /\ p = b.cur[c] /\ b.task[p].state = "RUNNING"
                              THEN "READY" ELSE b.task[p].state
    BY <1>2, RequeueFacts
<1> HIDE DEF d
<1>4. to \in Servers => a.srv[to].ring = k.srv[to].ring
    BY <1>1 DEF SameService
<1>5. Injected(a, to) <=> Injected(k, to)
    BY <1>1, <1>4 DEF Injected
<1>6. /\ Unswitched(k, d) /\ d.cur = k.cur /\ d.frame = k.frame
      /\ \A p \in Procs :
            /\ d.ctx[p] = IF p = to /\ Injected(k, to) THEN HandlerCtx(Head(k.srv[to].ring).uid)
                          ELSE Stored(k, c, p)
            /\ d.task[p].state = IF p # to /\ p = k.cur[c] /\ k.task[p].state = "RUNNING"
                                 THEN "READY" ELSE k.task[p].state
    <2>1. Unswitched(k, d) /\ d.cur = k.cur /\ d.frame = k.frame /\ d.ctx = b.ctx
        BY <1>1, <1>2, <1>3 DEF Unswitched, Alike
    <2>2. ASSUME NEW p \in Procs
          PROVE  d.ctx[p] = IF p = to /\ Injected(k, to) THEN HandlerCtx(Head(k.srv[to].ring).uid)
                            ELSE Stored(k, c, p)
        <3>1. p = to /\ Injected(k, to) => to \in Servers
            BY DEF Injected
        <3> QED BY <1>1, <1>2, <1>4, <1>5, <2>1, <3>1
    <2>3. \A p \in Procs :
            d.task[p].state = IF p # to /\ p = k.cur[c] /\ k.task[p].state = "RUNNING"
                              THEN "READY" ELSE k.task[p].state
        BY <1>1, <1>2, <1>3
    <2> QED BY <2>1, <2>2, <2>3
<1>7. ASSUME NEW s \in Servers
      PROVE  /\ SameService(k.srv[s], d.srv[s])
             /\ d.srv[s].do_switch <=> k.srv[s].do_switch /\ s # to
             /\ d.srv[s].restore_pending <=>
                   k.srv[s].restore_pending /\ ~(s = k.cur[c] /\ Live(k, s))
             /\ d.srv[s].saved.ctx = IF s = to /\ Injected(k, to) THEN Stored(k, c, s)
                                     ELSE k.srv[s].saved.ctx
    <2>1. SameService(k.srv[s], d.srv[s])
        BY <1>1, <1>2, <1>3 DEF SameService
    <2>2. d.srv[s].do_switch <=> k.srv[s].do_switch /\ s # to
        BY <1>1, <1>2, <1>3
    <2>3. d.srv[s].restore_pending <=>
              k.srv[s].restore_pending /\ ~(s = k.cur[c] /\ Live(k, s))
        BY <1>1, <1>2, <1>3
    <2>4. d.srv[s].saved.ctx = IF s = to /\ Injected(k, to) THEN Stored(k, c, s)
                               ELSE k.srv[s].saved.ctx
        BY <1>0, <1>1, <1>2, <1>3, <1>5
    <2> QED BY <2>1, <2>2, <2>3, <2>4
<1>8. CASE to = NoProc
    <2>1. m = [d EXCEPT !.cur[c] = NoProc, !.frame[c] = ZeroCtx]
        BY <1>8 DEF proc_switch, d, b, a
    <2> HIDE DEF m
    <2>2. /\ m \in Kernels /\ Unswitched(d, m) /\ m.task = d.task /\ m.srv = d.srv
          /\ m.ctx = d.ctx /\ m.cur = [d.cur EXCEPT ![c] = NoProc]
          /\ m.frame = [d.frame EXCEPT ![c] = ZeroCtx]
        <3> DEFINE C == [d.cur EXCEPT ![c] = NoProc]
                   F == [d.frame EXCEPT ![c] = ZeroCtx]
        <3>1. m = [d EXCEPT !.cur = C, !.frame = F]
            BY <2>1
        <3>2. C \in [Cores -> Procs \cup {NoProc}] /\ F \in [Cores -> Contexts]
            BY <1>0, <1>6, ContextFacts
        <3> HIDE DEF C, F
        <3>3. /\ m \in Kernels /\ Unswitched(d, m) /\ m.task = d.task /\ m.srv = d.srv
              /\ m.ctx = d.ctx /\ m.cur = C /\ m.frame = F
            BY <1>3, <3>1, <3>2 DEF Kernels, Unswitched
        <3> QED BY <3>3 DEF C, F
    <2>3. Unswitched(k, m) /\ m.cur = [k.cur EXCEPT ![c] = to]
        BY <1>6, <1>8, <2>2 DEF Unswitched
    <2>4. m.frame[c] = ZeroCtx /\ \A x \in Cores \ {c} : m.frame[x] = k.frame[x]
        BY <1>0, <1>6, <2>2
    <2>5. \A p \in Procs : p # to
        BY <1>0, <1>8
    <2>6. Switches(k, m, c, to)
        BY <1>6, <1>7, <1>8, <2>2, <2>3, <2>4, <2>5 DEF Switches
    <2> QED BY <2>6 DEF m
<1>9. CASE to # NoProc
    <2> DEFINE t == [d.task[to] EXCEPT !.state = "RUNNING"]
               e == SetTask(d, to, t)
    <2>0. to \in Procs /\ d.task \in [Procs -> Tasks] /\ d.ctx[to] \in Contexts
        BY <1>3, <1>9, KernelFields
    <2>1. m = [e EXCEPT !.cur[c] = to, !.frame[c] = d.ctx[to]]
        BY <1>9 DEF proc_switch, d, b, a
    <2>2. t \in Tasks /\ t.state = "RUNNING"
        <3>1. d.task[to] \in Tasks
            BY <2>0
        <3> QED BY <3>1 DEF Tasks, States
    <2> HIDE DEF t
    <2>3. e \in Kernels /\ e.srv = d.srv /\ Alike(d, e) /\ e.task = [d.task EXCEPT ![to] = t]
        BY <1>3, <2>0, <2>2, SetTaskFacts
    <2> HIDE DEF e, m
    <2>4. /\ m \in Kernels /\ Unswitched(e, m) /\ m.task = e.task /\ m.srv = e.srv
          /\ m.ctx = e.ctx /\ m.cur = [e.cur EXCEPT ![c] = to]
          /\ m.frame = [e.frame EXCEPT ![c] = d.ctx[to]]
        <3> DEFINE C == [e.cur EXCEPT ![c] = to]
                   F == [e.frame EXCEPT ![c] = d.ctx[to]]
        <3>1. m = [e EXCEPT !.cur = C, !.frame = F]
            BY <2>1
        <3>2. C \in [Cores -> Procs \cup {NoProc}] /\ F \in [Cores -> Contexts]
            BY <1>0, <1>6, <2>0, <2>3 DEF Alike
        <3> HIDE DEF C, F
        <3>3. /\ m \in Kernels /\ Unswitched(e, m) /\ m.task = e.task /\ m.srv = e.srv
              /\ m.ctx = e.ctx /\ m.cur = C /\ m.frame = F
            BY <2>3, <3>1, <3>2 DEF Kernels, Unswitched
        <3> QED BY <3>3 DEF C, F
    <2>5. Unswitched(k, m) /\ m.cur = [k.cur EXCEPT ![c] = to] /\ m.ctx = d.ctx /\ m.srv = d.srv
        BY <1>6, <2>3, <2>4 DEF Unswitched, Alike
    <2>6. m.frame[c] = m.ctx[to] /\ \A x \in Cores \ {c} : m.frame[x] = k.frame[x]
        BY <1>0, <1>6, <2>3, <2>4, <2>5 DEF Alike
    <2>7. \A p \in Procs : m.task[p].state = IF p = to THEN "RUNNING" ELSE d.task[p].state
        BY <2>0, <2>2, <2>3, <2>4
    <2>8. Switches(k, m, c, to)
        BY <1>6, <1>7, <1>9, <2>4, <2>5, <2>6, <2>7 DEF Switches
    <2> QED BY <2>8 DEF m
<1> QED BY <1>8, <1>9

\* The tasks that schedule() chooses from.
LEMMA ScheduleFacts ==
    ASSUME NEW k \in Kernels, NEW c \in Cores, NEW m \in schedule(k, c)
    PROVE  \E to \in Procs \cup {NoProc} :
              /\ Switches(k, m, c, to)
              /\ to # NoProc => Core[to] = c /\ k.task[to].state \in Runnable
<1>1. PICK to \in IF Ready(k, c) = {} THEN {NoProc} ELSE Ready(k, c) : m = proc_switch(k, c, to)
    BY DEF schedule
<1>2. to = NoProc \/ to \in Ready(k, c)
    BY <1>1
<1>3. to \in Procs \cup {NoProc} /\ (to # NoProc => Core[to] = c /\ k.task[to].state \in Runnable)
    BY <1>2 DEF Ready, Runnable
<1> QED BY <1>1, <1>3, SwitchFacts

\* proc_switch_multi_core(): a wake of the process, and a switch to it if it is
\* on this core.
LEMMA MultiCoreFacts ==
    ASSUME NEW k \in Kernels, NEW c \in Cores, NEW to \in Procs, Live(k, to),
           NEW m, m = proc_switch_multi_core(k, c, to)
    PROVE  \E n \in Kernels :
              /\ Eases(k, n, {to}) \/ (n = k /\ k.task[to].state = "RUNNING")
              /\ Core[to] = c => Switches(n, m, c, to)
              /\ Core[to] # c => m = n /\ Eases(k, n, {to})
<1>1. CASE Core[to] # c
    <2> DEFINE n == proc_wakeup(k, {to})
    <2>1. m = n
        BY <1>1 DEF proc_switch_multi_core
    <2>2. Eases(k, n, {to})
        BY WakeFacts
    <2>3. n \in Kernels
        BY <2>2 DEF Eases
    <2> HIDE DEF n
    <2> QED BY <1>1, <2>1, <2>2, <2>3
<1>2. CASE Core[to] = c /\ k.task[to].state = "RUNNING"
    <2>1. m = proc_switch(k, c, to)
        BY <1>2 DEF proc_switch_multi_core
    <2>2. Switches(k, m, c, to)
        BY <2>1, SwitchFacts
    <2> QED BY <1>2, <2>2
<1>3. CASE Core[to] = c /\ k.task[to].state # "RUNNING"
    <2> DEFINE n == proc_wakeup_all_state(k, to)
    <2>1. m = proc_switch(n, c, to)
        BY <1>3 DEF proc_switch_multi_core
    <2>2. Eases(k, n, {to})
        BY WakeAllStateFacts
    <2>3. n \in Kernels
        BY <2>2 DEF Eases
    <2> HIDE DEF n
    <2>4. Switches(n, m, c, to)
        BY <2>1, <2>3, SwitchFacts
    <2> QED BY <1>3, <2>2, <2>3, <2>4
<1> QED BY <1>1, <1>2, <1>3

-----------------------------------------------------------------------------
(* The first invariant: types, and who asked.                               *)

\* A wake revives nobody and kills nobody.
LEMMA EasesLive ==
    ASSUME NEW k, NEW m, NEW Q, Eases(k, m, Q), NEW p \in Procs
    PROVE  /\ Live(m, p) <=> Live(k, p)
           /\ m.task[p].state # k.task[p].state => m.task[p].state = "READY" /\ p \in Q
BY DEF Eases, Live, proc_get

\* Nor does a switch.
LEMMA SwitchesLive ==
    ASSUME NEW k, NEW m, NEW c, NEW to, Switches(k, m, c, to), NEW p \in Procs,
           to \in Procs => Live(k, to)
    PROVE  /\ Live(m, p) <=> Live(k, p)
           /\ m.task[p].state # k.task[p].state => m.task[p].state \in Runnable
<1>1. m.task[p].state = IF p = to THEN "RUNNING"
                        ELSE IF p = k.cur[c] /\ k.task[p].state = "RUNNING" THEN "READY"
                        ELSE k.task[p].state
    BY DEF Switches
<1> QED BY <1>1 DEF Live, proc_get, Runnable

\* The invariant knows rings, but neither queues nor states.
LEMMA BaseEases ==
    ASSUME NEW k, NEW m, NEW Q, BaseInv(k), Eases(k, m, Q)
    PROVE  BaseInv(m)
<1>1. m \in Kernels /\ Alike(k, m) /\ Servers \subseteq Procs
    BY Constants DEF Eases
<1>2. \A s \in Servers : EasedServer(k.srv[s], m.srv[s])
    BY DEF Eases
<1>3. \A p \in Procs : Live(m, p) <=> Live(k, p)
    BY EasesLive
<1>4. CurOK(m) /\ ModesOK(m)
    BY <1>1 DEF BaseInv, CurOK, ModesOK, Alike
<1>5. CallsOK(m)
    <2>1. \A f : CallOK(m, f) <=> CallOK(k, f)
        BY <1>1, <1>2 DEF CallOK, EasedServer, Alike
    <2>2. \A s \in Servers : m.srv[s].saved.ctx = k.srv[s].saved.ctx
        BY <1>2 DEF EasedServer
    <2> HIDE DEF CallOK
    <2> QED BY <1>1, <2>1, <2>2 DEF BaseInv, CallsOK, Alike
<1>6. AskedOK(m)
    <2>1. \A r : RequestOK(m, r) <=> RequestOK(k, r)
        BY <1>1 DEF RequestOK, Alike
    <2>2. \A p, r : ReplyOK(m, p, r) <=> ReplyOK(k, p, r)
        BY <1>1 DEF ReplyOK, Alike
    <2>3. \A s \in Servers : /\ m.srv[s].ring = k.srv[s].ring
                             /\ m.srv[s].saved.res = k.srv[s].saved.res
        BY <1>2 DEF EasedServer
    <2>4. m.res = k.res
        BY <1>1 DEF Alike
    <2> QED BY <1>1, <1>3, <2>1, <2>2, <2>3, <2>4 DEF BaseInv, AskedOK
<1>7. DeadOK(m) /\ NoRestore(m)
    BY <1>1, <1>2, <1>3 DEF BaseInv, DeadOK, NoRestore, EasedServer, Alike
<1> QED BY <1>1, <1>4, <1>5, <1>6, <1>7 DEF BaseInv

\* A switch moves contexts around.
LEMMA BaseSwitches ==
    ASSUME NEW k, NEW m, NEW c \in Cores, NEW to \in Procs \cup {NoProc},
           BaseInv(k), Switches(k, m, c, to), to # NoProc => Core[to] = c /\ Live(k, to)
    PROVE  BaseInv(m)
<1>0. NoProc \notin Procs /\ Servers \subseteq Procs
    BY Constants
<1>1. m \in Kernels /\ k \in Kernels /\ Unswitched(k, m) /\ m.cur = [k.cur EXCEPT ![c] = to]
      /\ k.cur \in [Cores -> Procs \cup {NoProc}] /\ k.srv \in [Servers -> ServerRecords]
    BY KernelFields DEF Switches, BaseInv
<1>2. \A s \in Servers : SameService(k.srv[s], m.srv[s])
    BY DEF Switches
<1>3. \A p \in Procs : Live(m, p) <=> Live(k, p)
    BY <1>0, SwitchesLive
<1>4. CurOK(m)
    BY <1>1 DEF BaseInv, CurOK
<1>5. \A p \in Procs : \/ m.ctx[p] = k.ctx[p]
                       \/ p = k.cur[c] /\ m.ctx[p] = k.frame[c]
                       \/ p \in Servers /\ \E u \in Uids : m.ctx[p] = HandlerCtx(u)
    <2> SUFFICES ASSUME NEW p \in Procs
                 PROVE  \/ m.ctx[p] = k.ctx[p]
                        \/ p = k.cur[c] /\ m.ctx[p] = k.frame[c]
                        \/ p \in Servers /\ \E u \in Uids : m.ctx[p] = HandlerCtx(u)
        OBVIOUS
    <2>1. m.ctx[p] = IF p = to /\ Injected(k, to) THEN HandlerCtx(Head(k.srv[to].ring).uid)
                     ELSE Stored(k, c, p)
        BY DEF Switches
    <2>2. CASE p = to /\ Injected(k, to)
        <3>1. k.srv[to] \in ServerRecords /\ k.srv[to].ring # <<>> /\ to \in Servers
            BY <1>1, <2>2 DEF Injected
        <3>2. Head(k.srv[to].ring).uid \in Uids
            BY <3>1, HeadFacts
        <3> QED BY <2>1, <2>2, <3>1, <3>2
    <2>3. CASE ~(p = to /\ Injected(k, to))
        BY <2>1, <2>3 DEF Stored
    <2> QED BY <2>2, <2>3
<1>6. \A x \in Cores : \/ m.frame[x] = k.frame[x] /\ m.cur[x] = k.cur[x]
                       \/ m.cur[x] \in Procs /\ m.frame[x] = m.ctx[m.cur[x]]
                       \/ m.frame[x] = ZeroCtx
    BY <1>1 DEF Switches
<1>7. ModesOK(m)
    <2>1. \A p \in Procs \ Servers : m.ctx[p].mode # "handler"
        BY <1>5 DEF BaseInv, ModesOK
    <2> QED BY <1>6, <2>1, ContextFacts DEF BaseInv, ModesOK
<1>8. CallsOK(m)
    <2>1. \A f : CallOK(m, f) <=> CallOK(k, f)
        BY <1>1, <1>2 DEF CallOK, SameService, Unswitched
    <2>2. CallOK(k, ZeroCtx) /\ \A u \in Uids : CallOK(k, HandlerCtx(u))
        BY ContextFacts DEF CallOK
    <2> HIDE DEF CallOK
    <2>3. \A p \in Procs : CallOK(k, m.ctx[p])
        BY <1>5, <2>2 DEF BaseInv, CallsOK
    <2>4. \A x \in Cores : CallOK(k, m.frame[x])
        BY <1>6, <2>2, <2>3 DEF BaseInv, CallsOK
    <2>5. \A s \in Servers : CallOK(k, m.srv[s].saved.ctx)
        <3> SUFFICES ASSUME NEW s \in Servers PROVE CallOK(k, m.srv[s].saved.ctx)
            OBVIOUS
        <3>1. m.srv[s].saved.ctx \in {k.srv[s].saved.ctx, k.frame[c], k.ctx[s]}
            BY DEF Switches, Stored
        <3> QED BY <1>0, <3>1 DEF BaseInv, CallsOK
    <2> QED BY <2>1, <2>3, <2>4, <2>5 DEF CallsOK
<1>9. AskedOK(m)
    <2>1. \A r : RequestOK(m, r) <=> RequestOK(k, r)
        BY <1>1 DEF RequestOK, Unswitched
    <2>2. \A p, r : ReplyOK(m, p, r) <=> ReplyOK(k, p, r)
        BY <1>1 DEF ReplyOK, Unswitched
    <2>3. \A s \in Servers : /\ m.srv[s].ring = k.srv[s].ring
                             /\ m.srv[s].saved.res = k.srv[s].saved.res
        BY <1>2 DEF SameService
    <2>4. m.res = k.res
        BY <1>1 DEF Unswitched
    <2> QED BY <1>0, <1>3, <2>1, <2>2, <2>3, <2>4 DEF BaseInv, AskedOK
<1>10. DeadOK(m)
    <2>1. m.uuid = k.uuid /\ m.last_uuid = k.last_uuid
        BY <1>1 DEF Unswitched
    <2>2. \A s \in Servers : /\ m.srv[s].ring = k.srv[s].ring
                             /\ m.srv[s].do_switch => k.srv[s].do_switch
                             /\ m.srv[s].saved.state = k.srv[s].saved.state
        BY <1>2 DEF SameService, Switches
    <2> QED BY <1>0, <1>3, <2>1, <2>2 DEF BaseInv, DeadOK
<1>11. NoRestore(m)
    BY DEF BaseInv, NoRestore, Switches
<1> QED BY <1>1, <1>4, <1>7, <1>8, <1>9, <1>10, <1>11 DEF BaseInv

\* A step that adds no request, and no context or reply that is not in order.
Mild(k, m) ==
    /\ m \in Kernels /\ m.cur = k.cur /\ m.ipc_uid = k.ipc_uid /\ m.last_uuid = k.last_uuid
    /\ m.log.asked = k.log.asked
    /\ \A p \in Procs :
          /\ Live(m, p) => Live(k, p) /\ m.uuid[p] = k.uuid[p]
          /\ m.uuid[p] <= k.uuid[p]
          /\ m.ctx[p] = k.ctx[p] \/ (p \in Servers /\ CallOK(k, m.ctx[p]))
          /\ Live(m, p) => m.res[p] = k.res[p] \/ ReplyOK(k, p, m.res[p])
    /\ \A x \in Cores :
          \/ m.frame[x] = k.frame[x]
          \/ CallOK(k, m.frame[x]) /\ (m.frame[x].mode = "handler" => k.cur[x] \in Servers)
    /\ \A s \in Servers :
          /\ \A i \in DOMAIN m.srv[s].ring : Has(k.srv[s].ring, m.srv[s].ring[i])
          /\ ~Live(m, s) => m.srv[s].ring = <<>> /\ ~m.srv[s].do_switch
          /\ CallOK(k, m.srv[s].saved.ctx)
          /\ Live(m, s) => ReplyOK(k, s, m.srv[s].saved.res)
          /\ m.srv[s].restore_pending => Watchdog
          /\ m.srv[s].saved.state # "ZOMBIE"

\* Such steps keep the invariant.
LEMMA BaseMild ==
    ASSUME NEW k, NEW m, BaseInv(k), Mild(k, m)
    PROVE  BaseInv(m)
<1>0. Servers \subseteq Procs
    BY Constants
<1>1. m \in Kernels /\ m.cur = k.cur /\ m.ipc_uid = k.ipc_uid /\ m.last_uuid = k.last_uuid
      /\ m.log.asked = k.log.asked /\ k \in Kernels
    BY DEF Mild, BaseInv
<1>2. CurOK(m) /\ ModesOK(m) /\ NoRestore(m)
    <2>1. CurOK(m)
        BY <1>1 DEF BaseInv, CurOK
    <2>2. \A p \in Procs \ Servers : m.ctx[p] = k.ctx[p]
        BY DEF Mild
    <2>3. \A x \in Cores : m.frame[x] = k.frame[x]
                           \/ (m.frame[x].mode = "handler" => k.cur[x] \in Servers)
        BY DEF Mild
    <2>4. ModesOK(m)
        BY <1>1, <2>2, <2>3 DEF BaseInv, ModesOK
    <2>5. NoRestore(m)
        BY DEF Mild, NoRestore
    <2> QED BY <2>1, <2>4, <2>5
<1>3. CallsOK(m)
    <2>1. ASSUME NEW f, CallOK(k, f) PROVE CallOK(m, f)
        <3> SUFFICES ASSUME f.pc = "wait", NEW s \in Servers, NEW i \in DOMAIN m.srv[s].ring,
                            m.srv[s].ring[i].uid = f.uid
                     PROVE  m.srv[s].ring[i].ret
            BY <1>1, <2>1 DEF CallOK
        <3>1. PICK j \in DOMAIN k.srv[s].ring : k.srv[s].ring[j] = m.srv[s].ring[i]
            BY DEF Mild, Has
        <3> QED BY <2>1, <3>1 DEF CallOK
    <2>2. \A p \in Procs : CallOK(k, m.ctx[p])
        BY DEF Mild, BaseInv, CallsOK
    <2>3. \A x \in Cores : CallOK(k, m.frame[x])
        BY DEF Mild, BaseInv, CallsOK
    <2>4. \A s \in Servers : CallOK(k, m.srv[s].saved.ctx)
        BY DEF Mild
    <2> QED BY <2>1, <2>2, <2>3, <2>4 DEF CallsOK
<1>4. AskedOK(m)
    <2>1. \A r : RequestOK(m, r) <=> RequestOK(k, r)
        BY <1>1 DEF RequestOK
    <2>2. \A p \in Procs : Live(m, p) => \A r : ReplyOK(m, p, r) <=> ReplyOK(k, p, r)
        BY <1>1 DEF ReplyOK, Mild
    <2>3. ASSUME NEW s \in Servers, NEW i \in DOMAIN m.srv[s].ring
          PROVE  RequestOK(m, m.srv[s].ring[i])
        <3>1. PICK j \in DOMAIN k.srv[s].ring : k.srv[s].ring[j] = m.srv[s].ring[i]
            BY DEF Mild, Has
        <3> QED BY <2>1, <3>1 DEF BaseInv, AskedOK
    <2>4. ASSUME NEW p \in Procs, Live(m, p) PROVE ReplyOK(k, p, m.res[p])
        BY <2>4 DEF Mild, BaseInv, AskedOK
    <2>5. ASSUME NEW s \in Servers, Live(m, s) PROVE ReplyOK(k, s, m.srv[s].saved.res)
        BY <2>5 DEF Mild
    <2> QED BY <1>0, <2>2, <2>3, <2>4, <2>5 DEF AskedOK
<1>5. DeadOK(m)
    <2>1. ASSUME NEW p \in Procs PROVE m.uuid[p] <= m.last_uuid
        <3>1. m.uuid[p] \in Nat /\ k.uuid[p] \in Nat /\ k.last_uuid \in Nat
            BY <1>1, KernelFields
        <3>2. m.uuid[p] <= k.uuid[p] /\ k.uuid[p] <= k.last_uuid
            BY DEF Mild, BaseInv, DeadOK
        <3> QED BY <1>1, <3>1, <3>2
    <2> QED BY <2>1 DEF Mild, DeadOK
<1> QED BY <1>1, <1>2, <1>3, <1>4, <1>5 DEF BaseInv

\* Contexts, requests and incarnations stay, and no reply is given to anybody it
\* does not belong to.
Steady(k, m) ==
    /\ m \in Kernels
    /\ m.srv = k.srv /\ m.ctx = k.ctx /\ m.uuid = k.uuid /\ m.cur = k.cur
    /\ m.ipc_uid = k.ipc_uid /\ m.last_uuid = k.last_uuid /\ m.log.asked = k.log.asked
    /\ \A p \in Procs : m.res[p] = k.res[p] \/ ReplyOK(k, p, m.res[p])

\* Nothing changes but what the invariants do not mention.
Quiet(k, m) ==
    Steady(k, m) /\ m.task = k.task /\ m.wait_for = k.wait_for /\ m.frame = k.frame

\* The process that runs on c goes on with the context f.
Reframes(k, m, c, f) ==
    /\ Steady(k, m) /\ m.task = k.task /\ m.wait_for = k.wait_for
    /\ m.frame = [k.frame EXCEPT ![c] = f]

\* The state of one task changes.
Retasks(k, m, p, state) ==
    /\ Steady(k, m) /\ m.frame = k.frame
    /\ \A q \in Procs \ {p} : m.task[q] = k.task[q] /\ m.wait_for[q] = k.wait_for[q]
    /\ m.task[p].state = state

\* What a ring holds.
LEMMA HasSelf == \A q : \A i \in DOMAIN q : Has(q, q[i])
BY DEF Has

\* Facts about every state of the invariant, in the form that Mild() wants.
LEMMA BaseFacts ==
    ASSUME NEW k, BaseInv(k)
    PROVE  /\ k \in Kernels
           /\ \A p \in Procs : CallOK(k, k.ctx[p]) /\ (Live(k, p) => ReplyOK(k, p, k.res[p]))
           /\ \A x \in Cores : CallOK(k, k.frame[x])
           /\ \A s \in Servers : /\ CallOK(k, k.srv[s].saved.ctx)
                                 /\ Live(k, s) => ReplyOK(k, s, k.srv[s].saved.res)
                                 /\ ~Live(k, s) => k.srv[s].ring = <<>> /\ ~k.srv[s].do_switch
                                 /\ k.srv[s].restore_pending => Watchdog
                                 /\ k.srv[s].saved.state # "ZOMBIE"
           /\ \A p \in Procs : k.uuid[p] \in Nat /\ k.uuid[p] <= k.uuid[p]
<1>1. k \in Kernels
    BY DEF BaseInv
<1>2. \A p \in Procs : k.uuid[p] \in Nat
    BY <1>1, KernelFields
<1> QED BY <1>1, <1>2 DEF BaseInv, CallsOK, AskedOK, DeadOK, NoRestore

\* Quiet steps are mild.
LEMMA BaseQuiet ==
    ASSUME NEW k, NEW m, BaseInv(k), Quiet(k, m)
    PROVE  BaseInv(m)
<1>1. \A p \in Procs : Live(m, p) <=> Live(k, p)
    BY DEF Quiet, Live
<1>2. Servers \subseteq Procs
    BY Constants
<1>3. Mild(k, m)
    BY <1>1, <1>2, BaseFacts, HasSelf DEF Mild, Quiet, Steady
<1> QED BY <1>3, BaseMild

\* So are steps of user code.
LEMMA BaseReframes ==
    ASSUME NEW k, NEW m, NEW c \in Cores, NEW f, BaseInv(k), Reframes(k, m, c, f), CallOK(k, f),
           f.mode = k.frame[c].mode
    PROVE  BaseInv(m)
<1>1. \A p \in Procs : Live(m, p) <=> Live(k, p)
    BY DEF Reframes, Live
<1>2. Servers \subseteq Procs
    BY Constants
<1>3. ASSUME NEW x \in Cores
      PROVE  \/ m.frame[x] = k.frame[x]
             \/ CallOK(k, m.frame[x]) /\ (m.frame[x].mode = "handler" => k.cur[x] \in Servers)
    <2>1. k.frame \in [Cores -> Contexts]
        BY BaseFacts, KernelFields
    <2>2. m.frame[x] = IF x = c THEN f ELSE k.frame[x]
        BY <2>1 DEF Reframes
    <2> QED BY <2>2 DEF BaseInv, ModesOK
<1>4. Mild(k, m)
    BY <1>1, <1>2, <1>3, BaseFacts, HasSelf DEF Mild, Reframes, Steady
<1> QED BY <1>4, BaseMild

\* And steps that change the state of a living task.
LEMMA BaseRetasks ==
    ASSUME NEW k, NEW m, NEW p \in Procs, NEW state, BaseInv(k), Retasks(k, m, p, state),
           state # "ZOMBIE", Live(k, p)
    PROVE  BaseInv(m)
<1>1. \A q \in Procs : Live(m, q) <=> Live(k, q)
    BY DEF Retasks, Live, proc_get
<1>2. Servers \subseteq Procs
    BY Constants
<1>3. Mild(k, m)
    BY <1>1, <1>2, BaseFacts, HasSelf DEF Mild, Retasks, Steady
<1> QED BY <1>3, BaseMild

-----------------------------------------------------------------------------
(* The other effects that system calls are made of.                         *)

\* Only queues and the disabled flag change, for the processes in P.
Queueing(k, m, P) ==
    /\ m \in Kernels /\ Alike(k, m) /\ m.task = k.task
    /\ \A s \in Servers :
          /\ m.srv[s].ring = k.srv[s].ring /\ m.srv[s].do_switch = k.srv[s].do_switch
          /\ m.srv[s].restore_pending = k.srv[s].restore_pending
          /\ m.srv[s].saved = k.srv[s].saved
          /\ \A p \in Procs \ P : Has(m.srv[s].waitq, p) <=> Has(k.srv[s].waitq, p)

\* The record of one server changes, but neither its queue nor disabled.
OneServer(k, m, s) ==
    /\ m \in Kernels
    /\ \A t \in Servers \ {s} : m.srv[t] = k.srv[t]
    /\ m.srv[s].waitq = k.srv[s].waitq /\ m.srv[s].disabled = k.srv[s].disabled

\* The state of the main context is saved, and a dispatch of s armed.
Arms(k, m, s, restore) ==
    /\ OneServer(k, m, s) /\ Alike(k, m) /\ m.task = k.task
    /\ m.srv[s].ring = k.srv[s].ring /\ m.srv[s].do_switch
    /\ m.srv[s].restore_pending = restore
    /\ m.srv[s].saved.ctx = k.srv[s].saved.ctx
    /\ m.srv[s].saved.state = k.task[s].state /\ m.srv[s].saved.res = k.res[s]

\* The request at the head of the ring is gone.
Closes(k, m, s) ==
    /\ OneServer(k, m, s) /\ Alike(k, m) /\ m.task = k.task
    /\ m.srv[s].ring = Tail(k.srv[s].ring) /\ m.srv[s].do_switch = k.srv[s].do_switch
    /\ m.srv[s].restore_pending = k.srv[s].restore_pending
    /\ m.srv[s].saved = k.srv[s].saved

\* The state of the main context is put back.
Restores(k, m, s, state) ==
    /\ OneServer(k, m, s)
    /\ m.uuid = k.uuid /\ m.wait_for = k.wait_for /\ m.cur = k.cur
    /\ m.need_resched = k.need_resched /\ m.ipc_uid = k.ipc_uid
    /\ m.last_uuid = k.last_uuid /\ m.log = k.log
    /\ m.res = [k.res EXCEPT ![s] = k.srv[s].saved.res]
    /\ \A p \in Procs \ {s} : m.task[p] = k.task[p]
    /\ m.task[s].state = state
    /\ m.srv[s].ring = k.srv[s].ring /\ m.srv[s].saved = NoSaved

\* A state with another frame.
LEMMA SetFrame ==
    ASSUME NEW k \in Kernels, NEW c \in Cores, NEW f \in Contexts
    PROVE  LET m == [k EXCEPT !.frame[c] = f] IN
           /\ m \in Kernels /\ Unswitched(k, m) /\ m.cur = k.cur /\ m.ctx = k.ctx
           /\ m.task = k.task /\ m.srv = k.srv /\ m.frame = [k.frame EXCEPT ![c] = f]
BY DEF Kernels, Unswitched

\* A state with another reply slot.
LEMMA SetResult ==
    ASSUME NEW k \in Kernels, NEW p \in Procs, NEW r \in Results
    PROVE  LET m == [k EXCEPT !.res[p] = r] IN
           /\ m \in Kernels /\ m.cur = k.cur /\ m.ctx = k.ctx /\ m.frame = k.frame
           /\ m.task = k.task /\ m.srv = k.srv /\ m.res = [k.res EXCEPT ![p] = r]
           /\ m.uuid = k.uuid /\ m.wait_for = k.wait_for /\ m.need_resched = k.need_resched
           /\ m.ipc_uid = k.ipc_uid /\ m.last_uuid = k.last_uuid /\ m.log = k.log
BY DEF Kernels

\* proc_block_by() parks a task or lets it run on.
LEMMA BlockedTask ==
    ASSUME NEW t \in Tasks
    PROVE  /\ proc_block_by(t, Generic) \in Tasks
           /\ proc_block_by(t, Generic).state \in {"BLOCK", "RUNNING", t.state}
<1>1. consume(t) \in Tasks /\ consume(t).state = t.state
    BY DEF consume, Tasks, Generic
<1>2. \A u \in Tasks : /\ keep_running(u) \in Tasks
                       /\ keep_running(u).state \in {"RUNNING", u.state}
    BY DEF keep_running, Tasks, States, Generic
<1>3. \A u \in Tasks : park(u, Generic, FALSE) \in Tasks /\ park(u, Generic, FALSE).state = "BLOCK"
    BY DEF park, proc_unready, Tasks, States, Generic
<1> QED BY <1>1, <1>2, <1>3 DEF proc_block_by, Block

\* proc_save_state(), with the dispatch armed.
LEMMA ArmFacts ==
    ASSUME NEW k \in Kernels, NEW s \in Servers
    PROVE  LET k1 == proc_save_state(k, s) IN
           /\ Arms(k, SetServer(k1, s, [k1.srv[s] EXCEPT !.do_switch = TRUE, !.restore_pending = FALSE]),
                   s, FALSE)
           /\ Arms(k, SetServer(k1, s, [k1.srv[s] EXCEPT !.do_switch = TRUE]),
                   s, k.srv[s].restore_pending)
<1> DEFINE v == k.srv[s]
           u == [v.saved EXCEPT !.state = k.task[s].state,
                                !.sleep_counter = k.task[s].sleep_counter, !.res = k.res[s]]
           w == [v EXCEPT !.saved = u]
           k1 == proc_save_state(k, s)
<1>1. /\ v \in ServerRecords /\ v.saved \in Saved /\ k.task[s] \in Tasks /\ k.res[s] \in Results
      /\ k.task[s].state \in States \cup {"UNUSED"} /\ k.task[s].sleep_counter \in BOOLEAN
    <2>1. k.srv[s] \in ServerRecords /\ s \in Procs /\ k.task[s] \in Tasks /\ k.res[s] \in Results
        BY KernelFields, Constants
    <2> QED BY <2>1, ServerFields, TaskFacts
<1> HIDE DEF v
<1>2. u \in Saved /\ u.state = k.task[s].state /\ u.ctx = v.saved.ctx /\ u.res = k.res[s]
    BY <1>1 DEF Saved
<1>3. k1 = SetServer(k, s, w)
    BY DEF proc_save_state, v
<1> HIDE DEF u
<1>4. /\ w \in ServerRecords /\ w.ring = v.ring /\ w.waitq = v.waitq /\ w.disabled = v.disabled
      /\ w.restore_pending = v.restore_pending /\ w.saved = u
    BY <1>1, <1>2 DEF ServerRecords
<1> HIDE DEF w
<1>5. k1 \in Kernels /\ k1.task = k.task /\ Alike(k, k1) /\ k1.srv = [k.srv EXCEPT ![s] = w]
    BY <1>3, <1>4, SetServerFacts
<1>6. k1.srv[s] = w /\ \A t \in Servers \ {s} : k1.srv[t] = k.srv[t]
    BY <1>5, KernelFields
<1> HIDE DEF k1
<1>7. ASSUME NEW x \in ServerRecords, x.ring = v.ring, x.waitq = v.waitq, x.disabled = v.disabled,
             x.saved = u, x.do_switch
      PROVE  Arms(k, SetServer(k1, s, x), s, x.restore_pending)
    <2> DEFINE m == SetServer(k1, s, x)
    <2>1. m \in Kernels /\ m.task = k.task /\ Alike(k1, m) /\ m.srv = [k1.srv EXCEPT ![s] = x]
        BY <1>5, <1>7, SetServerFacts
    <2> HIDE DEF m
    <2>2. m.srv[s] = x /\ \A t \in Servers \ {s} : m.srv[t] = k.srv[t]
        BY <1>5, <1>6, <2>1, KernelFields
    <2>3. Alike(k, m)
        BY <1>5, <2>1, AlikeTwice
    <2>4. Arms(k, m, s, x.restore_pending)
        BY <1>2, <1>7, <2>1, <2>2, <2>3 DEF Arms, OneServer, v
    <2> QED BY <2>4 DEF m
<1>8. LET x == [w EXCEPT !.do_switch = TRUE, !.restore_pending = FALSE] IN
      /\ x \in ServerRecords /\ x.ring = w.ring /\ x.waitq = w.waitq /\ x.disabled = w.disabled
      /\ x.saved = w.saved /\ x.do_switch = TRUE /\ x.restore_pending = FALSE
    BY <1>4 DEF ServerRecords
<1>9. LET x == [w EXCEPT !.do_switch = TRUE] IN
      /\ x \in ServerRecords /\ x.ring = w.ring /\ x.waitq = w.waitq /\ x.disabled = w.disabled
      /\ x.saved = w.saved /\ x.do_switch = TRUE /\ x.restore_pending = w.restore_pending
    BY <1>4 DEF ServerRecords
<1> DEFINE x1 == [w EXCEPT !.do_switch = TRUE, !.restore_pending = FALSE]
           x2 == [w EXCEPT !.do_switch = TRUE]
<1>10. Arms(k, SetServer(k1, s, x1), s, FALSE)
    <2>1. x1 \in ServerRecords /\ x1.ring = v.ring /\ x1.waitq = v.waitq /\ x1.disabled = v.disabled
          /\ x1.saved = u /\ x1.do_switch /\ x1.restore_pending = FALSE
        BY <1>4, <1>8
    <2> HIDE DEF x1
    <2>2. Arms(k, SetServer(k1, s, x1), s, x1.restore_pending)
        BY <1>7, <2>1
    <2> QED BY <2>1, <2>2
<1>11. Arms(k, SetServer(k1, s, x2), s, k.srv[s].restore_pending)
    <2>1. x2 \in ServerRecords /\ x2.ring = v.ring /\ x2.waitq = v.waitq /\ x2.disabled = v.disabled
          /\ x2.saved = u /\ x2.do_switch /\ x2.restore_pending = v.restore_pending
        BY <1>4, <1>9
    <2> HIDE DEF x2
    <2>2. Arms(k, SetServer(k1, s, x2), s, x2.restore_pending)
        BY <1>7, <2>1
    <2> QED BY <2>1, <2>2 DEF v
<1> QED BY <1>6, <1>10, <1>11 DEF k1, x1, x2

\* The ring without its head.
LEMMA TailFacts ==
    ASSUME NEW v \in ServerRecords, v.ring # <<>>
    PROVE  /\ Tail(v.ring) \in Seq(Requests) /\ Len(Tail(v.ring)) = Len(v.ring) - 1
           /\ Len(v.ring) \in Nat /\ Len(Tail(v.ring)) <= IPC_CTX_MAX
           /\ DOMAIN v.ring = 1 .. Len(v.ring) /\ DOMAIN Tail(v.ring) = 1 .. Len(v.ring) - 1
           /\ \A i \in DOMAIN Tail(v.ring) : Tail(v.ring)[i] = v.ring[i + 1]
           /\ \A i \in DOMAIN Tail(v.ring) : Has(v.ring, Tail(v.ring)[i])
           /\ [v EXCEPT !.ring = Tail(v.ring)] \in ServerRecords
<1>1. v.ring \in Seq(Requests) /\ Len(v.ring) <= IPC_CTX_MAX /\ IPC_CTX_MAX \in Nat
    BY ServerFields, Constants
<1> DEFINE q == v.ring
           t == Tail(v.ring)
<1>2. t \in Seq(Requests) /\ Len(t) = Len(q) - 1 /\ Len(q) \in Nat /\ Len(q) # 0
      /\ DOMAIN q = 1 .. Len(q) /\ DOMAIN t = 1 .. Len(t)
      /\ \A i \in 1 .. Len(t) : t[i] = q[i + 1]
    BY <1>1, HeadTailProperties, LenProperties, EmptySeq
<1> HIDE DEF t
<1>3. \A i \in DOMAIN t : Has(q, t[i])
    BY <1>2, SMTT(30) DEF Has
<1>4. Len(t) <= IPC_CTX_MAX
    BY <1>1, <1>2
<1>5. [v EXCEPT !.ring = t] \in ServerRecords
    BY <1>2, <1>4 DEF ServerRecords
<1> QED BY <1>2, <1>3, <1>4, <1>5 DEF t

\* proc_ipc_close()
LEMMA CloseFacts ==
    ASSUME NEW k \in Kernels, NEW s \in Servers, k.srv[s].ring # <<>>
    PROVE  Closes(k, proc_ipc_close(k, s), s)
<1> DEFINE v == k.srv[s]
           t == Tail(v.ring)
           w == [v EXCEPT !.ring = t]
           m == proc_ipc_close(k, s)
<1>1. v \in ServerRecords
    BY KernelFields
<1>2. w \in ServerRecords
    BY <1>1, TailFacts
<1> HIDE DEF t
<1>3. /\ w.ring = t /\ w.waitq = v.waitq /\ w.disabled = v.disabled /\ w.saved = v.saved
      /\ w.restore_pending = v.restore_pending /\ w.do_switch = v.do_switch
    BY <1>1 DEF ServerRecords
<1>4. m = SetServer(k, s, w)
    BY DEF proc_ipc_close, t
<1> HIDE DEF w, m
<1>5. m \in Kernels /\ m.task = k.task /\ Alike(k, m) /\ m.srv = [k.srv EXCEPT ![s] = w]
    BY <1>2, <1>4, SetServerFacts
<1>6. m.srv[s] = w /\ \A x \in Servers \ {s} : m.srv[x] = k.srv[x]
    BY <1>5, KernelFields
<1>7. Closes(k, m, s)
    BY <1>3, <1>5, <1>6 DEF Closes, OneServer, t
<1> QED BY <1>7 DEF m

\* What is saved of a server that serves nobody.
LEMMA NoSavedFacts ==
    /\ NoSaved \in Saved /\ NoSaved.state = "UNUSED" /\ NoSaved.ctx = ZeroCtx
    /\ NoSaved.res = NoResult /\ NoResult \in Results /\ NoResult.state = "IDLE" /\ NoResult.uid = 0
<1>1. NoResult \in Results /\ NoResult.state = "IDLE" /\ NoResult.uid = 0
    BY DEF NoResult, Results
<1> QED BY <1>1, ContextFacts DEF NoSaved, Saved

\* proc_restore_state()
LEMMA RestoreFacts ==
    ASSUME NEW k \in Kernels, NEW s \in Servers
    PROVE  LET m == proc_restore_state(k, s) IN
           /\ Restores(k, m, s, k.srv[s].saved.state)
           /\ m.ctx = k.ctx /\ m.frame = k.frame /\ m.srv[s] \in ServerRecords
           /\ m.srv[s].do_switch = k.srv[s].do_switch
           /\ m.srv[s].restore_pending = k.srv[s].restore_pending
<1> DEFINE v == k.srv[s].saved
           t == [k.task[s] EXCEPT !.state = v.state, !.sleep_counter = v.sleep_counter]
           k1 == SetTask(k, s, t)
           w == [k.srv[s] EXCEPT !.saved = NoSaved]
           k2 == SetServer(k1, s, w)
           m == proc_restore_state(k, s)
<1>0. s \in Procs
    BY Constants
<1>1. k.task[s] \in Tasks /\ k.srv[s] \in ServerRecords /\ v \in Saved
    BY <1>0, KernelFields, ServerFields
<1>2. v.state \in States \cup {"UNUSED"} /\ v.sleep_counter \in BOOLEAN /\ v.res \in Results
    BY <1>1, SavedFields
<1>3. m = [k2 EXCEPT !.res[s] = v.res]
    BY DEF proc_restore_state
<1> HIDE DEF v
<1>4. t \in Tasks /\ t.state = v.state
    BY <1>1, <1>2 DEF Tasks
<1> HIDE DEF t
<1>5. k1 \in Kernels /\ k1.srv = k.srv /\ Alike(k, k1) /\ k1.task = [k.task EXCEPT ![s] = t]
    BY <1>0, <1>4, SetTaskFacts
<1> HIDE DEF k1
<1>6. /\ w \in ServerRecords /\ w.ring = k.srv[s].ring /\ w.waitq = k.srv[s].waitq
      /\ w.disabled = k.srv[s].disabled /\ w.do_switch = k.srv[s].do_switch /\ w.saved = NoSaved
      /\ w.restore_pending = k.srv[s].restore_pending
    BY <1>1, NoSavedFacts DEF ServerRecords
<1> HIDE DEF w
<1>7. k2 \in Kernels /\ k2.task = k1.task /\ Alike(k1, k2) /\ k2.srv = [k1.srv EXCEPT ![s] = w]
    BY <1>5, <1>6, SetServerFacts
<1> HIDE DEF k2
<1>8. /\ m \in Kernels /\ m.cur = k2.cur /\ m.ctx = k2.ctx /\ m.frame = k2.frame
      /\ m.task = k2.task /\ m.srv = k2.srv /\ m.res = [k2.res EXCEPT ![s] = v.res]
      /\ m.uuid = k2.uuid /\ m.wait_for = k2.wait_for /\ m.need_resched = k2.need_resched
      /\ m.ipc_uid = k2.ipc_uid /\ m.last_uuid = k2.last_uuid /\ m.log = k2.log
    BY <1>0, <1>2, <1>3, <1>7, SetResult
<1> HIDE DEF m
<1>9. Alike(k, k2)
    BY <1>5, <1>7, AlikeTwice
<1>10. /\ m.srv[s] = w /\ \A x \in Servers \ {s} : m.srv[x] = k.srv[x]
       /\ m.task[s] = t /\ \A x \in Procs \ {s} : m.task[x] = k.task[x]
    BY <1>0, <1>5, <1>7, <1>8, KernelFields
<1>11. OneServer(k, m, s)
    BY <1>6, <1>8, <1>10 DEF OneServer
<1>12. Restores(k, m, s, v.state)
    BY <1>4, <1>6, <1>8, <1>9, <1>10, <1>11 DEF Restores, Alike, v
<1> QED BY <1>6, <1>8, <1>9, <1>10, <1>12 DEF Alike, m, v

\* The state a main context goes on in when its service ends.
Continued(state) == IF state \in Runnable \cup {"BLOCK"} THEN "READY" ELSE state

\* SYS_IPC_END on core c puts the main context back ...
Finishes(k, m, c, s) ==
    /\ Restores(k, m, s, Continued(k.srv[s].saved.state))
    /\ m.ctx = k.ctx /\ m.frame = [k.frame EXCEPT ![c] = k.srv[s].saved.ctx]
    /\ m.srv[s].do_switch = k.srv[s].do_switch /\ ~m.srv[s].restore_pending

\* ... and so does the watchdog, on any core.
Recalls(k, m, s) ==
    /\ Restores(k, m, s, k.srv[s].saved.state)
    /\ m.frame = k.frame /\ m.ctx = [k.ctx EXCEPT ![s] = k.srv[s].saved.ctx]
    /\ ~m.srv[s].do_switch /\ m.srv[s].restore_pending

\* A restored state with other flags.
LEMMA RestoreFlags ==
    ASSUME NEW k, NEW s \in Servers, NEW k1 \in Kernels, NEW state, Restores(k, k1, s, state),
           NEW w \in ServerRecords, w.ring = k1.srv[s].ring, w.waitq = k1.srv[s].waitq,
           w.disabled = k1.srv[s].disabled, w.saved = k1.srv[s].saved,
           NEW m, m = SetServer(k1, s, w)
    PROVE  /\ Restores(k, m, s, state) /\ m.ctx = k1.ctx /\ m.frame = k1.frame
           /\ m.task = k1.task /\ m.srv[s] = w
<1>1. m \in Kernels /\ m.task = k1.task /\ Alike(k1, m) /\ m.srv = [k1.srv EXCEPT ![s] = w]
    BY SetServerFacts
<1>2. m.srv[s] = w /\ \A x \in Servers \ {s} : m.srv[x] = k1.srv[x]
    BY <1>1, KernelFields
<1>3. OneServer(k, m, s)
    BY <1>1, <1>2 DEF Restores, OneServer
<1>4. Restores(k, m, s, state)
    BY <1>1, <1>2, <1>3 DEF Restores, Alike
<1> QED BY <1>1, <1>2, <1>4 DEF Alike

\* The end of a service, in proc_ipc_end().
LEMMA EndServiceFacts ==
    ASSUME NEW k \in Kernels, NEW c \in Cores, NEW s \in Servers, k.cur[c] = s,
           k.srv[s].ring # <<>>, NEW m, m = EndService(k, c)
    PROVE  \E k1, k2 \in Kernels, Q \in SUBSET Procs :
              /\ Finishes(k, k1, c, s) /\ Closes(k1, k2, s) /\ Eases(k2, m, Q)
              /\ \A p \in Q : Has(k2.srv[s].waitq, p)
<1> DEFINE main == k.srv[s].saved.ctx
           k1 == proc_restore_state(k, s)
           w == [k1.srv[s] EXCEPT !.restore_pending = FALSE]
           k2 == SetServer(k1, s, w)
           state == IF k2.task[s].state \in Runnable \cup {"BLOCK"} THEN "READY"
                    ELSE k2.task[s].state
           t == [k2.task[s] EXCEPT !.state = state]
           ka == SetTask(k2, s, t)
           kb == [ka EXCEPT !.frame[c] = main]
           kc == proc_ipc_close(kb, s)
<1>0. s \in Procs /\ k.srv[s] \in ServerRecords
    BY Constants, KernelFields
<1>1. m = proc_ipc_wakeup(kc, s)
    BY DEF EndService
<1>2. /\ Restores(k, k1, s, k.srv[s].saved.state)
      /\ k1.ctx = k.ctx /\ k1.frame = k.frame /\ k1.srv[s] \in ServerRecords
      /\ k1.srv[s].do_switch = k.srv[s].do_switch
    BY RestoreFacts
<1>3. k1 \in Kernels
    BY <1>2 DEF Restores, OneServer
<1> HIDE DEF k1
<1>4. /\ w \in ServerRecords /\ w.ring = k1.srv[s].ring /\ w.waitq = k1.srv[s].waitq
      /\ w.disabled = k1.srv[s].disabled /\ w.saved = k1.srv[s].saved
      /\ w.do_switch = k1.srv[s].do_switch /\ w.restore_pending = FALSE
    BY <1>2 DEF ServerRecords
<1> HIDE DEF w
<1>5. /\ Restores(k, k2, s, k.srv[s].saved.state) /\ k2.ctx = k1.ctx /\ k2.frame = k1.frame
      /\ k2.task = k1.task /\ k2.srv[s] = w
    BY <1>2, <1>3, <1>4, RestoreFlags
<1>6. k2 \in Kernels /\ k2.task[s].state = k.srv[s].saved.state
    BY <1>5 DEF Restores, OneServer
<1> HIDE DEF k2
<1>7. state = Continued(k.srv[s].saved.state)
    BY <1>6 DEF Continued
<1>8. t \in Tasks /\ t.state = state
    <2>1. k2.task[s] \in Tasks /\ k2.task[s].state \in States \cup {"UNUSED"}
        BY <1>0, <1>6, KernelFields, TaskFacts
    <2>2. state \in States \cup {"UNUSED"}
        BY <2>1 DEF States
    <2> HIDE DEF state
    <2> QED BY <2>1, <2>2 DEF Tasks
<1> HIDE DEF t, state
<1>9. ka \in Kernels /\ ka.srv = k2.srv /\ Alike(k2, ka) /\ ka.task = [k2.task EXCEPT ![s] = t]
    BY <1>0, <1>6, <1>8, SetTaskFacts
<1> HIDE DEF ka
<1>10. main \in Contexts
    BY <1>0, ServerFields, SavedFields
<1> HIDE DEF main
<1>11. /\ kb \in Kernels /\ Unswitched(ka, kb) /\ kb.cur = ka.cur /\ kb.ctx = ka.ctx
       /\ kb.task = ka.task /\ kb.srv = ka.srv /\ kb.frame = [ka.frame EXCEPT ![c] = main]
    BY <1>9, <1>10, SetFrame
<1> HIDE DEF kb
<1>12. Finishes(k, kb, c, s)
    <2>1. kb.task[s].state = state /\ \A p \in Procs \ {s} : kb.task[p] = k.task[p]
        <3>1. kb.task = [k2.task EXCEPT ![s] = t] /\ k2.task \in [Procs -> Tasks]
            BY <1>6, <1>9, <1>11, KernelFields
        <3>2. \A p \in Procs \ {s} : k2.task[p] = k.task[p]
            BY <1>5 DEF Restores
        <3> QED BY <1>0, <1>8, <3>1, <3>2
    <2>2. OneServer(k, kb, s)
        BY <1>5, <1>9, <1>11 DEF OneServer, Restores
    <2>3. Restores(k, kb, s, Continued(k.srv[s].saved.state))
        BY <1>5, <1>7, <1>9, <1>11, <2>1, <2>2 DEF Restores, Alike, Unswitched
    <2>4. kb.ctx = k.ctx /\ kb.frame = [k.frame EXCEPT ![c] = k.srv[s].saved.ctx]
        BY <1>2, <1>5, <1>9, <1>11 DEF Alike, main
    <2>5. kb.srv[s] = w
        BY <1>5, <1>9, <1>11
    <2> QED BY <1>2, <1>4, <2>3, <2>4, <2>5 DEF Finishes
<1>13. kb.srv[s].ring # <<>>
    BY <1>12 DEF Finishes, Restores
<1>14. Closes(kb, kc, s)
    BY <1>11, <1>13, CloseFacts
<1>15. kc \in Kernels
    BY <1>14 DEF Closes, OneServer
<1> HIDE DEF kc
<1>16. \E Q \in SUBSET Procs : Eases(kc, m, Q) /\ \A p \in Q : Has(kc.srv[s].waitq, p)
    BY <1>1, <1>15, IpcWakeFacts
<1> QED BY <1>11, <1>12, <1>14, <1>15, <1>16

\* proc_resume_after_timeout() is a wake of a server that is alive.
LEMMA ResumeFacts ==
    ASSUME NEW k \in Kernels, NEW s \in Servers, k.task[s].state # "ZOMBIE",
           NEW m, m = Resume(k, s)
    PROVE  Eases(k, m, {s}) \/ (m = k /\ k.task[s].state = "UNUSED")
<1>0. s \in Procs /\ k.task[s] \in Tasks /\ k.task[s].state \in States \cup {"UNUSED"}
    BY Constants, KernelFields, TaskFacts
<1>1. CASE k.task[s].state \in Runnable
    <2> DEFINE t == proc_ready(k.task[s])
    <2>1. t \in Tasks /\ t.state = "READY"
        BY <1>0, TaskFacts
    <2> HIDE DEF t
    <2>2. m = SetTask(k, s, t)
        BY <1>1 DEF Resume, t
    <2>3. m \in Kernels /\ m.srv = k.srv /\ Alike(k, m) /\ m.task = [k.task EXCEPT ![s] = t]
        BY <1>0, <2>1, <2>2, SetTaskFacts
    <2>4. m.task[s] = t /\ \A p \in Procs \ {s} : m.task[p] = k.task[p]
        BY <1>0, <2>3, KernelFields
    <2>5. \A x \in Servers : EasedServer(k.srv[x], m.srv[x])
        BY <2>3 DEF EasedServer
    <2> QED BY <1>0, <2>1, <2>3, <2>4, <2>5 DEF Eases, Live, proc_get
<1>2. CASE k.task[s].state \in Asleep
    <2>1. m = proc_wakeup(k, {s})
        BY <1>2 DEF Resume, Asleep, Runnable
    <2> QED BY <1>0, <2>1, WakeFacts
<1>3. CASE k.task[s].state \notin Runnable \cup Asleep
    BY <1>0, <1>3 DEF Resume, States, Runnable, Asleep
<1> QED BY <1>1, <1>2, <1>3

\* The watchdog puts the main context back.
LEMMA RecallFacts ==
    ASSUME NEW k \in Kernels, NEW s \in Servers
    PROVE  LET main == k.srv[s].saved.ctx
               k0 == proc_restore_state(k, s)
               w == [k0.srv[s] EXCEPT !.do_switch = FALSE, !.restore_pending = TRUE]
           IN  Recalls(k, [SetServer(k0, s, w) EXCEPT !.ctx[s] = main], s)
<1> DEFINE main == k.srv[s].saved.ctx
           k0 == proc_restore_state(k, s)
           w == [k0.srv[s] EXCEPT !.do_switch = FALSE, !.restore_pending = TRUE]
           k1 == SetServer(k0, s, w)
           m == [k1 EXCEPT !.ctx[s] = main]
<1>0. s \in Procs /\ k.srv[s] \in ServerRecords
    BY Constants, KernelFields
<1>1. /\ Restores(k, k0, s, k.srv[s].saved.state)
      /\ k0.ctx = k.ctx /\ k0.frame = k.frame /\ k0.srv[s] \in ServerRecords
    BY RestoreFacts
<1>2. k0 \in Kernels
    BY <1>1 DEF Restores, OneServer
<1> HIDE DEF k0
<1>3. /\ w \in ServerRecords /\ w.ring = k0.srv[s].ring /\ w.waitq = k0.srv[s].waitq
      /\ w.disabled = k0.srv[s].disabled /\ w.saved = k0.srv[s].saved
      /\ w.do_switch = FALSE /\ w.restore_pending = TRUE
    BY <1>1 DEF ServerRecords
<1> HIDE DEF w
<1>4. /\ Restores(k, k1, s, k.srv[s].saved.state) /\ k1.ctx = k0.ctx /\ k1.frame = k0.frame
      /\ k1.task = k0.task /\ k1.srv[s] = w
    BY <1>1, <1>2, <1>3, RestoreFlags, SMTT(30)
<1>5. k1 \in Kernels
    BY <1>4 DEF Restores, OneServer
<1>6. main \in Contexts
    BY <1>0, ServerFields, SavedFields
<1> HIDE DEF k1, main
<1>8. /\ m \in Kernels /\ Unswitched(k1, m) /\ m.cur = k1.cur /\ m.frame = k1.frame
      /\ m.task = k1.task /\ m.srv = k1.srv /\ m.ctx = [k1.ctx EXCEPT ![s] = main]
    BY <1>0, <1>5, <1>6, SetContext
<1> HIDE DEF m
<1>9. OneServer(k, m, s)
    BY <1>4, <1>8 DEF Restores, OneServer
<1>10. Restores(k, m, s, k.srv[s].saved.state)
    BY <1>4, <1>8, <1>9 DEF Restores, Unswitched
<1>11. Recalls(k, m, s)
    BY <1>1, <1>3, <1>4, <1>8, <1>10 DEF Recalls, main
<1> QED BY <1>11 DEF m, k1, w, k0, main

\* The core c is given to a task that may run, or to nobody.
Dispatches(k, m, c) ==
    \E to \in Procs \cup {NoProc} :
       /\ Switches(k, m, c, to)
       /\ to # NoProc => Core[to] = c /\ k.task[to].state \in Runnable

\* The task that runs on c is parked, or goes on.
Blocks(k, m, c) ==
    \E n \in Kernels, state \in {"BLOCK", "RUNNING", k.task[k.cur[c]].state} :
       /\ Retasks(k, n, k.cur[c], state) /\ Alike(k, n)
       /\ IF state = "BLOCK" THEN Dispatches(n, m, c) ELSE m = n

\* The task to is woken, and gets the core c if it is its own.
Hands(k, m, c, to) ==
    \E n \in Kernels :
       /\ Eases(k, n, {to}) \/ (n = k /\ k.task[to].state = "RUNNING")
       /\ Core[to] = c => Switches(n, m, c, to)
       /\ Core[to] # c => m = n /\ Eases(k, n, {to})

\* A request of s is dispatched.
Starts(k, m, c, s) == \E n \in Kernels : Arms(k, n, s, FALSE) /\ Hands(n, m, c, s)

\* A state with another task of p.
LEMMA RetaskFacts ==
    ASSUME NEW k \in Kernels, NEW p \in Procs, NEW t \in Tasks, NEW m, m = SetTask(k, p, t)
    PROVE  /\ Retasks(k, m, p, t.state) /\ m \in Kernels /\ Alike(k, m) /\ m.srv = k.srv
<1>1. m \in Kernels /\ m.srv = k.srv /\ Alike(k, m) /\ m.task = [k.task EXCEPT ![p] = t]
    BY SetTaskFacts
<1>2. m.task[p] = t /\ \A q \in Procs \ {p} : m.task[q] = k.task[q]
    BY <1>1, KernelFields
<1> QED BY <1>1, <1>2 DEF Retasks, Steady, Alike

\* schedule()
LEMMA DispatchFacts ==
    ASSUME NEW k \in Kernels, NEW c \in Cores, NEW m \in schedule(k, c)
    PROVE  Dispatches(k, m, c)
BY ScheduleFacts DEF Dispatches

\* proc_block()
LEMMA BlockFacts ==
    ASSUME NEW k \in Kernels, NEW c \in Cores, k.cur[c] \in Procs, NEW m \in proc_block(k, c)
    PROVE  Blocks(k, m, c)
<1> DEFINE p == k.cur[c]
           t == proc_block_by(k.task[p], Generic)
           n == SetTask(k, p, t)
<1>1. t \in Tasks /\ t.state \in {"BLOCK", "RUNNING", k.task[p].state}
    BY KernelFields, BlockedTask
<1>2. IF t.state = "BLOCK" THEN m \in schedule(n, c) ELSE m = n
    BY DEF proc_block
<1> HIDE DEF t, n
<1>3. Retasks(k, n, p, t.state) /\ n \in Kernels /\ Alike(k, n)
    BY <1>1, RetaskFacts DEF n
<1>4. IF t.state = "BLOCK" THEN Dispatches(n, m, c) ELSE m = n
    BY <1>2, <1>3, DispatchFacts
<1> QED BY <1>1, <1>3, <1>4 DEF Blocks

\* usleep() and waitpid()
LEMMA SleepFacts ==
    ASSUME NEW k \in Kernels, NEW c \in Cores, k.cur[c] \in Procs, NEW state \in {"SLEEPING", "WAIT"},
           NEW m \in Sleep(k, c, state)
    PROVE  \E n \in Kernels : Retasks(k, n, k.cur[c], state) /\ Alike(k, n) /\ Dispatches(n, m, c)
<1> DEFINE p == k.cur[c]
           t == proc_unready(k.task[p], state)
           u == IF state = "SLEEPING" THEN [t EXCEPT !.sleep_counter = TRUE] ELSE t
           n == SetTask(k, p, u)
<1>1. m \in schedule(n, c)
    BY DEF Sleep
<1>2. t \in Tasks /\ t.state = state
    <2>1. k.task[p] \in Tasks /\ state \in States
        BY KernelFields DEF States
    <2> DEFINE old == k.task[p]
    <2> HIDE DEF old
    <2>2. old \in Tasks
        BY <2>1 DEF old
    <2>3. proc_unready(old, state) \in Tasks /\ proc_unready(old, state).state = state
        BY <2>1, <2>2 DEF proc_unready, Tasks
    <2> QED BY <2>3 DEF old
<1> HIDE DEF t
<1>3. u \in Tasks /\ u.state = state
    BY <1>2 DEF Tasks
<1> HIDE DEF u, n
<1>4. Retasks(k, n, p, state) /\ n \in Kernels /\ Alike(k, n)
    BY <1>3, RetaskFacts DEF n
<1>5. Dispatches(n, m, c)
    BY <1>1, <1>4, DispatchFacts
<1> QED BY <1>4, <1>5

\* proc_switch_multi_core() of a process that is alive.
LEMMA HandFacts ==
    ASSUME NEW k \in Kernels, NEW c \in Cores, NEW to \in Procs, Live(k, to),
           NEW m, m = proc_switch_multi_core(k, c, to)
    PROVE  Hands(k, m, c, to)
BY MultiCoreFacts DEF Hands

\* proc_ipc_do_task()
LEMMA StartFacts ==
    ASSUME NEW k \in Kernels, NEW c \in Cores, NEW s \in Servers, Live(k, s),
           NEW m, m = proc_ipc_do_task(k, c, s)
    PROVE  Starts(k, m, c, s)
<1> DEFINE k1 == proc_save_state(k, s)
           n == SetServer(k1, s, [k1.srv[s] EXCEPT !.do_switch = TRUE, !.restore_pending = FALSE])
<1>1. m = proc_switch_multi_core(n, c, s)
    BY DEF proc_ipc_do_task
<1>2. Arms(k, n, s, FALSE)
    BY ArmFacts
<1> HIDE DEF n
<1>3. n \in Kernels /\ Live(n, s) /\ s \in Procs
    BY <1>2, Constants DEF Arms, OneServer, Live
<1>4. Hands(n, m, c, s)
    BY <1>1, <1>3, HandFacts
<1> QED BY <1>2, <1>3, <1>4 DEF Starts

-----------------------------------------------------------------------------
(* Requests.                                                                *)

\* A context that begins a call of s, and one that waits for the reply.
Calling(f, s, ret) == [f EXCEPT !.pc = "call", !.to = s, !.ret = ret]
Awaiting(f, s, ret, uid) == [Calling(f, s, ret) EXCEPT !.pc = "wait", !.uid = uid]

\* A request of p.
Request(k, p, ret) == [uid |-> k.ipc_uid + 1, client |-> p, uuid |-> k.uuid[p], ret |-> ret]

\* The ring b with the request r at its end.
Longer(b, a, r) ==
    /\ a # <<>> /\ Head(a) = IF b = <<>> THEN r ELSE Head(b)
    /\ \E n \in Nat : /\ n \notin DOMAIN b /\ DOMAIN a = DOMAIN b \cup {n}
                      /\ a[n] = r /\ \A i \in DOMAIN b : a[i] = b[i]
                      /\ n = 1 <=> b = <<>>

\* The process that runs on c has a request accepted by s.
Asks(k, m, c, s, ret) ==
    LET p == k.cur[c] IN
    /\ OneServer(k, m, s)
    /\ m.task = k.task /\ m.ctx = k.ctx /\ m.uuid = k.uuid /\ m.wait_for = k.wait_for
    /\ m.cur = k.cur /\ m.last_uuid = k.last_uuid /\ m.ipc_uid = k.ipc_uid + 1
    /\ m.need_resched = k.need_resched
    /\ m.log = [k.log EXCEPT !.asked = [k.log.asked EXCEPT ![k.ipc_uid + 1] = <<p, k.uuid[p]>>]]
    /\ m.log.asked = [k.log.asked EXCEPT ![k.ipc_uid + 1] = <<p, k.uuid[p]>>]
    /\ \A q \in Procs \ {p} : m.res[q] = k.res[q]
    /\ m.res[p].state = "BUSY"
    /\ m.frame = [k.frame EXCEPT ![c] = IF ret THEN Awaiting(k.frame[c], s, ret, k.ipc_uid + 1)
                                        ELSE Back(k.frame[c])]
    /\ Request(k, p, ret) \in Requests
    /\ Longer(k.srv[s].ring, m.srv[s].ring, Request(k, p, ret))
    /\ m.srv[s].do_switch = k.srv[s].do_switch
    /\ m.srv[s].restore_pending = k.srv[s].restore_pending
    /\ m.srv[s].saved = k.srv[s].saved

\* The contexts of a call.
LEMMA CallContexts ==
    ASSUME NEW f \in Contexts, NEW s \in Servers, NEW ret \in BOOLEAN
    PROVE  /\ LET g == Back(f) IN
              /\ g \in Contexts /\ g.mode = f.mode /\ g.serving = f.serving /\ g.n = f.n
              /\ g.pc = IF f.mode = "handler" THEN "reply" ELSE "run"
           /\ LET g == Calling(f, s, ret) IN
              /\ g \in Contexts /\ g.mode = f.mode /\ g.serving = f.serving /\ g.n = f.n
              /\ g.pc = "call" /\ g.to = s
           /\ \A uid \in Uids : LET g == Awaiting(f, s, ret, uid) IN
              /\ g \in Contexts /\ g.mode = f.mode /\ g.serving = f.serving /\ g.n = f.n
              /\ g.pc = "wait" /\ g.to = s /\ g.uid = uid
<1>1. LET g == Back(f) IN
      /\ g \in Contexts /\ g.mode = f.mode /\ g.serving = f.serving /\ g.n = f.n
      /\ g.pc = IF f.mode = "handler" THEN "reply" ELSE "run"
    BY DEF Back, Contexts
<1>2. LET g == Calling(f, s, ret) IN
      /\ g \in Contexts /\ g.mode = f.mode /\ g.serving = f.serving /\ g.n = f.n
      /\ g.pc = "call" /\ g.to = s
    BY DEF Calling, Contexts
<1>3. ASSUME NEW uid \in Uids
      PROVE  LET g == Awaiting(f, s, ret, uid) IN
             /\ g \in Contexts /\ g.mode = f.mode /\ g.serving = f.serving /\ g.n = f.n
             /\ g.pc = "wait" /\ g.to = s /\ g.uid = uid
    <2> DEFINE h == Calling(f, s, ret)
    <2> HIDE DEF h
    <2>1. h \in Contexts /\ h.mode = f.mode /\ h.serving = f.serving /\ h.n = f.n /\ h.to = s
        BY <1>2 DEF h
    <2>2. LET g == [h EXCEPT !.pc = "wait", !.uid = uid] IN
          /\ g \in Contexts /\ g.mode = f.mode /\ g.serving = f.serving /\ g.n = f.n
          /\ g.pc = "wait" /\ g.to = s /\ g.uid = uid
        BY <2>1 DEF Contexts
    <2> QED BY <2>2 DEF Awaiting, h
<1> QED BY <1>1, <1>2, <1>3

\* The ring with one more request.
LEMMA AppendRequest ==
    ASSUME NEW v \in ServerRecords, NEW r \in Requests, Len(v.ring) < IPC_CTX_MAX
    PROVE  LET a == Append(v.ring, r) IN
           /\ a \in Seq(Requests) /\ Len(a) <= IPC_CTX_MAX /\ a # <<>>
           /\ Len(v.ring) \in Nat /\ DOMAIN v.ring = 1 .. Len(v.ring)
           /\ DOMAIN a = 1 .. Len(v.ring) + 1 /\ a[Len(v.ring) + 1] = r
           /\ \A i \in 1 .. Len(v.ring) : a[i] = v.ring[i]
           /\ Head(a) = IF v.ring = <<>> THEN r ELSE Head(v.ring)
           /\ v.ring = <<>> <=> Len(v.ring) = 0
           /\ [v EXCEPT !.ring = a] \in ServerRecords
<1> DEFINE q == v.ring
           a == Append(q, r)
<1>1. q \in Seq(Requests) /\ IPC_CTX_MAX \in Nat /\ Len(q) \in Nat
    BY ServerFields, Constants, LenProperties
<1>2. a \in Seq(Requests) /\ Len(a) = Len(q) + 1 /\ DOMAIN a = 1 .. Len(a)
      /\ DOMAIN q = 1 .. Len(q) /\ a[Len(q) + 1] = r /\ \A i \in 1 .. Len(q) : a[i] = q[i]
    BY <1>1, AppendProperties, LenProperties
<1> HIDE DEF a
<1>3. a # <<>> /\ Head(a) = a[1] /\ (q # <<>> => Head(q) = q[1] /\ Len(q) # 0)
      /\ (q = <<>> => Len(q) = 0)
    BY <1>1, <1>2, EmptySeq, HeadTailProperties
<1>4. Head(a) = IF q = <<>> THEN r ELSE Head(q)
    BY <1>1, <1>2, <1>3
<1>5. Len(a) <= IPC_CTX_MAX
    BY <1>1, <1>2
<1>6. [v EXCEPT !.ring = a] \in ServerRecords
    BY <1>2, <1>5 DEF ServerRecords
<1> QED BY <1>1, <1>2, <1>3, <1>4, <1>5, <1>6 DEF a

\* A step of a call that is accepted.
LEMMA AskFacts ==
    ASSUME NEW k \in Kernels, NEW c \in Cores, k.cur[c] \in Procs, NEW s \in Servers,
           NEW ret \in BOOLEAN, k.ipc_uid < MaxCalls, ~Closed(k, s)
    PROVE  LET p == k.cur[c]
               calling == [k EXCEPT !.frame[c] = [k.frame[c] EXCEPT !.pc = "call", !.to = s, !.ret = ret]]
           IN  Asks(k, [proc_ipc_req(k, s, p, ret) EXCEPT
                           !.res[p] = [k.res[p] EXCEPT !.state = "BUSY"],
                           !.frame[c] = IF ret THEN [calling.frame[c] EXCEPT !.pc = "wait",
                                                         !.uid = k.ipc_uid + 1]
                                        ELSE Back(k.frame[c])], c, s, ret)
<1> DEFINE p == k.cur[c]
           f == k.frame[c]
           uid == k.ipc_uid + 1
           calling == [k EXCEPT !.frame[c] = Calling(f, s, ret)]
           r == [uid |-> uid, client |-> p, uuid |-> k.uuid[p], ret |-> ret]
           w == [k.srv[s] EXCEPT !.ring = Append(k.srv[s].ring, r)]
           k1 == SetServer(k, s, w)
           A == [k.log.asked EXCEPT ![uid] = <<p, k.uuid[p]>>]
           L == [k.log EXCEPT !.asked = A]
           g == IF ret THEN Awaiting(f, s, ret, uid) ELSE Back(f)
           b == [k.res[p] EXCEPT !.state = "BUSY"]
           h == IF ret THEN [calling.frame[c] EXCEPT !.pc = "wait", !.uid = uid] ELSE Back(f)
           m == [k1 EXCEPT !.ipc_uid = uid, !.log = L, !.res[p] = b, !.frame[c] = g]
<1>1. /\ k.srv[s] \in ServerRecords /\ k.frame[c] \in Contexts /\ k.log \in Logs /\ k.uuid[p] \in Nat
      /\ k.ipc_uid \in 0 .. MaxCalls /\ k.res[p] \in Results /\ MaxCalls \in Nat
      /\ k.frame \in [Cores -> Contexts] /\ k.res \in [Procs -> Results]
    BY KernelFields, Constants
<1>2. uid \in Uids /\ uid \in 0 .. MaxCalls
    BY <1>1 DEF Uids
<1>3. r \in Requests /\ r = Request(k, p, ret)
    BY <1>1, <1>2 DEF Requests, Request
<1>4. Len(k.srv[s].ring) < IPC_CTX_MAX
    <2>1. k.srv[s].ring \in Seq(Requests)
        BY <1>1, ServerFields
    <2>2. Len(k.srv[s].ring) \in Nat /\ IPC_CTX_MAX \in Nat
        BY <2>1, Constants, LenProperties
    <2> QED BY <2>2 DEF Closed
<1> HIDE DEF r
<1>5. w \in ServerRecords
    BY <1>1, <1>3, <1>4, AppendRequest
<1>20. Longer(k.srv[s].ring, Append(k.srv[s].ring, r), r)
    <2> DEFINE q == k.srv[s].ring
               a == Append(k.srv[s].ring, r)
    <2>1. /\ a # <<>> /\ Len(q) \in Nat /\ DOMAIN q = 1 .. Len(q)
          /\ DOMAIN a = 1 .. Len(q) + 1 /\ a[Len(q) + 1] = r
          /\ \A i \in 1 .. Len(q) : a[i] = q[i]
          /\ Head(a) = IF q = <<>> THEN r ELSE Head(q)
          /\ q = <<>> <=> Len(q) = 0
        BY <1>1, <1>3, <1>4, AppendRequest, ZenonT(30)
    <2> HIDE DEF a, q
    <2>2. /\ Len(q) + 1 \in Nat /\ Len(q) + 1 \notin DOMAIN q /\ DOMAIN a = DOMAIN q \cup {Len(q) + 1}
          /\ Len(q) + 1 = 1 <=> q = <<>>
        BY <2>1
    <2>3. Longer(q, a, r)
        BY <2>1, <2>2 DEF Longer
    <2> QED BY <2>3 DEF a, q
<1>6. /\ w.ring = Append(k.srv[s].ring, r) /\ w.waitq = k.srv[s].waitq
      /\ w.disabled = k.srv[s].disabled /\ w.do_switch = k.srv[s].do_switch
      /\ w.restore_pending = k.srv[s].restore_pending /\ w.saved = k.srv[s].saved
    BY <1>1 DEF ServerRecords
<1>7. L \in Logs /\ L.asked = A
    <2>1. A \in [Uids -> (Procs \cup {NoProc}) \X Nat]
        <3>1. k.log.asked \in [Uids -> (Procs \cup {NoProc}) \X Nat]
            BY <1>1 DEF Logs
        <3>2. <<p, k.uuid[p]>> \in (Procs \cup {NoProc}) \X Nat
            BY <1>1
        <3> QED BY <1>2, <3>1, <3>2
    <2> HIDE DEF A
    <2> QED BY <1>1, <2>1 DEF Logs
<1>8. g \in Contexts
    BY <1>1, <1>2, CallContexts
<1>9. b \in Results /\ b.state = "BUSY"
    BY <1>1 DEF Results
<1>10. h = g
    <2>1. calling.frame[c] = Calling(f, s, ret)
        <3> HIDE DEF f
        <3> QED BY <1>1 DEF Kernels
    <2> HIDE DEF calling, uid, f
    <2>2. Awaiting(f, s, ret, uid) = [calling.frame[c] EXCEPT !.pc = "wait", !.uid = uid]
        BY <2>1, Zenon DEF Awaiting
    <2> QED BY <2>2, Zenon
<1> HIDE DEF w
<1>11. k1 \in Kernels /\ k1.task = k.task /\ Alike(k, k1) /\ k1.srv = [k.srv EXCEPT ![s] = w]
    BY <1>5, SetServerFacts
<1>12. k1.srv[s] = w /\ \A t \in Servers \ {s} : k1.srv[t] = k.srv[t]
    BY <1>11, KernelFields
<1> HIDE DEF k1, L, g, b, uid
<1>13. /\ m \in Kernels /\ m.task = k1.task /\ m.srv = k1.srv /\ m.ctx = k1.ctx /\ m.uuid = k1.uuid
       /\ m.wait_for = k1.wait_for /\ m.cur = k1.cur /\ m.last_uuid = k1.last_uuid /\ m.ipc_uid = uid
       /\ m.need_resched = k1.need_resched /\ m.log = L /\ m.res = [k1.res EXCEPT ![p] = b]
       /\ m.frame = [k1.frame EXCEPT ![c] = g]
    BY <1>2, <1>7, <1>8, <1>9, <1>11 DEF Kernels
<1> HIDE DEF m
<1>14. OneServer(k, m, s)
    BY <1>6, <1>12, <1>13 DEF OneServer
<1>15. /\ m.res[p].state = "BUSY" /\ \A q \in Procs \ {p} : m.res[q] = k.res[q]
       /\ m.frame = [k.frame EXCEPT ![c] = g]
    BY <1>1, <1>9, <1>11, <1>13 DEF Alike
<1>16. Asks(k, m, c, s, ret)
    BY <1>3, <1>6, <1>7, <1>11, <1>12, <1>13, <1>14, <1>15, <1>20 DEF Asks, Alike, L, g, uid
<1>17. m = [k1 EXCEPT !.ipc_uid = uid, !.log.asked[uid] = <<p, k.uuid[p]>>, !.res[p] = b, !.frame[c] = h]
    <2>1. k1.log = k.log
        BY <1>11 DEF Alike
    <2> QED BY <1>10, <2>1 DEF m, L
<1>18. proc_ipc_req(k, s, p, ret) = [k1 EXCEPT !.ipc_uid = uid, !.log.asked[uid] = <<p, k.uuid[p]>>]
    BY DEF proc_ipc_req, k1, w, r, uid
<1> QED BY <1>16, <1>17, <1>18 DEF Calling, b, uid

\* A server record with another queue or flag.
LEMMA QueueingFacts ==
    ASSUME NEW k \in Kernels, NEW s \in Servers, NEW w \in ServerRecords, NEW P,
           w.ring = k.srv[s].ring, w.do_switch = k.srv[s].do_switch,
           w.restore_pending = k.srv[s].restore_pending, w.saved = k.srv[s].saved,
           \A p \in Procs \ P : Has(w.waitq, p) <=> Has(k.srv[s].waitq, p),
           NEW m, m = SetServer(k, s, w)
    PROVE  Queueing(k, m, P) /\ m \in Kernels /\ m.srv[s] = w
<1>1. m \in Kernels /\ m.task = k.task /\ Alike(k, m) /\ m.srv = [k.srv EXCEPT ![s] = w]
    BY SetServerFacts
<1>2. m.srv[s] = w /\ \A t \in Servers \ {s} : m.srv[t] = k.srv[t]
    BY <1>1, KernelFields
<1> QED BY <1>1, <1>2 DEF Queueing

\* proc_ipc_wait() queues the process, in one queue, and blocks it.
LEMMA WaitFacts ==
    ASSUME NEW k \in Kernels, NEW c \in Cores, k.cur[c] \in Procs, NEW s \in Servers,
           NEW m \in proc_ipc_wait(k, c, s)
    PROVE  \E n \in Kernels : /\ Queueing(k, n, {k.cur[c]}) /\ Has(n.srv[s].waitq, k.cur[c])
                              /\ Blocks(n, m, c)
<1> DEFINE p == k.cur[c]
           elsewhere == \E r \in Servers \ {s} : Has(k.srv[r].waitq, p)
           k1 == IF elsewhere THEN proc_ipc_cancel_wait(k, {p}) ELSE k
           w == [k1.srv[s] EXCEPT !.waitq = Append(k1.srv[s].waitq, p)]
           n == IF Has(k1.srv[s].waitq, p) THEN k1 ELSE SetServer(k1, s, w)
<1>1. m \in proc_block(n, c)
    BY DEF proc_ipc_wait
<1>2. Queueing(k, k1, {p}) /\ k1 \in Kernels
    <2>1. CASE elsewhere
        <3>1. /\ k1 \in Kernels /\ Alike(k, k1) /\ k1.task = k.task
              /\ \A t \in Servers :
                    /\ EasedServer(k.srv[t], k1.srv[t])
                    /\ k1.srv[t].saved = k.srv[t].saved
                    /\ \A q \in Procs : Has(k1.srv[t].waitq, q) <=> Has(k.srv[t].waitq, q) /\ q \notin {p}
            BY <2>1, CancelFacts
        <3> HIDE DEF k1
        <3> QED BY <3>1 DEF Queueing, EasedServer
    <2>2. CASE ~elsewhere
        <3>1. k1 = k
            BY <2>2
        <3> HIDE DEF k1
        <3> QED BY <3>1 DEF Queueing, Alike
    <2> QED BY <2>1, <2>2
<1> HIDE DEF k1
<1>3. Queueing(k, n, {p}) /\ n \in Kernels /\ Has(n.srv[s].waitq, p)
    <2>1. CASE Has(k1.srv[s].waitq, p)
        BY <1>2, <2>1
    <2>2. CASE ~Has(k1.srv[s].waitq, p)
        <3>1. k1.srv[s] \in ServerRecords /\ k1.srv[s].waitq \in Seq(Procs)
            BY <1>2, KernelFields, ServerFields
        <3> DEFINE q == Append(k1.srv[s].waitq, p)
        <3>2. q \in Seq(Procs) /\ \A y : Has(q, y) <=> Has(k1.srv[s].waitq, y) \/ y = p
            BY <3>1, HasAppend
        <3> HIDE DEF q
        <3>3. LET x == [k1.srv[s] EXCEPT !.waitq = q] IN
              /\ x \in ServerRecords /\ x.ring = k1.srv[s].ring /\ x.do_switch = k1.srv[s].do_switch
              /\ x.restore_pending = k1.srv[s].restore_pending /\ x.saved = k1.srv[s].saved
              /\ x.waitq = q
            BY <3>1, <3>2 DEF ServerRecords
        <3>4. w = [k1.srv[s] EXCEPT !.waitq = q]
            BY DEF q
        <3> HIDE DEF w
        <3>5. n = SetServer(k1, s, w)
            BY <2>2
        <3> HIDE DEF n
        <3>8. /\ w \in ServerRecords /\ w.ring = k1.srv[s].ring /\ w.do_switch = k1.srv[s].do_switch
              /\ w.restore_pending = k1.srv[s].restore_pending /\ w.saved = k1.srv[s].saved
              /\ \A y \in Procs \ {p} : Has(w.waitq, y) <=> Has(k1.srv[s].waitq, y)
            BY <3>2, <3>3, <3>4
        <3>6. Queueing(k1, n, {p}) /\ n \in Kernels /\ n.srv[s] = w
            BY <1>2, <3>5, <3>8, QueueingFacts
        <3>7. Queueing(k, n, {p})
            BY <1>2, <3>6, AlikeTwice DEF Queueing
        <3> QED BY <3>2, <3>3, <3>4, <3>6, <3>7
    <2> QED BY <2>1, <2>2
<1> HIDE DEF n
<1>4. n.cur = k.cur
    BY <1>3 DEF Queueing, Alike
<1>5. Blocks(n, m, c)
    BY <1>1, <1>3, <1>4, BlockFacts
<1> QED BY <1>3, <1>5

\* What proc_ipc_call() of a server s does.
CallEffect(k, m, c, s, ret) ==
    \/ ~Live(k, s) /\ Reframes(k, m, c, Back(k.frame[c])) /\ m.log = k.log /\ m.res = k.res
    \/ /\ Live(k, s)
       /\ \E k1, k2 \in Kernels :
             /\ Reframes(k, k1, c, Calling(k.frame[c], s, ret)) /\ k1.log = k.log /\ k1.res = k.res
             /\ Queueing(k1, k2, {k.cur[c]}) /\ Has(k2.srv[s].waitq, k.cur[c])
             /\ Blocks(k2, m, c)
    \/ /\ Live(k, s) /\ ~Closed(k, s)
       /\ \E k1 \in Kernels :
             /\ Asks(k, k1, c, s, ret)
             /\ IF k.srv[s].ring = <<>> THEN Starts(k1, m, c, s) ELSE m = k1

\* proc_ipc_call()
LEMMA CallFacts ==
    ASSUME NEW k \in Kernels, NEW c \in Cores, k.cur[c] \in Procs, NEW s \in Servers,
           NEW ret \in BOOLEAN, k.ipc_uid < MaxCalls, NEW m \in proc_ipc_call(k, c, s, ret)
    PROVE  CallEffect(k, m, c, s, ret)
<1> DEFINE p == k.cur[c]
           f == k.frame[c]
           calling == [k EXCEPT !.frame[c] = [k.frame[c] EXCEPT !.pc = "call", !.to = s, !.ret = ret]]
           k1 == [proc_ipc_req(k, s, p, ret) EXCEPT
                    !.res[p] = [k.res[p] EXCEPT !.state = "BUSY"],
                    !.frame[c] = IF ret THEN [calling.frame[c] EXCEPT !.pc = "wait", !.uid = k.ipc_uid + 1]
                                 ELSE Back(k.frame[c])]
<1>0. f \in Contexts
    BY KernelFields
<1>1. ASSUME NEW g \in Contexts
      PROVE  LET x == [k EXCEPT !.frame[c] = g] IN
             x \in Kernels /\ Reframes(k, x, c, g) /\ x.log = k.log /\ x.res = k.res
    <2> DEFINE x == [k EXCEPT !.frame[c] = g]
    <2>1. /\ x \in Kernels /\ Unswitched(k, x) /\ x.cur = k.cur /\ x.ctx = k.ctx
          /\ x.task = k.task /\ x.srv = k.srv /\ x.frame = [k.frame EXCEPT ![c] = g]
        BY SetFrame
    <2> HIDE DEF x
    <2>2. x \in Kernels /\ Reframes(k, x, c, g) /\ x.log = k.log /\ x.res = k.res
        BY <2>1 DEF Reframes, Steady, Unswitched
    <2> QED BY <2>2 DEF x
<1>2. CASE ~Live(k, s)
    <2>1. m = [k EXCEPT !.frame[c] = Back(f)]
        BY <1>2 DEF proc_ipc_call
    <2>2. Back(f) \in Contexts
        BY <1>0, CallContexts
    <2> DEFINE g == Back(f)
    <2> HIDE DEF g
    <2>3. Reframes(k, m, c, g) /\ m.log = k.log /\ m.res = k.res
        BY <1>1, <2>1, <2>2 DEF g
    <2> QED BY <1>2, <2>3 DEF CallEffect, g
<1>3. CASE Live(k, s) /\ Closed(k, s)
    <2>1. m \in proc_ipc_wait(calling, c, s)
        BY <1>3 DEF proc_ipc_call
    <2> DEFINE g == Calling(f, s, ret)
    <2>2. calling = [k EXCEPT !.frame[c] = g]
        BY DEF Calling
    <2>3. g \in Contexts
        BY <1>0, CallContexts
    <2> HIDE DEF calling, g
    <2>4. calling \in Kernels /\ Reframes(k, calling, c, g) /\ calling.log = k.log /\ calling.res = k.res
        BY <1>1, <2>2, <2>3
    <2>5. calling.cur = k.cur
        BY <2>4 DEF Reframes, Steady
    <2>6. \E n \in Kernels : /\ Queueing(calling, n, {p}) /\ Has(n.srv[s].waitq, p)
                             /\ Blocks(n, m, c)
        BY <2>1, <2>4, <2>5, WaitFacts
    <2> QED BY <1>3, <2>4, <2>6 DEF CallEffect, g
<1>4. CASE Live(k, s) /\ ~Closed(k, s)
    <2>1. IF k.srv[s].ring = <<>> THEN m = proc_ipc_do_task(k1, c, s) ELSE m = k1
        BY <1>4 DEF proc_ipc_call
    <2>2. Asks(k, k1, c, s, ret)
        BY <1>4, AskFacts
    <2> HIDE DEF k1
    <2>3. k1 \in Kernels /\ Live(k1, s)
        BY <1>4, <2>2 DEF Asks, OneServer, Live
    <2>4. IF k.srv[s].ring = <<>> THEN Starts(k1, m, c, s) ELSE m = k1
        BY <2>1, <2>3, StartFacts
    <2> QED BY <1>4, <2>2, <2>3, <2>4 DEF CallEffect
<1> QED BY <1>2, <1>3, <1>4

-----------------------------------------------------------------------------
(* The end of a service.                                                    *)

\* The client of a request is alive.
LEMMA ClientFacts ==
    ASSUME NEW k, NEW r
    PROVE  /\ ClientOf(k, r) \in {{}, {r.client}} /\ ToWake(k, r) \in {{}, {r.client}}
           /\ \A p \in ClientOf(k, r) : p = r.client /\ Live(k, p) /\ k.uuid[p] = r.uuid
           /\ \A p \in ToWake(k, r) : r.ret /\ p \in ClientOf(k, r)
           /\ r.ret => ToWake(k, r) = ClientOf(k, r)
BY DEF ClientOf, ToWake

\* What proc_ipc_end() does when a request is served.
EndEffect(k, m, c) ==
    LET s == k.cur[c]
        r == Head(k.srv[s].ring)
    IN  \E k1, k2, k3 \in Kernels, Q \in SUBSET Procs :
           /\ Finishes(k, k1, c, s) /\ Closes(k1, k2, s) /\ Eases(k2, k3, Q)
           /\ ToWake(k, r) \subseteq Q
           /\ \A p \in Q : p \in ToWake(k, r) \/ Has(k2.srv[s].waitq, p)
           /\ IF k3.srv[s].ring # <<>> THEN Starts(k3, m, c, s)
              ELSE \/ Dispatches(k3, m, c)
                   \/ \E to \in ToWake(k, r) : Core[to] = c /\ Hands(k3, m, c, to)

\* proc_ipc_end()
LEMMA EndFacts ==
    ASSUME NEW k \in Kernels, NEW c \in Cores, k.cur[c] \in Servers,
           k.srv[k.cur[c]].ring # <<>>, k.srv[k.cur[c]].saved.state # "ZOMBIE",
           NEW m \in proc_ipc_end(k, c)
    PROVE  EndEffect(k, m, c)
<1> DEFINE s == k.cur[c]
           r == Head(k.srv[s].ring)
           to == ToWake(k, r)
           kb == EndService(k, c)
           k3 == proc_wakeup(kb, to)
<1>0. s \in Procs /\ k.srv[s] \in ServerRecords
    BY Constants, KernelFields
<1>1. PICK k1, k2 \in Kernels, Q \in SUBSET Procs :
              /\ Finishes(k, k1, c, s) /\ Closes(k1, k2, s) /\ Eases(k2, kb, Q)
              /\ \A p \in Q : Has(k2.srv[s].waitq, p)
    BY EndServiceFacts
<1>2. r.client \in Procs
    BY <1>0, HeadFacts
<1>3. to \in SUBSET Procs /\ to \in {{}, {r.client}} /\ \A p \in to : p = r.client /\ Live(k, p)
    BY <1>2, ClientFacts
<1>4. \/ to # {} /\ k3.srv[s].ring = <<>> /\ Core[r.client] = c
         /\ m = proc_switch_multi_core(k3, c, r.client)
      \/ k3.srv[s].ring # <<>> /\ m = proc_ipc_do_task(k3, c, s)
      \/ k3.srv[s].ring = <<>> /\ m \in schedule(k3, c)
    BY DEF proc_ipc_end
<1>5. kb \in Kernels
    BY <1>1 DEF Eases
<1> HIDE DEF kb, to, r
<1>6. Eases(kb, k3, to) /\ k3 \in Kernels
    BY <1>3, <1>5, WakeFacts DEF Eases
<1> HIDE DEF k3
<1>7. Eases(k2, k3, Q \cup to) /\ Q \cup to \in SUBSET Procs
    BY <1>1, <1>3, <1>6, EasesTwice
<1>8. \A p \in Procs : Live(k, p) => Live(k3, p)
    <2> SUFFICES ASSUME NEW p \in Procs, Live(k, p) PROVE Live(k3, p)
        OBVIOUS
    <2>1. Live(k1, p)
        BY <1>1 DEF Finishes, Restores, Continued, Live, proc_get
    <2>2. Live(k2, p)
        BY <1>1, <2>1 DEF Closes, Live
    <2> QED BY <1>7, <2>2, EasesLive
<1>9. Live(k3, s)
    <2>1. Live(k1, s)
        BY <1>1 DEF Finishes, Restores, Continued, Live, proc_get
    <2>2. Live(k2, s)
        BY <1>1, <2>1 DEF Closes, Live
    <2> QED BY <1>0, <1>7, <2>2, EasesLive
<1>10. IF k3.srv[s].ring # <<>> THEN Starts(k3, m, c, s)
       ELSE Dispatches(k3, m, c) \/ \E x \in to : Core[x] = c /\ Hands(k3, m, c, x)
    <2>1. CASE k3.srv[s].ring # <<>>
        BY <1>4, <1>6, <1>9, <2>1, StartFacts
    <2>2. CASE k3.srv[s].ring = <<>> /\ m \in schedule(k3, c)
        BY <1>6, <2>2, DispatchFacts
    <2>3. CASE k3.srv[s].ring = <<>> /\ m \notin schedule(k3, c)
        <3>1. r.client \in to /\ Core[r.client] = c /\ m = proc_switch_multi_core(k3, c, r.client)
            BY <1>3, <1>4, <2>3
        <3>2. Live(k3, r.client)
            BY <1>2, <1>3, <1>8, <3>1
        <3> QED BY <1>2, <1>6, <2>3, <3>1, <3>2, HandFacts
    <2> QED BY <1>4, <2>1, <2>2, <2>3
<1>11. \A p \in Q \cup to : p \in to \/ Has(k2.srv[s].waitq, p)
    BY <1>1
<1> QED BY <1>1, <1>6, <1>7, <1>10, <1>11 DEF EndEffect, to, r

\* What proc_ipc_timeout() of a server does.
TimeoutEffect(k, m, s) ==
    LET r == Head(k.srv[s].ring) IN
    \E k1, k2, k3, k4, k5, k6 \in Kernels, Q \in SUBSET Procs :
       /\ Recalls(k, k1, s)
       /\ Eases(k1, k2, {s}) \/ (k2 = k1 /\ k1.task[s].state = "UNUSED")
       /\ Closes(k2, k3, s) /\ Quiet(k3, k4) /\ Eases(k4, k5, Q)
       /\ ClientOf(k3, r) \subseteq Q
       /\ IF k5.srv[s].ring = <<>> THEN k6 = k5
          ELSE \E n \in Kernels : /\ Arms(k5, n, s, k5.srv[s].restore_pending)
                                  /\ Eases(n, k6, {s}) \/ (k6 = n /\ n.task[s].state = "UNUSED")
       /\ Quiet(k6, m)

\* The reply of an abandoned request is withdrawn.
LEMMA WithdrawFacts ==
    ASSUME NEW k \in Kernels, NEW r
    PROVE  Quiet(k, Withdraw(k, r)) /\ Withdraw(k, r) \in Kernels
<1> DEFINE R == [p \in Procs |-> IF p \in ClientOf(k, r) /\ k.res[p].uid = r.uid
                                  THEN NoResult ELSE k.res[p]]
           L == [k.log EXCEPT !.answered = k.log.answered \ {r.uid}]
           m == [k EXCEPT !.res = R, !.log = L]
<1>1. Withdraw(k, r) = m
    BY DEF Withdraw
<1>2. k.log \in Logs /\ k.res \in [Procs -> Results]
    BY KernelFields
<1>3. L \in Logs /\ L.asked = k.log.asked
    BY <1>2 DEF Logs
<1>4. R \in [Procs -> Results] /\ \A p \in Procs : R[p] = k.res[p] \/ R[p] = NoResult
    BY <1>2, NoSavedFacts
<1> HIDE DEF R, L
<1>5. /\ m \in Kernels /\ m.task = k.task /\ m.srv = k.srv /\ m.ctx = k.ctx /\ m.uuid = k.uuid
      /\ m.wait_for = k.wait_for /\ m.cur = k.cur /\ m.last_uuid = k.last_uuid /\ m.ipc_uid = k.ipc_uid
      /\ m.log = L /\ m.res = R /\ m.frame = k.frame
    BY <1>3, <1>4 DEF Kernels
<1> HIDE DEF m
<1>6. \A p \in Procs : m.res[p] = k.res[p] \/ ReplyOK(k, p, m.res[p])
    BY <1>4, <1>5, NoSavedFacts DEF ReplyOK
<1> QED BY <1>1, <1>3, <1>5, <1>6 DEF Quiet, Steady

\* A core is interrupted.
LEMMA ReschedFacts ==
    ASSUME NEW k \in Kernels, NEW c \in Cores, NEW x \in {"no", "raised", "due"}
    PROVE  LET m == [k EXCEPT !.need_resched[c] = x] IN
           m \in Kernels /\ Quiet(k, m) /\ m.log = k.log /\ m.res = k.res
<1> DEFINE m == [k EXCEPT !.need_resched[c] = x]
<1>1. /\ m \in Kernels /\ m.task = k.task /\ m.srv = k.srv /\ m.ctx = k.ctx /\ m.uuid = k.uuid
      /\ m.wait_for = k.wait_for /\ m.cur = k.cur /\ m.last_uuid = k.last_uuid /\ m.ipc_uid = k.ipc_uid
      /\ m.log = k.log /\ m.res = k.res /\ m.frame = k.frame
    BY DEF Kernels
<1> HIDE DEF m
<1>2. m \in Kernels /\ Quiet(k, m) /\ m.log = k.log /\ m.res = k.res
    BY <1>1 DEF Quiet, Steady
<1> QED BY <1>2 DEF m

\* proc_ipc_timeout()
LEMMA TimeoutFacts ==
    ASSUME NEW k \in Kernels, NEW s \in Servers, k.srv[s].ring # <<>>,
           k.srv[s].saved.state # "ZOMBIE"
    PROVE  TimeoutEffect(k, proc_ipc_timeout(k, s), s)
<1> DEFINE r == Head(k.srv[s].ring)
           main == k.srv[s].saved.ctx
           k0 == proc_restore_state(k, s)
           v == [k0.srv[s] EXCEPT !.do_switch = FALSE, !.restore_pending = TRUE]
           k1 == [SetServer(k0, s, v) EXCEPT !.ctx[s] = main]
           k2 == Resume(k1, s)
           k3 == proc_ipc_close(k2, s)
           k4 == Withdraw(k3, r)
           ka == proc_wakeup(k4, ClientOf(k3, r))
           k5 == proc_ipc_wakeup(ka, s)
           kb == proc_save_state(k5, s)
           n == SetServer(kb, s, [kb.srv[s] EXCEPT !.do_switch = TRUE])
           k6 == IF k5.srv[s].ring = <<>> THEN k5 ELSE Resume(n, s)
           m == IF Core[s] = 0 THEN k6 ELSE [k6 EXCEPT !.need_resched[Core[s]] = "raised"]
<1>0. s \in Procs /\ k.srv[s] \in ServerRecords /\ Core[s] \in Cores
    BY Constants, KernelFields
<1>1. proc_ipc_timeout(k, s) = m
    BY DEF proc_ipc_timeout, Abort
<1>2. Recalls(k, k1, s)
    BY RecallFacts
<1>3. k1 \in Kernels /\ k1.task[s].state # "ZOMBIE" /\ k1.srv[s].ring = k.srv[s].ring
    BY <1>2 DEF Recalls, Restores, OneServer
<1> HIDE DEF k1, v, k0, main
<1>4. Eases(k1, k2, {s}) \/ (k2 = k1 /\ k1.task[s].state = "UNUSED")
    BY <1>3, ResumeFacts
<1>5. k2 \in Kernels /\ k2.srv[s].ring = k.srv[s].ring /\ k2.task[s].state # "ZOMBIE"
    BY <1>0, <1>3, <1>4, EasesLive DEF Eases, EasedServer, Live, proc_get
<1> HIDE DEF k2
<1>6. Closes(k2, k3, s)
    BY <1>5, CloseFacts
<1>7. k3 \in Kernels /\ k3.task[s].state # "ZOMBIE"
    BY <1>5, <1>6 DEF Closes, OneServer
<1> HIDE DEF k3
<1>8. Quiet(k3, k4) /\ k4 \in Kernels
    BY <1>7, WithdrawFacts
<1>9. k4.task[s].state # "ZOMBIE"
    BY <1>7, <1>8 DEF Quiet
<1> HIDE DEF k4
<1>10. r.client \in Procs
    BY <1>0, HeadFacts
<1> DEFINE C == ClientOf(k3, r)
<1>11. C \in SUBSET Procs
    BY <1>10, ClientFacts
<1> HIDE DEF r, C
<1>12. Eases(k4, ka, C)
    BY <1>8, <1>11, WakeFacts DEF C
<1>13. ka \in Kernels
    BY <1>12 DEF Eases
<1> HIDE DEF ka
<1>14. PICK Q \in SUBSET Procs : Eases(ka, k5, Q)
    BY <1>13, IpcWakeFacts
<1> HIDE DEF k5
<1>15. Eases(k4, k5, C \cup Q) /\ C \cup Q \in SUBSET Procs
    BY <1>11, <1>12, <1>14, EasesTwice
<1>16. k5 \in Kernels /\ k5.task[s].state # "ZOMBIE"
    BY <1>0, <1>9, <1>15, EasesLive DEF Eases, Live, proc_get
<1>17. Arms(k5, n, s, k5.srv[s].restore_pending)
    BY <1>16, ArmFacts
<1> HIDE DEF n, kb
<1>18. n \in Kernels /\ n.task[s].state # "ZOMBIE"
    BY <1>16, <1>17 DEF Arms, OneServer
<1>19. k5.srv[s].ring # <<>> => Eases(n, k6, {s}) \/ (k6 = n /\ n.task[s].state = "UNUSED")
    BY <1>18, ResumeFacts
<1>20. k5.srv[s].ring = <<>> => k6 = k5
    OBVIOUS
<1>21. k6 \in Kernels
    BY <1>16, <1>18, <1>19, <1>20 DEF Eases
<1> HIDE DEF k6
<1>22. Quiet(k6, m)
    <2>1. CASE Core[s] = 0
        BY <1>21, <2>1 DEF Quiet, Steady
    <2>2. CASE Core[s] # 0
        BY <1>0, <1>21, <2>2, ReschedFacts
    <2> QED BY <2>1, <2>2
<1> HIDE DEF m
<1>23. TimeoutEffect(k, m, s)
    <2>1. C \subseteq C \cup Q
        OBVIOUS
    <2>2. IF k5.srv[s].ring = <<>> THEN k6 = k5
          ELSE \E x \in Kernels : /\ Arms(k5, x, s, k5.srv[s].restore_pending)
                                  /\ Eases(x, k6, {s}) \/ (k6 = x /\ x.task[s].state = "UNUSED")
        BY <1>17, <1>18, <1>19, <1>20
    <2> DEFINE D == C \cup Q
    <2>3. /\ D \in SUBSET Procs /\ Recalls(k, k1, s)
          /\ Eases(k1, k2, {s}) \/ (k2 = k1 /\ k1.task[s].state = "UNUSED")
          /\ Closes(k2, k3, s) /\ Quiet(k3, k4) /\ Eases(k4, k5, D)
          /\ ClientOf(k3, Head(k.srv[s].ring)) \subseteq D /\ Quiet(k6, m)
        BY <1>2, <1>4, <1>6, <1>8, <1>15, <1>22, <2>1 DEF C, r
    <2> HIDE DEF D
    <2> QED BY <1>3, <1>5, <1>7, <1>8, <1>16, <1>21, <2>2, <2>3 DEF TimeoutEffect
<1> QED BY <1>1, <1>23

-----------------------------------------------------------------------------
(* The end of a process.                                                    *)

\* q waits for p to be served.
Told(k, p, q) ==
    /\ p \in Servers
    /\ \/ Has(k.srv[p].waitq, q)
       \/ \E i \in DOMAIN k.srv[p].ring : q \in ClientOf(k, k.srv[p].ring[i])

\* q waits for a reply of p.
Due(k, p, q) ==
    /\ p \in Servers
    /\ \E i \in DOMAIN k.srv[p].ring : k.srv[p].ring[i].ret /\ q \in ClientOf(k, k.srv[p].ring[i])

\* The requests of p are dropped, as are the slots of those who wait for them.
Drops(k, m, p) ==
    /\ m \in Kernels
    /\ m.task = k.task /\ m.ctx = k.ctx /\ m.uuid = k.uuid /\ m.wait_for = k.wait_for
    /\ m.cur = k.cur /\ m.frame = k.frame /\ m.need_resched = k.need_resched
    /\ m.ipc_uid = k.ipc_uid /\ m.last_uuid = k.last_uuid /\ m.log = k.log
    /\ \A q \in Procs : m.res[q] = k.res[q] \/ (m.res[q] = NoResult /\ k.res[q].state # "RETURN")
    /\ \A s \in Servers \ {p} : m.srv[s] = k.srv[s]
    /\ p \in Servers => /\ m.srv[p].ring = <<>> /\ ~m.srv[p].do_switch /\ ~m.srv[p].restore_pending
                        /\ m.srv[p].waitq = k.srv[p].waitq /\ m.srv[p].saved = k.srv[p].saved

\* The server p has no requests any more.
LEMMA NoRequestsFacts ==
    ASSUME NEW k \in Kernels, NEW p \in Procs
    PROVE  LET m == NoRequests(k, p) IN
           /\ m \in Kernels /\ Alike(k, m) /\ m.task = k.task
           /\ \A s \in Servers \ {p} : m.srv[s] = k.srv[s]
           /\ p \in Servers =>
                 /\ m.srv[p].ring = <<>> /\ ~m.srv[p].do_switch /\ ~m.srv[p].restore_pending
                 /\ m.srv[p].waitq = k.srv[p].waitq /\ m.srv[p].saved = k.srv[p].saved
<1> DEFINE m == NoRequests(k, p)
<1>1. CASE p \notin Servers
    <2>1. m = k
        BY <1>1 DEF NoRequests
    <2> HIDE DEF m
    <2>2. Alike(k, m)
        BY <2>1 DEF Alike
    <2> QED BY <1>1, <2>1, <2>2 DEF m
<1>2. CASE p \in Servers
    <2> DEFINE w == [k.srv[p] EXCEPT !.ring = <<>>, !.do_switch = FALSE, !.restore_pending = FALSE]
    <2>1. m = SetServer(k, p, w)
        BY <1>2 DEF NoRequests
    <2>2. k.srv[p] \in ServerRecords
        BY <1>2, KernelFields
    <2>3. <<>> \in {q \in Seq(Requests) : Len(q) <= IPC_CTX_MAX}
        BY EmptySeq, Constants
    <2> DEFINE e == <<>>
    <2> HIDE DEF e
    <2>4. LET x == [k.srv[p] EXCEPT !.ring = e, !.do_switch = FALSE, !.restore_pending = FALSE] IN
          /\ x \in ServerRecords /\ x.ring = e /\ x.do_switch = FALSE /\ x.restore_pending = FALSE
          /\ x.waitq = k.srv[p].waitq /\ x.saved = k.srv[p].saved
        BY <2>2, <2>3 DEF ServerRecords, e
    <2>5. /\ w \in ServerRecords /\ w.ring = <<>> /\ w.do_switch = FALSE /\ w.restore_pending = FALSE
          /\ w.waitq = k.srv[p].waitq /\ w.saved = k.srv[p].saved
        BY <2>4 DEF e
    <2> HIDE DEF w, m
    <2>6. m \in Kernels /\ m.task = k.task /\ Alike(k, m) /\ m.srv = [k.srv EXCEPT ![p] = w]
        BY <1>2, <2>1, <2>5, SetServerFacts
    <2>7. m.srv[p] = w /\ \A s \in Servers \ {p} : m.srv[s] = k.srv[s]
        BY <1>2, <2>6, KernelFields
    <2> QED BY <2>5, <2>6, <2>7 DEF m
<1> QED BY <1>1, <1>2

\* proc_ipc_clear()
LEMMA ClearFacts ==
    ASSUME NEW k \in Kernels, NEW p \in Procs, NEW m, m = proc_ipc_clear(k, p)
    PROVE  \E n \in Kernels, Q \in SUBSET Procs :
              /\ Drops(k, n, p) /\ Eases(n, m, Q)
              /\ \A q \in Procs : Due(k, p, q) <=> q \in Q
<1> DEFINE waiting == ReplyWaiters(k, p)
           clients == {r.client : r \in waiting}
           request(q) == CHOOSE r \in waiting : r.client = q
           k1 == NoRequests(k, p)
           R == [q \in Procs |-> IF q \in clients THEN Cleared(k.res[q], request(q)) ELSE k.res[q]]
           n == [k1 EXCEPT !.res = R]
<1>1. m = proc_wakeup(n, clients)
    BY DEF proc_ipc_clear
<1>2. \A r : r \in waiting <=>
          p \in Servers /\ r.ret /\ ClientOf(k, r) # {} /\ \E i \in DOMAIN k.srv[p].ring : r = k.srv[p].ring[i]
    BY DEF ReplyWaiters
<1> HIDE DEF waiting
<1>3. \A q \in Procs : Due(k, p, q) <=> q \in clients
    <2> SUFFICES ASSUME NEW q \in Procs PROVE Due(k, p, q) <=> q \in clients
        OBVIOUS
    <2>1. ASSUME Due(k, p, q) PROVE q \in clients
        <3>1. PICK i \in DOMAIN k.srv[p].ring :
                  k.srv[p].ring[i].ret /\ q \in ClientOf(k, k.srv[p].ring[i])
            BY <2>1 DEF Due
        <3>2. q = k.srv[p].ring[i].client
            BY <3>1, ClientFacts
        <3>3. k.srv[p].ring[i] \in waiting
            BY <1>2, <2>1, <3>1 DEF Due
        <3> QED BY <3>2, <3>3
    <2>2. ASSUME q \in clients PROVE Due(k, p, q)
        <3>1. PICK r \in waiting : q = r.client
            BY <2>2
        <3>2. q \in ClientOf(k, r)
            BY <1>2, <3>1, ClientFacts
        <3> QED BY <1>2, <3>1, <3>2 DEF Due
    <2> QED BY <2>1, <2>2
<1>4. clients \in SUBSET Procs
    <2> SUFFICES ASSUME NEW r \in waiting PROVE r.client \in Procs
        OBVIOUS
    <2>1. PICK i \in DOMAIN k.srv[p].ring : r = k.srv[p].ring[i]
        BY <1>2
    <2>2. k.srv[p].ring \in Seq(Requests)
        BY <1>2, KernelFields, ServerFields
    <2>3. r \in Requests
        BY <2>1, <2>2, ElementOfSeq, LenProperties
    <2> QED BY <2>3 DEF Requests
<1> HIDE DEF clients
<1>5. /\ k1 \in Kernels /\ Alike(k, k1) /\ k1.task = k.task
      /\ \A s \in Servers \ {p} : k1.srv[s] = k.srv[s]
      /\ p \in Servers =>
            /\ k1.srv[p].ring = <<>> /\ ~k1.srv[p].do_switch /\ ~k1.srv[p].restore_pending
            /\ k1.srv[p].waitq = k.srv[p].waitq /\ k1.srv[p].saved = k.srv[p].saved
    BY NoRequestsFacts
<1> HIDE DEF k1
<1>6. \A q \in Procs : R[q] \in Results /\
          (R[q] = k.res[q] \/ (R[q] = NoResult /\ k.res[q].state # "RETURN"))
    <2> SUFFICES ASSUME NEW q \in Procs
                 PROVE  R[q] \in Results /\ (R[q] = k.res[q] \/ (R[q] = NoResult /\ k.res[q].state # "RETURN"))
        OBVIOUS
    <2>1. k.res[q] \in Results
        BY KernelFields
    <2>2. R[q] = IF q \in clients THEN Cleared(k.res[q], request(q)) ELSE k.res[q]
        OBVIOUS
    <2> HIDE DEF R, request
    <2> QED BY <2>1, <2>2, NoSavedFacts DEF Cleared
<1>7. R \in [Procs -> Results]
    <2>1. \A q \in Procs : R[q] \in Results
        BY <1>6
    <2> QED BY <2>1
<1> HIDE DEF R
<1>8. /\ n \in Kernels /\ n.task = k1.task /\ n.srv = k1.srv /\ n.ctx = k1.ctx /\ n.uuid = k1.uuid
      /\ n.wait_for = k1.wait_for /\ n.cur = k1.cur /\ n.last_uuid = k1.last_uuid
      /\ n.ipc_uid = k1.ipc_uid /\ n.need_resched = k1.need_resched
      /\ n.log = k1.log /\ n.res = R /\ n.frame = k1.frame
    BY <1>5, <1>7 DEF Kernels
<1> HIDE DEF n
<1>9. Drops(k, n, p)
    BY <1>5, <1>6, <1>8 DEF Drops, Alike
<1>10. Eases(n, m, clients)
    BY <1>1, <1>4, <1>8, WakeFacts
<1> QED BY <1>3, <1>4, <1>8, <1>9, <1>10

\* proc_ipc_wakeup_all()
LEMMA WakeAllFacts ==
    ASSUME NEW k \in Kernels, NEW p \in Procs, NEW m, m = proc_ipc_wakeup_all(k, p)
    PROVE  \E Q \in SUBSET Procs :
              /\ Eases(k, m, Q)
              /\ \A q \in Procs : q \in Q <=> p \in Servers /\ Has(k.srv[p].waitq, q)
<1> DEFINE w == IF p \in Servers THEN k.srv[p].waitq ELSE <<>>
           Q == {w[i] : i \in DOMAIN w}
<1>1. w \in Seq(Procs)
    BY KernelFields, ServerFields, EmptySeq
<1>2. m = proc_wakeup(k, Q)
    BY DEF proc_ipc_wakeup_all
<1>3. \A q \in Procs : q \in Q <=> p \in Servers /\ Has(k.srv[p].waitq, q)
    BY HasNone DEF Has
<1> HIDE DEF w
<1>4. Q \in SUBSET Procs
    BY <1>1, ElementOfSeq, LenProperties
<1> HIDE DEF Q
<1> QED BY <1>2, <1>3, <1>4, WakeFacts

\* proc_wakeup_waiting(): those that wait for p are READY.
LEMMA WaitingFacts ==
    ASSUME NEW k \in Kernels, NEW p \in Procs
    PROVE  LET m == proc_wakeup_waiting(k, p) IN
           /\ m \in Kernels /\ m.srv = k.srv /\ m.ctx = k.ctx /\ m.res = k.res /\ m.uuid = k.uuid
           /\ m.cur = k.cur /\ m.frame = k.frame /\ m.need_resched = k.need_resched
           /\ m.ipc_uid = k.ipc_uid /\ m.last_uuid = k.last_uuid /\ m.log = k.log
           /\ \A q \in Procs :
                 IF k.task[q].state = "WAIT" /\ k.wait_for[q] = p
                 THEN m.task[q].state = "READY" /\ m.wait_for[q] = NoProc
                 ELSE m.task[q] = k.task[q] /\ m.wait_for[q] = k.wait_for[q]
<1> DEFINE W == {q \in Procs : k.task[q].state = "WAIT" /\ k.wait_for[q] = p}
           T == [q \in Procs |-> IF q \in W THEN proc_ready(k.task[q]) ELSE k.task[q]]
           F == [q \in Procs |-> IF q \in W THEN NoProc ELSE k.wait_for[q]]
           m == [k EXCEPT !.task = T, !.wait_for = F]
<1>1. proc_wakeup_waiting(k, p) = m
    BY DEF proc_wakeup_waiting
<1>2. \A q \in Procs : /\ T[q] \in Tasks
                       /\ IF k.task[q].state = "WAIT" /\ k.wait_for[q] = p
                          THEN T[q].state = "READY" ELSE T[q] = k.task[q]
    <2> SUFFICES ASSUME NEW q \in Procs
                 PROVE  /\ T[q] \in Tasks
                        /\ IF k.task[q].state = "WAIT" /\ k.wait_for[q] = p
                           THEN T[q].state = "READY" ELSE T[q] = k.task[q]
        OBVIOUS
    <2>1. k.task[q] \in Tasks
        BY KernelFields
    <2>2. proc_ready(k.task[q]) \in Tasks /\ proc_ready(k.task[q]).state = "READY"
        BY <2>1, TaskFacts
    <2>3. T[q] = IF q \in W THEN proc_ready(k.task[q]) ELSE k.task[q]
        OBVIOUS
    <2> HIDE DEF T
    <2> QED BY <2>1, <2>2, <2>3
<1>3. \A q \in Procs : F[q] = IF k.task[q].state = "WAIT" /\ k.wait_for[q] = p THEN NoProc
                               ELSE k.wait_for[q]
    OBVIOUS
<1>4. F \in [Procs -> Procs \cup {NoProc}]
    BY KernelFields
<1>5. T \in [Procs -> Tasks]
    <2>1. \A q \in Procs : T[q] \in Tasks
        BY <1>2
    <2> QED BY <2>1
<1> HIDE DEF T, F
<1>6. /\ m \in Kernels /\ m.task = T /\ m.srv = k.srv /\ m.ctx = k.ctx /\ m.uuid = k.uuid
      /\ m.wait_for = F /\ m.cur = k.cur /\ m.last_uuid = k.last_uuid
      /\ m.ipc_uid = k.ipc_uid /\ m.need_resched = k.need_resched
      /\ m.log = k.log /\ m.res = k.res /\ m.frame = k.frame
    BY <1>4, <1>5 DEF Kernels
<1> HIDE DEF m
<1>7. \A q \in Procs :
         IF k.task[q].state = "WAIT" /\ k.wait_for[q] = p
         THEN m.task[q].state = "READY" /\ m.wait_for[q] = NoProc
         ELSE m.task[q] = k.task[q] /\ m.wait_for[q] = k.wait_for[q]
    BY <1>2, <1>3, <1>6
<1> QED BY <1>1, <1>6, <1>7

\* What proc_terminate() does.
Terminates(k, m, p) ==
    /\ m \in Kernels
    /\ m.ctx = k.ctx /\ m.cur = k.cur /\ m.frame = k.frame /\ m.need_resched = k.need_resched
    /\ m.ipc_uid = k.ipc_uid /\ m.last_uuid = k.last_uuid /\ m.log = k.log
    /\ m.uuid = [k.uuid EXCEPT ![p] = 0] /\ m.task[p].state = "ZOMBIE"
    /\ \A q \in Procs : m.res[q] = k.res[q] \/ (m.res[q] = NoResult /\ k.res[q].state # "RETURN")
    /\ \A q \in Procs \ {p} :
          /\ \/ m.task[q] = k.task[q]
             \/ /\ m.task[q].state = "READY" /\ Live(k, q)
                /\ Told(k, p, q) \/ k.task[q].state = "WAIT"
          /\ m.task[q].state = "WAIT" => m.wait_for[q] = k.wait_for[q] /\ k.wait_for[q] # p
          /\ m.task[q].state = "BLOCK" => ~Due(k, p, q) /\ ~(p \in Servers /\ Has(k.srv[p].waitq, q))
    /\ \A s \in Servers :
          /\ m.srv[s].saved.ctx = k.srv[s].saved.ctx /\ m.srv[s].saved.res = k.srv[s].saved.res
          /\ m.srv[s].saved.state \in {k.srv[s].saved.state, "READY"}
          /\ \A q \in Procs : Has(m.srv[s].waitq, q) => Has(k.srv[s].waitq, q)
          /\ s # p =>
                /\ EasedServer(k.srv[s], m.srv[s])
                /\ m.srv[s].saved # k.srv[s].saved => Told(k, p, s)
                /\ \A q \in Procs \ {p} : Has(k.srv[s].waitq, q) /\ m.task[q].state = "BLOCK" =>
                      Has(m.srv[s].waitq, q)
          /\ s = p => m.srv[s].ring = <<>> /\ ~m.srv[s].do_switch /\ ~m.srv[s].restore_pending

\* proc_terminate()
LEMMA TerminateFacts ==
    ASSUME NEW k \in Kernels, NEW p \in Procs
    PROVE  Terminates(k, proc_terminate(k, p), p)
<1> DEFINE t == proc_unready(k.task[p], "ZOMBIE")
           k0 == SetTask(k, p, t)
           k1 == proc_ipc_cancel_wait(k0, {p})
           kc == proc_ipc_clear(k1, p)
           kd == proc_ipc_wakeup_all(kc, p)
           ke == proc_wakeup_waiting(kd, p)
           m == [ke EXCEPT !.uuid[p] = 0]
<1>1. proc_terminate(k, p) = m
    BY DEF proc_terminate
<1>2. t \in Tasks /\ t.state = "ZOMBIE"
    BY KernelFields, TaskFacts DEF States
<1> HIDE DEF t
<1>3. k0 \in Kernels /\ k0.srv = k.srv /\ Alike(k, k0) /\ k0.task = [k.task EXCEPT ![p] = t]
    BY <1>2, SetTaskFacts
<1> HIDE DEF k0
<1>4. /\ k1 \in Kernels /\ Alike(k0, k1) /\ k1.task = k0.task
      /\ \A s \in Servers :
            /\ EasedServer(k0.srv[s], k1.srv[s])
            /\ k1.srv[s].saved = k0.srv[s].saved
            /\ \A q \in Procs : Has(k1.srv[s].waitq, q) <=> Has(k0.srv[s].waitq, q) /\ q \notin {p}
    BY <1>3, CancelFacts
<1> HIDE DEF k1
<1>5. PICK n \in Kernels, Q1 \in SUBSET Procs :
          /\ Drops(k1, n, p) /\ Eases(n, kc, Q1)
          /\ \A q \in Procs : Due(k1, p, q) <=> q \in Q1
    BY <1>4, ClearFacts
<1>6. kc \in Kernels
    BY <1>5 DEF Eases
<1> HIDE DEF kc
<1>7. PICK Q2 \in SUBSET Procs :
          /\ Eases(kc, kd, Q2)
          /\ \A q \in Procs : q \in Q2 <=> p \in Servers /\ Has(kc.srv[p].waitq, q)
    BY <1>6, WakeAllFacts
<1> HIDE DEF kd
<1>8. Eases(n, kd, Q1 \cup Q2) /\ kd \in Kernels
    <2>1. Eases(n, kd, Q1 \cup Q2)
        BY <1>5, <1>7, EasesTwice
    <2> QED BY <2>1 DEF Eases
<1>9. /\ ke \in Kernels /\ ke.srv = kd.srv /\ ke.ctx = kd.ctx /\ ke.res = kd.res /\ ke.uuid = kd.uuid
      /\ ke.cur = kd.cur /\ ke.frame = kd.frame /\ ke.need_resched = kd.need_resched
      /\ ke.ipc_uid = kd.ipc_uid /\ ke.last_uuid = kd.last_uuid /\ ke.log = kd.log
      /\ \A q \in Procs :
            IF kd.task[q].state = "WAIT" /\ kd.wait_for[q] = p
            THEN ke.task[q].state = "READY" /\ ke.wait_for[q] = NoProc
            ELSE ke.task[q] = kd.task[q] /\ ke.wait_for[q] = kd.wait_for[q]
    BY <1>8, WaitingFacts
<1> HIDE DEF ke
<1>10. /\ m \in Kernels /\ m.task = ke.task /\ m.srv = ke.srv /\ m.ctx = ke.ctx
       /\ m.uuid = [ke.uuid EXCEPT ![p] = 0]
       /\ m.wait_for = ke.wait_for /\ m.cur = ke.cur /\ m.last_uuid = ke.last_uuid
       /\ m.ipc_uid = ke.ipc_uid /\ m.need_resched = ke.need_resched
       /\ m.log = ke.log /\ m.res = ke.res /\ m.frame = ke.frame
    BY <1>9 DEF Kernels
<1> HIDE DEF m
<1>11. Alike(k, k1)
    BY <1>3, <1>4, AlikeTwice
<1>12. /\ k1.task[p].state = "ZOMBIE" /\ \A q \in Procs \ {p} : k1.task[q] = k.task[q]
    BY <1>2, <1>3, <1>4, KernelFields
<1>13. \A s \in Servers :
          /\ EasedServer(k.srv[s], k1.srv[s]) /\ k1.srv[s].saved = k.srv[s].saved
          /\ \A q \in Procs : Has(k1.srv[s].waitq, q) <=> Has(k.srv[s].waitq, q) /\ q # p
    BY <1>3, <1>4
<1>14. /\ m.ctx = k.ctx /\ m.cur = k.cur /\ m.frame = k.frame /\ m.need_resched = k.need_resched
       /\ m.ipc_uid = k.ipc_uid /\ m.last_uuid = k.last_uuid /\ m.log = k.log
       /\ m.uuid = [k.uuid EXCEPT ![p] = 0] /\ kd.wait_for = k.wait_for
       /\ m.res = n.res
    BY <1>5, <1>8, <1>9, <1>10, <1>11 DEF Drops, Eases, Alike
<1>15. \A q \in Procs : m.res[q] = k.res[q] \/ (m.res[q] = NoResult /\ k.res[q].state # "RETURN")
    BY <1>5, <1>11, <1>14 DEF Drops, Alike
<1>16. n.task = k1.task
    BY <1>5 DEF Drops
<1>17. m.task[p].state = "ZOMBIE"
    <2>1. ~Live(n, p)
        BY <1>12, <1>16 DEF Live, proc_get
    <2>2. kd.task[p] = n.task[p]
        BY <1>8, <2>1 DEF Eases
    <2> QED BY <1>9, <1>10, <1>12, <1>16, <2>2
<1>18. ASSUME NEW q \in Procs \ {p}, NEW r
       PROVE  q \in ClientOf(k1, r) <=> q \in ClientOf(k, r)
    <2>1. Live(k1, q) <=> Live(k, q)
        BY <1>12 DEF Live
    <2>2. k1.uuid = k.uuid
        BY <1>11 DEF Alike
    <2> QED BY <2>1, <2>2 DEF ClientOf
<1>19. \A q \in Procs \ {p} : Due(k1, p, q) <=> Due(k, p, q)
    <2>1. p \in Servers => k1.srv[p].ring = k.srv[p].ring
        BY <1>13 DEF EasedServer
    <2> QED BY <1>18, <2>1 DEF Due
<1>20. ASSUME NEW q \in Procs \ {p}, q \in Q1 \cup Q2
       PROVE  Told(k, p, q)
    <2>1. CASE q \in Q1
        BY <1>5, <1>19, <2>1 DEF Due, Told
    <2>2. CASE q \in Q2
        <3>1. p \in Servers /\ Has(kc.srv[p].waitq, q)
            BY <1>7, <2>2
        <3>2. Has(n.srv[p].waitq, q)
            BY <1>5, <3>1 DEF Eases
        <3>3. Has(k1.srv[p].waitq, q)
            BY <1>5, <3>1, <3>2 DEF Drops
        <3> QED BY <1>13, <3>1, <3>3 DEF Told
    <2> QED BY <1>20, <2>1, <2>2
<1>21. ASSUME NEW q \in Procs \ {p}
       PROVE  /\ \/ m.task[q] = k.task[q]
                 \/ /\ m.task[q].state = "READY" /\ Live(k, q)
                    /\ Told(k, p, q) \/ k.task[q].state = "WAIT"
              /\ m.task[q].state = "WAIT" => m.wait_for[q] = k.wait_for[q] /\ k.wait_for[q] # p
              /\ m.task[q].state = "BLOCK" => ~Due(k, p, q) /\ ~(p \in Servers /\ Has(k.srv[p].waitq, q))
    <2>1. n.task[q] = k.task[q] /\ (Live(n, q) <=> Live(k, q))
        BY <1>12, <1>16 DEF Live
    <2>2. IF q \in Q1 \cup Q2 /\ Live(k, q) THEN kd.task[q].state = "READY" ELSE kd.task[q] = k.task[q]
        BY <1>8, <2>1 DEF Eases
    <2>3. IF kd.task[q].state = "WAIT" /\ k.wait_for[q] = p
          THEN m.task[q].state = "READY"
          ELSE m.task[q] = kd.task[q] /\ m.wait_for[q] = k.wait_for[q]
        BY <1>9, <1>10, <1>14
    <2>4. \/ m.task[q] = k.task[q]
          \/ /\ m.task[q].state = "READY" /\ Live(k, q)
             /\ Told(k, p, q) \/ k.task[q].state = "WAIT"
        BY <1>20, <2>2, <2>3 DEF Live, proc_get
    <2>5. m.task[q].state = "WAIT" => m.wait_for[q] = k.wait_for[q] /\ k.wait_for[q] # p
        BY <2>3
    <2>6. ASSUME m.task[q].state = "BLOCK"
          PROVE  ~Due(k, p, q) /\ ~(p \in Servers /\ Has(k.srv[p].waitq, q))
        <3>1. q \notin Q1 \cup Q2 /\ k.task[q].state = "BLOCK"
            BY <2>2, <2>3, <2>6 DEF Live, proc_get
        <3>2. ~Due(k, p, q)
            BY <1>5, <1>19, <3>1
        <3>3. ASSUME p \in Servers, Has(k.srv[p].waitq, q) PROVE FALSE
            <4>1. Has(n.srv[p].waitq, q)
                BY <1>5, <1>13, <3>3 DEF Drops
            <4>2. Has(kc.srv[p].waitq, q)
                BY <1>5, <2>1, <3>1, <3>3, <4>1 DEF Eases
            <4> QED BY <1>7, <3>1, <3>3, <4>2
        <3> QED BY <3>2, <3>3
    <2> QED BY <2>4, <2>5, <2>6
<1>22. ASSUME NEW s \in Servers
       PROVE  /\ m.srv[s].saved.ctx = k.srv[s].saved.ctx /\ m.srv[s].saved.res = k.srv[s].saved.res
              /\ m.srv[s].saved.state \in {k.srv[s].saved.state, "READY"}
              /\ \A q \in Procs : Has(m.srv[s].waitq, q) => Has(k.srv[s].waitq, q)
              /\ s = p => m.srv[s].ring = <<>> /\ ~m.srv[s].do_switch /\ ~m.srv[s].restore_pending
    <2>1. m.srv[s] = kd.srv[s] /\ EasedServer(n.srv[s], m.srv[s])
          /\ \A q \in Procs : Has(m.srv[s].waitq, q) => Has(n.srv[s].waitq, q)
        BY <1>8, <1>9, <1>10 DEF Eases
    <2>2. n.srv[s].saved = k.srv[s].saved /\ n.srv[s].waitq = k1.srv[s].waitq
          /\ (s = p => n.srv[s].ring = <<>> /\ ~n.srv[s].do_switch /\ ~n.srv[s].restore_pending)
        BY <1>5, <1>13 DEF Drops
    <2> QED BY <1>13, <2>1, <2>2 DEF EasedServer
<1>23. ASSUME NEW s \in Servers, s # p
       PROVE  /\ EasedServer(k.srv[s], m.srv[s])
              /\ m.srv[s].saved # k.srv[s].saved => Told(k, p, s)
              /\ \A q \in Procs \ {p} : Has(k.srv[s].waitq, q) /\ m.task[q].state = "BLOCK" =>
                    Has(m.srv[s].waitq, q)
    <2>0. s \in Procs \ {p}
        BY <1>23, Constants
    <2>1. m.srv[s] = kd.srv[s] /\ EasedServer(n.srv[s], m.srv[s])
          /\ (s \notin Q1 \cup Q2 => m.srv[s].saved = n.srv[s].saved)
        BY <1>8, <1>9, <1>10 DEF Eases
    <2>2. n.srv[s] = k1.srv[s] /\ EasedServer(k.srv[s], k1.srv[s]) /\ k1.srv[s].saved = k.srv[s].saved
        BY <1>5, <1>13, <1>23 DEF Drops
    <2>3. EasedServer(k.srv[s], m.srv[s])
        BY <2>1, <2>2, EasedTwice
    <2>4. ASSUME NEW q \in Procs \ {p}, Has(k.srv[s].waitq, q), m.task[q].state = "BLOCK"
          PROVE  Has(m.srv[s].waitq, q)
        <3>1. Has(n.srv[s].waitq, q)
            BY <1>13, <2>2, <2>4
        <3>2. k.task[q].state = "BLOCK" /\ n.task[q] = k.task[q]
            BY <1>12, <1>16, <1>21, <2>4
        <3>3. q \notin Q1 \cup Q2
            <4>1. m.task[q] = kd.task[q]
                BY <1>9, <1>10, <2>4
            <4> QED BY <1>8, <2>4, <3>2, <4>1 DEF Eases, Live, proc_get
        <3> QED BY <1>8, <2>1, <3>1, <3>2, <3>3 DEF Eases
    <2> QED BY <1>20, <2>0, <2>1, <2>2, <2>3, <2>4
<1>24. Terminates(k, m, p)
    BY <1>10, <1>14, <1>15, <1>17, <1>21, <1>22, <1>23 DEF Terminates
<1> QED BY <1>1, <1>24

-----------------------------------------------------------------------------
(* What the steps of the system do.                                         *)

\* A living process runs on c.
Running(k, c) == k.cur[c] \in Procs /\ Live(k, k.cur[c])

SameLog(k, m) ==
    /\ m.log.answered = k.log.answered /\ m.log.failed = k.log.failed
    /\ m.log.worked = k.log.worked /\ m.log.steps = k.log.steps
    /\ m.log.napping = k.log.napping

\* One more execution of the request u is on record.
Counts(k, m, u) ==
    /\ m.log.answered = k.log.answered /\ m.log.failed = k.log.failed
    /\ m.log.steps = k.log.steps /\ m.log.napping = k.log.napping
    /\ u \in Uids => m.log.worked = [k.log.worked EXCEPT ![u] = k.log.worked[u] + 1]
    /\ u \notin Uids => m.log.worked = k.log.worked

\* Call, NestedCall, RetryCall
ByCall(k, m) ==
    \E c \in Cores, k0 \in Kernels, s \in Servers, ret \in BOOLEAN :
       /\ Running(k, c) /\ Quiet(k, k0) /\ k0.res = k.res /\ CallEffect(k0, m, c, s, ret)
       /\ \/ /\ k.frame[c].mode = "main" /\ k.frame[c].pc = "run" /\ s \in MainCalls[k.cur[c]]
             /\ SameLog(k, k0)
          \/ /\ k.frame[c].mode = "handler" /\ k.frame[c].pc = "body" /\ s \in HandlerCalls[k.cur[c]]
             /\ k.cur[c] \in Servers /\ Counts(k, k0, k.frame[c].serving)
          \/ /\ k.frame[c].mode \in {"main", "handler"} /\ k.frame[c].pc = "call"
             /\ s = k.frame[c].to /\ SameLog(k, k0)

\* Schedule, and sys_proc_block while a request is served.
BySchedule(k, m) ==
    \E c \in Cores, k0 \in Kernels : Quiet(k, k0) /\ SameLog(k, k0) /\ k0.res = k.res /\ Dispatches(k0, m, c)

\* sys_proc_block, and GetReturn without a reply.
ByBlock(k, m) ==
    \E c \in Cores, k0 \in Kernels :
       /\ Running(k, c) /\ Quiet(k, k0) /\ SameLog(k, k0) /\ k0.res = k.res /\ Blocks(k0, m, c)
       /\ \/ k.frame[c].mode = "main" /\ k.frame[c].pc = "run" /\ k.cur[c] \in Servers
             /\ k.srv[k.cur[c]].ring = <<>>
          \/ k.frame[c].pc = "wait" /\ Pending(k, c)

\* GetReturn fails, or takes the reply.
Returns(k, m, c, g) ==
    LET f == k.frame[c]
        p == k.cur[c]
    IN  /\ f.pc = "wait" /\ g = Back(f)
        /\ m.log.worked = k.log.worked /\ m.log.steps = k.log.steps
        /\ m.log.napping = k.log.napping /\ m.log.answered = k.log.answered
        /\ \/ /\ k.res[p].state = "RETURN" /\ k.res[p].uid = f.uid /\ m.log.failed = k.log.failed
              /\ m.res = [k.res EXCEPT ![p] = NoResult]
           \/ /\ IF k.res[p].state = "RETURN" THEN k.res[p].uid # f.uid ELSE ~Pending(k, c)
              /\ m.log.failed = k.log.failed \cup {f.uid} /\ m.res = k.res

\* GetArg
Begins(k, m, c, g) ==
    /\ k.frame[c].mode = "handler" /\ k.frame[c].pc = "entry" /\ k.cur[c] \in Servers
    /\ SameLog(k, m) /\ m.res = k.res
    /\ g.pc = IF Serving(k, c) THEN "body" ELSE "end"

\* Work
Works(k, m, c, g) ==
    /\ k.frame[c].mode = "handler" /\ k.frame[c].pc = "body" /\ k.cur[c] \in Servers
    /\ Counts(k, m, k.frame[c].serving) /\ m.res = k.res /\ g.pc = "reply"

\* SetReturn
Answers(k, m, c, g) ==
    LET r == Head(k.srv[k.cur[c]].ring)
        to == IF Serving(k, c) /\ r.ret THEN ClientOf(k, r) ELSE {}
    IN  /\ k.frame[c].mode = "handler" /\ k.frame[c].pc = "reply" /\ k.cur[c] \in Servers
        /\ m.log.failed = k.log.failed /\ m.log.worked = k.log.worked
        /\ m.log.steps = k.log.steps /\ m.log.napping = k.log.napping
        /\ m.log.answered = (IF to = {} THEN k.log.answered ELSE k.log.answered \cup {r.uid})
        /\ \A p \in Procs : m.res[p] = IF p \in to THEN [uid |-> r.uid, state |-> "RETURN"] ELSE k.res[p]
        /\ g.pc = "end"

\* MainStep
Moves(k, m, c, g) ==
    /\ k.frame[c].mode = "main" /\ k.frame[c].pc = "run" /\ k.cur[c] \in Servers
    /\ m.log.answered = k.log.answered /\ m.log.failed = k.log.failed
    /\ m.log.worked = k.log.worked /\ m.log.napping = k.log.napping /\ m.res = k.res
    /\ m.log.steps = [k.log.steps EXCEPT ![k.cur[c]] = k.frame[c].n + 1]
    /\ g.pc = "run" /\ g.n = k.frame[c].n + 1

\* The steps of user code.
ByCode(k, m) ==
    \E c \in Cores, g \in Contexts :
       /\ Running(k, c) /\ Reframes(k, m, c, g)
       /\ g.mode = k.frame[c].mode /\ g.serving = k.frame[c].serving
       /\ \/ g.n = k.frame[c].n /\ (Returns(k, m, c, g) \/ Begins(k, m, c, g) \/ Works(k, m, c, g)
                                     \/ Answers(k, m, c, g))
          \/ Moves(k, m, c, g)

\* sys_usleep, proc_waitpid
BySleep(k, m) ==
    \E c \in Cores, k0 \in Kernels, state \in {"SLEEPING", "WAIT"} : LET p == k.cur[c] IN
       /\ Running(k, c) /\ Retasks(k, k0, p, state) /\ k0.res = k.res /\ Dispatches(k0, m, c)
       /\ k0.log.answered = k.log.answered /\ k0.log.failed = k.log.failed
       /\ k0.log.worked = k.log.worked /\ k0.log.steps = k.log.steps
       /\ \/ /\ state = "SLEEPING" /\ p \in Servers
             /\ \/ /\ k.frame[c].mode = "main" /\ k.frame[c].pc = "run"
                   /\ k0.log.napping = k.log.napping \cup {p}
                \/ /\ k.frame[c].mode = "handler" /\ k.frame[c].pc = "body"
                   /\ k0.log.napping = k.log.napping
          \/ /\ state = "WAIT" /\ k.frame[c].mode = "main" /\ k.frame[c].pc = "run"
             /\ p \in Servers => "reap" \in MainOps
             /\ k0.wait_for[p] \in Procs \ {p} /\ Live(k, k0.wait_for[p])
             /\ k0.log.napping = k.log.napping

\* Disable, Enable
ByQueue(k, m) ==
    \E c \in Cores, k0, k1 \in Kernels, Q \in SUBSET Procs :
       /\ Running(k, c) /\ k.cur[c] \in Servers
       /\ Quiet(k, k0) /\ SameLog(k, k0) /\ k0.res = k.res
       /\ Queueing(k0, k1, {}) /\ Eases(k1, m, Q)
       /\ \A p \in Q : Has(k1.srv[k.cur[c]].waitq, p)

\* Timer
ByTimer(k, m) ==
    \E p \in Procs :
       /\ k.task[p].state \in {"SLEEPING", "BLOCK"} /\ Retasks(k, m, p, "READY")
       /\ m.wait_for = k.wait_for /\ m.res = k.res
       /\ m.log.answered = k.log.answered /\ m.log.failed = k.log.failed
       /\ m.log.worked = k.log.worked /\ m.log.steps = k.log.steps
       /\ m.log.napping = IF k.ctx[p].mode = "main" THEN k.log.napping \ {p} ELSE k.log.napping

\* Event
ByEvent(k, m) ==
    \E p \in Servers, k1 \in Kernels :
       /\ Live(k, p) /\ Eases(k, k1, {p}) /\ Quiet(k1, m) /\ m.res = k.res
       /\ m.log.answered = k.log.answered /\ m.log.failed = k.log.failed
       /\ m.log.worked = k.log.worked /\ m.log.steps = k.log.steps
       /\ m.log.napping = k.log.napping \ {p}

\* End
ByEnd(k, m) ==
    \E c \in Cores, k0 \in Kernels :
       /\ Running(k, c) /\ k.cur[c] \in Servers /\ Quiet(k, k0) /\ SameLog(k, k0) /\ k0.res = k.res
       /\ k.frame[c].mode = "handler" /\ k.frame[c].pc = "end"
       /\ IF k.srv[k.cur[c]].ring = <<>> THEN m = k0 ELSE EndEffect(k0, m, c)

\* IpcTimeout
ByTimeout(k, m) ==
    \E s \in Servers, k0 \in Kernels :
       /\ Watchdog /\ k.srv[s].ring # <<>> /\ k.task[s].state \in Runnable /\ ~k.srv[s].do_switch
       /\ TimeoutEffect(k, k0, s) /\ Dispatches(k0, m, 0)

\* Exit, Kill
ByDeath(k, m) ==
    \E p \in Procs, c \in Cores, k0, k1 \in Kernels :
       /\ Live(k, p) /\ Quiet(k, k0) /\ SameLog(k, k0) /\ k0.res = k.res
       /\ Terminates(k0, k1, p) /\ Dispatches(k1, m, c)
       /\ \/ c = Core[p] /\ k.cur[c] = p
          \/ /\ k.task[p].state \in Asleep /\ Running(k, c)
             /\ k.frame[c].mode = "main" /\ k.frame[c].pc = "run"

\* Spawn
BySpawn(k, m) ==
    \E p \in Procs :
       /\ ~Live(k, p) /\ k.cur[Core[p]] # p
       /\ m \in Kernels /\ m.cur = k.cur /\ m.frame = k.frame /\ m.ipc_uid = k.ipc_uid
       /\ m.task = [k.task EXCEPT ![p] = NewTask("READY")]
       /\ m.ctx = [k.ctx EXCEPT ![p] = MainCtx] /\ m.res = [k.res EXCEPT ![p] = NoResult]
       /\ m.wait_for = [k.wait_for EXCEPT ![p] = NoProc]
       /\ m.last_uuid = k.last_uuid + 1 /\ m.uuid = [k.uuid EXCEPT ![p] = k.last_uuid + 1]
       /\ \A s \in Servers : m.srv[s] = IF s = p THEN NewServer ELSE k.srv[s]
       /\ m.log.asked = k.log.asked
       /\ m.log.answered = k.log.answered /\ m.log.failed = k.log.failed
       /\ m.log.worked = k.log.worked /\ m.log.steps = [k.log.steps EXCEPT ![p] = 0]
       /\ m.log.napping = k.log.napping \ {p}

\* A step of the system.
Effect(k, m) ==
    \/ ByCall(k, m) \/ BySchedule(k, m) \/ ByBlock(k, m) \/ ByCode(k, m) \/ BySleep(k, m)
    \/ ByQueue(k, m) \/ ByTimer(k, m) \/ ByEvent(k, m) \/ ByEnd(k, m) \/ ByTimeout(k, m)
    \/ ByDeath(k, m) \/ BySpawn(k, m)

\* The log.
LEMMA LogFields ==
    ASSUME NEW l \in Logs
    PROVE  /\ l.calls \in 0 .. MaxCalls /\ l.asked \in [Uids -> (Procs \cup {NoProc}) \X Nat]
           /\ l.answered \in SUBSET Uids /\ l.failed \in SUBSET (Uids \cup {0})
           /\ l.worked \in [Uids -> Nat] /\ l.steps \in [Procs -> 0 .. MaxSteps]
           /\ l.napping \in SUBSET Procs
BY DEF Logs

\* Trap()
LEMMA TrapFacts ==
    ASSUME kernel \in Kernels, NEW c \in Cores
    PROVE  /\ Trap(c) \in Kernels /\ Quiet(kernel, Trap(c))
           /\ Trap(c).log = kernel.log /\ Trap(c).res = kernel.res
<1> DEFINE x == IF kernel.need_resched[c] = "no" THEN kernel.need_resched[c] ELSE "due"
<1>1. kernel.need_resched[c] \in {"no", "raised", "due"}
    BY KernelFields
<1>2. x \in {"no", "raised", "due"}
    BY <1>1
<1> DEFINE m == [kernel EXCEPT !.need_resched[c] = x]
<1>3. Trap(c) = m
    BY DEF Trap
<1> HIDE DEF x
<1>4. m \in Kernels /\ Quiet(kernel, m) /\ m.log = kernel.log /\ m.res = kernel.res
    BY <1>2, ReschedFacts
<1> HIDE DEF m
<1> QED BY <1>3, <1>4

\* A state with another log.
LEMMA LogFacts ==
    ASSUME NEW k \in Kernels, NEW l \in Logs, l.asked = k.log.asked
    PROVE  LET m == [k EXCEPT !.log = l] IN
           m \in Kernels /\ Quiet(k, m) /\ m.log = l /\ m.res = k.res
<1> DEFINE m == [k EXCEPT !.log = l]
<1>1. /\ m \in Kernels /\ m.task = k.task /\ m.srv = k.srv /\ m.ctx = k.ctx /\ m.uuid = k.uuid
      /\ m.wait_for = k.wait_for /\ m.cur = k.cur /\ m.last_uuid = k.last_uuid /\ m.ipc_uid = k.ipc_uid
      /\ m.log = l /\ m.res = k.res /\ m.frame = k.frame
    BY DEF Kernels
<1> HIDE DEF m
<1>2. m \in Kernels /\ Quiet(k, m) /\ m.log = l /\ m.res = k.res
    BY <1>1 DEF Quiet, Steady
<1> QED BY <1>2 DEF m

\* One quiet step after another that leaves the replies alone.
LEMMA QuietTwice ==
    ASSUME NEW k, NEW m, NEW n, Quiet(k, m), Quiet(m, n), m.res = k.res, n.res = m.res
    PROVE  Quiet(k, n) /\ n.res = k.res
BY DEF Quiet, Steady

\* A process is at some point of its code.
LEMMA AtFacts ==
    ASSUME BaseInv(kernel), NEW c \in Cores, NEW mode, NEW pc, At(c, mode, pc)
    PROVE  /\ Running(kernel, c) /\ kernel.frame[c].mode = mode /\ kernel.frame[c].pc = pc
           /\ kernel.frame[c] \in Contexts /\ CallOK(kernel, kernel.frame[c])
           /\ mode = "handler" => kernel.cur[c] \in Servers
           /\ pc \in {"call", "wait"} => kernel.frame[c].to \in Servers
<1>1. kernel \in Kernels
    BY DEF BaseInv
<1>2. kernel.cur[c] \in Procs \cup {NoProc} /\ kernel.frame[c] \in Contexts
    BY <1>1, KernelFields
<1>3. CallOK(kernel, kernel.frame[c]) /\ (kernel.frame[c].mode = "handler" => kernel.cur[c] \in Servers)
    BY DEF BaseInv, CallsOK, ModesOK
<1> QED BY <1>2, <1>3 DEF At, Running, CallOK

\* Schedule
LEMMA ScheduleEffect ==
    ASSUME BaseInv(kernel), NEW c \in Cores, Schedule(c)
    PROVE  BySchedule(kernel, kernel')
<1> DEFINE k0 == [kernel EXCEPT !.need_resched[c] = "no"]
<1>1. kernel \in Kernels
    BY DEF BaseInv
<1>2. k0 \in Kernels /\ Quiet(kernel, k0) /\ k0.log = kernel.log /\ k0.res = kernel.res
    BY <1>1, ReschedFacts
<1>3. kernel' \in schedule(k0, c)
    BY DEF Schedule
<1> HIDE DEF k0
<1>4. Dispatches(k0, kernel', c)
    BY <1>2, <1>3, DispatchFacts
<1>5. SameLog(kernel, k0)
    BY <1>2 DEF SameLog
<1> QED BY <1>2, <1>4, <1>5 DEF BySchedule

\* A call, after the bookkeeping.
LEMMA CalledEffect ==
    ASSUME BaseInv(kernel), NEW c \in Cores, Running(kernel, c), NEW k0 \in Kernels, Quiet(kernel, k0),
           NEW s \in Servers, NEW ret \in BOOLEAN, kernel.ipc_uid < MaxCalls,
           kernel' \in proc_ipc_call(k0, c, s, ret)
    PROVE  CallEffect(k0, kernel', c, s, ret)
<1>1. k0.cur[c] \in Procs /\ k0.ipc_uid < MaxCalls
    BY DEF Running, Quiet, Steady
<1> QED BY <1>1, CallFacts

\* Call
LEMMA CallStep ==
    ASSUME BaseInv(kernel), NEW c \in Cores, Call(c)
    PROVE  ByCall(kernel, kernel')
<1> DEFINE L == [kernel.log EXCEPT !.calls = kernel.log.calls + 1]
           k1 == Trap(c)
           k0 == [k1 EXCEPT !.log = L]
<1>0. kernel \in Kernels /\ kernel.log \in Logs
    BY KernelFields DEF BaseInv
<1>1. /\ Running(kernel, c) /\ kernel.frame[c].mode = "main" /\ kernel.frame[c].pc = "run"
    BY AtFacts DEF Call
<1>2. k1 \in Kernels /\ Quiet(kernel, k1) /\ k1.log = kernel.log /\ k1.res = kernel.res
    BY <1>0, TrapFacts
<1>3. PICK s \in MainCalls[kernel.cur[c]], ret \in Kinds :
          kernel' \in proc_ipc_call([k1 EXCEPT !.log.calls = @ + 1], c, s, ret)
    BY DEF Call
<1>4. [k1 EXCEPT !.log.calls = @ + 1] = k0
    BY <1>2
<1>5. L \in Logs /\ L.asked = kernel.log.asked /\ L.answered = kernel.log.answered
      /\ L.failed = kernel.log.failed /\ L.worked = kernel.log.worked
      /\ L.steps = kernel.log.steps /\ L.napping = kernel.log.napping
    <2>1. kernel.log.calls + 1 \in 0 .. MaxCalls
        BY <1>0, LogFields, Constants DEF Call, CallsLeft
    <2> QED BY <1>0, <2>1 DEF Logs
<1> HIDE DEF L, k1
<1>6. k0 \in Kernels /\ Quiet(k1, k0) /\ k0.log = L /\ k0.res = k1.res
    BY <1>2, <1>5, LogFacts
<1>7. kernel' \in proc_ipc_call(k0, c, s, ret)
    BY <1>3, <1>4
<1> HIDE DEF k0
<1>8. Quiet(kernel, k0) /\ k0.res = kernel.res /\ SameLog(kernel, k0)
    BY <1>2, <1>5, <1>6, QuietTwice DEF SameLog
<1>9. s \in Servers /\ ret \in BOOLEAN /\ kernel.ipc_uid < MaxCalls
    BY <1>1, <1>3, Constants DEF Running, Call, CallsLeft
<1>10. CallEffect(k0, kernel', c, s, ret)
    BY <1>1, <1>6, <1>7, <1>8, <1>9, CalledEffect
<1> QED BY <1>1, <1>3, <1>6, <1>8, <1>9, <1>10 DEF ByCall

\* The work of a request is counted.
LEMMA CountFacts ==
    ASSUME NEW k \in Kernels, NEW u \in Uids \cup {0}
    PROVE  LET L == [k.log EXCEPT !.worked = [k.log.worked EXCEPT ![u] = k.log.worked[u] + 1]] IN
           L \in Logs /\ L.asked = k.log.asked /\ \A m : m.log = L => Counts(k, m, u)
<1> DEFINE W == [k.log.worked EXCEPT ![u] = k.log.worked[u] + 1]
           L == [k.log EXCEPT !.worked = W]
<1>1. k.log \in Logs /\ k.log.worked \in [Uids -> Nat]
    BY KernelFields, LogFields
<1>2. W \in [Uids -> Nat] /\ (u \notin Uids => W = k.log.worked)
    <2> DEFINE F == k.log.worked
    <2>1. F \in [Uids -> Nat]
        BY <1>1
    <2>2. W = [F EXCEPT ![u] = F[u] + 1]
        OBVIOUS
    <2> HIDE DEF F, W
    <2>3. CASE u \in Uids
        <3>1. F[u] + 1 \in Nat
            BY <2>1, <2>3
        <3> QED BY <2>1, <2>2, <2>3, <3>1
    <2>4. CASE u \notin Uids
        <3>1. W = F
            BY <2>1, <2>2, <2>4
        <3> QED BY <2>1, <3>1 DEF F
    <2> QED BY <2>3, <2>4
<1>3. u \in Uids => W = [k.log.worked EXCEPT ![u] = k.log.worked[u] + 1]
    OBVIOUS
<1> HIDE DEF W
<1>4. /\ L \in Logs /\ L.asked = k.log.asked /\ L.worked = W /\ L.answered = k.log.answered
      /\ L.failed = k.log.failed /\ L.steps = k.log.steps /\ L.napping = k.log.napping
    BY <1>1, <1>2 DEF Logs
<1> HIDE DEF L
<1>5. \A m : m.log = L => Counts(k, m, u)
    BY <1>2, <1>3, <1>4 DEF Counts
<1> QED BY <1>4, <1>5 DEF L, W

\* NestedCall
LEMMA NestedCallStep ==
    ASSUME BaseInv(kernel), NEW c \in Cores, NestedCall(c)
    PROVE  ByCall(kernel, kernel')
<1> DEFINE u == kernel.frame[c].serving
           W == [kernel.log EXCEPT !.worked = [kernel.log.worked EXCEPT ![u] = kernel.log.worked[u] + 1]]
           L == [W EXCEPT !.calls = kernel.log.calls + 1]
           k1 == Trap(c)
           k0 == [k1 EXCEPT !.log = L]
<1>0. kernel \in Kernels /\ kernel.log \in Logs
    BY KernelFields DEF BaseInv
<1>1. /\ Running(kernel, c) /\ kernel.frame[c].mode = "handler" /\ kernel.frame[c].pc = "body"
      /\ kernel.cur[c] \in Servers /\ kernel.frame[c] \in Contexts
    BY AtFacts DEF NestedCall
<1>2. k1 \in Kernels /\ Quiet(kernel, k1) /\ k1.log = kernel.log /\ k1.res = kernel.res
    BY <1>0, TrapFacts
<1>3. PICK s \in HandlerCalls[kernel.cur[c]] :
          kernel' \in proc_ipc_call([k1 EXCEPT !.log.calls = @ + 1, !.log.worked[u] = @ + 1], c, s, TRUE)
    BY DEF NestedCall
<1>4. [k1 EXCEPT !.log.calls = @ + 1, !.log.worked[u] = @ + 1] = k0
    <2>1. [k1.log EXCEPT !.calls = @ + 1, !.worked[u] = @ + 1] = L
        BY <1>0, <1>2 DEF Logs
    <2> HIDE DEF L
    <2> QED BY <2>1
<1>5. u \in Uids \cup {0}
    BY <1>1 DEF Contexts
<1>6. W \in Logs /\ W.asked = kernel.log.asked /\ \A m : m.log = W => Counts(kernel, m, u)
    BY <1>0, <1>5, CountFacts
<1> HIDE DEF W
<1>7. L \in Logs /\ L.asked = kernel.log.asked /\ L.answered = W.answered
      /\ L.failed = W.failed /\ L.worked = W.worked /\ L.steps = W.steps /\ L.napping = W.napping
    <2>1. kernel.log.calls + 1 \in 0 .. MaxCalls
        BY <1>0, LogFields, Constants DEF NestedCall, CallsLeft
    <2> QED BY <1>6, <2>1 DEF Logs
<1> HIDE DEF L, k1
<1>8. k0 \in Kernels /\ Quiet(k1, k0) /\ k0.log = L /\ k0.res = k1.res
    BY <1>2, <1>7, LogFacts
<1>9. kernel' \in proc_ipc_call(k0, c, s, TRUE)
    BY <1>3, <1>4
<1> HIDE DEF k0
<1>10. Quiet(kernel, k0) /\ k0.res = kernel.res
    BY <1>2, <1>7, <1>8, QuietTwice
<1>11. Counts(kernel, k0, u)
    <2> DEFINE x == [k0 EXCEPT !.log = W]
    <2>1. x.log = W
        BY <1>8 DEF Kernels
    <2>2. Counts(kernel, x, u)
        BY <1>6, <2>1
    <2> QED BY <1>7, <1>8, <2>1, <2>2 DEF Counts
<1>12. s \in Servers /\ kernel.ipc_uid < MaxCalls
    BY <1>1, <1>3, Constants DEF NestedCall, CallsLeft
<1>13. CallEffect(k0, kernel', c, s, TRUE)
    BY <1>1, <1>8, <1>9, <1>10, <1>12, CalledEffect
<1> QED BY <1>1, <1>3, <1>8, <1>10, <1>11, <1>12, <1>13 DEF ByCall

\* RetryCall
LEMMA RetryCallStep ==
    ASSUME BaseInv(kernel), NEW c \in Cores, RetryCall(c)
    PROVE  ByCall(kernel, kernel')
<1> DEFINE k0 == Trap(c)
           s == kernel.frame[c].to
           ret == kernel.frame[c].ret
<1>0. kernel \in Kernels
    BY DEF BaseInv
<1>1. PICK mode \in {"main", "handler"} : At(c, mode, "call")
    BY DEF RetryCall
<1>2. /\ Running(kernel, c) /\ kernel.frame[c].mode = mode /\ kernel.frame[c].pc = "call"
      /\ kernel.frame[c] \in Contexts /\ s \in Servers
    BY <1>1, AtFacts
<1>3. k0 \in Kernels /\ Quiet(kernel, k0) /\ k0.log = kernel.log /\ k0.res = kernel.res
    BY <1>0, TrapFacts
<1>4. kernel' \in proc_ipc_call(k0, c, s, ret) /\ kernel.ipc_uid < MaxCalls
    BY DEF RetryCall
<1>5. ret \in BOOLEAN
    BY <1>2 DEF Contexts
<1> HIDE DEF k0, ret
<1>6. CallEffect(k0, kernel', c, s, ret)
    BY <1>2, <1>3, <1>4, <1>5, CalledEffect
<1>7. SameLog(kernel, k0)
    BY <1>3 DEF SameLog
<1> QED BY <1>1, <1>2, <1>3, <1>5, <1>6, <1>7 DEF ByCall

\* GetArg
LEMMA GetArgStep ==
    ASSUME BaseInv(kernel), NEW c \in Cores, GetArg(c)
    PROVE  ByCode(kernel, kernel')
<1> DEFINE k0 == Trap(c)
           f == kernel.frame[c]
           x == IF Serving(k0, c) THEN "body" ELSE "end"
           g == [f EXCEPT !.pc = x]
<1>0. kernel \in Kernels
    BY DEF BaseInv
<1>1. /\ Running(kernel, c) /\ f.mode = "handler" /\ f.pc = "entry"
      /\ kernel.cur[c] \in Servers /\ f \in Contexts
    BY AtFacts DEF GetArg
<1>2. k0 \in Kernels /\ Quiet(kernel, k0) /\ k0.log = kernel.log /\ k0.res = kernel.res
    BY <1>0, TrapFacts
<1>3. kernel' = [k0 EXCEPT !.frame[c].pc = x]
    BY DEF GetArg, proc_ipc_get_arg
<1>4. x = IF Serving(kernel, c) THEN "body" ELSE "end"
    BY <1>2 DEF Serving, Quiet, Steady
<1> HIDE DEF k0, x
<1>5. g \in Contexts /\ g.pc = x /\ g.mode = f.mode /\ g.serving = f.serving /\ g.n = f.n
    <2>1. x \in {"body", "end"}
        BY <1>4
    <2> HIDE DEF f
    <2> QED BY <1>1, <2>1 DEF Contexts
<1> DEFINE F == [k0.frame EXCEPT ![c] = g]
<1>6. kernel' = [k0 EXCEPT !.frame = F] /\ F \in [Cores -> Contexts] /\ F = [kernel.frame EXCEPT ![c] = g]
    <2>1. k0.frame = kernel.frame /\ kernel.frame \in [Cores -> Contexts]
        BY <1>0, <1>2, KernelFields DEF Quiet
    <2>2. [k0.frame EXCEPT ![c].pc = x] = F
        BY <2>1
    <2>3. kernel' = [k0 EXCEPT !.frame = F]
        BY <1>3, <2>2
    <2> HIDE DEF g
    <2> QED BY <1>5, <2>1, <2>3
<1> HIDE DEF g, F
<1>7. /\ kernel' \in Kernels /\ kernel'.task = k0.task /\ kernel'.srv = k0.srv /\ kernel'.ctx = k0.ctx
      /\ kernel'.uuid = k0.uuid /\ kernel'.wait_for = k0.wait_for /\ kernel'.cur = k0.cur
      /\ kernel'.last_uuid = k0.last_uuid /\ kernel'.ipc_uid = k0.ipc_uid
      /\ kernel'.log = k0.log /\ kernel'.res = k0.res /\ kernel'.frame = F
    BY <1>2, <1>6 DEF Kernels
<1>8. Reframes(kernel, kernel', c, g) /\ kernel'.log = kernel.log /\ kernel'.res = kernel.res
    BY <1>2, <1>6, <1>7 DEF Reframes, Quiet, Steady
<1>9. Begins(kernel, kernel', c, g)
    BY <1>1, <1>4, <1>5, <1>8 DEF Begins, SameLog
<1> QED BY <1>1, <1>5, <1>8, <1>9 DEF ByCode

\* Work
LEMMA WorkStep ==
    ASSUME BaseInv(kernel), NEW c \in Cores, Work(c)
    PROVE  ByCode(kernel, kernel')
<1> DEFINE f == kernel.frame[c]
           u == f.serving
           g == [f EXCEPT !.pc = "reply"]
           F == [kernel.frame EXCEPT ![c] = g]
           L == [kernel.log EXCEPT !.worked = [kernel.log.worked EXCEPT ![u] = kernel.log.worked[u] + 1]]
<1>0. kernel \in Kernels /\ kernel.frame \in [Cores -> Contexts]
    BY KernelFields DEF BaseInv
<1>1. /\ Running(kernel, c) /\ f.mode = "handler" /\ f.pc = "body"
      /\ kernel.cur[c] \in Servers /\ f \in Contexts
    BY AtFacts DEF Work
<1>2. kernel' = [kernel EXCEPT !.frame = F, !.log = L]
    BY DEF Work
<1>3. g \in Contexts /\ g.pc = "reply" /\ g.mode = f.mode /\ g.serving = f.serving /\ g.n = f.n
    <2> HIDE DEF f
    <2> QED BY <1>1 DEF Contexts
<1>4. u \in Uids \cup {0}
    BY <1>1 DEF Contexts
<1>5. L \in Logs /\ L.asked = kernel.log.asked /\ \A m : m.log = L => Counts(kernel, m, u)
    BY <1>0, <1>4, CountFacts
<1> HIDE DEF g, L
<1>6. F \in [Cores -> Contexts]
    BY <1>0, <1>3
<1> HIDE DEF F
<1>7. /\ kernel' \in Kernels /\ kernel'.task = kernel.task /\ kernel'.srv = kernel.srv /\ kernel'.ctx = kernel.ctx
      /\ kernel'.uuid = kernel.uuid /\ kernel'.wait_for = kernel.wait_for /\ kernel'.cur = kernel.cur
      /\ kernel'.last_uuid = kernel.last_uuid /\ kernel'.ipc_uid = kernel.ipc_uid
      /\ kernel'.log = L /\ kernel'.res = kernel.res /\ kernel'.frame = F
    BY <1>0, <1>2, <1>5, <1>6 DEF Kernels
<1>8. Reframes(kernel, kernel', c, g)
    BY <1>5, <1>7 DEF Reframes, Steady, F
<1>9. Works(kernel, kernel', c, g)
    BY <1>1, <1>3, <1>5, <1>7 DEF Works
<1> QED BY <1>1, <1>3, <1>8, <1>9 DEF ByCode

\* MainStep
LEMMA MainStepStep ==
    ASSUME BaseInv(kernel), NEW c \in Cores, MainStep(c)
    PROVE  ByCode(kernel, kernel')
<1> DEFINE f == kernel.frame[c]
           g == [f EXCEPT !.n = f.n + 1]
           F == [kernel.frame EXCEPT ![c] = g]
           S == [kernel.log.steps EXCEPT ![kernel.cur[c]] = f.n + 1]
           L == [kernel.log EXCEPT !.steps = S]
<1>0. /\ kernel \in Kernels /\ kernel.frame \in [Cores -> Contexts] /\ kernel.log \in Logs
      /\ kernel.log.steps \in [Procs -> 0 .. MaxSteps] /\ kernel.cur[c] \in Servers
      /\ kernel.cur[c] \in Procs
    BY KernelFields, LogFields, Constants DEF BaseInv, MainStep
<1>1. /\ Running(kernel, c) /\ f.mode = "main" /\ f.pc = "run" /\ f \in Contexts
    BY AtFacts DEF MainStep
<1>2. kernel' = [kernel EXCEPT !.frame = F, !.log = L]
    BY DEF MainStep
<1>3. f.n + 1 \in 0 .. MaxSteps
    <2>1. f.n \in 0 .. MaxSteps /\ MaxSteps \in Nat /\ f.n < MaxSteps
        BY <1>1, Constants DEF Contexts, MainStep
    <2> QED BY <2>1
<1>4. g \in Contexts /\ g.pc = "run" /\ g.mode = f.mode /\ g.serving = f.serving /\ g.n = f.n + 1
    <2> HIDE DEF f
    <2> QED BY <1>1, <1>3 DEF Contexts
<1>5. S \in [Procs -> 0 .. MaxSteps]
    BY <1>0, <1>3
<1> HIDE DEF S
<1>6. /\ L \in Logs /\ L.asked = kernel.log.asked /\ L.steps = S /\ L.worked = kernel.log.worked
      /\ L.answered = kernel.log.answered /\ L.failed = kernel.log.failed
      /\ L.napping = kernel.log.napping
    BY <1>0, <1>5 DEF Logs
<1> HIDE DEF g, L
<1>7. F \in [Cores -> Contexts]
    BY <1>0, <1>4
<1> HIDE DEF F
<1>8. /\ kernel' \in Kernels /\ kernel'.task = kernel.task /\ kernel'.srv = kernel.srv /\ kernel'.ctx = kernel.ctx
      /\ kernel'.uuid = kernel.uuid /\ kernel'.wait_for = kernel.wait_for /\ kernel'.cur = kernel.cur
      /\ kernel'.last_uuid = kernel.last_uuid /\ kernel'.ipc_uid = kernel.ipc_uid
      /\ kernel'.log = L /\ kernel'.res = kernel.res /\ kernel'.frame = F
    BY <1>0, <1>2, <1>6, <1>7 DEF Kernels
<1>9. Reframes(kernel, kernel', c, g)
    BY <1>6, <1>8 DEF Reframes, Steady, F
<1>10. Moves(kernel, kernel', c, g)
    BY <1>0, <1>1, <1>4, <1>6, <1>8 DEF Moves, S
<1> QED BY <1>1, <1>4, <1>9, <1>10 DEF ByCode

\* SetReturn
LEMMA SetReturnStep ==
    ASSUME BaseInv(kernel), NEW c \in Cores, SetReturn(c)
    PROVE  ByCode(kernel, kernel')
<1> DEFINE k0 == Trap(c)
           f == kernel.frame[c]
           g == [f EXCEPT !.pc = "end"]
           F == [kernel.frame EXCEPT ![c] = g]
           r == Head(kernel.srv[kernel.cur[c]].ring)
           to == IF Serving(kernel, c) /\ r.ret THEN ClientOf(kernel, r) ELSE {}
           R == [p \in Procs |-> IF p \in to THEN [uid |-> r.uid, state |-> "RETURN"] ELSE kernel.res[p]]
           A == IF to = {} THEN kernel.log.answered ELSE kernel.log.answered \cup {r.uid}
           L == [kernel.log EXCEPT !.answered = A]
<1>0. /\ kernel \in Kernels /\ kernel.frame \in [Cores -> Contexts] /\ kernel.log \in Logs
      /\ kernel.log.answered \in SUBSET Uids /\ kernel.res \in [Procs -> Results]
    BY KernelFields, LogFields DEF BaseInv
<1>1. /\ Running(kernel, c) /\ f.mode = "handler" /\ f.pc = "reply" /\ kernel.cur[c] \in Servers
      /\ f \in Contexts
    BY AtFacts DEF SetReturn
<1>2. k0 \in Kernels /\ Quiet(kernel, k0) /\ k0.log = kernel.log /\ k0.res = kernel.res
    BY <1>0, TrapFacts
<1>3. kernel' = [k0 EXCEPT !.frame = F, !.res = R, !.log = L]
    <2>1. k0.frame = kernel.frame /\ k0.srv = kernel.srv /\ k0.cur = kernel.cur /\ k0.task = kernel.task
          /\ k0.uuid = kernel.uuid
        BY <1>2 DEF Quiet, Steady
    <2> DEFINE r0 == Head(k0.srv[k0.cur[c]].ring)
               to0 == IF Serving(k0, c) /\ r0.ret THEN ClientOf(k0, r0) ELSE {}
    <2>2. r0 = r /\ to0 = to
        <3>1. \A x : ClientOf(k0, x) = ClientOf(kernel, x)
            BY <2>1 DEF ClientOf, Live
        <3>2. Serving(k0, c) <=> Serving(kernel, c)
            BY <2>1 DEF Serving
        <3> QED BY <2>1, <3>1, <3>2
    <2>3. kernel' = [k0 EXCEPT !.frame[c].pc = "end",
                        !.res = [p \in Procs |-> IF p \in to0 THEN [uid |-> r0.uid, state |-> "RETURN"]
                                                 ELSE k0.res[p]],
                        !.log.answered = IF to0 = {} THEN @ ELSE @ \cup {r0.uid}]
        BY DEF SetReturn, proc_ipc_set_return
    <2> HIDE DEF r0, to0, to, r, k0
    <2>4. kernel' = [k0 EXCEPT !.frame[c].pc = "end",
                        !.res = [p \in Procs |-> IF p \in to THEN [uid |-> r.uid, state |-> "RETURN"]
                                                 ELSE kernel.res[p]],
                        !.log.answered = IF to = {} THEN @ ELSE @ \cup {r.uid}]
        BY <1>2, <2>2, <2>3
    <2> QED BY <1>2, <2>1, <2>4
<1>4. g \in Contexts /\ g.pc = "end" /\ g.mode = f.mode /\ g.serving = f.serving /\ g.n = f.n
    <2> HIDE DEF f
    <2> QED BY <1>1 DEF Contexts
<1>5. ASSUME NEW p \in to
      PROVE  /\ r.uid \in Uids /\ p \in Procs
             /\ ReplyOK(kernel, p, [uid |-> r.uid, state |-> "RETURN"])
    <2>1. Serving(kernel, c) /\ r.ret /\ p \in ClientOf(kernel, r)
        BY <1>5
    <2>2. kernel.srv[kernel.cur[c]] \in ServerRecords /\ kernel.srv[kernel.cur[c]].ring # <<>>
        BY <1>0, <1>1, <2>1, KernelFields DEF Serving
    <2>3. r.uid \in Uids /\ r.client \in Procs
          /\ 1 \in DOMAIN kernel.srv[kernel.cur[c]].ring /\ kernel.srv[kernel.cur[c]].ring[1] = r
        BY <2>2, HeadFacts
    <2>4. RequestOK(kernel, r)
        BY <1>1, <2>3 DEF BaseInv, AskedOK
    <2> HIDE DEF r, to
    <2>5. p = r.client /\ kernel.uuid[p] = r.uuid
        BY <2>1, ClientFacts
    <2> QED BY <2>3, <2>4, <2>5 DEF RequestOK, ReplyOK
<1>6. \A p \in Procs : R[p] = IF p \in to THEN [uid |-> r.uid, state |-> "RETURN"] ELSE kernel.res[p]
    OBVIOUS
<1>7. R \in [Procs -> Results] /\ \A p \in Procs : R[p] = kernel.res[p] \/ ReplyOK(kernel, p, R[p])
    <2> HIDE DEF r, to
    <2>1. \A p \in to : [uid |-> r.uid, state |-> "RETURN"] \in Results
        BY <1>5 DEF Results
    <2> QED BY <1>0, <1>5, <1>6, <2>1
<1>8. A \in SUBSET Uids
    <2>1. to # {} => r.uid \in Uids
        BY <1>5
    <2> HIDE DEF r, to
    <2> QED BY <1>0, <2>1
<1> HIDE DEF R, A
<1>9. /\ L \in Logs /\ L.asked = kernel.log.asked /\ L.steps = kernel.log.steps /\ L.worked = kernel.log.worked
      /\ L.answered = A /\ L.failed = kernel.log.failed
      /\ L.napping = kernel.log.napping
    BY <1>0, <1>8 DEF Logs
<1> HIDE DEF g, L, k0
<1>10. F \in [Cores -> Contexts]
    BY <1>0, <1>4
<1> HIDE DEF F
<1>11. /\ kernel' \in Kernels /\ kernel'.task = k0.task /\ kernel'.srv = k0.srv /\ kernel'.ctx = k0.ctx
      /\ kernel'.uuid = k0.uuid /\ kernel'.wait_for = k0.wait_for /\ kernel'.cur = k0.cur
      /\ kernel'.last_uuid = k0.last_uuid /\ kernel'.ipc_uid = k0.ipc_uid
      /\ kernel'.log = L /\ kernel'.res = R /\ kernel'.frame = F
    BY <1>2, <1>3, <1>7, <1>9, <1>10 DEF Kernels
<1>12. Reframes(kernel, kernel', c, g)
    BY <1>2, <1>7, <1>9, <1>11 DEF Reframes, Quiet, Steady, F
<1>13. Answers(kernel, kernel', c, g)
    BY <1>1, <1>4, <1>6, <1>9, <1>11 DEF Answers, A
<1> QED BY <1>1, <1>4, <1>12, <1>13 DEF ByCode

\* GetReturn
LEMMA GetReturnStep ==
    ASSUME BaseInv(kernel), NEW c \in Cores, GetReturn(c)
    PROVE  ByBlock(kernel, kernel') \/ ByCode(kernel, kernel')
<1> DEFINE k0 == Trap(c)
           p == kernel.cur[c]
           f == kernel.frame[c]
           g == Back(f)
           F == [kernel.frame EXCEPT ![c] = g]
           L == [kernel.log EXCEPT !.failed = kernel.log.failed \cup {f.uid}]
           R == [kernel.res EXCEPT ![p] = NoResult]
<1>0. /\ kernel \in Kernels /\ kernel.frame \in [Cores -> Contexts] /\ kernel.log \in Logs
      /\ kernel.log.failed \in SUBSET (Uids \cup {0}) /\ kernel.res \in [Procs -> Results]
    BY KernelFields, LogFields DEF BaseInv
<1>1. Running(kernel, c) /\ f.pc = "wait" /\ f \in Contexts /\ p \in Procs /\ f.to \in Servers
    BY AtFacts DEF GetReturn, Running
<1>2. k0 \in Kernels /\ Quiet(kernel, k0) /\ k0.log = kernel.log /\ k0.res = kernel.res
    BY <1>0, TrapFacts
<1>3. k0.frame = kernel.frame /\ k0.srv = kernel.srv /\ k0.cur = kernel.cur /\ k0.task = kernel.task
      /\ k0.uuid = kernel.uuid
    BY <1>2 DEF Quiet, Steady
<1>4. Pending(k0, c) <=> Pending(kernel, c)
    <2>1. \A x : ClientOf(k0, x) = ClientOf(kernel, x)
        BY <1>3 DEF ClientOf, Live
    <2> QED BY <1>3, <2>1 DEF Pending, Live
<1>5. g \in Contexts /\ g.mode = f.mode /\ g.serving = f.serving /\ g.n = f.n
    BY <1>1, CallContexts
<1>6. SameLog(kernel, k0)
    BY <1>2 DEF SameLog
<1>7. kernel' \in proc_ipc_get_return(k0, c)
    BY DEF GetReturn
<1> HIDE DEF k0
<1>8. CASE kernel.res[p].state # "RETURN" /\ Pending(kernel, c)
    <2>1. kernel' \in proc_block(k0, c)
        BY <1>2, <1>3, <1>4, <1>7, <1>8 DEF proc_ipc_get_return
    <2>2. Blocks(k0, kernel', c)
        BY <1>1, <1>2, <1>3, <2>1, BlockFacts
    <2> QED BY <1>1, <1>2, <1>6, <1>8, <2>2 DEF ByBlock
<1>9. CASE IF kernel.res[p].state = "RETURN" THEN kernel.res[p].uid # f.uid ELSE ~Pending(kernel, c)
    <2>1. kernel' = [k0 EXCEPT !.frame[c] = g, !.log.failed = @ \cup {f.uid}]
        BY <1>2, <1>3, <1>4, <1>7, <1>9 DEF proc_ipc_get_return
    <2>2. kernel' = [k0 EXCEPT !.frame = F, !.log = L]
        <3> HIDE DEF g, f
        <3> QED BY <1>2, <1>3, <2>1
    <2>3. f.uid \in Uids \cup {0}
        BY <1>1 DEF Contexts
    <2>4. /\ L \in Logs /\ L.asked = kernel.log.asked /\ L.steps = kernel.log.steps
          /\ L.worked = kernel.log.worked /\ L.answered = kernel.log.answered
          /\ L.failed = kernel.log.failed \cup {f.uid} /\ L.napping = kernel.log.napping
        <3> HIDE DEF f
        <3> QED BY <1>0, <2>3 DEF Logs
    <2> HIDE DEF g, L
    <2>5. F \in [Cores -> Contexts]
        BY <1>0, <1>5
    <2> HIDE DEF F
    <2>6. /\ kernel' \in Kernels /\ kernel'.task = k0.task /\ kernel'.srv = k0.srv /\ kernel'.ctx = k0.ctx
      /\ kernel'.uuid = k0.uuid /\ kernel'.wait_for = k0.wait_for /\ kernel'.cur = k0.cur
      /\ kernel'.last_uuid = k0.last_uuid /\ kernel'.ipc_uid = k0.ipc_uid
      /\ kernel'.log = L /\ kernel'.res = k0.res /\ kernel'.frame = F
        BY <1>2, <2>2, <2>4, <2>5 DEF Kernels
    <2>7. Reframes(kernel, kernel', c, g)
        BY <1>2, <2>4, <2>6 DEF Reframes, Quiet, Steady, F
    <2>8. Returns(kernel, kernel', c, g)
        BY <1>1, <1>2, <1>9, <2>4, <2>6 DEF Returns, g
    <2> QED BY <1>1, <1>5, <2>7, <2>8 DEF ByCode
<1>10. CASE kernel.res[p].state = "RETURN" /\ kernel.res[p].uid = f.uid
    <2>1. kernel' = [k0 EXCEPT !.frame[c] = g, !.res[p] = NoResult]
        BY <1>2, <1>3, <1>4, <1>7, <1>10 DEF proc_ipc_get_return
    <2>2. kernel' = [k0 EXCEPT !.frame = F, !.res = R]
        <3> HIDE DEF g, f, p
        <3> QED BY <1>2, <1>3, <2>1
    <2>3. R \in [Procs -> Results] /\ \A q \in Procs : R[q] = kernel.res[q] \/ R[q] = NoResult
        BY <1>0, NoSavedFacts
    <2>4. \A q \in Procs : R[q] = kernel.res[q] \/ ReplyOK(kernel, q, R[q])
        BY <2>3, NoSavedFacts DEF ReplyOK
    <2> HIDE DEF g, R
    <2>5. F \in [Cores -> Contexts]
        BY <1>0, <1>5
    <2> HIDE DEF F
    <2>6. /\ kernel' \in Kernels /\ kernel'.task = k0.task /\ kernel'.srv = k0.srv /\ kernel'.ctx = k0.ctx
      /\ kernel'.uuid = k0.uuid /\ kernel'.wait_for = k0.wait_for /\ kernel'.cur = k0.cur
      /\ kernel'.last_uuid = k0.last_uuid /\ kernel'.ipc_uid = k0.ipc_uid
      /\ kernel'.log = k0.log /\ kernel'.res = R /\ kernel'.frame = F
        BY <1>2, <2>2, <2>3, <2>5 DEF Kernels
    <2>7. Reframes(kernel, kernel', c, g)
        BY <1>2, <2>4, <2>6 DEF Reframes, Quiet, Steady, F
    <2>8. Returns(kernel, kernel', c, g)
        BY <1>1, <1>2, <1>10, <2>6 DEF Returns, g, R
    <2> QED BY <1>1, <1>5, <2>7, <2>8 DEF ByCode
<1> QED BY <1>8, <1>9, <1>10

\* sys_proc_block
LEMMA BlockStep ==
    ASSUME BaseInv(kernel), NEW c \in Cores, sys_proc_block(c)
    PROVE  ByBlock(kernel, kernel') \/ BySchedule(kernel, kernel')
<1> DEFINE k0 == Trap(c)
           p == kernel.cur[c]
<1>0. kernel \in Kernels
    BY DEF BaseInv
<1>1. Running(kernel, c) /\ kernel.frame[c].mode = "main" /\ kernel.frame[c].pc = "run" /\ p \in Servers
    BY AtFacts DEF sys_proc_block
<1>2. k0 \in Kernels /\ Quiet(kernel, k0) /\ k0.log = kernel.log /\ k0.res = kernel.res
    BY <1>0, TrapFacts
<1>3. SameLog(kernel, k0) /\ k0.cur = kernel.cur
    BY <1>2 DEF SameLog, Quiet, Steady
<1>4. kernel' \in IF sync_serving(p) THEN schedule(k0, c) ELSE proc_block(k0, c)
    BY DEF sys_proc_block
<1> HIDE DEF k0
<1>5. CASE sync_serving(p)
    <2>1. Dispatches(k0, kernel', c)
        BY <1>2, <1>4, <1>5, DispatchFacts
    <2> QED BY <1>2, <1>3, <2>1 DEF BySchedule
<1>6. CASE ~sync_serving(p)
    <2>1. Blocks(k0, kernel', c)
        BY <1>1, <1>2, <1>3, <1>4, <1>6, BlockFacts DEF Running
    <2>2. kernel.srv[p].ring = <<>>
        BY <1>1, <1>6 DEF sync_serving
    <2> QED BY <1>1, <1>2, <1>3, <2>1, <2>2 DEF ByBlock
<1> QED BY <1>5, <1>6

\* A task goes to sleep after the bookkeeping.
LEMMA RetaskedFacts ==
    ASSUME NEW k, NEW k0, NEW n \in Kernels, NEW p \in Procs, NEW state, Retasks(k0, n, p, state), Alike(k0, n),
           Steady(k, k0), k0.res = k.res, k0.task = k.task, k0.frame = k.frame,
           \A q \in Procs \ {p} : k0.wait_for[q] = k.wait_for[q]
    PROVE  Retasks(k, n, p, state) /\ n.res = k.res /\ n.log = k0.log /\ n.wait_for = k0.wait_for
<1>1. Steady(k, n)
    BY DEF Steady, Alike, Retasks
<1> QED BY <1>1 DEF Retasks, Alike

\* sys_usleep
LEMMA UsleepStep ==
    ASSUME BaseInv(kernel), NEW c \in Cores, sys_usleep(c)
    PROVE  BySleep(kernel, kernel')
<1> DEFINE k1 == Trap(c)
           p == kernel.cur[c]
           N == IF At(c, "main", "run") THEN kernel.log.napping \cup {p} ELSE kernel.log.napping
           L == [kernel.log EXCEPT !.napping = N]
           k0 == [k1 EXCEPT !.log = L]
<1>0. kernel \in Kernels /\ kernel.log \in Logs /\ kernel.log.napping \in SUBSET Procs
    BY KernelFields, LogFields DEF BaseInv
<1>1. Running(kernel, c) /\ p \in Servers /\ p \in Procs
    BY AtFacts DEF sys_usleep, Running
<1>2. \/ kernel.frame[c].mode = "main" /\ kernel.frame[c].pc = "run" /\ N = kernel.log.napping \cup {p}
      \/ kernel.frame[c].mode = "handler" /\ kernel.frame[c].pc = "body" /\ N = kernel.log.napping
    BY DEF sys_usleep, At
<1>3. k1 \in Kernels /\ Quiet(kernel, k1) /\ k1.log = kernel.log /\ k1.res = kernel.res
    BY <1>0, TrapFacts
<1>4. kernel' \in Sleep([k1 EXCEPT !.log.napping = IF At(c, "main", "run") THEN @ \cup {p} ELSE @], c, "SLEEPING")
    BY DEF sys_usleep
<1>5. [k1 EXCEPT !.log.napping = IF At(c, "main", "run") THEN @ \cup {p} ELSE @] = k0
    <2> HIDE DEF k1, p
    <2> QED BY <1>3
<1>6. N \in SUBSET Procs
    BY <1>0, <1>1, <1>2
<1> HIDE DEF N
<1>7. /\ L \in Logs /\ L.asked = kernel.log.asked /\ L.answered = kernel.log.answered
      /\ L.failed = kernel.log.failed /\ L.worked = kernel.log.worked
      /\ L.steps = kernel.log.steps /\ L.napping = N
    BY <1>0, <1>6 DEF Logs
<1> HIDE DEF L, k1
<1>8. k0 \in Kernels /\ Quiet(k1, k0) /\ k0.log = L /\ k0.res = k1.res
    BY <1>3, <1>7, LogFacts
<1>9. kernel' \in Sleep(k0, c, "SLEEPING")
    BY <1>4, <1>5
<1> HIDE DEF k0
<1>10. Quiet(kernel, k0) /\ k0.res = kernel.res
    BY <1>3, <1>8, QuietTwice
<1>11. k0.cur = kernel.cur /\ k0.task = kernel.task /\ k0.frame = kernel.frame /\ Steady(kernel, k0)
       /\ k0.wait_for = kernel.wait_for
    BY <1>10 DEF Quiet, Steady
<1>12. PICK n \in Kernels : Retasks(k0, n, p, "SLEEPING") /\ Alike(k0, n) /\ Dispatches(n, kernel', c)
    BY <1>1, <1>8, <1>9, <1>11, SleepFacts
<1>13. Retasks(kernel, n, p, "SLEEPING") /\ n.res = kernel.res /\ n.log = L
    BY <1>1, <1>8, <1>10, <1>11, <1>12, RetaskedFacts
<1> QED BY <1>1, <1>2, <1>7, <1>12, <1>13 DEF BySleep

\* proc_waitpid
LEMMA WaitpidStep ==
    ASSUME BaseInv(kernel), NEW c \in Cores, proc_waitpid(c)
    PROVE  BySleep(kernel, kernel')
<1> DEFINE k1 == Trap(c)
           p == kernel.cur[c]
<1>0. kernel \in Kernels /\ kernel.wait_for \in [Procs -> Procs \cup {NoProc}]
    BY KernelFields DEF BaseInv
<1>1. Running(kernel, c) /\ p \in Procs /\ kernel.frame[c].mode = "main" /\ kernel.frame[c].pc = "run"
      /\ (p \in Servers => "reap" \in MainOps)
    BY AtFacts DEF proc_waitpid, Running
<1>2. PICK q \in Mortal \ {p} : Live(kernel, q) /\ kernel' \in Sleep([k1 EXCEPT !.wait_for[p] = q], c, "WAIT")
    BY DEF proc_waitpid
<1>3. k1 \in Kernels /\ Quiet(kernel, k1) /\ k1.log = kernel.log /\ k1.res = kernel.res
    BY <1>0, TrapFacts
<1> DEFINE W == [kernel.wait_for EXCEPT ![p] = q]
           k0 == [k1 EXCEPT !.wait_for = W]
<1>4. kernel' \in Sleep(k0, c, "WAIT")
    <2>1. k1.wait_for = kernel.wait_for
        BY <1>3 DEF Quiet
    <2> HIDE DEF k1, p
    <2>2. [k1 EXCEPT !.wait_for[p] = q] = k0
        BY <2>1
    <2> QED BY <1>2, <2>2
<1>5. q \in Procs \ {p}
    BY <1>2, Constants
<1>6. W \in [Procs -> Procs \cup {NoProc}] /\ W[p] = q /\ \A r \in Procs \ {p} : W[r] = kernel.wait_for[r]
    BY <1>0, <1>1, <1>5
<1> HIDE DEF W, k1
<1>7. /\ k0 \in Kernels /\ k0.task = k1.task /\ k0.srv = k1.srv /\ k0.ctx = k1.ctx
      /\ k0.uuid = k1.uuid /\ k0.wait_for = W /\ k0.cur = k1.cur
      /\ k0.last_uuid = k1.last_uuid /\ k0.ipc_uid = k1.ipc_uid /\ k0.log = k1.log
      /\ k0.res = k1.res /\ k0.frame = k1.frame
    BY <1>3, <1>6 DEF Kernels
<1> HIDE DEF k0
<1>8. Steady(kernel, k0) /\ k0.cur = kernel.cur /\ k0.task = kernel.task /\ k0.frame = kernel.frame
      /\ k0.res = kernel.res /\ k0.log = kernel.log /\ k0.wait_for = W
    BY <1>3, <1>7 DEF Quiet, Steady
<1>9. PICK n \in Kernels : Retasks(k0, n, p, "WAIT") /\ Alike(k0, n) /\ Dispatches(n, kernel', c)
    BY <1>1, <1>4, <1>7, <1>8, SleepFacts
<1>10. Retasks(kernel, n, p, "WAIT") /\ n.res = kernel.res /\ n.log = kernel.log /\ n.wait_for = W
    BY <1>1, <1>6, <1>8, <1>9, RetaskedFacts
<1> QED BY <1>1, <1>2, <1>5, <1>6, <1>9, <1>10 DEF BySleep

\* Disable
LEMMA DisableStep ==
    ASSUME BaseInv(kernel), NEW c \in Cores, Disable(c)
    PROVE  ByQueue(kernel, kernel')
<1> DEFINE k0 == Trap(c)
           s == kernel.cur[c]
           w == [k0.srv[s] EXCEPT !.disabled = TRUE]
<1>0. kernel \in Kernels
    BY DEF BaseInv
<1>1. Running(kernel, c) /\ s \in Servers
    BY AtFacts DEF Disable
<1>2. k0 \in Kernels /\ Quiet(kernel, k0) /\ k0.log = kernel.log /\ k0.res = kernel.res
    BY <1>0, TrapFacts
<1>3. SameLog(kernel, k0)
    BY <1>2 DEF SameLog
<1>4. kernel' = SetServer(k0, s, w)
    BY DEF Disable, proc_ipc_disable
<1>5. k0.srv[s] \in ServerRecords
    BY <1>1, <1>2, KernelFields
<1> HIDE DEF k0
<1>6. /\ w \in ServerRecords /\ w.ring = k0.srv[s].ring /\ w.do_switch = k0.srv[s].do_switch
      /\ w.restore_pending = k0.srv[s].restore_pending /\ w.saved = k0.srv[s].saved
      /\ w.waitq = k0.srv[s].waitq
    BY <1>5 DEF ServerRecords
<1> HIDE DEF w
<1>7. Queueing(k0, kernel', {}) /\ kernel' \in Kernels
    BY <1>1, <1>2, <1>4, <1>6, QueueingFacts
<1>8. Eases(kernel', kernel', {})
    BY <1>7, EasesNobody
<1> QED BY <1>1, <1>2, <1>3, <1>7, <1>8 DEF ByQueue

\* Enable
LEMMA EnableStep ==
    ASSUME BaseInv(kernel), NEW c \in Cores, Enable(c)
    PROVE  ByQueue(kernel, kernel')
<1> DEFINE k0 == Trap(c)
           s == kernel.cur[c]
           w == [k0.srv[s] EXCEPT !.disabled = FALSE]
           k1 == SetServer(k0, s, w)
<1>0. kernel \in Kernels
    BY DEF BaseInv
<1>1. Running(kernel, c) /\ s \in Servers
    BY AtFacts DEF Enable
<1>2. k0 \in Kernels /\ Quiet(kernel, k0) /\ k0.log = kernel.log /\ k0.res = kernel.res
    BY <1>0, TrapFacts
<1>3. SameLog(kernel, k0)
    BY <1>2 DEF SameLog
<1>4. kernel' = proc_ipc_wakeup(k1, s)
    BY DEF Enable, proc_ipc_enable
<1>5. k0.srv[s] \in ServerRecords
    BY <1>1, <1>2, KernelFields
<1> HIDE DEF k0
<1>6. /\ w \in ServerRecords /\ w.ring = k0.srv[s].ring /\ w.do_switch = k0.srv[s].do_switch
      /\ w.restore_pending = k0.srv[s].restore_pending /\ w.saved = k0.srv[s].saved
      /\ w.waitq = k0.srv[s].waitq
    BY <1>5 DEF ServerRecords
<1> HIDE DEF w
<1>7. Queueing(k0, k1, {}) /\ k1 \in Kernels
    BY <1>1, <1>2, <1>6, QueueingFacts
<1> HIDE DEF k1
<1>8. \E Q \in SUBSET Procs : Eases(k1, kernel', Q) /\ \A p \in Q : Has(k1.srv[s].waitq, p)
    BY <1>1, <1>4, <1>7, IpcWakeFacts
<1> QED BY <1>1, <1>2, <1>3, <1>7, <1>8 DEF ByQueue

\* Timer
LEMMA TimerStep ==
    ASSUME BaseInv(kernel), NEW p \in Procs, Timer(p)
    PROVE  ByTimer(kernel, kernel')
<1> DEFINE t == renew_sleep_counter(kernel.task[p])
           T == [kernel.task EXCEPT ![p] = t]
           N == IF kernel.ctx[p].mode = "main" THEN kernel.log.napping \ {p} ELSE kernel.log.napping
           L == [kernel.log EXCEPT !.napping = N]
<1>0. /\ kernel \in Kernels /\ kernel.log \in Logs /\ kernel.log.napping \in SUBSET Procs
      /\ kernel.task \in [Procs -> Tasks]
    BY KernelFields, LogFields DEF BaseInv
<1>1. kernel.task[p].state \in {"SLEEPING", "BLOCK"}
    BY DEF Timer, CanExpire
<1>2. kernel' = [kernel EXCEPT !.task = T, !.log = L]
    BY DEF Timer
<1>3. t \in Tasks /\ t.state = "READY"
    <2> DEFINE o == kernel.task[p]
    <2>1. o \in Tasks
        BY <1>0
    <2> HIDE DEF o
    <2>2. proc_ready(o) \in Tasks /\ proc_ready(o).state = "READY" /\ proc_ready(o).block_by = Generic
        BY <2>1, TaskFacts DEF Tasks
    <2> DEFINE x == proc_ready(o)
    <2> HIDE DEF x
    <2>3. LET y == [x EXCEPT !.sleep_counter = FALSE, !.block_by = Generic] IN y \in Tasks /\ y.state = "READY"
        BY <2>2 DEF x, Tasks
    <2>4. renew_sleep_counter(o) = [x EXCEPT !.sleep_counter = FALSE, !.block_by = Generic]
        BY <2>2 DEF renew_sleep_counter, x
    <2> QED BY <2>3, <2>4 DEF o
<1>4. N \in SUBSET Procs
    BY <1>0
<1> HIDE DEF N, t
<1>5. /\ L \in Logs /\ L.asked = kernel.log.asked /\ L.answered = kernel.log.answered
      /\ L.failed = kernel.log.failed /\ L.worked = kernel.log.worked
      /\ L.steps = kernel.log.steps /\ L.napping = N
    BY <1>0, <1>4 DEF Logs
<1>6. T \in [Procs -> Tasks] /\ T[p] = t /\ \A q \in Procs \ {p} : T[q] = kernel.task[q]
    BY <1>0, <1>3
<1> HIDE DEF L, T
<1>7. /\ kernel' \in Kernels /\ kernel'.task = T /\ kernel'.srv = kernel.srv /\ kernel'.ctx = kernel.ctx
      /\ kernel'.uuid = kernel.uuid /\ kernel'.wait_for = kernel.wait_for /\ kernel'.cur = kernel.cur
      /\ kernel'.last_uuid = kernel.last_uuid /\ kernel'.ipc_uid = kernel.ipc_uid /\ kernel'.log = L
      /\ kernel'.res = kernel.res /\ kernel'.frame = kernel.frame
    BY <1>0, <1>2, <1>5, <1>6 DEF Kernels
<1>8. Retasks(kernel, kernel', p, "READY")
    BY <1>3, <1>5, <1>6, <1>7 DEF Retasks, Steady
<1> QED BY <1>1, <1>5, <1>7, <1>8 DEF ByTimer, N

\* Event
LEMMA EventStep ==
    ASSUME BaseInv(kernel), NEW p \in Procs, Event(p)
    PROVE  ByEvent(kernel, kernel')
<1> DEFINE k1 == proc_wakeup(kernel, {p})
           L == [kernel.log EXCEPT !.napping = kernel.log.napping \ {p}]
<1>0. kernel \in Kernels /\ kernel.log \in Logs /\ kernel.log.napping \in SUBSET Procs
    BY KernelFields, LogFields DEF BaseInv
<1>1. p \in Servers /\ Live(kernel, p) /\ kernel' = [k1 EXCEPT !.log.napping = @ \ {p}]
    BY DEF Event
<1>2. Eases(kernel, k1, {p})
    BY <1>0, WakeFacts
<1> HIDE DEF k1
<1>3. k1 \in Kernels /\ k1.log = kernel.log /\ k1.res = kernel.res
    BY <1>2 DEF Eases, Alike
<1>4. kernel' = [k1 EXCEPT !.log = L]
    BY <1>1, <1>3
<1>5. /\ L \in Logs /\ L.asked = kernel.log.asked /\ L.answered = kernel.log.answered
      /\ L.failed = kernel.log.failed /\ L.worked = kernel.log.worked
      /\ L.steps = kernel.log.steps /\ L.napping = kernel.log.napping \ {p}
    BY <1>0 DEF Logs
<1> HIDE DEF L
<1>6. Quiet(k1, kernel') /\ kernel'.log = L /\ kernel'.res = k1.res
    BY <1>3, <1>4, <1>5, LogFacts
<1> QED BY <1>1, <1>2, <1>3, <1>5, <1>6 DEF ByEvent

\* End
LEMMA EndStep ==
    ASSUME BaseInv(kernel), NEW c \in Cores, End(c)
    PROVE  ByEnd(kernel, kernel')
<1> DEFINE k0 == Trap(c)
           s == kernel.cur[c]
<1>0. kernel \in Kernels
    BY DEF BaseInv
<1>1. Running(kernel, c) /\ s \in Servers /\ kernel.frame[c].mode = "handler" /\ kernel.frame[c].pc = "end"
    BY AtFacts DEF End
<1>2. k0 \in Kernels /\ Quiet(kernel, k0) /\ k0.log = kernel.log /\ k0.res = kernel.res
    BY <1>0, TrapFacts
<1>3. SameLog(kernel, k0) /\ k0.srv = kernel.srv /\ k0.cur = kernel.cur
    BY <1>2 DEF SameLog, Quiet, Steady
<1>4. kernel' \in proc_ipc_end(k0, c)
    BY DEF End
<1> HIDE DEF k0
<1>5. CASE kernel.srv[s].ring = <<>>
    <2>1. kernel' = k0
        BY <1>3, <1>4, <1>5 DEF proc_ipc_end
    <2> QED BY <1>1, <1>2, <1>3, <1>5, <2>1 DEF ByEnd
<1>6. CASE kernel.srv[s].ring # <<>>
    <2>1. kernel.srv[s].saved.state # "ZOMBIE"
        BY <1>1 DEF BaseInv, DeadOK
    <2>2. EndEffect(k0, kernel', c)
        BY <1>1, <1>2, <1>3, <1>4, <1>6, <2>1, EndFacts
    <2> QED BY <1>1, <1>2, <1>3, <1>6, <2>2 DEF ByEnd
<1> QED BY <1>5, <1>6

\* IpcTimeout
LEMMA TimeoutStep ==
    ASSUME BaseInv(kernel), NEW s \in Servers, IpcTimeout(s)
    PROVE  ByTimeout(kernel, kernel')
<1> DEFINE k0 == proc_ipc_timeout(kernel, s)
<1>0. kernel \in Kernels /\ 0 \in Cores
    BY Constants DEF BaseInv
<1>1. Watchdog /\ kernel.srv[s].ring # <<>> /\ kernel.task[s].state \in Runnable /\ ~kernel.srv[s].do_switch
      /\ kernel' \in schedule(k0, 0)
    BY DEF IpcTimeout
<1>2. kernel.srv[s].saved.state # "ZOMBIE"
    BY DEF BaseInv, DeadOK
<1>3. TimeoutEffect(kernel, k0, s)
    BY <1>0, <1>1, <1>2, TimeoutFacts
<1> HIDE DEF k0
<1>4. k0 \in Kernels
    BY <1>3 DEF TimeoutEffect, Quiet, Steady
<1>5. Dispatches(k0, kernel', 0)
    BY <1>0, <1>1, <1>4, DispatchFacts
<1> QED BY <1>1, <1>3, <1>4, <1>5 DEF ByTimeout

\* The end of a process, after the trap.
LEMMA DeathEffect ==
    ASSUME BaseInv(kernel), NEW c \in Cores, NEW p \in Procs,
           kernel' \in schedule(proc_terminate(Trap(c), p), c)
    PROVE  \E k0, k1 \in Kernels : /\ Quiet(kernel, k0) /\ SameLog(kernel, k0) /\ k0.res = kernel.res
                                   /\ Terminates(k0, k1, p) /\ Dispatches(k1, kernel', c)
<1> DEFINE k0 == Trap(c)
           k1 == proc_terminate(k0, p)
<1>0. kernel \in Kernels
    BY DEF BaseInv
<1>1. k0 \in Kernels /\ Quiet(kernel, k0) /\ k0.log = kernel.log /\ k0.res = kernel.res
    BY <1>0, TrapFacts
<1>2. SameLog(kernel, k0)
    BY <1>1 DEF SameLog
<1> HIDE DEF k0
<1>3. Terminates(k0, k1, p)
    BY <1>1, TerminateFacts
<1>4. kernel' \in schedule(k1, c)
    BY DEF k0
<1> HIDE DEF k1
<1>5. k1 \in Kernels
    BY <1>3 DEF Terminates
<1>6. Dispatches(k1, kernel', c)
    BY <1>4, <1>5, DispatchFacts
<1> QED BY <1>1, <1>2, <1>3, <1>5, <1>6

\* Exit
LEMMA ExitStep ==
    ASSUME BaseInv(kernel), NEW p \in Procs, Exit(p)
    PROVE  ByDeath(kernel, kernel')
<1>1. Live(kernel, p) /\ kernel.cur[Core[p]] = p /\ Core[p] \in Cores
      /\ kernel' \in schedule(proc_terminate(Trap(Core[p]), p), Core[p])
    BY Constants DEF Exit
<1> QED BY <1>1, DeathEffect DEF ByDeath

\* Kill
LEMMA KillStep ==
    ASSUME BaseInv(kernel), NEW c \in Cores, NEW p \in Procs, Kill(c, p)
    PROVE  ByDeath(kernel, kernel')
<1>1. kernel.task[p].state \in Asleep /\ kernel' \in schedule(proc_terminate(Trap(c), p), c)
    BY DEF Kill
<1>2. Live(kernel, p)
    BY <1>1 DEF Asleep, Live, proc_get
<1>3. Running(kernel, c) /\ kernel.frame[c].mode = "main" /\ kernel.frame[c].pc = "run"
    BY AtFacts DEF Kill
<1> QED BY <1>1, <1>2, <1>3, DeathEffect DEF ByDeath

\* Spawn
LEMMA SpawnStep ==
    ASSUME BaseInv(kernel), NEW p \in Procs, Spawn(p)
    PROVE  BySpawn(kernel, kernel')
<1> DEFINE T == [kernel.task EXCEPT ![p] = NewTask("READY")]
           C == [kernel.ctx EXCEPT ![p] = MainCtx]
           R == [kernel.res EXCEPT ![p] = NoResult]
           W == [kernel.wait_for EXCEPT ![p] = NoProc]
           l == kernel.last_uuid + 1
           U == [kernel.uuid EXCEPT ![p] = l]
           V == [s \in Servers |-> IF s = p THEN NewServer ELSE kernel.srv[s]]
           L == [kernel.log EXCEPT !.steps = [kernel.log.steps EXCEPT ![p] = 0],
                                   !.napping = kernel.log.napping \ {p}]
<1>0. /\ kernel \in Kernels /\ kernel.log \in Logs /\ kernel.log.napping \in SUBSET Procs
      /\ kernel.task \in [Procs -> Tasks] /\ kernel.ctx \in [Procs -> Contexts]
      /\ kernel.res \in [Procs -> Results] /\ kernel.wait_for \in [Procs -> Procs \cup {NoProc}]
      /\ kernel.uuid \in [Procs -> Nat] /\ kernel.srv \in [Servers -> ServerRecords]
      /\ kernel.last_uuid \in Nat /\ kernel.log.steps \in [Procs -> 0 .. MaxSteps]
    BY KernelFields, LogFields DEF BaseInv
<1>1. ~Live(kernel, p) /\ kernel.cur[Core[p]] # p
    BY DEF Spawn
<1>2. kernel' = [kernel EXCEPT !.task = T, !.ctx = C, !.res = R, !.wait_for = W, !.last_uuid = l,
                    !.uuid = U, !.log = L, !.srv = V]
    <2>1. kernel' = [kernel EXCEPT
           !.task[p] = NewTask("READY"), !.ctx[p] = MainCtx, !.res[p] = NoResult,
           !.wait_for[p] = NoProc, !.last_uuid = @ + 1,
           !.uuid[p] = kernel.last_uuid + 1, !.log.steps[p] = 0, !.log.napping = @ \ {p},
           !.srv = [s \in Servers |-> IF s = p THEN NewServer ELSE kernel.srv[s]]]
        BY DEF Spawn
    <2>2. [kernel.log EXCEPT !.steps[p] = 0, !.napping = @ \ {p}] = L
        BY <1>0 DEF Logs
    <2> HIDE DEF L
    <2> QED BY <2>1, <2>2, ZenonT(30)
<1>3. /\ NewTask("READY") \in Tasks /\ MainCtx \in Contexts /\ NoResult \in Results
      /\ NewServer \in ServerRecords
    <2>1. NewTask("READY") \in Tasks
        BY DEF NewTask, Tasks, States
    <2>2. <<>> \in {q \in Seq(Requests) : Len(q) <= IPC_CTX_MAX} /\ <<>> \in Seq(Procs)
        BY EmptySeq, Constants
    <2>3. NewServer \in ServerRecords
        BY <2>2, NoSavedFacts DEF NewServer, ServerRecords
    <2>4. MainCtx \in Contexts
        BY Constants DEF MainCtx, Context, Contexts
    <2> QED BY <2>1, <2>3, <2>4, NoSavedFacts
<1>4. T \in [Procs -> Tasks] /\ C \in [Procs -> Contexts] /\ R \in [Procs -> Results]
    BY <1>0, <1>3
<1>5. W \in [Procs -> Procs \cup {NoProc}] /\ U \in [Procs -> Nat] /\ l \in Nat
    BY <1>0
<1>6. V \in [Servers -> ServerRecords] /\ \A s \in Servers : V[s] = IF s = p THEN NewServer ELSE kernel.srv[s]
    BY <1>0, <1>3
<1>7. /\ L \in Logs /\ L.asked = kernel.log.asked /\ L.answered = kernel.log.answered
      /\ L.failed = kernel.log.failed /\ L.worked = kernel.log.worked
      /\ L.steps = [kernel.log.steps EXCEPT ![p] = 0] /\ L.napping = kernel.log.napping \ {p}
    <2> DEFINE S == [kernel.log.steps EXCEPT ![p] = 0]
    <2>1. S \in [Procs -> 0 .. MaxSteps]
        BY <1>0, Constants
    <2> HIDE DEF S
    <2>2. L = [kernel.log EXCEPT !.steps = S, !.napping = kernel.log.napping \ {p}]
        BY DEF S
    <2>3. LET x == [kernel.log EXCEPT !.steps = S, !.napping = kernel.log.napping \ {p}] IN
          /\ x \in Logs /\ x.asked = kernel.log.asked /\ x.answered = kernel.log.answered
          /\ x.failed = kernel.log.failed /\ x.worked = kernel.log.worked
          /\ x.steps = S /\ x.napping = kernel.log.napping \ {p}
        BY <1>0, <2>1 DEF Logs
    <2> HIDE DEF L
    <2> QED BY <2>2, <2>3 DEF S
<1> HIDE DEF T, C, R, W, l, U, V, L
<1>8. /\ kernel' \in Kernels /\ kernel'.task = T /\ kernel'.srv = V /\ kernel'.ctx = C
      /\ kernel'.uuid = U /\ kernel'.wait_for = W /\ kernel'.cur = kernel.cur
      /\ kernel'.last_uuid = l /\ kernel'.ipc_uid = kernel.ipc_uid /\ kernel'.log = L
      /\ kernel'.res = R /\ kernel'.frame = kernel.frame
    BY <1>0, <1>2, <1>4, <1>5, <1>6, <1>7 DEF Kernels
<1> QED BY <1>1, <1>6, <1>7, <1>8 DEF BySpawn, T, C, R, W, U, l

\* Every step of the system has one of these effects.
LEMMA NextEffect ==
    ASSUME BaseInv(kernel), Next
    PROVE  Effect(kernel, kernel')
<1>1. ASSUME NEW c \in Cores, Schedule(c) PROVE Effect(kernel, kernel')
    BY <1>1, ScheduleEffect DEF Effect
<1>2. ASSUME NEW c \in Cores, Proceed(c) PROVE Effect(kernel, kernel')
    <2>1. CASE RetryCall(c)
        BY <2>1, RetryCallStep DEF Effect
    <2>2. CASE GetReturn(c)
        BY <2>2, GetReturnStep DEF Effect
    <2>3. CASE GetArg(c)
        BY <2>3, GetArgStep DEF Effect
    <2>4. CASE Work(c)
        BY <2>4, WorkStep DEF Effect
    <2>5. CASE SetReturn(c)
        BY <2>5, SetReturnStep DEF Effect
    <2>6. CASE End(c)
        BY <2>6, EndStep DEF Effect
    <2> QED BY <1>2, <2>1, <2>2, <2>3, <2>4, <2>5, <2>6 DEF Proceed
<1>3. ASSUME NEW c \in Cores, Call(c) \/ NestedCall(c) PROVE Effect(kernel, kernel')
    BY <1>3, CallStep, NestedCallStep DEF Effect
<1>4. ASSUME NEW c \in Cores, MainStep(c) \/ sys_proc_block(c) PROVE Effect(kernel, kernel')
    BY <1>4, MainStepStep, BlockStep DEF Effect
<1>5. ASSUME NEW c \in Cores, sys_usleep(c) \/ proc_waitpid(c) PROVE Effect(kernel, kernel')
    BY <1>5, UsleepStep, WaitpidStep DEF Effect
<1>6. ASSUME NEW c \in Cores, Disable(c) \/ Enable(c) PROVE Effect(kernel, kernel')
    BY <1>6, DisableStep, EnableStep DEF Effect
<1>7. ASSUME NEW p \in Procs, Timer(p) \/ Event(p) PROVE Effect(kernel, kernel')
    BY <1>7, TimerStep, EventStep DEF Effect
<1>8. ASSUME NEW p \in Procs, Exit(p) \/ Spawn(p) PROVE Effect(kernel, kernel')
    BY <1>8, ExitStep, SpawnStep DEF Effect
<1>9. ASSUME NEW p \in Procs, NEW c \in Cores, Kill(c, p) PROVE Effect(kernel, kernel')
    BY <1>9, KillStep DEF Effect
<1>10. ASSUME NEW s \in Servers, IpcTimeout(s) PROVE Effect(kernel, kernel')
    BY <1>10, TimeoutStep DEF Effect
<1> HIDE DEF Effect
<1> QED BY <1>1, <1>2, <1>3, <1>4, <1>5, <1>6, <1>7, <1>8, <1>9, <1>10 DEF Next

=============================================================================
