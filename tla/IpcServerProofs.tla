-------------------------- MODULE IpcServerProofs --------------------------
(***************************************************************************)
(* The properties of IpcServer, for any processes, servers, cores and       *)
(* bounds, from what its steps do (IpcServerEffects).  Some depend on what   *)
(* is called and on the watchdog; each theorem names the condition it needs. *)
(***************************************************************************)
EXTENDS IpcServerEffects

\* The servers run on the core that takes the timer interrupt and its watchdog.
ServersOnTimerCore == Watchdog => \A s \in Servers : Core[s] = 0

\* ... and only handlers make calls, so that no main loop is set back into one.
MainsMakeNoCalls == Watchdog => \A s \in Servers : MainCalls[s] = {}

\* The context p executes in k, or will execute when it is dispatched.
ExecOf(k, p) == IF k.cur[Core[p]] = p THEN k.frame[Core[p]] ELSE k.ctx[p]

\* The context p goes on with after it was switched out.
Resumes(k, p) ==
    IF k.cur[Core[p]] = p /\ ~(p \in Servers /\ k.srv[p].restore_pending)
    THEN k.frame[Core[p]] ELSE k.ctx[p]

\* Waiters in waitpid().
WaitsOK(k) ==
    /\ \A p \in Procs : k.task[p].state = "WAIT" =>
          p \notin Servers /\ k.wait_for[p] \in Procs /\ Live(k, k.wait_for[p])
    /\ \A s \in Servers : k.srv[s].saved.state # "WAIT"

\* A handler of the server is at work.
InService(v) == v.ring # <<>> /\ ~v.do_switch

\* f is what a server with record v executes.
Fits(v, f) ==
    /\ f.mode = IF InService(v) THEN "handler" ELSE "main"
    /\ f.mode = "handler" => f.serving = Head(v.ring).uid

ServedOK(v, f) ==
    /\ v.do_switch => v.ring # <<>>
    /\ Fits(v, f)
    /\ v.ring # <<>> => v.saved.state \in States \ {"ZOMBIE"}
    /\ InService(v) => v.saved.ctx.mode = "main"

Served(k, X) ==
    \A s \in Servers \ X : Live(k, s) => ServedOK(k.srv[s], Resumes(k, s))

\* The same of what is executed now, on the cores C.
Framed(k, C) ==
    \A c \in C : k.cur[c] \in Servers /\ Live(k, k.cur[c]) => Fits(k.srv[k.cur[c]], k.frame[c])

Used(k) == \A p \in Procs : k.task[p].state # "UNUSED"

ServiceInv(k) == Served(k, {}) /\ Framed(k, Cores) /\ Used(k)

\* Whoever sleeps in a call with the context f has something to wait for.
WaitsIn(k, p, f) ==
    /\ f.pc = "wait" =>
          /\ Live(k, f.to)
          /\ \E i \in DOMAIN k.srv[f.to].ring : LET r == k.srv[f.to].ring[i] IN
                r.uid = f.uid /\ r.ret /\ ClientOf(k, r) = {p}
    /\ f.pc = "call" => Live(k, f.to) /\ Has(k.srv[f.to].waitq, p)

Attended(k, X) ==
    \A p \in Procs \ X : k.task[p].state = "BLOCK" => WaitsIn(k, p, ExecOf(k, p))

\* The contexts that the watchdog puts back are in no call.
PlainOK(k) ==
    /\ \A s \in Servers : k.srv[s].restore_pending => k.ctx[s].pc \in {"run", "entry"}
    /\ Watchdog => \A s \in Servers :
          /\ k.ctx[s].mode = "main" => k.ctx[s].pc = "run"
          /\ k.srv[s].saved.ctx.pc = "run"
          /\ \A c \in Cores : k.cur[c] = s /\ k.frame[c].mode = "main" => k.frame[c].pc = "run"

\* The main contexts of servers make no calls ...
OnlyHandlersCall == \A s \in Servers : MainCalls[s] = {}

\* ... and their handlers do not either.
ServersMakeNoCalls == OnlyHandlersCall /\ \A s \in Servers : HandlerCalls[s] = {}

\* The request i of s has not been worked on.
Unworked(k, s, i) ==
    ~(i = 1 /\ ExecOf(k, s).mode = "handler" /\ ExecOf(k, s).pc \notin {"entry", "body"})

\* The requests in the rings are different ones, and those that wait for their
\* work have no execution on record; without the heads of the servers X.
WorkOK(k, X) ==
    /\ \A u \in Uids : k.log.worked[u] <= 1 /\ (u > k.ipc_uid => k.log.worked[u] = 0)
    /\ \A s, t \in Servers : \A i \in DOMAIN k.srv[s].ring, j \in DOMAIN k.srv[t].ring :
          k.srv[s].ring[i].uid = k.srv[t].ring[j].uid => s = t /\ i = j
    /\ \A s \in Servers : \A i \in DOMAIN k.srv[s].ring :
          Unworked(k, s, i) /\ ~(s \in X /\ i = 1) => k.log.worked[k.srv[s].ring[i].uid] = 0

\* The work of the main contexts is what the log says; those of the servers Y
\* have been put back.
KeptOK(k, Y) ==
    \A s \in Servers : Live(k, s) =>
        k.log.steps[s] = IF InService(k.srv[s]) /\ s \notin Y THEN k.srv[s].saved.ctx.n
                         ELSE ExecOf(k, s).n

OnceInv(k, X, Y) == WorkOK(k, X) /\ KeptOK(k, Y)

-----------------------------------------------------------------------------
(* The first invariant: types, and who asked.                               *)

\* Steps of queues.
LEMMA BaseQueueing ==
    ASSUME NEW k, NEW m, NEW P, BaseInv(k), Queueing(k, m, P)
    PROVE  BaseInv(m)
<1>1. \A p \in Procs : Live(m, p) <=> Live(k, p)
    BY DEF Queueing, Live
<1>2. Servers \subseteq Procs
    BY Constants
<1>3. \A s \in Servers : /\ m.srv[s].ring = k.srv[s].ring /\ m.srv[s].saved = k.srv[s].saved
                         /\ m.srv[s].do_switch = k.srv[s].do_switch
                         /\ m.srv[s].restore_pending = k.srv[s].restore_pending
    BY DEF Queueing
<1>4. m \in Kernels /\ Alike(k, m)
    BY DEF Queueing
<1>5. Mild(k, m)
    BY <1>1, <1>2, <1>3, <1>4, BaseFacts, HasSelf DEF Mild, Alike
<1> QED BY <1>5, BaseMild

\* A dispatch is armed.
LEMMA BaseArms ==
    ASSUME NEW k, NEW m, NEW s \in Servers, NEW restore, BaseInv(k), Arms(k, m, s, restore),
           Live(k, s), restore => Watchdog
    PROVE  BaseInv(m)
<1>1. \A p \in Procs : Live(m, p) <=> Live(k, p)
    BY DEF Arms, Live
<1>2. Servers \subseteq Procs
    BY Constants
<1>3. m \in Kernels /\ Alike(k, m)
    BY DEF Arms, OneServer
<1>4. \A t \in Servers : /\ m.srv[t].ring = k.srv[t].ring
                         /\ m.srv[t].saved.ctx = k.srv[t].saved.ctx
                         /\ m.srv[t].saved.res = IF t = s THEN k.res[s] ELSE k.srv[t].saved.res
                         /\ m.srv[t].saved.state = IF t = s THEN k.task[s].state ELSE k.srv[t].saved.state
                         /\ t # s => m.srv[t] = k.srv[t]
    BY DEF Arms, OneServer
<1>5. k.task[s].state # "ZOMBIE"
    BY DEF Live, proc_get
<1>6. m.srv[s].restore_pending => Watchdog
    BY DEF Arms
<1>7. ASSUME NEW t \in Servers
      PROVE  /\ \A i \in DOMAIN m.srv[t].ring : Has(k.srv[t].ring, m.srv[t].ring[i])
             /\ ~Live(m, t) => m.srv[t].ring = <<>> /\ ~m.srv[t].do_switch
             /\ CallOK(k, m.srv[t].saved.ctx)
             /\ Live(m, t) => ReplyOK(k, t, m.srv[t].saved.res)
             /\ m.srv[t].restore_pending => Watchdog
             /\ m.srv[t].saved.state # "ZOMBIE"
    BY <1>1, <1>2, <1>4, <1>5, <1>6, BaseFacts, HasSelf
<1>8. Mild(k, m)
    BY <1>1, <1>2, <1>3, <1>7, BaseFacts DEF Mild, Alike
<1> QED BY <1>8, BaseMild

\* A request is closed.
LEMMA BaseCloses ==
    ASSUME NEW k, NEW m, NEW s \in Servers, BaseInv(k), Closes(k, m, s), k.srv[s].ring # <<>>
    PROVE  BaseInv(m)
<1>1. \A p \in Procs : Live(m, p) <=> Live(k, p)
    BY DEF Closes, Live
<1>2. Servers \subseteq Procs
    BY Constants
<1>3. m \in Kernels /\ Alike(k, m) /\ k \in Kernels
    BY DEF Closes, OneServer, BaseInv
<1>4. k.srv[s] \in ServerRecords
    BY <1>3, KernelFields
<1>5. \A i \in DOMAIN Tail(k.srv[s].ring) : Has(k.srv[s].ring, Tail(k.srv[s].ring)[i])
    BY <1>4, TailFacts
<1>6. ASSUME NEW t \in Servers
      PROVE  /\ \A i \in DOMAIN m.srv[t].ring : Has(k.srv[t].ring, m.srv[t].ring[i])
             /\ m.srv[t].do_switch = k.srv[t].do_switch
             /\ m.srv[t].restore_pending = k.srv[t].restore_pending
             /\ m.srv[t].saved = k.srv[t].saved /\ (t # s => m.srv[t] = k.srv[t])
    BY <1>5, HasSelf DEF Closes, OneServer
<1>7. Live(k, s)
    BY DEF BaseInv, DeadOK
<1>8. Mild(k, m)
    BY <1>1, <1>2, <1>3, <1>6, <1>7, BaseFacts DEF Mild, Alike
<1> QED BY <1>8, BaseMild

\* A main context is put back.
LEMMA BaseRestores ==
    ASSUME NEW k, NEW m, NEW s \in Servers, NEW state, BaseInv(k), Restores(k, m, s, state), Live(k, s),
           state # "ZOMBIE", m.srv[s].restore_pending => Watchdog,
           \/ m.ctx = k.ctx /\ \E c \in Cores : k.cur[c] = s /\ m.frame = [k.frame EXCEPT ![c] = k.srv[s].saved.ctx]
           \/ m.frame = k.frame /\ m.ctx = [k.ctx EXCEPT ![s] = k.srv[s].saved.ctx]
    PROVE  BaseInv(m)
<1>0. Servers \subseteq Procs /\ k \in Kernels /\ k.res \in [Procs -> Results]
      /\ k.frame \in [Cores -> Contexts] /\ k.ctx \in [Procs -> Contexts]
    BY Constants, KernelFields DEF BaseInv
<1>1. Live(m, s) /\ \A p \in Procs : Live(m, p) <=> Live(k, p)
    BY DEF Restores, Live, proc_get
<1>2. m \in Kernels /\ m.cur = k.cur /\ m.ipc_uid = k.ipc_uid /\ m.last_uuid = k.last_uuid
      /\ m.log = k.log /\ m.uuid = k.uuid
    BY DEF Restores, OneServer
<1>3. ASSUME NEW p \in Procs PROVE m.ctx[p] = k.ctx[p] \/ (p \in Servers /\ CallOK(k, m.ctx[p]))
    BY <1>0, BaseFacts
<1>4. ASSUME NEW p \in Procs, Live(m, p) PROVE m.res[p] = k.res[p] \/ ReplyOK(k, p, m.res[p])
    <2>1. m.res = [k.res EXCEPT ![s] = k.srv[s].saved.res]
        BY DEF Restores
    <2> QED BY <1>0, <2>1, BaseFacts
<1>5. ASSUME NEW x \in Cores
      PROVE  \/ m.frame[x] = k.frame[x]
             \/ CallOK(k, m.frame[x]) /\ (m.frame[x].mode = "handler" => k.cur[x] \in Servers)
    BY <1>0, BaseFacts
<1>6. ASSUME NEW t \in Servers
      PROVE  /\ \A i \in DOMAIN m.srv[t].ring : Has(k.srv[t].ring, m.srv[t].ring[i])
             /\ ~Live(m, t) => m.srv[t].ring = <<>> /\ ~m.srv[t].do_switch
             /\ CallOK(k, m.srv[t].saved.ctx)
             /\ Live(m, t) => ReplyOK(k, t, m.srv[t].saved.res)
             /\ m.srv[t].restore_pending => Watchdog
             /\ m.srv[t].saved.state # "ZOMBIE"
    <2>1. CASE t # s
        <3>1. m.srv[t] = k.srv[t]
            BY <2>1 DEF Restores, OneServer
        <3> QED BY <1>0, <1>1, <3>1, BaseFacts, HasSelf
    <2>2. CASE t = s
        <3>1. m.srv[s].ring = k.srv[s].ring /\ m.srv[s].saved = NoSaved
            BY DEF Restores
        <3>2. CallOK(k, ZeroCtx) /\ ReplyOK(k, s, NoResult)
            BY ContextFacts, NoSavedFacts DEF CallOK, ReplyOK
        <3> QED BY <1>1, <2>2, <3>1, <3>2, HasSelf, NoSavedFacts
    <2> QED BY <2>1, <2>2
<1>7. Mild(k, m)
    BY <1>1, <1>2, <1>3, <1>4, <1>5, <1>6, BaseFacts DEF Mild
<1> QED BY <1>7, BaseMild

\* A process ends.
LEMMA BaseTerminates ==
    ASSUME NEW k, NEW m, NEW p \in Procs, BaseInv(k), Terminates(k, m, p)
    PROVE  BaseInv(m)
<1>0. Servers \subseteq Procs /\ k \in Kernels /\ k.uuid \in [Procs -> Nat]
    BY Constants, KernelFields DEF BaseInv
<1>1. ASSUME NEW q \in Procs
      PROVE  /\ Live(m, q) <=> Live(k, q) /\ q # p
             /\ m.uuid[q] <= k.uuid[q] /\ (q # p => m.uuid[q] = k.uuid[q])
             /\ Live(m, q) => m.res[q] = k.res[q] \/ ReplyOK(k, q, m.res[q])
    <2>1. Live(m, q) <=> Live(k, q) /\ q # p
        BY DEF Terminates, Live, proc_get
    <2>2. m.uuid[q] = IF q = p THEN 0 ELSE k.uuid[q]
        BY <1>0 DEF Terminates
    <2>3. k.uuid[q] \in Nat
        BY <1>0
    <2>4. ReplyOK(k, q, NoResult)
        BY NoSavedFacts DEF ReplyOK
    <2>5. m.res[q] = k.res[q] \/ m.res[q] = NoResult
        BY DEF Terminates
    <2> QED BY <2>1, <2>2, <2>3, <2>4, <2>5
<1>2. m \in Kernels /\ m.cur = k.cur /\ m.ipc_uid = k.ipc_uid /\ m.last_uuid = k.last_uuid
      /\ m.log = k.log /\ m.ctx = k.ctx /\ m.frame = k.frame
    BY DEF Terminates
<1>3. ASSUME NEW s \in Servers
      PROVE  /\ \A i \in DOMAIN m.srv[s].ring : Has(k.srv[s].ring, m.srv[s].ring[i])
             /\ ~Live(m, s) => m.srv[s].ring = <<>> /\ ~m.srv[s].do_switch
             /\ CallOK(k, m.srv[s].saved.ctx)
             /\ Live(m, s) => ReplyOK(k, s, m.srv[s].saved.res)
             /\ m.srv[s].restore_pending => Watchdog
             /\ m.srv[s].saved.state # "ZOMBIE"
    <2>1. /\ m.srv[s].saved.ctx = k.srv[s].saved.ctx /\ m.srv[s].saved.res = k.srv[s].saved.res
          /\ m.srv[s].saved.state \in {k.srv[s].saved.state, "READY"}
        BY DEF Terminates
    <2>2. CASE s = p
        <3>1. m.srv[s].ring = <<>> /\ ~m.srv[s].do_switch /\ ~m.srv[s].restore_pending
            BY <2>2 DEF Terminates
        <3> QED BY <1>0, <1>1, <2>1, <3>1, BaseFacts
    <2>3. CASE s # p
        <3>1. m.srv[s].ring = k.srv[s].ring /\ m.srv[s].do_switch = k.srv[s].do_switch
              /\ m.srv[s].restore_pending = k.srv[s].restore_pending
            BY <2>3 DEF Terminates, EasedServer
        <3> QED BY <1>0, <1>1, <2>1, <2>3, <3>1, BaseFacts, HasSelf
    <2> QED BY <2>2, <2>3
<1>4. Mild(k, m)
    BY <1>1, <1>2, <1>3, BaseFacts DEF Mild
<1> QED BY <1>4, BaseMild

\* A request is accepted.
LEMMA BaseAsks ==
    ASSUME NEW k, NEW m, NEW c \in Cores, k.cur[c] \in Procs, NEW s \in Servers, NEW ret \in BOOLEAN,
           BaseInv(k), Asks(k, m, c, s, ret), ~Closed(k, s), Live(k, s)
    PROVE  BaseInv(m)
<1> DEFINE p == k.cur[c]
           f == k.frame[c]
           u == k.ipc_uid + 1
           r == Request(k, p, ret)
           b == k.srv[s].ring
           a == m.srv[s].ring
           g == IF ret THEN Awaiting(f, s, ret, u) ELSE Back(f)
<1>0. Servers \subseteq Procs /\ k \in Kernels /\ k.frame \in [Cores -> Contexts]
      /\ k.log \in Logs /\ k.uuid \in [Procs -> Nat] /\ k.last_uuid \in Nat
    BY Constants, KernelFields DEF BaseInv
<1>1. /\ k.ipc_uid \in Nat /\ u \in Uids /\ r.uid = u /\ r.client = p /\ r.uuid = k.uuid[p] /\ r.ret = ret
      /\ \A i \in DOMAIN a : (i \in DOMAIN b /\ a[i] = b[i]) \/ a[i] = r
    <2>1. r \in Requests /\ Longer(b, a, r)
        BY DEF Asks
    <2>2. r.uid = u /\ r.client = p /\ r.uuid = k.uuid[p] /\ r.ret = ret
        BY DEF Request
    <2> HIDE DEF r, a, b, u
    <2>3. u \in Uids
        BY <2>1, <2>2 DEF Requests
    <2>4. k.ipc_uid \in Nat
        BY <1>0, KernelFields
    <2> QED BY <2>1, <2>2, <2>3, <2>4 DEF Longer
<1>2. /\ m \in Kernels /\ m.task = k.task /\ m.ctx = k.ctx /\ m.uuid = k.uuid /\ m.cur = k.cur
      /\ m.last_uuid = k.last_uuid /\ m.ipc_uid = u
      /\ m.log.asked = [k.log.asked EXCEPT ![u] = <<p, k.uuid[p]>>]
      /\ \A q \in Procs \ {p} : m.res[q] = k.res[q]
      /\ m.res[p].state = "BUSY" /\ m.frame = [k.frame EXCEPT ![c] = g]
      /\ \A t \in Servers \ {s} : m.srv[t] = k.srv[t]
      /\ m.srv[s].do_switch = k.srv[s].do_switch /\ m.srv[s].restore_pending = k.srv[s].restore_pending
      /\ m.srv[s].saved = k.srv[s].saved
    BY DEF Asks, OneServer
<1>3. f \in Contexts /\ g \in Contexts /\ g.mode = f.mode
      /\ (ret => g.pc = "wait" /\ g.to = s /\ g.uid = u) /\ (~ret => g.pc \in {"reply", "run"})
    <2>1. f \in Contexts
        BY <1>0
    <2> HIDE DEF f
    <2> QED BY <1>1, <2>1, CallContexts
<1>4. k.log.asked \in [Uids -> (Procs \cup {NoProc}) \X Nat]
    BY <1>0, LogFields
<1>5. m.log.asked[u] = <<p, k.uuid[p]>> /\ \A x \in Uids : x <= k.ipc_uid => m.log.asked[x] = k.log.asked[x]
    BY <1>1, <1>2, <1>4
<1> HIDE DEF f, g, u, r, a, b
<1>6. ASSUME NEW t \in Servers, NEW i \in DOMAIN m.srv[t].ring
      PROVE  \/ i \in DOMAIN k.srv[t].ring /\ m.srv[t].ring[i] = k.srv[t].ring[i]
             \/ m.srv[t].ring[i] = r /\ t = s
    <2>1. CASE t # s
        BY <1>2, <1>6, <2>1
    <2>2. CASE t = s
        BY <1>1, <1>6, <2>2 DEF a, b
    <2> QED BY <2>1, <2>2
<1>7. ASSUME NEW t \in Servers, NEW i \in DOMAIN k.srv[t].ring
      PROVE  k.srv[t].ring[i].uid \in Uids /\ RequestOK(k, k.srv[t].ring[i])
    <2>1. k.srv[t] \in ServerRecords
        BY <1>0, KernelFields
    <2>2. k.srv[t].ring \in Seq(Requests)
        BY <2>1, ServerFields
    <2>3. k.srv[t].ring[i] \in Requests
        BY <2>2, <1>7, ElementOfSeq, LenProperties
    <2>4. k.srv[t].ring[i].uid \in Uids
        BY <2>3 DEF Requests
    <2> QED BY <2>4 DEF BaseInv, AskedOK
<1>8. CurOK(m)
    BY <1>2 DEF BaseInv, CurOK
<1>9. ModesOK(m)
    <2>1. \A x \in Cores : m.frame[x].mode = k.frame[x].mode
        BY <1>0, <1>2, <1>3 DEF f
    <2> QED BY <1>2, <2>1 DEF BaseInv, ModesOK
<1>10. CallsOK(m)
    <2>1. ASSUME NEW h, CallOK(k, h) PROVE CallOK(m, h)
        <3> SUFFICES ASSUME h.pc = "wait"
                     PROVE  /\ h.uid \in Uids /\ h.uid <= m.ipc_uid
                            /\ \A t \in Servers : \A i \in DOMAIN m.srv[t].ring :
                                  m.srv[t].ring[i].uid = h.uid => m.srv[t].ring[i].ret
            BY <2>1 DEF CallOK
        <3>1. h.uid \in Uids /\ h.uid <= k.ipc_uid
            BY <2>1 DEF CallOK
        <3>2. h.uid \in Nat /\ u = k.ipc_uid + 1
            BY <3>1, Constants DEF Uids, u
        <3>3. h.uid # u /\ h.uid <= u
            BY <1>1, <3>1, <3>2
        <3> QED BY <1>1, <1>2, <1>6, <2>1, <3>1, <3>3 DEF CallOK
    <2>2. CallOK(m, g)
        <3> SUFFICES ASSUME ret, NEW t \in Servers, NEW i \in DOMAIN m.srv[t].ring,
                            m.srv[t].ring[i].uid = g.uid
                     PROVE  m.srv[t].ring[i].ret
            <4>1. u \in Nat
                BY <1>1 DEF u
            <4>2. u <= m.ipc_uid
                BY <1>2, <4>1
            <4> QED BY <1>1, <1>3, <4>2 DEF CallOK
        <3>1. CASE m.srv[t].ring[i] = r
            BY <1>1, <3>1
        <3>2. CASE i \in DOMAIN k.srv[t].ring /\ m.srv[t].ring[i] = k.srv[t].ring[i]
            <4>1. k.srv[t].ring[i].uid \in Uids /\ k.srv[t].ring[i].uid <= k.ipc_uid
                BY <1>7, <3>2 DEF RequestOK
            <4>2. k.srv[t].ring[i].uid \in Nat /\ u = k.ipc_uid + 1
                BY <4>1, Constants DEF Uids, u
            <4>3. k.srv[t].ring[i].uid # u
                BY <1>1, <4>1, <4>2
            <4> QED BY <1>3, <3>2, <4>3
        <3> QED BY <1>6, <3>1, <3>2
    <2>3. \A x \in Cores : m.frame[x] = k.frame[x] \/ m.frame[x] = g
        BY <1>0, <1>2
    <2>4. \A t \in Servers : m.srv[t].saved = k.srv[t].saved
        BY <1>2
    <2> HIDE DEF CallOK
    <2> QED BY <1>2, <2>1, <2>2, <2>3, <2>4, BaseFacts DEF CallsOK
<1>11. AskedOK(m)
    <2>1. ASSUME NEW t \in Servers, NEW i \in DOMAIN m.srv[t].ring
          PROVE  RequestOK(m, m.srv[t].ring[i])
        <3>0. u = k.ipc_uid + 1
            BY DEF u
        <3>1. CASE m.srv[t].ring[i] = r
            <4>1. k.uuid[p] <= k.last_uuid
                BY DEF BaseInv, DeadOK
            <4> QED BY <1>1, <1>2, <1>5, <3>0, <3>1, <4>1 DEF RequestOK
        <3>2. CASE i \in DOMAIN k.srv[t].ring /\ m.srv[t].ring[i] = k.srv[t].ring[i]
            <4>1. k.srv[t].ring[i].uid \in Uids /\ RequestOK(k, k.srv[t].ring[i])
                BY <1>7, <3>2
            <4>2. k.srv[t].ring[i].uid <= k.ipc_uid /\ k.srv[t].ring[i].uid \in Nat
                <5>1. k.srv[t].ring[i].uid <= k.ipc_uid
                    BY <4>1 DEF RequestOK
                <5> QED BY <4>1, <5>1, Constants DEF Uids
            <4>3. k.srv[t].ring[i].uid <= u
                BY <1>1, <3>0, <4>2
            <4> QED BY <1>2, <1>5, <3>2, <4>1, <4>2, <4>3 DEF RequestOK
        <3> QED BY <1>6, <2>1, <3>1, <3>2
    <2>2. ASSUME NEW q \in Procs, NEW x, ReplyOK(k, q, x) PROVE ReplyOK(m, q, x)
        <3>0. u = k.ipc_uid + 1
            BY DEF u
        <3> SUFFICES ASSUME x.state = "RETURN" 
                     PROVE  x.uid \in Uids /\ x.uid <= m.ipc_uid /\ m.log.asked[x.uid] = <<q, m.uuid[q]>>
            BY DEF ReplyOK
        <3>1. x.uid \in Uids /\ x.uid <= k.ipc_uid /\ k.log.asked[x.uid] = <<q, k.uuid[q]>>
            BY <2>2 DEF ReplyOK
        <3>2. x.uid <= u
            BY <1>1, <3>0, <3>1 DEF Uids
        <3> QED BY <1>2, <1>5, <3>1, <3>2
    <2>3. \A q \in Procs : Live(m, q) => ReplyOK(m, q, m.res[q])
        <3>1. ReplyOK(m, p, m.res[p])
            BY <1>2 DEF ReplyOK
        <3>2. \A q \in Procs : Live(m, q) <=> Live(k, q)
            BY <1>2 DEF Live
        <3> QED BY <1>2, <2>2, <3>1, <3>2, BaseFacts
    <2>4. \A t \in Servers : Live(m, t) => ReplyOK(m, t, m.srv[t].saved.res)
        <3>1. \A t \in Servers : m.srv[t].saved = k.srv[t].saved
            BY <1>2
        <3>2. \A q \in Procs : Live(m, q) <=> Live(k, q)
            BY <1>2 DEF Live
        <3> QED BY <1>0, <2>2, <3>1, <3>2, BaseFacts
    <2> QED BY <2>1, <2>3, <2>4 DEF AskedOK
<1>12. DeadOK(m) /\ NoRestore(m)
    <2>1. \A q \in Procs : Live(m, q) <=> Live(k, q)
        BY <1>2 DEF Live
    <2> QED BY <1>0, <1>2, <2>1 DEF BaseInv, DeadOK, NoRestore
<1> QED BY <1>2, <1>8, <1>9, <1>10, <1>11, <1>12 DEF BaseInv

\* A core is given away.
LEMMA BaseDispatches ==
    ASSUME NEW k, NEW m, NEW c \in Cores, BaseInv(k), Dispatches(k, m, c)
    PROVE  BaseInv(m)
<1>1. PICK to \in Procs \cup {NoProc} : /\ Switches(k, m, c, to)
                                        /\ to # NoProc => Core[to] = c /\ k.task[to].state \in Runnable
    BY DEF Dispatches
<1>2. to # NoProc => Core[to] = c /\ Live(k, to)
    BY <1>1 DEF Runnable, Live, proc_get
<1> QED BY <1>1, <1>2, BaseSwitches

\* A task is parked, or goes on.
LEMMA BaseBlocks ==
    ASSUME NEW k, NEW m, NEW c \in Cores, BaseInv(k), Running(k, c), Blocks(k, m, c)
    PROVE  BaseInv(m)
<1>1. PICK n \in Kernels, state \in {"BLOCK", "RUNNING", k.task[k.cur[c]].state} :
         /\ Retasks(k, n, k.cur[c], state)
         /\ IF state = "BLOCK" THEN Dispatches(n, m, c) ELSE m = n
    BY DEF Blocks
<1>2. k.cur[c] \in Procs /\ Live(k, k.cur[c]) /\ state # "ZOMBIE"
    BY <1>1 DEF Running, Live, proc_get
<1>3. BaseInv(n)
    BY <1>1, <1>2, BaseRetasks
<1> QED BY <1>1, <1>3, BaseDispatches

\* A core is handed over.
LEMMA BaseHands ==
    ASSUME NEW k, NEW m, NEW c \in Cores, NEW to \in Procs, BaseInv(k), Live(k, to), Hands(k, m, c, to)
    PROVE  BaseInv(m)
<1>1. PICK n \in Kernels :
         /\ Eases(k, n, {to}) \/ (n = k /\ k.task[to].state = "RUNNING")
         /\ Core[to] = c => Switches(n, m, c, to)
         /\ Core[to] # c => m = n /\ Eases(k, n, {to})
    BY DEF Hands
<1>2. BaseInv(n) /\ Live(n, to)
    BY <1>1, BaseEases, EasesLive
<1> QED BY <1>1, <1>2, BaseSwitches

\* A request is dispatched.
LEMMA BaseStarts ==
    ASSUME NEW k, NEW m, NEW c \in Cores, NEW s \in Servers, BaseInv(k), Live(k, s), Starts(k, m, c, s)
    PROVE  BaseInv(m)
<1>1. PICK n \in Kernels : Arms(k, n, s, FALSE) /\ Hands(n, m, c, s)
    BY DEF Starts
<1>2. BaseInv(n)
    BY <1>1, BaseArms
<1>3. Live(n, s) /\ s \in Procs
    BY <1>1, Constants DEF Arms, Live
<1> QED BY <1>1, <1>2, <1>3, BaseHands

\* proc_ipc_call()
LEMMA BaseCalls ==
    ASSUME NEW k, NEW m, NEW c \in Cores, NEW s \in Servers, NEW ret \in BOOLEAN, BaseInv(k),
           Running(k, c), CallEffect(k, m, c, s, ret)
    PROVE  BaseInv(m)
<1> DEFINE f == k.frame[c]
<1>0. f \in Contexts /\ k \in Kernels /\ k.cur[c] \in Procs /\ Live(k, k.cur[c])
    BY KernelFields DEF BaseInv, Running
<1>1. CASE ~Live(k, s) /\ Reframes(k, m, c, Back(f))
    <2> DEFINE g == Back(f)
    <2>1. g.mode = f.mode /\ g.pc \in {"reply", "run"}
        BY <1>0, CallContexts
    <2> HIDE DEF g
    <2>2. CallOK(k, g)
        BY <2>1 DEF CallOK
    <2>3. Reframes(k, m, c, g)
        BY <1>1 DEF g
    <2> QED BY <2>1, <2>2, <2>3, BaseReframes
<1>2. CASE \E k1, k2 \in Kernels :
             /\ Reframes(k, k1, c, Calling(k.frame[c], s, ret)) /\ k1.log = k.log
             /\ Queueing(k1, k2, {k.cur[c]}) /\ Has(k2.srv[s].waitq, k.cur[c])
             /\ Blocks(k2, m, c)
    <2>1. PICK k1, k2 \in Kernels :
             /\ Reframes(k, k1, c, Calling(k.frame[c], s, ret))
             /\ Queueing(k1, k2, {k.cur[c]}) /\ Blocks(k2, m, c)
        BY <1>2
    <2> DEFINE g == Calling(f, s, ret)
    <2>2. g.mode = f.mode /\ g.pc = "call" /\ g.to = s
        <3> HIDE DEF f
        <3> QED BY <1>0 DEF Contexts, Calling
    <2> HIDE DEF g
    <2>3. CallOK(k, g)
        BY <2>2 DEF CallOK
    <2>4. Reframes(k, k1, c, g)
        BY <2>1 DEF g
    <2>5. BaseInv(k1)
        BY <2>2, <2>3, <2>4, BaseReframes
    <2>6. BaseInv(k2)
        BY <2>1, <2>5, BaseQueueing
    <2>7. Running(k2, c)
        BY <1>0, <2>1 DEF Running, Reframes, Steady, Queueing, Alike, Live
    <2> QED BY <2>1, <2>6, <2>7, BaseBlocks
<1>3. CASE /\ Live(k, s) /\ ~Closed(k, s)
           /\ \E k1 \in Kernels : /\ Asks(k, k1, c, s, ret)
                                  /\ IF k.srv[s].ring = <<>> THEN Starts(k1, m, c, s) ELSE m = k1
    <2>1. PICK k1 \in Kernels : /\ Asks(k, k1, c, s, ret)
                                /\ IF k.srv[s].ring = <<>> THEN Starts(k1, m, c, s) ELSE m = k1
        BY <1>3
    <2>2. BaseInv(k1)
        BY <1>0, <1>3, <2>1, BaseAsks
    <2>3. Live(k1, s)
        BY <1>3, <2>1 DEF Asks, Live
    <2> QED BY <2>1, <2>2, <2>3, BaseStarts
<1> QED BY <1>1, <1>2, <1>3 DEF CallEffect

\* A server whose main context is put back is alive.
LEMMA RestoresLive ==
    ASSUME NEW k, NEW m, NEW s \in Servers, NEW state, Restores(k, m, s, state), Live(k, s), state # "ZOMBIE"
    PROVE  \A p \in Procs : Live(m, p) <=> Live(k, p)
BY DEF Restores, Live, proc_get


\* The states that SYS_IPC_END goes through.
EndStates(k, m, c, k1, k2, k3, Q) ==
    LET s == k.cur[c]
        r == Head(k.srv[s].ring)
    IN  /\ Finishes(k, k1, c, s) /\ Closes(k1, k2, s) /\ Eases(k2, k3, Q)
        /\ ToWake(k, r) \subseteq Q
        /\ \A p \in Q : p \in ToWake(k, r) \/ Has(k2.srv[s].waitq, p)
        /\ IF k3.srv[s].ring # <<>> THEN Starts(k3, m, c, s)
           ELSE \/ Dispatches(k3, m, c)
                \/ \E to \in ToWake(k, r) : Core[to] = c /\ Hands(k3, m, c, to)

\* The next request of a server whose request was abandoned.
Rearms(k, m, s) ==
    IF k.srv[s].ring = <<>> THEN m = k
    ELSE \E n \in Kernels : /\ Arms(k, n, s, k.srv[s].restore_pending)
                            /\ Eases(n, m, {s}) \/ (m = n /\ n.task[s].state = "UNUSED")

\* The states that the watchdog goes through.
TimeoutStates(k, m, s, k1, k2, k3, k4, k5, k6, Q) ==
    /\ Recalls(k, k1, s)
    /\ Eases(k1, k2, {s}) \/ (k2 = k1 /\ k1.task[s].state = "UNUSED")
    /\ Closes(k2, k3, s) /\ Quiet(k3, k4) /\ Eases(k4, k5, Q)
    /\ ClientOf(k3, Head(k.srv[s].ring)) \subseteq Q
    /\ Rearms(k5, k6, s)
    /\ Quiet(k6, m)

\* They exist.
LEMMA EndChain ==
    ASSUME NEW k, NEW m, NEW c, EndEffect(k, m, c)
    PROVE  \E k1, k2, k3 \in Kernels, Q \in SUBSET Procs : EndStates(k, m, c, k1, k2, k3, Q)
BY DEF EndEffect, EndStates

\* proc_ipc_timeout() goes through these states.
LEMMA TimeoutChain ==
    ASSUME NEW k, NEW m, NEW s, TimeoutEffect(k, m, s)
    PROVE  \E k1, k2, k3, k4, k5, k6 \in Kernels, Q \in SUBSET Procs :
              TimeoutStates(k, m, s, k1, k2, k3, k4, k5, k6, Q)
BY DEF TimeoutEffect, TimeoutStates, Rearms

\* The two states have the same living processes.
SameLife(k, m) == \A p \in Procs : Live(m, p) <=> Live(k, p)

\* What the states of SYS_IPC_END have in common.
LEMMA EndBase ==
    ASSUME NEW k, NEW m, NEW c \in Cores, NEW k1, NEW k2, NEW k3, NEW Q,
           BaseInv(k), Running(k, c), k.cur[c] \in Servers,
           k.srv[k.cur[c]].ring # <<>>, EndStates(k, m, c, k1, k2, k3, Q)
    PROVE  /\ BaseInv(k1) /\ BaseInv(k2) /\ BaseInv(k3)
           /\ SameLife(k, k1) /\ SameLife(k, k2) /\ SameLife(k, k3)
           /\ k1.srv[k.cur[c]].ring = k.srv[k.cur[c]].ring
<1> DEFINE s == k.cur[c]
           state == Continued(k.srv[s].saved.state)
<1>1. /\ Finishes(k, k1, c, s) /\ Closes(k1, k2, s) /\ Eases(k2, k3, Q)
    BY DEF EndStates
<1>2. state # "ZOMBIE" /\ Live(k, s)
    BY DEF Continued, Runnable, BaseInv, DeadOK, Running
<1> HIDE DEF state, s
<1>3. s \in Servers /\ k.cur[c] = s /\ k.srv[s].ring # <<>>
    BY DEF s
<1>4. Restores(k, k1, s, state) /\ ~k1.srv[s].restore_pending /\ k1.srv[s].ring = k.srv[s].ring
      /\ k1.ctx = k.ctx /\ k1.frame = [k.frame EXCEPT ![c] = k.srv[s].saved.ctx]
    BY <1>1 DEF Finishes, Restores, state
<1>5. BaseInv(k1)
    BY <1>2, <1>3, <1>4, BaseRestores
<1>6. \A p \in Procs : Live(k1, p) <=> Live(k, p)
    BY <1>2, <1>3, <1>4, RestoresLive
<1>7. BaseInv(k2)
    BY <1>1, <1>3, <1>4, <1>5, BaseCloses
<1>8. \A p \in Procs : Live(k2, p) <=> Live(k, p)
    BY <1>1, <1>6 DEF Closes, Live
<1>9. BaseInv(k3) /\ \A p \in Procs : Live(k3, p) <=> Live(k, p)
    BY <1>1, <1>7, <1>8, BaseEases, EasesLive
<1> QED BY <1>4, <1>5, <1>6, <1>7, <1>8, <1>9 DEF s, SameLife

\* proc_ipc_end()
LEMMA BaseEnds ==
    ASSUME NEW k, NEW m, NEW c \in Cores, BaseInv(k), Running(k, c), k.cur[c] \in Servers,
           k.srv[k.cur[c]].ring # <<>>, EndEffect(k, m, c)
    PROVE  BaseInv(m)
<1> DEFINE s == k.cur[c]
           r == Head(k.srv[s].ring)
<1>0. PICK k1, k2, k3 \in Kernels, Q \in SUBSET Procs : EndStates(k, m, c, k1, k2, k3, Q)
    BY EndChain
<1>1. /\ IF k3.srv[s].ring # <<>> THEN Starts(k3, m, c, s)
         ELSE \/ Dispatches(k3, m, c)
              \/ \E to \in ToWake(k, r) : Core[to] = c /\ Hands(k3, m, c, to)
      /\ BaseInv(k3) /\ \A p \in Procs : Live(k3, p) <=> Live(k, p)
    <2>1. BaseInv(k3) /\ SameLife(k, k3)
        BY <1>0, EndBase
    <2> QED BY <1>0, <2>1 DEF EndStates, SameLife
<1>2. k \in Kernels /\ k.srv[s] \in ServerRecords /\ s \in Procs
    BY KernelFields, Constants DEF BaseInv
<1>3. r.client \in Procs
    BY <1>2, HeadFacts
<1>4. Live(k3, s)
    BY <1>1 DEF Running
<1>5. CASE k3.srv[s].ring # <<>>
    BY <1>1, <1>4, <1>5, BaseStarts
<1>6. CASE Dispatches(k3, m, c)
    BY <1>1, <1>6, BaseDispatches
<1>7. CASE \E to \in ToWake(k, r) : Core[to] = c /\ Hands(k3, m, c, to)
    <2>1. PICK to \in ToWake(k, r) : Hands(k3, m, c, to)
        BY <1>7
    <2>2. to \in Procs /\ Live(k, to)
        BY <1>3, <2>1, ClientFacts
    <2> QED BY <1>1, <2>1, <2>2, BaseHands
<1> QED BY <1>1, <1>5, <1>6, <1>7

\* A request is armed after a timeout.
LEMMA BaseRearms ==
    ASSUME NEW k, NEW m, NEW s \in Servers, BaseInv(k), Live(k, s), Watchdog, Rearms(k, m, s)
    PROVE  BaseInv(m) /\ SameLife(k, m)
<1>1. CASE k.srv[s].ring = <<>>
    BY <1>1 DEF Rearms, SameLife
<1>2. CASE k.srv[s].ring # <<>>
    <2>1. PICK n \in Kernels : /\ Arms(k, n, s, k.srv[s].restore_pending)
                               /\ Eases(n, m, {s}) \/ (m = n /\ n.task[s].state = "UNUSED")
        BY <1>2 DEF Rearms
    <2>2. BaseInv(n)
        BY <2>1, BaseArms
    <2>3. \A p \in Procs : Live(n, p) <=> Live(k, p)
        BY <2>1 DEF Arms, Live
    <2> QED BY <2>1, <2>2, <2>3, BaseEases, EasesLive DEF SameLife
<1> QED BY <1>1, <1>2

\* What the states of the watchdog have in common.
LEMMA TimeoutBase ==
    ASSUME NEW k, NEW m, NEW s \in Servers, NEW k1, NEW k2, NEW k3, NEW k4, NEW k5, NEW k6, NEW Q,
           BaseInv(k), Watchdog, k.srv[s].ring # <<>>,
           TimeoutStates(k, m, s, k1, k2, k3, k4, k5, k6, Q)
    PROVE  /\ BaseInv(k1) /\ BaseInv(k2) /\ BaseInv(k3) /\ BaseInv(k4) /\ BaseInv(k5) /\ BaseInv(k6)
           /\ BaseInv(m) /\ SameLife(k, k1) /\ SameLife(k, k2) /\ SameLife(k, k3)
           /\ SameLife(k, k4) /\ SameLife(k, k5) /\ SameLife(k, k6) /\ SameLife(k, m)
           /\ k1.srv[s].ring = k.srv[s].ring /\ k2.srv[s].ring = k.srv[s].ring
<1>0. Live(k, s) /\ s \in Procs
    BY Constants DEF BaseInv, DeadOK
<1>1. /\ Recalls(k, k1, s)
      /\ Eases(k1, k2, {s}) \/ (k2 = k1 /\ k1.task[s].state = "UNUSED")
      /\ Closes(k2, k3, s) /\ Quiet(k3, k4) /\ Eases(k4, k5, Q)
      /\ Rearms(k5, k6, s) /\ Quiet(k6, m)
    BY DEF TimeoutStates
<1> DEFINE state == k.srv[s].saved.state
<1>2. state # "ZOMBIE"
    BY DEF BaseInv, DeadOK
<1>3. Restores(k, k1, s, state) /\ k1.srv[s].ring = k.srv[s].ring
      /\ k1.frame = k.frame /\ k1.ctx = [k.ctx EXCEPT ![s] = k.srv[s].saved.ctx]
    BY <1>1 DEF Recalls, Restores
<1> HIDE DEF state
<1>4. BaseInv(k1)
    BY <1>0, <1>2, <1>3, BaseRestores
<1>5. \A p \in Procs : Live(k1, p) <=> Live(k, p)
    BY <1>0, <1>2, <1>3, RestoresLive
<1>6. BaseInv(k2) /\ (\A p \in Procs : Live(k2, p) <=> Live(k, p)) /\ k2.srv[s].ring = k.srv[s].ring
    <2>1. CASE Eases(k1, k2, {s})
        <3>1. k2.srv[s].ring = k1.srv[s].ring
            BY <2>1 DEF Eases, EasedServer
        <3> QED BY <1>3, <1>4, <1>5, <2>1, <3>1, BaseEases, EasesLive
    <2> QED BY <1>1, <1>3, <1>4, <1>5, <2>1
<1>7. BaseInv(k3) /\ \A p \in Procs : Live(k3, p) <=> Live(k, p)
    <2>1. BaseInv(k3)
        BY <1>1, <1>6, BaseCloses
    <2> QED BY <1>1, <1>6, <2>1 DEF Closes, Live
<1>8. BaseInv(k4) /\ \A p \in Procs : Live(k4, p) <=> Live(k, p)
    <2>1. BaseInv(k4)
        BY <1>1, <1>7, BaseQuiet
    <2> QED BY <1>1, <1>7, <2>1 DEF Quiet, Live
<1>9. BaseInv(k5) /\ \A p \in Procs : Live(k5, p) <=> Live(k, p)
    BY <1>1, <1>8, BaseEases, EasesLive
<1>10. BaseInv(k6) /\ SameLife(k5, k6)
    BY <1>0, <1>1, <1>9, BaseRearms
<1>11. BaseInv(m)
    BY <1>1, <1>10, BaseQuiet
<1>12. \A p \in Procs : Live(m, p) <=> Live(k6, p)
    BY <1>1 DEF Quiet, Live
<1>13. SameLife(k, k6) /\ SameLife(k, m)
    BY <1>9, <1>10, <1>12 DEF SameLife
<1> QED BY <1>3, <1>4, <1>5, <1>6, <1>7, <1>8, <1>9, <1>10, <1>11, <1>13 DEF SameLife

\* A pid is used again.
LEMMA BaseSpawns ==
    ASSUME NEW k, NEW m, BaseInv(k), BySpawn(k, m)
    PROVE  BaseInv(m)
<1>1. PICK p \in Procs :
       /\ ~Live(k, p)
       /\ m \in Kernels /\ m.cur = k.cur /\ m.frame = k.frame /\ m.ipc_uid = k.ipc_uid
       /\ m.task = [k.task EXCEPT ![p] = NewTask("READY")]
       /\ m.ctx = [k.ctx EXCEPT ![p] = MainCtx] /\ m.res = [k.res EXCEPT ![p] = NoResult]
       /\ m.last_uuid = k.last_uuid + 1 /\ m.uuid = [k.uuid EXCEPT ![p] = k.last_uuid + 1]
       /\ \A s \in Servers : m.srv[s] = IF s = p THEN NewServer ELSE k.srv[s]
       /\ m.log.asked = k.log.asked
    BY DEF BySpawn
<1>2. k \in Kernels /\ Servers \subseteq Procs
    BY Constants DEF BaseInv
<1>3. /\ k.task \in [Procs -> Tasks] /\ k.ctx \in [Procs -> Contexts] /\ k.res \in [Procs -> Results]
      /\ k.uuid \in [Procs -> Nat] /\ k.last_uuid \in Nat
    BY <1>2, KernelFields
<1>4. ASSUME NEW q \in Procs, q # p
      PROVE  m.task[q] = k.task[q] /\ m.ctx[q] = k.ctx[q] /\ m.res[q] = k.res[q] /\ m.uuid[q] = k.uuid[q]
             /\ (Live(m, q) <=> Live(k, q))
    BY <1>1, <1>3, <1>4 DEF Live
<1>5. m.ctx[p] = MainCtx /\ m.res[p] = NoResult /\ m.uuid[p] = k.last_uuid + 1 /\ Live(m, p)
    <2>1. m.task[p].state = "READY"
        BY <1>1, <1>3 DEF NewTask
    <2> QED BY <1>1, <1>3, <2>1 DEF Live, proc_get
<1>6. NewServer.ring = <<>> /\ ~NewServer.do_switch /\ ~NewServer.restore_pending /\ NewServer.saved = NoSaved
    BY DEF NewServer
<1>7. MainCtx.mode = "main" /\ MainCtx.pc = "run" /\ NoResult.state = "IDLE" /\ NoSaved.ctx = ZeroCtx
      /\ NoSaved.res = NoResult /\ NoSaved.state = "UNUSED" /\ ZeroCtx.pc = "run"
    BY DEF MainCtx, NoResult, NoSaved, ZeroCtx, Context
<1> HIDE DEF NewServer
<1>8. \A f : CallOK(k, f) => CallOK(m, f)
    <2>1. \A s \in Servers : m.srv[s].ring = <<>> \/ m.srv[s].ring = k.srv[s].ring
        BY <1>1, <1>6
    <2>2. DOMAIN <<>> = {}
        OBVIOUS
    <2> QED BY <1>1, <2>1, <2>2 DEF CallOK
<1>9. CurOK(m) /\ ModesOK(m)
    BY <1>1, <1>4, <1>5, <1>7 DEF BaseInv, CurOK, ModesOK
<1>10. CallOK(m, MainCtx) /\ CallOK(m, ZeroCtx)
    BY <1>7 DEF CallOK
<1>11. CallsOK(m)
    <2>1. \A q \in Procs : CallOK(m, m.ctx[q])
        BY <1>4, <1>5, <1>8, <1>10, BaseFacts
    <2>2. \A s \in Servers : CallOK(m, m.srv[s].saved.ctx)
        <3>1. \A s \in Servers : m.srv[s] = NewServer \/ m.srv[s] = k.srv[s]
            BY <1>1
        <3> QED BY <1>6, <1>7, <1>8, <1>10, <3>1, BaseFacts
    <2>3. \A x \in Cores : CallOK(m, m.frame[x])
        BY <1>1, <1>8, BaseFacts
    <2> QED BY <2>1, <2>2, <2>3 DEF CallsOK
<1>12. AskedOK(m)
    <2>1. ASSUME NEW s \in Servers, NEW i \in DOMAIN m.srv[s].ring
          PROVE  RequestOK(m, m.srv[s].ring[i])
        <3>1. s # p
            BY <1>1, <1>6, <2>1
        <3>2. m.srv[s] = k.srv[s]
            BY <1>1, <3>1
        <3>3. RequestOK(k, k.srv[s].ring[i])
            BY <2>1, <3>2 DEF BaseInv, AskedOK
        <3>4. k.srv[s] \in ServerRecords
            BY <1>2, KernelFields
        <3>5. k.srv[s].ring \in Seq(Requests)
            BY <3>4, ServerFields
        <3>6. k.srv[s].ring[i] \in Requests
            BY <2>1, <3>2, <3>5, ElementOfSeq, LenProperties
        <3>7. k.srv[s].ring[i].uuid \in Nat
            BY <3>6 DEF Requests
        <3>8. k.srv[s].ring[i].uuid <= k.last_uuid
            BY <3>3 DEF RequestOK
        <3>9. k.srv[s].ring[i].uuid <= m.last_uuid
            BY <1>1, <1>3, <3>7, <3>8
        <3> QED BY <1>1, <3>2, <3>3, <3>9 DEF RequestOK
    <2>2. ASSUME NEW q \in Procs, q # p, NEW x, ReplyOK(k, q, x) PROVE ReplyOK(m, q, x)
        BY <1>1, <1>4, <2>2 DEF ReplyOK
    <2>3. \A q : ReplyOK(m, q, NoResult)
        BY <1>7 DEF ReplyOK
    <2>4. \A q \in Procs : Live(m, q) => ReplyOK(m, q, m.res[q])
        BY <1>4, <1>5, <2>2, <2>3, BaseFacts
    <2>5. ASSUME NEW s \in Servers, Live(m, s) PROVE ReplyOK(m, s, m.srv[s].saved.res)
        <3>1. CASE s = p
            BY <1>1, <1>6, <1>7, <2>3, <3>1
        <3>2. CASE s # p
            BY <1>1, <1>2, <1>4, <2>2, <2>5, <3>2, BaseFacts
        <3> QED BY <3>1, <3>2
    <2> QED BY <2>1, <2>4, <2>5 DEF AskedOK
<1>13. DeadOK(m)
    <2>1. ASSUME NEW s \in Servers
          PROVE  /\ ~Live(m, s) => m.srv[s].ring = <<>> /\ ~m.srv[s].do_switch
                 /\ m.srv[s].saved.state # "ZOMBIE"
        <3>1. CASE s = p
            BY <1>1, <1>5, <1>6, <1>7, <3>1
        <3>2. CASE s # p
            BY <1>1, <1>2, <1>4, <3>2, BaseFacts
        <3> QED BY <3>1, <3>2
    <2>2. ASSUME NEW q \in Procs PROVE m.uuid[q] <= m.last_uuid
        <3>1. k.uuid[q] <= k.last_uuid /\ k.uuid[q] \in Nat
            BY <1>3 DEF BaseInv, DeadOK
        <3> QED BY <1>1, <1>3, <1>4, <1>5, <3>1
    <2> QED BY <2>1, <2>2 DEF DeadOK
<1>14. NoRestore(m)
    <2>1. \A s \in Servers : m.srv[s] = NewServer \/ m.srv[s] = k.srv[s]
        BY <1>1
    <2> QED BY <1>6, <2>1 DEF BaseInv, NoRestore
<1> QED BY <1>1, <1>9, <1>11, <1>12, <1>13, <1>14 DEF BaseInv

\* Every step keeps the first invariant.
LEMMA BaseEffect ==
    ASSUME NEW k, NEW m, BaseInv(k), Effect(k, m)
    PROVE  BaseInv(m)
<1>1. CASE ByCall(k, m)
    <2>1. PICK c \in Cores, k0 \in Kernels, s \in Servers, ret \in BOOLEAN :
             Running(k, c) /\ Quiet(k, k0) /\ CallEffect(k0, m, c, s, ret)
        BY <1>1 DEF ByCall
    <2>2. BaseInv(k0)
        BY <2>1, BaseQuiet
    <2>3. Running(k0, c)
        BY <2>1 DEF Running, Quiet, Steady, Live
    <2> QED BY <2>1, <2>2, <2>3, BaseCalls
<1>2. CASE BySchedule(k, m)
    <2>1. PICK c \in Cores, k0 \in Kernels : Quiet(k, k0) /\ Dispatches(k0, m, c)
        BY <1>2 DEF BySchedule
    <2> QED BY <2>1, BaseQuiet, BaseDispatches
<1>3. CASE ByBlock(k, m)
    <2>1. PICK c \in Cores, k0 \in Kernels : Running(k, c) /\ Quiet(k, k0) /\ Blocks(k0, m, c)
        BY <1>3 DEF ByBlock
    <2>2. BaseInv(k0)
        BY <2>1, BaseQuiet
    <2>3. Running(k0, c)
        BY <2>1 DEF Running, Quiet, Steady, Live
    <2> QED BY <2>1, <2>2, <2>3, BaseBlocks
<1>4. CASE ByCode(k, m)
    <2>1. PICK c \in Cores, g \in Contexts :
             /\ Running(k, c) /\ Reframes(k, m, c, g) /\ g.mode = k.frame[c].mode
             /\ \/ Returns(k, m, c, g) \/ Begins(k, m, c, g) \/ Works(k, m, c, g)
                \/ Answers(k, m, c, g) \/ Moves(k, m, c, g)
        BY <1>4 DEF ByCode
    <2>2. g.pc \notin {"call", "wait"}
        <3>1. CASE Returns(k, m, c, g)
            <4> DEFINE f == k.frame[c]
            <4>1. f \in Contexts /\ g = Back(f)
                BY <3>1, KernelFields DEF BaseInv, Returns
            <4> HIDE DEF f
            <4> QED BY <4>1 DEF Back, Contexts
        <3> QED BY <2>1, <3>1 DEF Begins, Works, Answers, Moves
    <2>3. CallOK(k, g)
        BY <2>2 DEF CallOK
    <2> QED BY <2>1, <2>3, BaseReframes
<1>5. CASE BySleep(k, m)
    <2>1. PICK c \in Cores, k0 \in Kernels, state \in {"SLEEPING", "WAIT"} :
             /\ Running(k, c) /\ Retasks(k, k0, k.cur[c], state) /\ Dispatches(k0, m, c)
        BY <1>5 DEF BySleep
    <2>2. BaseInv(k0)
        BY <2>1, BaseRetasks DEF Running
    <2> QED BY <2>1, <2>2, BaseDispatches
<1>6. CASE ByQueue(k, m)
    <2>1. PICK k0, k1 \in Kernels, Q \in SUBSET Procs :
             Quiet(k, k0) /\ Queueing(k0, k1, {}) /\ Eases(k1, m, Q)
        BY <1>6 DEF ByQueue
    <2>2. BaseInv(k0)
        BY <2>1, BaseQuiet
    <2>3. BaseInv(k1)
        BY <2>1, <2>2, BaseQueueing
    <2> QED BY <2>1, <2>3, BaseEases
<1>7. CASE ByTimer(k, m)
    <2>1. PICK p \in Procs : k.task[p].state \in {"SLEEPING", "BLOCK"} /\ Retasks(k, m, p, "READY")
        BY <1>7 DEF ByTimer
    <2>2. Live(k, p)
        BY <2>1 DEF Live, proc_get
    <2> QED BY <2>1, <2>2, BaseRetasks
<1>8. CASE ByEvent(k, m)
    <2>1. PICK p \in Servers, k1 \in Kernels : Eases(k, k1, {p}) /\ Quiet(k1, m)
        BY <1>8 DEF ByEvent
    <2> QED BY <2>1, BaseEases, BaseQuiet
<1>9. CASE ByEnd(k, m)
    <2>1. PICK c \in Cores, k0 \in Kernels :
             /\ Running(k, c) /\ k.cur[c] \in Servers /\ Quiet(k, k0)
             /\ IF k.srv[k.cur[c]].ring = <<>> THEN m = k0 ELSE EndEffect(k0, m, c)
        BY <1>9 DEF ByEnd
    <2>2. BaseInv(k0)
        BY <2>1, BaseQuiet
    <2>3. Running(k0, c) /\ k0.cur[c] = k.cur[c] /\ k0.srv = k.srv
        BY <2>1 DEF Running, Quiet, Steady, Live
    <2> QED BY <2>1, <2>2, <2>3, BaseEnds
<1>10. CASE ByTimeout(k, m)
    <2>1. PICK s \in Servers, k0 \in Kernels :
             /\ Watchdog /\ k.srv[s].ring # <<>> /\ TimeoutEffect(k, k0, s) /\ Dispatches(k0, m, 0)
        BY <1>10 DEF ByTimeout
    <2>2. PICK k1, k2, k3, k4, k5, k6 \in Kernels, Q \in SUBSET Procs :
              TimeoutStates(k, k0, s, k1, k2, k3, k4, k5, k6, Q)
        BY <2>1, TimeoutChain
    <2>3. BaseInv(k0)
        BY <2>1, <2>2, TimeoutBase
    <2>4. 0 \in Cores
        BY Constants
    <2> QED BY <2>1, <2>3, <2>4, BaseDispatches
<1>11. CASE ByDeath(k, m)
    <2>1. PICK p \in Procs, c \in Cores, k0, k1 \in Kernels :
             Quiet(k, k0) /\ Terminates(k0, k1, p) /\ Dispatches(k1, m, c)
        BY <1>11 DEF ByDeath
    <2>2. BaseInv(k0)
        BY <2>1, BaseQuiet
    <2>3. BaseInv(k1)
        BY <2>1, <2>2, BaseTerminates
    <2> QED BY <2>1, <2>3, BaseDispatches
<1>12. CASE BySpawn(k, m)
    BY <1>12, BaseSpawns
<1> QED BY <1>1, <1>2, <1>3, <1>4, <1>5, <1>6, <1>7, <1>8, <1>9, <1>10, <1>11, <1>12 DEF Effect

\* The initial state.
LEMMA InitKernel ==
    ASSUME Init
    PROVE  /\ kernel \in Kernels
           /\ \A p \in Procs : /\ kernel.task[p] = NewTask("READY") /\ kernel.ctx[p] = MainCtx
                               /\ kernel.res[p] = NoResult /\ kernel.uuid[p] = 1
           /\ \A s \in Servers : kernel.srv[s] = NewServer
           /\ \A c \in Cores : kernel.cur[c] = NoProc /\ kernel.frame[c] = ZeroCtx
           /\ kernel.ipc_uid = 0 /\ kernel.last_uuid = 1 /\ kernel.log = NewLog
<1>1. /\ kernel.task = [p \in Procs |-> NewTask("READY")] /\ kernel.ctx = [p \in Procs |-> MainCtx]
      /\ kernel.res = [p \in Procs |-> NoResult] /\ kernel.uuid = [p \in Procs |-> 1]
      /\ kernel.wait_for = [p \in Procs |-> NoProc] /\ kernel.srv = [s \in Servers |-> NewServer]
      /\ kernel.cur = [c \in Cores |-> NoProc] /\ kernel.frame = [c \in Cores |-> ZeroCtx]
      /\ kernel.need_resched = [c \in Cores |-> "no"] /\ kernel.ipc_uid = 0 /\ kernel.last_uuid = 1
      /\ kernel.log = NewLog
    BY DEF Init
<1>2. NewTask("READY") \in Tasks
    BY DEF NewTask, Tasks, States, Generic
<1>3. MainCtx \in Contexts /\ ZeroCtx \in Contexts /\ NoResult \in Results /\ NoSaved \in Saved
    BY ContextFacts, NoSavedFacts DEF NoResult, Results
<1>4. NewServer \in ServerRecords
    <2>1. <<>> \in {r \in Seq(Requests) : Len(r) <= IPC_CTX_MAX} /\ <<>> \in Seq(Procs)
        BY ConstantsAssumption
    <2> QED BY <1>3, <2>1 DEF NewServer, ServerRecords
<1>5. NewLog \in Logs
    BY ConstantsAssumption DEF NewLog, Logs, Uids
<1>6. 0 \in 0 .. MaxCalls
    BY ConstantsAssumption
<1>7. kernel \in Kernels
    <2> HIDE DEF NewServer, NewLog, NewTask, MainCtx, ZeroCtx, NoResult
    <2>1. kernel = [task |-> kernel.task, ctx |-> kernel.ctx, res |-> kernel.res, uuid |-> kernel.uuid,
              wait_for |-> kernel.wait_for, srv |-> kernel.srv, cur |-> kernel.cur,
              frame |-> kernel.frame, need_resched |-> kernel.need_resched,
              ipc_uid |-> kernel.ipc_uid, last_uuid |-> kernel.last_uuid, log |-> kernel.log]
        BY DEF Init
    <2>2. /\ kernel.task \in [Procs -> Tasks] /\ kernel.ctx \in [Procs -> Contexts]
          /\ kernel.res \in [Procs -> Results] /\ kernel.uuid \in [Procs -> Nat]
          /\ kernel.wait_for \in [Procs -> Procs \cup {NoProc}]
          /\ kernel.srv \in [Servers -> ServerRecords] /\ kernel.cur \in [Cores -> Procs \cup {NoProc}]
          /\ kernel.frame \in [Cores -> Contexts] /\ kernel.need_resched \in [Cores -> {"no", "raised", "due"}]
          /\ kernel.ipc_uid \in 0 .. MaxCalls /\ kernel.last_uuid \in Nat /\ kernel.log \in Logs
        BY <1>1, <1>2, <1>3, <1>4, <1>5, <1>6
    <2> QED BY <2>1, <2>2 DEF Kernels
<1> QED BY <1>1, <1>7

\* It satisfies the first invariant.
LEMMA BaseInit == Init => BaseInv(kernel)
<1> SUFFICES ASSUME Init PROVE BaseInv(kernel)
    OBVIOUS
<1>1. NewServer.ring = <<>> /\ ~NewServer.do_switch /\ ~NewServer.restore_pending /\ NewServer.saved = NoSaved
    BY DEF NewServer
<1>2. MainCtx.mode = "main" /\ MainCtx.pc = "run" /\ NoResult.state = "IDLE" /\ NoSaved.ctx = ZeroCtx
      /\ NoSaved.res = NoResult /\ NoSaved.state = "UNUSED" /\ ZeroCtx.pc = "run" /\ ZeroCtx.mode = "zero"
    BY DEF MainCtx, NoResult, NoSaved, ZeroCtx, Context
<1>3. /\ \A p \in Procs : /\ Live(kernel, p) /\ kernel.ctx[p] = MainCtx
                          /\ kernel.res[p] = NoResult /\ kernel.uuid[p] = 1
      /\ \A s \in Servers : kernel.srv[s] = NewServer
      /\ \A c \in Cores : kernel.cur[c] = NoProc /\ kernel.frame[c] = ZeroCtx
      /\ kernel.last_uuid = 1 /\ kernel \in Kernels
    BY InitKernel DEF Live, proc_get, NewTask
<1>4. Servers \subseteq Procs /\ DOMAIN <<>> = {}
    BY Constants
<1>5. CurOK(kernel) /\ ModesOK(kernel)
    BY <1>2, <1>3, <1>4 DEF CurOK, ModesOK
<1>6. CallsOK(kernel)
    BY <1>1, <1>2, <1>3 DEF CallsOK, CallOK
<1>7. AskedOK(kernel)
    BY <1>1, <1>2, <1>3, <1>4 DEF AskedOK, ReplyOK
<1>8. DeadOK(kernel) /\ NoRestore(kernel)
    BY <1>1, <1>2, <1>3, <1>4 DEF DeadOK, NoRestore
<1> QED BY <1>3, <1>5, <1>6, <1>7, <1>8 DEF BaseInv

\* A step keeps it.
LEMMA BaseNext == BaseInv(kernel) /\ [Next]_kernel => BaseInv(kernel')
<1>1. ASSUME BaseInv(kernel), Next PROVE BaseInv(kernel')
    BY <1>1, NextEffect, BaseEffect
<1> QED BY <1>1

\* The system stays in the first invariant.
LEMMA BaseHolds == Spec => []BaseInv(kernel)
<1>1. BaseInv(kernel) /\ [Next]_kernel => BaseInv(kernel)'
    BY BaseNext
<1> QED BY BaseInit, <1>1, PTL DEF Spec

\* Every operation of the kernel keeps its state well formed: a ring never holds
\* more than IPC_CTX_MAX requests, contexts are those of libc's code.
THEOREM TypeCorrect == Spec => []TypeOK
<1>1. BaseInv(kernel) => TypeOK
    BY DEF BaseInv, TypeOK
<1> QED BY <1>1, BaseHolds, PTL

\* proc_ipc_get_client: a reply reaches the process that asked, never a later
\* one with the same pid; for every number of processes, deaths and timeouts.
THEOREM RepliesReachTheAsker == Spec => []ReplyToAsker
<1>1. BaseInv(kernel) => ReplyToAsker
    BY DEF BaseInv, AskedOK, ReplyOK, ReplyToAsker
<1> QED BY <1>1, BaseHolds, PTL

-----------------------------------------------------------------------------
(* Waiters in waitpid().                                                    *)

\* A step that lets nobody wait, and nobody die.
Waitless(k, m) ==
    /\ SameLife(k, m)
    /\ \A p \in Procs : m.task[p].state = "WAIT" => k.task[p].state = "WAIT" /\ m.wait_for[p] = k.wait_for[p]
    /\ \A s \in Servers : m.srv[s].saved.state = "WAIT" =>
          k.srv[s].saved.state = "WAIT" \/ k.task[s].state = "WAIT"

\* Such steps keep the invariant.
LEMMA WaitsKept ==
    ASSUME NEW k, NEW m, WaitsOK(k), Waitless(k, m)
    PROVE  WaitsOK(m)
BY Constants DEF WaitsOK, Waitless, SameLife

\* Wakes and switches.
LEMMA WaitsEases ==
    ASSUME NEW k, NEW m, NEW Q, WaitsOK(k), Eases(k, m, Q)
    PROVE  WaitsOK(m)
<1>1. SameLife(k, m)
    BY EasesLive DEF SameLife
<1>2. ASSUME NEW p \in Procs, m.task[p].state = "WAIT"
      PROVE  k.task[p].state = "WAIT" /\ m.wait_for[p] = k.wait_for[p]
    BY <1>2 DEF Eases, Alike
<1>3. \A s \in Servers : m.srv[s].saved.state = "WAIT" => k.srv[s].saved.state = "WAIT"
    BY DEF Eases, EasedServer
<1> QED BY <1>1, <1>2, <1>3, WaitsKept DEF Waitless

\* A switch.
LEMMA WaitsSwitches ==
    ASSUME NEW k, NEW m, NEW c \in Cores, NEW to \in Procs \cup {NoProc}, WaitsOK(k),
           Switches(k, m, c, to), to # NoProc => Live(k, to)
    PROVE  WaitsOK(m)
<1>1. SameLife(k, m)
    BY SwitchesLive, Constants DEF SameLife
<1>2. ASSUME NEW p \in Procs, m.task[p].state = "WAIT"
      PROVE  k.task[p].state = "WAIT" /\ m.wait_for[p] = k.wait_for[p]
    BY <1>2 DEF Switches, Unswitched
<1>3. \A s \in Servers : m.srv[s].saved.state = "WAIT" => k.srv[s].saved.state = "WAIT"
    BY DEF Switches, SameService
<1> QED BY <1>1, <1>2, <1>3, WaitsKept DEF Waitless

\* Steps that leave the tasks alone.
LEMMA WaitsPlain ==
    ASSUME NEW k, NEW m, WaitsOK(k), m.task = k.task, m.wait_for = k.wait_for,
           \A s \in Servers : m.srv[s].saved.state \in {k.srv[s].saved.state, k.task[s].state}
    PROVE  WaitsOK(m)
<1>1. SameLife(k, m)
    BY DEF SameLife, Live
<1> QED BY <1>1, WaitsKept DEF Waitless

\* Quiet steps.
LEMMA WaitsQuiet ==
    ASSUME NEW k, NEW m, WaitsOK(k), Quiet(k, m)
    PROVE  WaitsOK(m)
BY WaitsPlain DEF Quiet, Steady

\* The running task goes on.
LEMMA WaitsReframes ==
    ASSUME NEW k, NEW m, NEW c, NEW f, WaitsOK(k), Reframes(k, m, c, f)
    PROVE  WaitsOK(m)
BY WaitsPlain DEF Reframes, Steady

\* Queues change.
LEMMA WaitsQueueing ==
    ASSUME NEW k, NEW m, NEW P, WaitsOK(k), Queueing(k, m, P)
    PROVE  WaitsOK(m)
<1>1. m.task = k.task /\ m.wait_for = k.wait_for
    BY DEF Queueing, Alike
<1>2. \A s \in Servers : m.srv[s].saved.state = k.srv[s].saved.state
    BY DEF Queueing
<1> QED BY <1>1, <1>2, WaitsPlain

\* A request is armed.
LEMMA WaitsArms ==
    ASSUME NEW k, NEW m, NEW s \in Servers, NEW restore, WaitsOK(k), Arms(k, m, s, restore)
    PROVE  WaitsOK(m)
<1>1. m.task = k.task /\ m.wait_for = k.wait_for
    BY DEF Arms, Alike
<1>2. \A t \in Servers : m.srv[t].saved.state \in {k.srv[t].saved.state, k.task[t].state}
    BY DEF Arms, OneServer
<1> QED BY <1>1, <1>2, WaitsPlain

\* A request is closed.
LEMMA WaitsCloses ==
    ASSUME NEW k, NEW m, NEW s \in Servers, WaitsOK(k), Closes(k, m, s)
    PROVE  WaitsOK(m)
<1>1. m.task = k.task /\ m.wait_for = k.wait_for
    BY DEF Closes, Alike
<1>2. \A t \in Servers : m.srv[t].saved.state = k.srv[t].saved.state
    BY DEF Closes, OneServer
<1> QED BY <1>1, <1>2, WaitsPlain

\* A request is accepted.
LEMMA WaitsAsks ==
    ASSUME NEW k, NEW m, NEW c \in Cores, NEW s \in Servers, NEW ret, WaitsOK(k), Asks(k, m, c, s, ret)
    PROVE  WaitsOK(m)
<1>1. m.task = k.task /\ m.wait_for = k.wait_for
    BY DEF Asks
<1>2. \A t \in Servers : m.srv[t].saved.state = k.srv[t].saved.state
    BY DEF Asks, OneServer
<1> QED BY <1>1, <1>2, WaitsPlain

\* A task is put into another state.
LEMMA WaitsRetasks ==
    ASSUME NEW k, NEW m, NEW p \in Procs, NEW state, WaitsOK(k), Retasks(k, m, p, state), Live(k, p),
           state # "ZOMBIE",
           state = "WAIT" => p \notin Servers /\ m.wait_for[p] \in Procs /\ Live(k, m.wait_for[p])
    PROVE  WaitsOK(m)
<1>1. SameLife(k, m)
    BY DEF SameLife, Retasks, Live, proc_get
<1>2. m.srv = k.srv /\ \A q \in Procs \ {p} : m.task[q] = k.task[q] /\ m.wait_for[q] = k.wait_for[q]
    BY DEF Retasks, Steady
<1>3. m.task[p].state = state
    BY DEF Retasks
<1> QED BY <1>1, <1>2, <1>3 DEF WaitsOK, SameLife

\* The main context is put back: it did not wait.
LEMMA WaitsRestores ==
    ASSUME NEW k, NEW m, NEW s \in Servers, NEW state, WaitsOK(k), Restores(k, m, s, state), Live(k, s),
           state \notin {"ZOMBIE", "WAIT"}
    PROVE  WaitsOK(m)
<1>1. SameLife(k, m)
    BY RestoresLive DEF SameLife
<1>2. /\ m.wait_for = k.wait_for /\ m.task[s].state = state
      /\ \A p \in Procs \ {s} : m.task[p] = k.task[p]
    BY DEF Restores
<1>3. \A t \in Servers : m.srv[t].saved.state \in {k.srv[t].saved.state, "UNUSED"}
    BY NoSavedFacts DEF Restores, OneServer
<1> QED BY <1>1, <1>2, <1>3, WaitsKept DEF Waitless

\* A process dies: whoever waits for it is woken (proc_wakeup_waiting).
LEMMA WaitsTerminates ==
    ASSUME NEW k, NEW m, NEW p \in Procs, WaitsOK(k), Terminates(k, m, p)
    PROVE  WaitsOK(m)
<1>1. ASSUME NEW q \in Procs PROVE Live(m, q) <=> Live(k, q) /\ q # p
    BY DEF Terminates, Live, proc_get
<1>2. ASSUME NEW q \in Procs, m.task[q].state = "WAIT"
      PROVE  k.task[q].state = "WAIT" /\ m.wait_for[q] = k.wait_for[q] /\ k.wait_for[q] # p
    BY <1>2 DEF Terminates
<1>3. \A s \in Servers : m.srv[s].saved.state = "WAIT" => k.srv[s].saved.state = "WAIT"
    BY DEF Terminates
<1> QED BY <1>1, <1>2, <1>3 DEF WaitsOK

\* A core is given away.
LEMMA WaitsDispatches ==
    ASSUME NEW k, NEW m, NEW c \in Cores, WaitsOK(k), Dispatches(k, m, c)
    PROVE  WaitsOK(m)
<1>1. PICK to \in Procs \cup {NoProc} : /\ Switches(k, m, c, to)
                                        /\ to # NoProc => k.task[to].state \in Runnable
    BY DEF Dispatches
<1>2. to # NoProc => Live(k, to)
    BY <1>1 DEF Runnable, Live, proc_get
<1> QED BY <1>1, <1>2, WaitsSwitches

\* A task is parked, or goes on.
LEMMA WaitsBlocks ==
    ASSUME NEW k, NEW m, NEW c \in Cores, WaitsOK(k), Running(k, c), Blocks(k, m, c)
    PROVE  WaitsOK(m)
<1>1. PICK n \in Kernels, state \in {"BLOCK", "RUNNING", k.task[k.cur[c]].state} :
         /\ Retasks(k, n, k.cur[c], state) /\ Alike(k, n)
         /\ IF state = "BLOCK" THEN Dispatches(n, m, c) ELSE m = n
    BY DEF Blocks
<1>2. k.cur[c] \in Procs /\ Live(k, k.cur[c]) /\ state # "ZOMBIE"
    BY <1>1 DEF Running, Live, proc_get
<1>3. state = "WAIT" => k.cur[c] \notin Servers /\ n.wait_for[k.cur[c]] \in Procs /\ Live(k, n.wait_for[k.cur[c]])
    <2>1. n.wait_for = k.wait_for
        BY <1>1 DEF Alike
    <2> QED BY <1>1, <1>2, <2>1 DEF WaitsOK
<1>4. WaitsOK(n)
    BY <1>1, <1>2, <1>3, WaitsRetasks
<1> QED BY <1>1, <1>4, WaitsDispatches

\* A core is handed over.
LEMMA WaitsHands ==
    ASSUME NEW k, NEW m, NEW c \in Cores, NEW to \in Procs, WaitsOK(k), Live(k, to), Hands(k, m, c, to)
    PROVE  WaitsOK(m)
<1>1. PICK n \in Kernels :
         /\ Eases(k, n, {to}) \/ (n = k /\ k.task[to].state = "RUNNING")
         /\ Core[to] = c => Switches(n, m, c, to)
         /\ Core[to] # c => m = n
    BY DEF Hands
<1>2. WaitsOK(n) /\ Live(n, to)
    BY <1>1, WaitsEases, EasesLive
<1> QED BY <1>1, <1>2, WaitsSwitches

\* A request is dispatched.
LEMMA WaitsStarts ==
    ASSUME NEW k, NEW m, NEW c \in Cores, NEW s \in Servers, WaitsOK(k), Live(k, s), Starts(k, m, c, s)
    PROVE  WaitsOK(m)
<1>1. PICK n \in Kernels : Arms(k, n, s, FALSE) /\ Hands(n, m, c, s)
    BY DEF Starts
<1>2. WaitsOK(n)
    BY <1>1, WaitsArms
<1>3. Live(n, s) /\ s \in Procs
    BY <1>1, Constants DEF Arms, Live
<1> QED BY <1>1, <1>2, <1>3, WaitsHands

\* proc_ipc_call()
LEMMA WaitsCalls ==
    ASSUME NEW k, NEW m, NEW c \in Cores, NEW s \in Servers, NEW ret, WaitsOK(k), Running(k, c),
           CallEffect(k, m, c, s, ret)
    PROVE  WaitsOK(m)
<1>1. CASE Reframes(k, m, c, Back(k.frame[c]))
    BY <1>1, WaitsReframes
<1>2. CASE \E k1, k2 \in Kernels : /\ Reframes(k, k1, c, Calling(k.frame[c], s, ret))
                                   /\ Queueing(k1, k2, {k.cur[c]}) /\ Blocks(k2, m, c)
    <2>1. PICK k1, k2 \in Kernels : /\ Reframes(k, k1, c, Calling(k.frame[c], s, ret))
                                    /\ Queueing(k1, k2, {k.cur[c]}) /\ Blocks(k2, m, c)
        BY <1>2
    <2>2. WaitsOK(k1)
        BY <2>1, WaitsReframes
    <2>3. WaitsOK(k2)
        BY <2>1, <2>2, WaitsQueueing
    <2>4. Running(k2, c)
        BY <2>1 DEF Running, Reframes, Steady, Queueing, Alike, Live
    <2> QED BY <2>1, <2>3, <2>4, WaitsBlocks
<1>3. CASE /\ Live(k, s)
           /\ \E k1 \in Kernels : /\ Asks(k, k1, c, s, ret)
                                  /\ IF k.srv[s].ring = <<>> THEN Starts(k1, m, c, s) ELSE m = k1
    <2>1. PICK k1 \in Kernels : /\ Asks(k, k1, c, s, ret)
                                /\ IF k.srv[s].ring = <<>> THEN Starts(k1, m, c, s) ELSE m = k1
        BY <1>3
    <2>2. WaitsOK(k1)
        BY <2>1, WaitsAsks
    <2>3. Live(k1, s)
        BY <1>3, <2>1 DEF Asks, Live
    <2> QED BY <2>1, <2>2, <2>3, WaitsStarts
<1> QED BY <1>1, <1>2, <1>3 DEF CallEffect

\* proc_ipc_end()
LEMMA WaitsEnds ==
    ASSUME NEW k, NEW m, NEW c \in Cores, BaseInv(k), WaitsOK(k), Running(k, c), k.cur[c] \in Servers,
           k.srv[k.cur[c]].ring # <<>>, EndEffect(k, m, c)
    PROVE  WaitsOK(m)
<1> DEFINE s == k.cur[c]
           r == Head(k.srv[s].ring)
           state == Continued(k.srv[s].saved.state)
<1>0. PICK k1, k2, k3 \in Kernels, Q \in SUBSET Procs : EndStates(k, m, c, k1, k2, k3, Q)
    BY EndChain
<1>1. BaseInv(k3) /\ SameLife(k, k3) /\ Live(k, s) /\ s \in Servers
    BY <1>0, EndBase DEF Running
<1>2. state \notin {"ZOMBIE", "WAIT"}
    BY DEF Continued, Runnable, BaseInv, DeadOK, WaitsOK
<1>3. Restores(k, k1, s, state) /\ Closes(k1, k2, s) /\ Eases(k2, k3, Q)
    BY <1>0 DEF EndStates, Finishes
<1> HIDE DEF state
<1>4. WaitsOK(k1)
    BY <1>1, <1>2, <1>3, WaitsRestores
<1>5. WaitsOK(k3)
    BY <1>1, <1>3, <1>4, WaitsCloses, WaitsEases
<1>6. CASE k3.srv[s].ring # <<>>
    <2>1. Starts(k3, m, c, s)
        BY <1>0, <1>6 DEF EndStates
    <2>2. Live(k3, s)
        BY <1>1, Constants DEF SameLife
    <2> QED BY <1>1, <1>5, <2>1, <2>2, WaitsStarts
<1>7. CASE Dispatches(k3, m, c)
    BY <1>5, <1>7, WaitsDispatches
<1>8. CASE \E to \in ToWake(k, r) : Core[to] = c /\ Hands(k3, m, c, to)
    <2>0. k.srv[s] \in ServerRecords
        BY <1>1, KernelFields DEF BaseInv
    <2>1. r.client \in Procs
        BY <2>0, HeadFacts
    <2>2. PICK to \in ToWake(k, r) : Hands(k3, m, c, to)
        BY <1>8
    <2>3. to \in Procs /\ Live(k, to)
        BY <2>1, <2>2, ClientFacts
    <2>4. Live(k3, to)
        BY <1>1, <2>3 DEF SameLife
    <2> QED BY <1>5, <2>2, <2>3, <2>4, WaitsHands
<1> QED BY <1>0, <1>6, <1>7, <1>8 DEF EndStates

\* proc_ipc_timeout()
LEMMA WaitsTimeouts ==
    ASSUME NEW k, NEW m, NEW s \in Servers, BaseInv(k), WaitsOK(k), Watchdog, k.srv[s].ring # <<>>,
           TimeoutEffect(k, m, s)
    PROVE  WaitsOK(m)
<1>0. PICK k1, k2, k3, k4, k5, k6 \in Kernels, Q \in SUBSET Procs :
          TimeoutStates(k, m, s, k1, k2, k3, k4, k5, k6, Q)
    BY TimeoutChain
<1> DEFINE state == k.srv[s].saved.state
<1>1. /\ Restores(k, k1, s, state) /\ (Eases(k1, k2, {s}) \/ k2 = k1)
      /\ Closes(k2, k3, s) /\ Quiet(k3, k4) /\ Eases(k4, k5, Q) /\ Rearms(k5, k6, s) /\ Quiet(k6, m)
    BY <1>0 DEF TimeoutStates, Recalls
<1>2. state \notin {"ZOMBIE", "WAIT"} /\ Live(k, s)
    BY DEF BaseInv, DeadOK, WaitsOK
<1> HIDE DEF state
<1>3. WaitsOK(k1)
    BY <1>1, <1>2, WaitsRestores
<1>4. WaitsOK(k3)
    BY <1>1, <1>3, WaitsEases, WaitsCloses
<1>5. WaitsOK(k5)
    BY <1>1, <1>4, WaitsQuiet, WaitsEases
<1>6. WaitsOK(k6)
    <2>1. CASE k5.srv[s].ring = <<>>
        BY <1>1, <1>5, <2>1 DEF Rearms
    <2>2. CASE k5.srv[s].ring # <<>>
        <3>1. PICK n \in Kernels : /\ Arms(k5, n, s, k5.srv[s].restore_pending)
                                   /\ Eases(n, k6, {s}) \/ k6 = n
            BY <1>1, <2>2 DEF Rearms
        <3> QED BY <1>5, <3>1, WaitsArms, WaitsEases
    <2> QED BY <2>1, <2>2
<1> QED BY <1>1, <1>6, WaitsQuiet

\* A pid is used again.
LEMMA WaitsSpawns ==
    ASSUME NEW k, NEW m, BaseInv(k), WaitsOK(k), BySpawn(k, m)
    PROVE  WaitsOK(m)
<1>1. PICK p \in Procs :
       /\ ~Live(k, p)
       /\ m.task = [k.task EXCEPT ![p] = NewTask("READY")]
       /\ m.wait_for = [k.wait_for EXCEPT ![p] = NoProc]
       /\ \A s \in Servers : m.srv[s] = IF s = p THEN NewServer ELSE k.srv[s]
    BY DEF BySpawn
<1>2. k.task \in [Procs -> Tasks] /\ k.wait_for \in [Procs -> Procs \cup {NoProc}]
    BY KernelFields DEF BaseInv
<1>3. m.task[p].state = "READY"
    BY <1>1, <1>2 DEF NewTask
<1>4. \A q \in Procs \ {p} : m.task[q] = k.task[q] /\ m.wait_for[q] = k.wait_for[q]
    BY <1>1, <1>2
<1>5. \A q \in Procs : Live(k, q) => Live(m, q)
    BY <1>1, <1>4 DEF Live
<1>6. \A s \in Servers : m.srv[s].saved.state \in {"UNUSED", k.srv[s].saved.state}
    <2>1. NewServer.saved.state = "UNUSED"
        BY DEF NewServer, NoSaved
    <2> HIDE DEF NewServer
    <2> QED BY <1>1, <2>1
<1> QED BY <1>3, <1>4, <1>5, <1>6 DEF WaitsOK

\* Every step keeps the invariant, if no server waits for a process.
LEMMA WaitsEffect ==
    ASSUME NEW k, NEW m, "reap" \notin MainOps, BaseInv(k), WaitsOK(k), Effect(k, m)
    PROVE  WaitsOK(m)
<1>1. CASE ByCall(k, m)
    <2>1. PICK c \in Cores, k0 \in Kernels, s \in Servers, ret \in BOOLEAN :
             Running(k, c) /\ Quiet(k, k0) /\ CallEffect(k0, m, c, s, ret)
        BY <1>1 DEF ByCall
    <2>2. WaitsOK(k0)
        BY <2>1, WaitsQuiet
    <2>3. Running(k0, c)
        BY <2>1 DEF Running, Quiet, Steady, Live
    <2> QED BY <2>1, <2>2, <2>3, WaitsCalls
<1>2. CASE BySchedule(k, m)
    <2>1. PICK c \in Cores, k0 \in Kernels : Quiet(k, k0) /\ Dispatches(k0, m, c)
        BY <1>2 DEF BySchedule
    <2> QED BY <2>1, WaitsQuiet, WaitsDispatches
<1>3. CASE ByBlock(k, m)
    <2>1. PICK c \in Cores, k0 \in Kernels : Running(k, c) /\ Quiet(k, k0) /\ Blocks(k0, m, c)
        BY <1>3 DEF ByBlock
    <2>2. WaitsOK(k0)
        BY <2>1, WaitsQuiet
    <2>3. Running(k0, c)
        BY <2>1 DEF Running, Quiet, Steady, Live
    <2> QED BY <2>1, <2>2, <2>3, WaitsBlocks
<1>4. CASE ByCode(k, m)
    <2>1. PICK c \in Cores, g \in Contexts : Reframes(k, m, c, g)
        BY <1>4 DEF ByCode
    <2> QED BY <2>1, WaitsReframes
<1>5. CASE BySleep(k, m)
    <2>1. PICK c \in Cores, k0 \in Kernels, state \in {"SLEEPING", "WAIT"} :
             /\ Running(k, c) /\ Retasks(k, k0, k.cur[c], state) /\ Dispatches(k0, m, c)
             /\ state = "WAIT" => /\ k.cur[c] \in Servers => "reap" \in MainOps
                                  /\ k0.wait_for[k.cur[c]] \in Procs /\ Live(k, k0.wait_for[k.cur[c]])
        BY <1>5 DEF BySleep
    <2>2. WaitsOK(k0)
        BY <2>1, WaitsRetasks DEF Running
    <2> QED BY <2>1, <2>2, WaitsDispatches
<1>6. CASE ByQueue(k, m)
    <2>1. PICK k0, k1 \in Kernels, Q \in SUBSET Procs :
             Quiet(k, k0) /\ Queueing(k0, k1, {}) /\ Eases(k1, m, Q)
        BY <1>6 DEF ByQueue
    <2>2. WaitsOK(k1)
        BY <2>1, WaitsQuiet, WaitsQueueing
    <2> QED BY <2>1, <2>2, WaitsEases
<1>7. CASE ByTimer(k, m)
    <2>1. PICK p \in Procs : k.task[p].state \in {"SLEEPING", "BLOCK"} /\ Retasks(k, m, p, "READY")
        BY <1>7 DEF ByTimer
    <2>2. Live(k, p)
        BY <2>1 DEF Live, proc_get
    <2> QED BY <2>1, <2>2, WaitsRetasks
<1>8. CASE ByEvent(k, m)
    <2>1. PICK p \in Servers, k1 \in Kernels : Eases(k, k1, {p}) /\ Quiet(k1, m)
        BY <1>8 DEF ByEvent
    <2> QED BY <2>1, WaitsEases, WaitsQuiet
<1>9. CASE ByEnd(k, m)
    <2>1. PICK c \in Cores, k0 \in Kernels :
             /\ Running(k, c) /\ k.cur[c] \in Servers /\ Quiet(k, k0)
             /\ IF k.srv[k.cur[c]].ring = <<>> THEN m = k0 ELSE EndEffect(k0, m, c)
        BY <1>9 DEF ByEnd
    <2>2. BaseInv(k0) /\ WaitsOK(k0)
        BY <2>1, BaseQuiet, WaitsQuiet
    <2>3. Running(k0, c) /\ k0.cur[c] = k.cur[c] /\ k0.srv = k.srv
        BY <2>1 DEF Running, Quiet, Steady, Live
    <2> QED BY <2>1, <2>2, <2>3, WaitsEnds
<1>10. CASE ByTimeout(k, m)
    <2>1. PICK s \in Servers, k0 \in Kernels :
             /\ Watchdog /\ k.srv[s].ring # <<>> /\ TimeoutEffect(k, k0, s) /\ Dispatches(k0, m, 0)
        BY <1>10 DEF ByTimeout
    <2>2. WaitsOK(k0)
        BY <2>1, WaitsTimeouts
    <2>3. 0 \in Cores
        BY Constants
    <2> QED BY <2>1, <2>2, <2>3, WaitsDispatches
<1>11. CASE ByDeath(k, m)
    <2>1. PICK p \in Procs, c \in Cores, k0, k1 \in Kernels :
             Quiet(k, k0) /\ Terminates(k0, k1, p) /\ Dispatches(k1, m, c)
        BY <1>11 DEF ByDeath
    <2>2. WaitsOK(k1)
        BY <2>1, WaitsQuiet, WaitsTerminates
    <2> QED BY <2>1, <2>2, WaitsDispatches
<1>12. CASE BySpawn(k, m)
    BY <1>12, WaitsSpawns
<1> QED BY <1>1, <1>2, <1>3, <1>4, <1>5, <1>6, <1>7, <1>8, <1>9, <1>10, <1>11, <1>12 DEF Effect

\* Nobody waits at the start.
LEMMA WaitsInit == Init => WaitsOK(kernel)
<1> SUFFICES ASSUME Init PROVE WaitsOK(kernel)
    OBVIOUS
<1>1. \A p \in Procs : kernel.task[p].state = "READY"
    BY InitKernel DEF NewTask
<1>2. \A s \in Servers : kernel.srv[s].saved.state = "UNUSED"
    BY InitKernel DEF NewServer, NoSaved
<1> QED BY <1>1, <1>2 DEF WaitsOK

\* proc_wakeup_waiting: a process asleep in waitpid() waits for a living one,
\* whoever dies and is started again, as long as no server (whose sleep a
\* request suspends) is among the waiters.
THEOREM WaitersWaitForTheLiving == "reap" \notin MainOps /\ Spec => []WaitsForLiving
<1> SUFFICES ASSUME "reap" \notin MainOps PROVE Spec => []WaitsForLiving
    OBVIOUS
<1>1. BaseInv(kernel) /\ WaitsOK(kernel) /\ [Next]_kernel => WaitsOK(kernel)'
    <2>1. ASSUME BaseInv(kernel), WaitsOK(kernel), Next PROVE WaitsOK(kernel')
        BY <2>1, NextEffect, WaitsEffect
    <2> QED BY <2>1
<1>2. WaitsOK(kernel) => WaitsForLiving
    BY DEF WaitsOK, WaitsForLiving
<1> QED BY WaitsInit, <1>1, <1>2, BaseHolds, PTL DEF Spec

-----------------------------------------------------------------------------
(* Service: what a server executes, and what its ring says.                 *)

\* The invariant without the servers X and the cores C.
Serviced(k, X, C) == Served(k, X) /\ Framed(k, Cores \ C) /\ Used(k)

\* The main context of s is put back, and no request is armed yet.
Between(k, s) ==
    /\ Serviced(k, {s}, {Core[s]})
    /\ ~k.srv[s].do_switch /\ Resumes(k, s).mode = "main"

\* A step that leaves contexts and requests alone.
SameWork(k, m) ==
    /\ m.cur = k.cur /\ m.ctx = k.ctx
    /\ \A x \in Cores : m.frame[x].mode = k.frame[x].mode /\ m.frame[x].serving = k.frame[x].serving
    /\ \A p \in Procs : m.task[p].state = "UNUSED" => k.task[p].state = "UNUSED"
    /\ \A s \in Servers : Live(m, s) =>
          /\ Live(k, s)
          /\ m.srv[s].ring = k.srv[s].ring /\ m.srv[s].do_switch = k.srv[s].do_switch
          /\ m.srv[s].restore_pending = k.srv[s].restore_pending
          /\ m.srv[s].saved.ctx = k.srv[s].saved.ctx
          /\ m.srv[s].saved.state \in {k.srv[s].saved.state, "READY"}

\* ServedOK() looks at nothing else.
LEMMA ServedSame ==
    ASSUME NEW v, NEW w, NEW f, NEW g, w.ring = v.ring, w.do_switch = v.do_switch,
           g.mode = f.mode, g.serving = f.serving
    PROVE  /\ Fits(v, f) => Fits(w, g)
           /\ ServedOK(v, f) /\ w.saved.ctx = v.saved.ctx
              /\ w.saved.state \in {v.saved.state, "READY"} => ServedOK(w, g)
<1>1. Fits(v, f) => Fits(w, g)
    BY DEF Fits, InService
<1> QED BY <1>1 DEF ServedOK, InService, States

\* Such steps keep the invariant, also where it is interrupted.
LEMMA ServiceSame ==
    ASSUME NEW k, NEW m, SameWork(k, m), NEW X, NEW C
    PROVE  /\ Serviced(k, X, C) => Serviced(m, X, C)
           /\ \A s \in Servers : Between(k, s) /\ Live(m, s) => Between(m, s)
<1>0. Servers \subseteq Procs /\ \A s \in Servers : Core[s] \in Cores
    BY Constants
<1>1. ASSUME NEW s \in Servers, Live(m, s)
      PROVE  Resumes(m, s).mode = Resumes(k, s).mode /\ Resumes(m, s).serving = Resumes(k, s).serving
    BY <1>0, <1>1 DEF Resumes, SameWork
<1>2. ASSUME NEW Y, Served(k, Y) PROVE Served(m, Y)
    <2> SUFFICES ASSUME NEW s \in Servers \ Y, Live(m, s) PROVE ServedOK(m.srv[s], Resumes(m, s))
        BY DEF Served
    <2>1. ServedOK(k.srv[s], Resumes(k, s))
        BY <1>2 DEF Served, SameWork
    <2>2. /\ m.srv[s].ring = k.srv[s].ring /\ m.srv[s].do_switch = k.srv[s].do_switch
          /\ m.srv[s].saved.ctx = k.srv[s].saved.ctx
          /\ m.srv[s].saved.state \in {k.srv[s].saved.state, "READY"}
        BY DEF SameWork
    <2> QED BY <1>1, <2>1, <2>2, ServedSame
<1>3. ASSUME NEW D, Framed(k, D), D \subseteq Cores PROVE Framed(m, D)
    <2> SUFFICES ASSUME NEW x \in D, m.cur[x] \in Servers, Live(m, m.cur[x])
                 PROVE  Fits(m.srv[m.cur[x]], m.frame[x])
        BY DEF Framed
    <2>1. k.cur[x] = m.cur[x] /\ Live(k, m.cur[x])
        BY DEF SameWork
    <2>2. Fits(k.srv[m.cur[x]], k.frame[x])
        BY <1>3, <2>1 DEF Framed
    <2>3. /\ m.srv[m.cur[x]].ring = k.srv[m.cur[x]].ring /\ m.srv[m.cur[x]].do_switch = k.srv[m.cur[x]].do_switch
          /\ m.frame[x].mode = k.frame[x].mode /\ m.frame[x].serving = k.frame[x].serving
        BY <1>3 DEF SameWork
    <2> QED BY <2>2, <2>3, ServedSame
<1>4. Used(k) => Used(m)
    BY DEF Used, SameWork
<1>5. ASSUME NEW Y, NEW D, Serviced(k, Y, D) PROVE Serviced(m, Y, D)
    BY <1>2, <1>3, <1>4, <1>5 DEF Serviced
<1>6. ASSUME NEW s \in Servers, Between(k, s), Live(m, s) PROVE Between(m, s)
    <2>1. m.srv[s].do_switch = k.srv[s].do_switch
        BY <1>6 DEF SameWork
    <2> QED BY <1>1, <1>5, <1>6, <2>1 DEF Between
<1> QED BY <1>5, <1>6

\* The steps of this kind.
LEMMA SameWorkSteps ==
    ASSUME NEW k, NEW m
    PROVE  /\ \A Q : Eases(k, m, Q) => SameWork(k, m)
           /\ Quiet(k, m) => SameWork(k, m)
           /\ \A P : Queueing(k, m, P) => SameWork(k, m)
           /\ \A p \in Procs : \A state : Retasks(k, m, p, state) /\ Live(k, p) /\ state # "UNUSED" => SameWork(k, m)
           /\ \A p \in Procs : Terminates(k, m, p) => SameWork(k, m)
<1>0. Servers \subseteq Procs
    BY Constants
<1>1. ASSUME NEW Q, Eases(k, m, Q) PROVE SameWork(k, m)
    <2>1. ASSUME NEW s \in Servers
          PROVE  /\ m.srv[s].ring = k.srv[s].ring /\ m.srv[s].do_switch = k.srv[s].do_switch
                 /\ m.srv[s].restore_pending = k.srv[s].restore_pending
                 /\ m.srv[s].saved.ctx = k.srv[s].saved.ctx
                 /\ m.srv[s].saved.state \in {k.srv[s].saved.state, "READY"}
        BY <1>1 DEF Eases, EasedServer
    <2>2. \A p \in Procs : m.task[p].state = "UNUSED" => k.task[p].state = "UNUSED"
        BY <1>1 DEF Eases
    <2>3. m.cur = k.cur /\ m.ctx = k.ctx /\ m.frame = k.frame
        BY <1>1 DEF Eases, Alike
    <2> QED BY <1>0, <1>1, <2>1, <2>2, <2>3, EasesLive DEF SameWork
<1>2. ASSUME Quiet(k, m) PROVE SameWork(k, m)
    BY <1>2 DEF Quiet, Steady, SameWork, Live
<1>3. ASSUME NEW P, Queueing(k, m, P) PROVE SameWork(k, m)
    BY <1>3 DEF Queueing, Alike, SameWork, Live
<1>4. ASSUME NEW p \in Procs, NEW state, Retasks(k, m, p, state), Live(k, p), state # "UNUSED"
      PROVE  SameWork(k, m)
    <2>1. m.cur = k.cur /\ m.ctx = k.ctx /\ m.frame = k.frame /\ m.srv = k.srv
        BY <1>4 DEF Retasks, Steady
    <2>2. ASSUME NEW q \in Procs PROVE (m.task[q].state = "UNUSED" => k.task[q].state = "UNUSED")
                                       /\ (Live(m, q) => Live(k, q))
        BY <1>4 DEF Retasks, Live
    <2> QED BY <1>0, <2>1, <2>2 DEF SameWork
<1>5. ASSUME NEW p \in Procs, Terminates(k, m, p) PROVE SameWork(k, m)
    <2>1. m.cur = k.cur /\ m.ctx = k.ctx /\ m.frame = k.frame
        BY <1>5 DEF Terminates
    <2>2. ASSUME NEW q \in Procs PROVE (m.task[q].state = "UNUSED" => k.task[q].state = "UNUSED")
                                       /\ (Live(m, q) => Live(k, q) /\ q # p)
        BY <1>5 DEF Terminates, Live, proc_get
    <2>3. ASSUME NEW s \in Servers, s # p
          PROVE  /\ m.srv[s].ring = k.srv[s].ring /\ m.srv[s].do_switch = k.srv[s].do_switch
                 /\ m.srv[s].restore_pending = k.srv[s].restore_pending
                 /\ m.srv[s].saved.ctx = k.srv[s].saved.ctx
                 /\ m.srv[s].saved.state \in {k.srv[s].saved.state, "READY"}
        BY <1>5, <2>3 DEF Terminates, EasedServer
    <2> QED BY <1>0, <2>1, <2>2, <2>3 DEF SameWork
<1> QED BY <1>1, <1>2, <1>3, <1>4, <1>5

\* User code keeps its mode and its request.
LEMMA SameWorkReframes ==
    ASSUME NEW k, NEW m, NEW c \in Cores, NEW f, k.frame \in [Cores -> Contexts], Reframes(k, m, c, f),
           f.mode = k.frame[c].mode, f.serving = k.frame[c].serving
    PROVE  SameWork(k, m)
<1>1. \A x \in Cores : m.frame[x] = IF x = c THEN f ELSE k.frame[x]
    BY DEF Reframes
<1> QED BY <1>1 DEF Reframes, Steady, SameWork, Live

\* What a task resumes is what a switch stores.
LEMMA StoredResumes ==
    ASSUME NEW k, NEW c \in Cores, NEW s \in Servers, CurOK(k), Live(k, s), k.cur[c] \in Procs \cup {NoProc}
    PROVE  Core[s] = c \/ s = k.cur[c] => Stored(k, c, s) = Resumes(k, s)
BY Constants DEF CurOK, Stored, Resumes

\* A switch turns an armed server into a handler, and mends the frame of its core.
LEMMA ServiceSwitches ==
    ASSUME NEW k, NEW m, NEW c \in Cores, NEW to \in Procs \cup {NoProc}, BaseInv(k),
           Serviced(k, {}, {c}), Switches(k, m, c, to), to # NoProc => Core[to] = c /\ Live(k, to)
    PROVE  ServiceInv(m)
<1>0. /\ Servers \subseteq Procs /\ NoProc \notin Procs /\ k \in Kernels /\ CurOK(k)
      /\ k.cur \in [Cores -> Procs \cup {NoProc}] /\ \A s \in Servers : Core[s] \in Cores
    BY Constants, KernelFields DEF BaseInv
<1>1. \A s \in Servers : Live(m, s) <=> Live(k, s)
    BY <1>0, SwitchesLive
<1>2. /\ m.cur = [k.cur EXCEPT ![c] = to]
      /\ \A x \in Cores \ {c} : m.frame[x] = k.frame[x]
      /\ m.frame[c] = IF to = NoProc THEN ZeroCtx ELSE m.ctx[to]
      /\ \A p \in Procs : m.ctx[p] = IF p = to /\ Injected(k, to) THEN HandlerCtx(Head(k.srv[to].ring).uid)
                                     ELSE Stored(k, c, p)
    BY DEF Switches
<1>3. \A x \in Cores : m.cur[x] = IF x = c THEN to ELSE k.cur[x]
    BY <1>0, <1>2
<1>4. ASSUME NEW s \in Servers
      PROVE  /\ m.srv[s].ring = k.srv[s].ring /\ m.srv[s].saved.state = k.srv[s].saved.state
             /\ m.srv[s].do_switch <=> k.srv[s].do_switch /\ s # to
             /\ m.srv[s].restore_pending <=> k.srv[s].restore_pending /\ ~(s = k.cur[c] /\ Live(k, s))
             /\ m.srv[s].saved.ctx = IF s = to /\ Injected(k, to) THEN Stored(k, c, s)
                                     ELSE k.srv[s].saved.ctx
    BY DEF Switches, SameService
<1>5. \A s \in Servers : Live(k, s) => ServedOK(k.srv[s], Resumes(k, s))
    BY DEF Serviced, Served
<1>6. \A u : HandlerCtx(u).mode = "handler" /\ HandlerCtx(u).serving = u
    BY DEF HandlerCtx, Context
<1>7. ASSUME NEW s \in Servers, Live(k, s), s = to
      PROVE  /\ Resumes(m, s) = m.ctx[s] /\ ServedOK(m.srv[s], m.ctx[s])
    <2>0. Core[s] = c /\ Stored(k, c, s) = Resumes(k, s)
        BY <1>0, <1>7, StoredResumes
    <2>1. Resumes(m, s) = m.ctx[s]
        BY <1>0, <1>2, <1>3, <1>7, <2>0 DEF Resumes
    <2>2. CASE Injected(k, to)
        <3>1. m.ctx[s] = HandlerCtx(Head(k.srv[s].ring).uid) /\ m.srv[s].saved.ctx = Resumes(k, s)
            BY <1>0, <1>2, <1>4, <1>7, <2>0, <2>2
        <3>2. k.srv[s].do_switch /\ k.srv[s].ring # <<>>
            BY <1>7, <2>2 DEF Injected
        <3>3. Resumes(k, s).mode = "main" /\ k.srv[s].saved.state \in States \ {"ZOMBIE"}
            BY <1>5, <1>7, <3>2 DEF ServedOK, Fits, InService
        <3>4. InService(m.srv[s])
            BY <1>4, <1>7, <3>2 DEF InService
        <3>5. Fits(m.srv[s], m.ctx[s])
            BY <1>4, <1>6, <3>1, <3>4 DEF Fits
        <3> QED BY <1>4, <1>7, <2>1, <3>1, <3>3, <3>5 DEF ServedOK
    <2>3. CASE ~Injected(k, to)
        <3>1. m.ctx[s] = Resumes(k, s) /\ m.srv[s].saved.ctx = k.srv[s].saved.ctx
            BY <1>0, <1>2, <1>4, <1>7, <2>0, <2>3
        <3>2. ServedOK(k.srv[s], m.ctx[s])
            BY <1>5, <1>7, <3>1
        <3>3. ~k.srv[s].do_switch /\ ~m.srv[s].do_switch
            BY <1>4, <1>7, <2>3, <3>2 DEF Injected, ServedOK
        <3> QED BY <1>4, <2>1, <3>1, <3>2, <3>3 DEF ServedOK, Fits, InService
    <2> QED BY <2>2, <2>3
<1>8. ASSUME NEW s \in Servers, Live(k, s), s # to
      PROVE  ServedOK(m.srv[s], Resumes(m, s))
    <2>1. Resumes(m, s) = Resumes(k, s)
        <3>1. CASE Core[s] = c
            <4>1. m.cur[c] # s /\ m.ctx[s] = Stored(k, c, s)
                BY <1>0, <1>2, <1>3, <1>8
            <4>2. Stored(k, c, s) = Resumes(k, s)
                BY <1>0, <1>8, <3>1, StoredResumes
            <4> QED BY <3>1, <4>1, <4>2 DEF Resumes
        <3>2. CASE Core[s] # c
            <4>1. s # k.cur[c]
                BY <1>0, <3>2 DEF CurOK
            <4>2. m.ctx[s] = k.ctx[s]
                BY <1>0, <1>2, <1>8, <4>1 DEF Stored
            <4>3. m.cur[Core[s]] = k.cur[Core[s]] /\ m.frame[Core[s]] = k.frame[Core[s]]
                BY <1>0, <1>2, <1>3, <3>2
            <4>4. m.srv[s].restore_pending <=> k.srv[s].restore_pending
                BY <1>4, <4>1
            <4> QED BY <4>2, <4>3, <4>4 DEF Resumes
        <3> QED BY <3>1, <3>2
    <2>2. ServedOK(k.srv[s], Resumes(m, s))
        BY <1>5, <1>8, <2>1
    <2>3. m.srv[s].do_switch <=> k.srv[s].do_switch
        BY <1>4, <1>8
    <2>4. m.srv[s].saved.ctx = k.srv[s].saved.ctx
        BY <1>4, <1>8
    <2> QED BY <1>4, <2>2, <2>3, <2>4 DEF ServedOK, Fits, InService
<1>9. Served(m, {})
    BY <1>1, <1>7, <1>8 DEF Served
<1>10. Framed(m, Cores)
    <2> SUFFICES ASSUME NEW x \in Cores, m.cur[x] \in Servers, Live(k, m.cur[x])
                 PROVE  Fits(m.srv[m.cur[x]], m.frame[x])
        BY <1>1 DEF Framed
    <2>1. CASE x = c
        <3>1. m.cur[x] = to /\ to \in Servers /\ m.frame[x] = m.ctx[to]
            BY <1>0, <1>2, <1>3, <2>1
        <3> QED BY <1>7, <3>1 DEF ServedOK
    <2>2. CASE x # c
        <3>1. m.cur[x] = k.cur[x] /\ m.frame[x] = k.frame[x]
            BY <1>2, <1>3, <2>2
        <3>2. k.cur[x] # to
            BY <1>0, <2>2, <3>1 DEF CurOK
        <3>3. Fits(k.srv[k.cur[x]], k.frame[x])
            BY <2>2, <3>1 DEF Serviced, Framed
        <3>4. m.srv[k.cur[x]].ring = k.srv[k.cur[x]].ring
              /\ (m.srv[k.cur[x]].do_switch <=> k.srv[k.cur[x]].do_switch)
            BY <1>4, <3>1, <3>2
        <3> QED BY <3>1, <3>3, <3>4 DEF Fits, InService
    <2> QED BY <2>1, <2>2
<1>11. Used(m)
    BY DEF Switches, Serviced, Used
<1> QED BY <1>9, <1>10, <1>11 DEF ServiceInv

\* The context of a process whose request was accepted.
LEMMA AskedFrame ==
    ASSUME NEW k \in Kernels, NEW m, NEW c \in Cores, NEW s \in Servers, NEW ret \in BOOLEAN,
           Asks(k, m, c, s, ret)
    PROVE  /\ \A x \in Cores \ {c} : m.frame[x] = k.frame[x]
           /\ m.frame[c].mode = k.frame[c].mode /\ m.frame[c].serving = k.frame[c].serving
           /\ m.frame[c].n = k.frame[c].n
           /\ ret => m.frame[c].pc = "wait" /\ m.frame[c].to = s /\ m.frame[c].uid = k.ipc_uid + 1
           /\ ~ret => m.frame[c].pc = IF k.frame[c].mode = "handler" THEN "reply" ELSE "run"
<1> DEFINE f == k.frame[c]
           u == k.ipc_uid + 1
           g == IF ret THEN Awaiting(f, s, ret, u) ELSE Back(f)
<1>1. k.frame \in [Cores -> Contexts] /\ f \in Contexts
    BY KernelFields
<1>2. m.frame = [k.frame EXCEPT ![c] = g]
    BY DEF Asks
<1>3. u \in Uids
    <2>1. Request(k, k.cur[c], ret) \in Requests
        BY DEF Asks
    <2>2. Request(k, k.cur[c], ret).uid = u
        BY DEF Request
    <2> HIDE DEF u
    <2> QED BY <2>1, <2>2 DEF Requests
<1> HIDE DEF f, u
<1>4. g.mode = f.mode /\ g.serving = f.serving /\ g.n = f.n
      /\ (ret => g.pc = "wait" /\ g.to = s /\ g.uid = u)
      /\ (~ret => g.pc = IF f.mode = "handler" THEN "reply" ELSE "run")
    BY <1>1, <1>3, CallContexts
<1> HIDE DEF g
<1>5. m.frame[c] = g /\ \A x \in Cores \ {c} : m.frame[x] = k.frame[x]
    BY <1>1, <1>2
<1> QED BY <1>4, <1>5 DEF f, u

\* One more request for a server that has some: its head stays.
LEMMA ServiceMore ==
    ASSUME NEW k, NEW m, NEW c \in Cores, NEW s \in Servers, NEW ret \in BOOLEAN, BaseInv(k),
           ServiceInv(k), Asks(k, m, c, s, ret), k.srv[s].ring # <<>>
    PROVE  ServiceInv(m)
<1>0. Servers \subseteq Procs /\ k \in Kernels /\ \A t \in Servers : Core[t] \in Cores
    BY Constants DEF BaseInv
<1>1. \A x \in Cores : m.frame[x].mode = k.frame[x].mode /\ m.frame[x].serving = k.frame[x].serving
    BY <1>0, AskedFrame
<1>2. m.cur = k.cur /\ m.ctx = k.ctx /\ m.task = k.task
    BY DEF Asks
<1>3. ASSUME NEW t \in Servers
      PROVE  /\ m.srv[t].do_switch = k.srv[t].do_switch /\ m.srv[t].saved = k.srv[t].saved
             /\ m.srv[t].restore_pending = k.srv[t].restore_pending
             /\ m.srv[t].ring = <<>> <=> k.srv[t].ring = <<>>
             /\ k.srv[t].ring # <<>> => Head(m.srv[t].ring) = Head(k.srv[t].ring)
    <2>1. CASE t = s
        BY <2>1 DEF Asks, Longer
    <2>2. CASE t # s
        BY <2>2 DEF Asks, OneServer
    <2> QED BY <2>1, <2>2
<1>4. \A t \in Servers : InService(m.srv[t]) <=> InService(k.srv[t])
    BY <1>3 DEF InService
<1>5. ASSUME NEW t \in Servers, NEW f, NEW g, g.mode = f.mode, g.serving = f.serving
      PROVE  /\ Fits(k.srv[t], f) => Fits(m.srv[t], g)
             /\ ServedOK(k.srv[t], f) => ServedOK(m.srv[t], g)
    <2>1. Fits(k.srv[t], f) => Fits(m.srv[t], g)
        <3>1. InService(k.srv[t]) => k.srv[t].ring # <<>>
            BY DEF InService
        <3> QED BY <1>3, <1>4, <1>5, <3>1 DEF Fits
    <2> QED BY <1>3, <1>4, <2>1 DEF ServedOK
<1>6. ASSUME NEW t \in Servers
      PROVE  (Live(m, t) <=> Live(k, t)) /\ Resumes(m, t).mode = Resumes(k, t).mode
             /\ Resumes(m, t).serving = Resumes(k, t).serving
    BY <1>0, <1>1, <1>2, <1>3 DEF Live, Resumes
<1>7. Served(m, {})
    BY <1>5, <1>6 DEF ServiceInv, Served
<1>8. Framed(m, Cores)
    BY <1>1, <1>2, <1>5, <1>6 DEF ServiceInv, Framed
<1>9. Used(m)
    BY <1>2 DEF ServiceInv, Used
<1> QED BY <1>7, <1>8, <1>9 DEF ServiceInv

\* The first request of a server is armed at once.
LEMMA ServiceFirst ==
    ASSUME NEW k, NEW n, NEW m, NEW c \in Cores, NEW s \in Servers, NEW ret \in BOOLEAN, BaseInv(k),
           ServiceInv(k), Asks(k, n, c, s, ret), k.srv[s].ring = <<>>, Live(k, s), Arms(n, m, s, FALSE)
    PROVE  ServiceInv(m)
<1>0. Servers \subseteq Procs /\ k \in Kernels /\ \A t \in Servers : Core[t] \in Cores
    BY Constants DEF BaseInv
<1>1. \A x \in Cores : m.frame[x].mode = k.frame[x].mode /\ m.frame[x].serving = k.frame[x].serving
    <2>1. m.frame = n.frame
        BY DEF Arms, Alike
    <2>2. \A x \in Cores : n.frame[x].mode = k.frame[x].mode /\ n.frame[x].serving = k.frame[x].serving
        <3>1. /\ \A x \in Cores \ {c} : n.frame[x] = k.frame[x]
              /\ n.frame[c].mode = k.frame[c].mode /\ n.frame[c].serving = k.frame[c].serving
            BY <1>0, AskedFrame
        <3> QED BY <3>1
    <2> QED BY <2>1, <2>2
<1>2. m.cur = k.cur /\ m.ctx = k.ctx /\ m.task = k.task
    BY DEF Asks, Arms, Alike
<1>3. \A t \in Servers \ {s} : m.srv[t] = k.srv[t]
    BY DEF Asks, Arms, OneServer
<1>4. /\ m.srv[s].do_switch /\ m.srv[s].ring # <<>> /\ ~m.srv[s].restore_pending
      /\ m.srv[s].saved.state = k.task[s].state
    <2>1. m.srv[s].do_switch /\ m.srv[s].ring = n.srv[s].ring /\ ~m.srv[s].restore_pending
          /\ m.srv[s].saved.state = n.task[s].state
        BY DEF Arms
    <2>2. n.srv[s].ring # <<>> /\ n.task = k.task
        BY DEF Asks, Longer
    <2> QED BY <2>1, <2>2
<1>5. k.task[s].state \in States \ {"ZOMBIE"}
    <2>1. k.task[s].state \in States \cup {"UNUSED"}
        BY <1>0, KernelFields, TaskFacts
    <2> QED BY <1>0, <2>1 DEF ServiceInv, Used, Live, proc_get
<1>6. ASSUME NEW t \in Servers
      PROVE  (Live(m, t) <=> Live(k, t))
             /\ (t # s => Resumes(m, t).mode = Resumes(k, t).mode /\ Resumes(m, t).serving = Resumes(k, t).serving)
    BY <1>0, <1>1, <1>2, <1>3 DEF Live, Resumes
<1>7. ~InService(k.srv[s]) /\ ~InService(m.srv[s])
    BY <1>4 DEF InService
<1>8. ASSUME NEW x \in Cores, k.cur[x] = s PROVE m.frame[x].mode = "main"
    <2>1. Fits(k.srv[s], k.frame[x])
        BY <1>8 DEF ServiceInv, Framed
    <2> QED BY <1>1, <1>7, <2>1 DEF Fits
<1>9. Resumes(m, s).mode = "main"
    <2>1. CASE k.cur[Core[s]] = s
        BY <1>0, <1>2, <1>4, <1>8, <2>1 DEF Resumes
    <2>2. CASE k.cur[Core[s]] # s
        <3>1. Resumes(m, s) = k.ctx[s] /\ Resumes(k, s) = k.ctx[s]
            BY <1>2, <2>2 DEF Resumes
        <3>2. Fits(k.srv[s], Resumes(k, s))
            BY DEF ServiceInv, Served, ServedOK
        <3> QED BY <1>7, <3>1, <3>2 DEF Fits
    <2> QED BY <2>1, <2>2
<1>10. Served(m, {})
    <2> SUFFICES ASSUME NEW t \in Servers, Live(m, t) PROVE ServedOK(m.srv[t], Resumes(m, t))
        BY DEF Served
    <2>1. CASE t = s
        BY <1>4, <1>5, <1>7, <1>9, <2>1 DEF ServedOK, Fits
    <2>2. CASE t # s
        <3>1. ServedOK(k.srv[t], Resumes(k, t))
            BY <1>6 DEF ServiceInv, Served
        <3> QED BY <1>3, <1>6, <2>2, <3>1, ServedSame
    <2> QED BY <2>1, <2>2
<1>11. Framed(m, Cores)
    <2> SUFFICES ASSUME NEW x \in Cores, k.cur[x] \in Servers, Live(k, k.cur[x])
                 PROVE  Fits(m.srv[k.cur[x]], m.frame[x])
        BY <1>2, <1>6 DEF Framed
    <2>1. CASE k.cur[x] = s
        BY <1>7, <1>8, <2>1 DEF Fits
    <2>2. CASE k.cur[x] # s
        <3>1. Fits(k.srv[k.cur[x]], k.frame[x])
            BY DEF ServiceInv, Framed
        <3> QED BY <1>1, <1>3, <2>2, <3>1, ServedSame
    <2> QED BY <2>1, <2>2
<1>12. Used(m)
    BY <1>2 DEF ServiceInv, Used
<1> QED BY <1>10, <1>11, <1>12 DEF ServiceInv

\* A server between two requests: it has none, ...
LEMMA BetweenIdle ==
    ASSUME NEW k, NEW s \in Servers, Between(k, s), k.srv[s].ring = <<>>
    PROVE  Serviced(k, {}, {Core[s]})
<1>1. ServedOK(k.srv[s], Resumes(k, s))
    BY DEF Between, ServedOK, Fits, InService
<1>2. \A t \in Servers : Live(k, t) => ServedOK(k.srv[t], Resumes(k, t))
    BY <1>1 DEF Between, Serviced, Served
<1> QED BY <1>2 DEF Between, Serviced, Served

\* ... or the next one is armed.
LEMMA BetweenArms ==
    ASSUME NEW k, NEW m, NEW s \in Servers, BaseInv(k), Between(k, s), k.srv[s].ring # <<>>, Live(k, s),
           Arms(k, m, s, k.srv[s].restore_pending)
    PROVE  Serviced(m, {}, {Core[s]})
<1>0. Servers \subseteq Procs /\ k \in Kernels /\ CurOK(k)
    BY Constants DEF BaseInv
<1>1. m.cur = k.cur /\ m.ctx = k.ctx /\ m.frame = k.frame /\ m.task = k.task
    BY DEF Arms, Alike
<1>2. \A t \in Servers \ {s} : m.srv[t] = k.srv[t]
    BY DEF Arms, OneServer
<1>3. /\ m.srv[s].do_switch /\ m.srv[s].ring # <<>> /\ m.srv[s].restore_pending = k.srv[s].restore_pending
      /\ m.srv[s].saved.state = k.task[s].state
    BY DEF Arms
<1>4. k.task[s].state \in States \ {"ZOMBIE"}
    <2>1. k.task[s].state \in States \cup {"UNUSED"}
        BY <1>0, KernelFields, TaskFacts
    <2> QED BY <1>0, <2>1 DEF Between, Serviced, Used, Live, proc_get
<1>5. \A t \in Servers : Resumes(m, t) = Resumes(k, t) /\ (Live(m, t) <=> Live(k, t))
    BY <1>1, <1>2, <1>3 DEF Resumes, Live
<1>6. Served(m, {})
    <2> SUFFICES ASSUME NEW t \in Servers, Live(m, t) PROVE ServedOK(m.srv[t], Resumes(m, t))
        BY DEF Served
    <2>1. CASE t = s
        BY <1>3, <1>4, <1>5, <2>1 DEF Between, ServedOK, Fits, InService
    <2>2. CASE t # s
        BY <1>2, <1>5, <2>2 DEF Between, Serviced, Served
    <2> QED BY <2>1, <2>2
<1>7. Framed(m, Cores \ {Core[s]})
    <2> SUFFICES ASSUME NEW x \in Cores \ {Core[s]}, k.cur[x] \in Servers, Live(k, k.cur[x])
                 PROVE  Fits(m.srv[k.cur[x]], k.frame[x])
        BY <1>1, <1>5 DEF Framed
    <2>1. k.cur[x] # s
        BY <1>0, Constants DEF CurOK
    <2>2. Fits(k.srv[k.cur[x]], k.frame[x])
        BY DEF Between, Serviced, Framed
    <2> QED BY <1>2, <2>1, <2>2
<1>8. Used(m)
    BY <1>1 DEF Between, Serviced, Used
<1> QED BY <1>6, <1>7, <1>8 DEF Serviced

\* A server that runs and was not recalled has the right frame.
LEMMA ServiceFrame ==
    ASSUME NEW k, NEW s \in Servers, Serviced(k, {}, {Core[s]}), k.cur[Core[s]] = s,
           ~k.srv[s].restore_pending
    PROVE  ServiceInv(k)
<1>1. Live(k, s) => Fits(k.srv[s], k.frame[Core[s]])
    BY DEF Serviced, Served, ServedOK, Resumes
<1>2. Framed(k, Cores)
    BY <1>1 DEF Serviced, Framed
<1> QED BY <1>2 DEF Serviced, ServiceInv

\* The invariant, and the one before a switch.
LEMMA ServiceForms ==
    ASSUME NEW k
    PROVE  /\ Serviced(k, {}, {}) <=> ServiceInv(k)
           /\ \A c : ServiceInv(k) => Serviced(k, {}, {c})
BY DEF Serviced, ServiceInv, Framed

\* Steps that leave contexts and requests alone.
LEMMA ServiceKept ==
    ASSUME NEW k, NEW m, SameWork(k, m), ServiceInv(k)
    PROVE  ServiceInv(m)
BY ServiceForms, ServiceSame

\* A core is given away.
LEMMA ServiceDispatches ==
    ASSUME NEW k, NEW m, NEW c \in Cores, BaseInv(k), Serviced(k, {}, {c}), Dispatches(k, m, c)
    PROVE  ServiceInv(m)
<1>1. PICK to \in Procs \cup {NoProc} : /\ Switches(k, m, c, to)
                                        /\ to # NoProc => Core[to] = c /\ k.task[to].state \in Runnable
    BY DEF Dispatches
<1>2. to # NoProc => Core[to] = c /\ Live(k, to)
    BY <1>1 DEF Runnable, Live, proc_get
<1> QED BY <1>1, <1>2, ServiceSwitches

\* A task is parked, or goes on.
LEMMA ServiceBlocks ==
    ASSUME NEW k, NEW m, NEW c \in Cores, BaseInv(k), ServiceInv(k), Running(k, c), Blocks(k, m, c)
    PROVE  ServiceInv(m)
<1>1. PICK n \in Kernels, state \in {"BLOCK", "RUNNING", k.task[k.cur[c]].state} :
         /\ Retasks(k, n, k.cur[c], state)
         /\ IF state = "BLOCK" THEN Dispatches(n, m, c) ELSE m = n
    BY DEF Blocks
<1>2. k.cur[c] \in Procs /\ Live(k, k.cur[c]) /\ state \notin {"ZOMBIE", "UNUSED"}
    BY <1>1 DEF Running, Live, proc_get, ServiceInv, Used
<1>3. BaseInv(n)
    BY <1>1, <1>2, BaseRetasks
<1>4. SameWork(k, n)
    BY <1>1, <1>2, SameWorkSteps
<1>5. ServiceInv(n)
    BY <1>4, ServiceKept
<1> QED BY <1>1, <1>3, <1>5, ServiceForms, ServiceDispatches

\* A core is handed over.
LEMMA ServiceHands ==
    ASSUME NEW k, NEW m, NEW c \in Cores, NEW to \in Procs, BaseInv(k), ServiceInv(k), Live(k, to),
           Hands(k, m, c, to)
    PROVE  ServiceInv(m)
<1>1. PICK n \in Kernels :
         /\ Eases(k, n, {to}) \/ (n = k /\ k.task[to].state = "RUNNING")
         /\ Core[to] = c => Switches(n, m, c, to)
         /\ Core[to] # c => m = n
    BY DEF Hands
<1>2. BaseInv(n) /\ Live(n, to)
    BY <1>1, BaseEases, EasesLive
<1>3. ServiceInv(n)
    BY <1>1, SameWorkSteps, ServiceKept
<1> QED BY <1>1, <1>2, <1>3, ServiceForms, ServiceSwitches

\* proc_ipc_call()
LEMMA ServiceCalls ==
    ASSUME NEW k, NEW m, NEW c \in Cores, NEW s \in Servers, NEW ret \in BOOLEAN, BaseInv(k), ServiceInv(k),
           Running(k, c), CallEffect(k, m, c, s, ret)
    PROVE  ServiceInv(m)
<1> DEFINE f == k.frame[c]
<1>0. f \in Contexts /\ k \in Kernels /\ k.frame \in [Cores -> Contexts] /\ s \in Procs
    BY KernelFields, Constants DEF BaseInv, Running
<1>1. CASE Reframes(k, m, c, Back(f))
    <2> DEFINE g == Back(f)
    <2>1. g.mode = f.mode /\ g.serving = f.serving
        BY <1>0, CallContexts
    <2> HIDE DEF g
    <2>2. Reframes(k, m, c, g)
        BY <1>1 DEF g
    <2>3. SameWork(k, m)
        BY <1>0, <2>1, <2>2, SameWorkReframes
    <2> QED BY <2>3, ServiceKept
<1>2. CASE \E k1, k2 \in Kernels :
             /\ Reframes(k, k1, c, Calling(k.frame[c], s, ret))
             /\ Queueing(k1, k2, {k.cur[c]}) /\ Blocks(k2, m, c)
    <2>1. PICK k1, k2 \in Kernels :
             /\ Reframes(k, k1, c, Calling(k.frame[c], s, ret))
             /\ Queueing(k1, k2, {k.cur[c]}) /\ Blocks(k2, m, c)
        BY <1>2
    <2> DEFINE g == Calling(f, s, ret)
    <2>2. g.mode = f.mode /\ g.serving = f.serving /\ g.pc = "call" /\ g.to = s
        <3> HIDE DEF f
        <3> QED BY <1>0 DEF Contexts, Calling
    <2> HIDE DEF g
    <2>3. CallOK(k, g)
        BY <2>2 DEF CallOK
    <2>4. Reframes(k, k1, c, g)
        BY <2>1 DEF g
    <2>5. BaseInv(k1)
        BY <2>2, <2>3, <2>4, BaseReframes
    <2>6. BaseInv(k2)
        BY <2>1, <2>5, BaseQueueing
    <2>7. Running(k2, c)
        BY <2>1 DEF Running, Reframes, Steady, Queueing, Alike, Live
    <2>8. SameWork(k, k1) /\ SameWork(k1, k2)
        BY <1>0, <2>1, <2>2, <2>4, SameWorkReframes, SameWorkSteps
    <2>9. ServiceInv(k2)
        BY <2>8, ServiceKept
    <2> QED BY <2>1, <2>6, <2>7, <2>9, ServiceBlocks
<1>3. CASE /\ Live(k, s) /\ ~Closed(k, s)
           /\ \E k1 \in Kernels : /\ Asks(k, k1, c, s, ret)
                                  /\ IF k.srv[s].ring = <<>> THEN Starts(k1, m, c, s) ELSE m = k1
    <2>1. PICK k1 \in Kernels : /\ Asks(k, k1, c, s, ret)
                                /\ IF k.srv[s].ring = <<>> THEN Starts(k1, m, c, s) ELSE m = k1
        BY <1>3
    <2>2. CASE k.srv[s].ring # <<>>
        BY <2>1, <2>2, ServiceMore
    <2>3. CASE k.srv[s].ring = <<>>
        <3>1. PICK n \in Kernels : Arms(k1, n, s, FALSE) /\ Hands(n, m, c, s)
            BY <2>1, <2>3 DEF Starts
        <3>2. BaseInv(k1)
            BY <1>3, <2>1, BaseAsks DEF Running
        <3>3. Live(k1, s) /\ Live(n, s)
            BY <1>3, <2>1, <3>1 DEF Asks, Arms, Live
        <3>4. BaseInv(n)
            BY <3>1, <3>2, <3>3, BaseArms
        <3>5. ServiceInv(n)
            BY <1>3, <2>1, <2>3, <3>1, ServiceFirst, ZenonT(30)
        <3> QED BY <1>0, <3>1, <3>3, <3>4, <3>5, ServiceHands
    <2> QED BY <2>2, <2>3
<1> QED BY <1>1, <1>2, <1>3 DEF CallEffect

\* The main context of a server whose handler is at work is put back, ...
LEMMA BetweenRestores ==
    ASSUME NEW k, NEW m, NEW s \in Servers, NEW state, BaseInv(k), ServiceInv(k), Live(k, s),
           InService(k.srv[s]), Restores(k, m, s, state), state \notin {"ZOMBIE", "UNUSED"},
           ~m.srv[s].do_switch, Resumes(m, s) = k.srv[s].saved.ctx,
           \A t \in Servers \ {s} : m.ctx[t] = k.ctx[t],
           \A x \in Cores : m.frame[x] = k.frame[x] \/ (x = Core[s] /\ k.cur[x] = s)
    PROVE  Between(m, s)
<1>0. Servers \subseteq Procs /\ CurOK(k) /\ \A t \in Servers : Core[t] \in Cores
    BY Constants DEF BaseInv
<1>1. \A p \in Procs : Live(m, p) <=> Live(k, p)
    BY RestoresLive
<1>2. m.cur = k.cur /\ \A t \in Servers \ {s} : m.srv[t] = k.srv[t]
    BY DEF Restores, OneServer
<1>3. ASSUME NEW t \in Servers \ {s} PROVE Resumes(m, t) = Resumes(k, t)
    <2>1. k.cur[Core[t]] = t => m.frame[Core[t]] = k.frame[Core[t]]
        BY <1>0
    <2> QED BY <1>2, <2>1 DEF Resumes
<1>4. k.srv[s].saved.ctx.mode = "main"
    BY DEF ServiceInv, Served, ServedOK
<1>5. Served(m, {s})
    BY <1>0, <1>1, <1>2, <1>3 DEF ServiceInv, Served
<1>6. Framed(m, Cores \ {Core[s]})
    <2> SUFFICES ASSUME NEW x \in Cores \ {Core[s]}, k.cur[x] \in Servers, Live(k, k.cur[x])
                 PROVE  Fits(m.srv[k.cur[x]], m.frame[x])
        BY <1>0, <1>1, <1>2 DEF Framed
    <2>1. k.cur[x] # s
        BY <1>0, Constants DEF CurOK
    <2> QED BY <1>2, <2>1 DEF ServiceInv, Framed
<1>7. Used(m)
    BY <1>0 DEF Restores, ServiceInv, Used
<1> QED BY <1>4, <1>5, <1>6, <1>7 DEF Between, Serviced

\* ... and the request is closed.
LEMMA BetweenCloses ==
    ASSUME NEW k, NEW m, NEW s \in Servers, BaseInv(k), Between(k, s), Closes(k, m, s)
    PROVE  Between(m, s)
<1>1. /\ m.cur = k.cur /\ m.ctx = k.ctx /\ m.frame = k.frame /\ m.task = k.task
      /\ \A t \in Servers \ {s} : m.srv[t] = k.srv[t]
      /\ m.srv[s].do_switch = k.srv[s].do_switch
      /\ m.srv[s].restore_pending = k.srv[s].restore_pending
    BY DEF Closes, OneServer, Alike
<1>2. \A t \in Servers : Resumes(m, t) = Resumes(k, t) /\ (Live(m, t) <=> Live(k, t))
    BY <1>1 DEF Resumes, Live
<1>3. Served(m, {s})
    BY <1>1, <1>2 DEF Between, Serviced, Served
<1>4. Framed(m, Cores \ {Core[s]})
    <2> SUFFICES ASSUME NEW x \in Cores \ {Core[s]}, k.cur[x] \in Servers, Live(k, k.cur[x])
                 PROVE  Fits(m.srv[k.cur[x]], k.frame[x])
        BY <1>1, <1>2 DEF Framed
    <2>1. k.cur[x] # s
        BY Constants DEF BaseInv, CurOK
    <2> QED BY <1>1, <2>1 DEF Between, Serviced, Framed
<1>5. Used(m)
    BY <1>1 DEF Between, Serviced, Used
<1> QED BY <1>1, <1>2, <1>3, <1>4, <1>5 DEF Between, Serviced

\* What SYS_IPC_END leaves behind before it gives the core away.
LEMMA ServiceEndStates ==
    ASSUME NEW k, NEW m, NEW c \in Cores, NEW k1, NEW k2, NEW k3, NEW Q, BaseInv(k), ServiceInv(k),
           Running(k, c), k.cur[c] \in Servers, k.frame[c].mode = "handler",
           k.srv[k.cur[c]].ring # <<>>, EndStates(k, m, c, k1, k2, k3, Q)
    PROVE  /\ Between(k3, k.cur[c]) /\ ~k3.srv[k.cur[c]].restore_pending /\ k3.cur = k.cur
           /\ InService(k.srv[k.cur[c]]) /\ k.srv[k.cur[c]].saved.ctx.mode = "main"
           /\ Head(k.srv[k.cur[c]].ring).uid = k.frame[c].serving
<1> DEFINE s == k.cur[c]
           state == Continued(k.srv[s].saved.state)
<1>0. s \in Servers /\ Core[s] = c /\ Live(k, s) /\ s \in Procs
    BY Constants DEF Running, BaseInv, CurOK
<1>20. BaseInv(k1) /\ SameLife(k, k3)
    BY EndBase
<1>1. /\ Restores(k, k1, s, state) /\ Closes(k1, k2, s) /\ Eases(k2, k3, Q)
      /\ k1.ctx = k.ctx /\ k1.frame = [k.frame EXCEPT ![c] = k.srv[s].saved.ctx]
      /\ k1.srv[s].do_switch = k.srv[s].do_switch /\ ~k1.srv[s].restore_pending
    BY DEF EndStates, Finishes
<1>2. k.frame \in [Cores -> Contexts]
    BY KernelFields DEF BaseInv
<1>3. Fits(k.srv[s], k.frame[c])
    BY <1>0 DEF ServiceInv, Framed
<1>4. InService(k.srv[s]) /\ Head(k.srv[s].ring).uid = k.frame[c].serving
    BY <1>3 DEF Fits
<1>5. ServedOK(k.srv[s], Resumes(k, s))
    BY <1>0 DEF ServiceInv, Served
<1>6. k.srv[s].saved.ctx.mode = "main" /\ k.srv[s].saved.state \in States \ {"ZOMBIE"}
    BY <1>4, <1>5 DEF ServedOK
<1>7. state \notin {"ZOMBIE", "UNUSED"}
    BY <1>6 DEF Continued, Runnable, States
<1>8. k1.cur = k.cur /\ k2.cur = k.cur /\ k3.cur = k.cur
    BY <1>1 DEF Restores, Closes, Eases, Alike
<1>9. ~k1.srv[s].do_switch
    BY <1>1, <1>4 DEF InService
<1>10. Resumes(k1, s) = k.srv[s].saved.ctx
    BY <1>0, <1>1, <1>2, <1>8 DEF Resumes
<1>11. \A x \in Cores : k1.frame[x] = k.frame[x] \/ (x = Core[s] /\ k.cur[x] = s)
    BY <1>0, <1>1, <1>2
<1> HIDE DEF state, s
<1>12. Between(k1, s)
    BY <1>0, <1>1, <1>4, <1>7, <1>9, <1>10, <1>11, BetweenRestores
<1>13. Between(k2, s)
    BY <1>0, <1>1, <1>12, <1>20, BetweenCloses
<1>14. Between(k3, s)
    <2>1. SameWork(k2, k3) /\ Live(k3, s)
        BY <1>0, <1>1, <1>20, SameWorkSteps DEF SameLife
    <2> QED BY <1>0, <1>13, <2>1, ServiceSame
<1>15. ~k3.srv[s].restore_pending
    <2>1. k3.srv[s].restore_pending = k2.srv[s].restore_pending
        BY <1>0, <1>1 DEF Eases, EasedServer
    <2>2. k2.srv[s].restore_pending = k1.srv[s].restore_pending
        BY <1>1 DEF Closes
    <2> QED BY <1>1, <2>1, <2>2
<1> QED BY <1>4, <1>6, <1>8, <1>14, <1>15 DEF s

\* Then it starts the next request, or gives the core away.
EndNext(k, m, c, k3) ==
    LET s == k.cur[c] IN
    IF k3.srv[s].ring # <<>>
    THEN \E n \in Kernels : /\ Arms(k3, n, s, FALSE) /\ Hands(n, m, c, s)
                            /\ BaseInv(n) /\ Live(n, s) /\ ServiceInv(n)
    ELSE /\ ServiceInv(k3)
         /\ \/ Dispatches(k3, m, c)
            \/ \E to \in ToWake(k, Head(k.srv[s].ring)) :
                  to \in Procs /\ Core[to] = c /\ Live(k3, to) /\ Hands(k3, m, c, to)

\* What follows once the request is closed.
LEMMA ServiceEndNext ==
    ASSUME NEW k, NEW m, NEW c \in Cores, NEW k1, NEW k2, NEW k3, NEW Q, BaseInv(k), ServiceInv(k),
           Running(k, c), k.cur[c] \in Servers, k.frame[c].mode = "handler",
           k.srv[k.cur[c]].ring # <<>>, EndStates(k, m, c, k1, k2, k3, Q)
    PROVE  EndNext(k, m, c, k3)
<1> DEFINE s == k.cur[c]
           r == Head(k.srv[s].ring)
<1>1. BaseInv(k3) /\ SameLife(k, k3) /\ Live(k, s) /\ s \in Servers /\ s \in Procs /\ Core[s] = c
    <2>1. BaseInv(k3) /\ SameLife(k, k3)
        BY EndBase
    <2> QED BY <2>1, Constants DEF Running, BaseInv, CurOK
<1>2. Between(k3, s) /\ ~k3.srv[s].restore_pending /\ k3.cur = k.cur
    BY ServiceEndStates
<1>3. Live(k3, s)
    BY <1>1 DEF SameLife
<1>4. CASE k3.srv[s].ring # <<>>
    <2>1. Starts(k3, m, c, s)
        BY <1>4 DEF EndStates
    <2>2. PICK n \in Kernels : Arms(k3, n, s, FALSE) /\ Hands(n, m, c, s)
        BY <2>1 DEF Starts
    <2>3. BaseInv(n) /\ Live(n, s)
        BY <1>1, <1>3, <2>2, BaseArms DEF Arms, Live
    <2>4. k3.srv[s].restore_pending = FALSE
        <3>1. k3.srv[s].restore_pending \in BOOLEAN
            BY <1>1, KernelFields, ServerFields DEF BaseInv
        <3> QED BY <1>2, <3>1
    <2>5. Serviced(n, {}, {Core[s]})
        BY <1>1, <1>2, <1>3, <1>4, <2>2, <2>4, BetweenArms
    <2>6. n.cur[Core[s]] = s /\ ~n.srv[s].restore_pending
        BY <1>1, <1>2, <2>2 DEF Arms, Alike
    <2>7. ServiceInv(n)
        BY <1>1, <2>5, <2>6, ServiceFrame
    <2> QED BY <1>4, <2>2, <2>3, <2>7 DEF EndNext
<1>5. CASE k3.srv[s].ring = <<>>
    <2>1. Serviced(k3, {}, {Core[s]})
        BY <1>1, <1>2, <1>5, BetweenIdle
    <2>2. ServiceInv(k3)
        BY <1>1, <1>2, <2>1, ServiceFrame
    <2>3. \/ Dispatches(k3, m, c)
          \/ \E to \in ToWake(k, r) : Core[to] = c /\ Hands(k3, m, c, to)
        BY <1>5 DEF EndStates
    <2>4. ASSUME NEW to \in ToWake(k, r) PROVE to \in Procs /\ Live(k3, to)
        <3>1. k.srv[s] \in ServerRecords
            BY <1>1, KernelFields DEF BaseInv
        <3>2. r.client \in Procs
            BY <3>1, HeadFacts
        <3>3. to \in Procs /\ Live(k, to)
            BY <2>4, <3>2, ClientFacts
        <3> QED BY <1>1, <3>3 DEF SameLife
    <2> QED BY <1>5, <2>2, <2>3, <2>4 DEF EndNext
<1> QED BY <1>4, <1>5

\* proc_ipc_end()
LEMMA ServiceEnds ==
    ASSUME NEW k, NEW m, NEW c \in Cores, BaseInv(k), ServiceInv(k), Running(k, c), k.cur[c] \in Servers,
           k.frame[c].mode = "handler", k.srv[k.cur[c]].ring # <<>>, EndEffect(k, m, c)
    PROVE  ServiceInv(m)
<1> DEFINE s == k.cur[c]
           r == Head(k.srv[s].ring)
<1>0. PICK k1, k2, k3 \in Kernels, Q \in SUBSET Procs : EndStates(k, m, c, k1, k2, k3, Q)
    BY EndChain
<1>1. BaseInv(k3) /\ s \in Procs
    BY <1>0, EndBase, Constants
<1>2. EndNext(k, m, c, k3)
    BY <1>0, ServiceEndNext
<1>3. IF k3.srv[s].ring # <<>>
      THEN \E n \in Kernels : Hands(n, m, c, s) /\ BaseInv(n) /\ Live(n, s) /\ ServiceInv(n)
      ELSE /\ ServiceInv(k3)
           /\ \/ Dispatches(k3, m, c)
              \/ \E to \in ToWake(k, r) : to \in Procs /\ Live(k3, to) /\ Hands(k3, m, c, to)
    BY <1>2 DEF EndNext
<1>4. CASE k3.srv[s].ring # <<>>
    BY <1>1, <1>3, <1>4, ServiceHands
<1>5. CASE k3.srv[s].ring = <<>>
    BY <1>1, <1>3, <1>5, ServiceForms, ServiceDispatches, ServiceHands
<1> QED BY <1>4, <1>5

\* proc_ipc_timeout() of a server that runs on the timer core, up to the
\* switch it ends with.
LEMMA ServiceTimeouts ==
    ASSUME NEW k, NEW m, NEW s \in Servers, BaseInv(k), ServiceInv(k), Watchdog, k.srv[s].ring # <<>>,
           ~k.srv[s].do_switch, TimeoutEffect(k, m, s)
    PROVE  Serviced(m, {}, {Core[s]})
<1>0. PICK k1, k2, k3, k4, k5, k6 \in Kernels, Q \in SUBSET Procs :
          TimeoutStates(k, m, s, k1, k2, k3, k4, k5, k6, Q)
    BY TimeoutChain
<1> DEFINE state == k.srv[s].saved.state
<1>1. /\ Restores(k, k1, s, state) /\ k1.frame = k.frame /\ k1.ctx = [k.ctx EXCEPT ![s] = k.srv[s].saved.ctx]
      /\ ~k1.srv[s].do_switch /\ k1.srv[s].restore_pending
    BY <1>0 DEF TimeoutStates, Recalls
<1>2. /\ Eases(k1, k2, {s}) \/ k2 = k1
      /\ Closes(k2, k3, s) /\ Quiet(k3, k4) /\ Eases(k4, k5, Q)
      /\ Rearms(k5, k6, s) /\ Quiet(k6, m)
    BY <1>0 DEF TimeoutStates
<1>3. /\ BaseInv(k1) /\ BaseInv(k2) /\ BaseInv(k5) /\ SameLife(k, k1) /\ SameLife(k, k2) /\ SameLife(k, k3)
      /\ SameLife(k, k4) /\ SameLife(k, k5)
    BY <1>0, TimeoutBase
<1>4. s \in Procs /\ Live(k, s) /\ Servers \subseteq Procs /\ k.ctx \in [Procs -> Contexts] /\ CurOK(k)
      /\ \A t \in Servers : Core[t] \in Cores
    BY Constants, KernelFields DEF BaseInv, DeadOK
<1>5. Live(k1, s) /\ Live(k2, s) /\ Live(k3, s) /\ Live(k4, s) /\ Live(k5, s)
    BY <1>3, <1>4 DEF SameLife
<1>6. InService(k.srv[s])
    BY DEF InService
<1>7. k.srv[s].saved.ctx.mode = "main" /\ state \in States \ {"ZOMBIE"}
    BY <1>4, <1>6 DEF ServiceInv, Served, ServedOK
<1>8. Resumes(k1, s) = k.srv[s].saved.ctx /\ \A t \in Servers \ {s} : k1.ctx[t] = k.ctx[t]
    BY <1>1, <1>4 DEF Resumes
<1>9. state \notin {"ZOMBIE", "UNUSED"}
    BY <1>7 DEF States
<1> HIDE DEF state
<1>10. Between(k1, s)
    BY <1>1, <1>4, <1>6, <1>8, <1>9, BetweenRestores
<1>11. Between(k2, s)
    BY <1>2, <1>5, <1>10, SameWorkSteps, ServiceSame
<1>12. Between(k3, s)
    BY <1>2, <1>3, <1>11, BetweenCloses
<1>13. Between(k5, s)
    <2>1. Between(k4, s)
        BY <1>2, <1>5, <1>12, SameWorkSteps, ServiceSame
    <2> QED BY <1>2, <1>5, <2>1, SameWorkSteps, ServiceSame
<1>14. Serviced(k6, {}, {Core[s]})
    <2>1. CASE k5.srv[s].ring = <<>>
        BY <1>2, <1>13, <2>1, BetweenIdle DEF Rearms
    <2>2. CASE k5.srv[s].ring # <<>>
        <3>1. PICK n \in Kernels : /\ Arms(k5, n, s, k5.srv[s].restore_pending)
                                   /\ Eases(n, k6, {s}) \/ k6 = n
            BY <1>2, <2>2 DEF Rearms
        <3>2. Serviced(n, {}, {Core[s]})
            BY <1>3, <1>5, <1>13, <2>2, <3>1, BetweenArms
        <3> QED BY <3>1, <3>2, SameWorkSteps, ServiceSame
    <2> QED BY <2>1, <2>2
<1> QED BY <1>2, <1>14, SameWorkSteps, ServiceSame

\* A pid is used again.
LEMMA ServiceSpawns ==
    ASSUME NEW k, NEW m, BaseInv(k), ServiceInv(k), BySpawn(k, m)
    PROVE  ServiceInv(m)
<1>1. PICK p \in Procs :
       /\ ~Live(k, p) /\ k.cur[Core[p]] # p /\ m.cur = k.cur /\ m.frame = k.frame
       /\ m.task = [k.task EXCEPT ![p] = NewTask("READY")] /\ m.ctx = [k.ctx EXCEPT ![p] = MainCtx]
       /\ \A s \in Servers : m.srv[s] = IF s = p THEN NewServer ELSE k.srv[s]
    BY DEF BySpawn
<1>2. k.task \in [Procs -> Tasks] /\ k.ctx \in [Procs -> Contexts] /\ Servers \subseteq Procs /\ CurOK(k)
      /\ NoProc \notin Procs
    BY KernelFields, Constants DEF BaseInv
<1>3. \A q \in Procs \ {p} : m.task[q] = k.task[q] /\ m.ctx[q] = k.ctx[q] /\ (Live(m, q) <=> Live(k, q))
    BY <1>1, <1>2 DEF Live
<1>4. m.ctx[p] = MainCtx /\ m.task[p].state = "READY" /\ MainCtx.mode = "main"
    BY <1>1, <1>2, ContextFacts DEF NewTask
<1>5. NewServer.ring = <<>> /\ ~NewServer.do_switch
    BY DEF NewServer
<1> HIDE DEF NewServer
<1>6. ServedOK(NewServer, MainCtx)
    BY <1>4, <1>5 DEF ServedOK, Fits, InService
<1>7. Served(m, {})
    <2> SUFFICES ASSUME NEW s \in Servers, Live(m, s) PROVE ServedOK(m.srv[s], Resumes(m, s))
        BY DEF Served
    <2>1. CASE s = p
        <3>1. Resumes(m, s) = MainCtx /\ m.srv[s] = NewServer
            BY <1>1, <1>4, <2>1 DEF Resumes
        <3> QED BY <1>6, <3>1
    <2>2. CASE s # p
        <3>1. m.srv[s] = k.srv[s] /\ Resumes(m, s) = Resumes(k, s)
            BY <1>1, <1>2, <1>3, <2>2 DEF Resumes
        <3> QED BY <1>2, <1>3, <2>2, <3>1 DEF ServiceInv, Served
    <2> QED BY <2>1, <2>2
<1>8. Framed(m, Cores)
    <2> SUFFICES ASSUME NEW x \in Cores, k.cur[x] \in Servers, Live(m, k.cur[x])
                 PROVE  Fits(m.srv[k.cur[x]], k.frame[x])
        BY <1>1 DEF Framed
    <2>1. k.cur[x] # p
        BY <1>1, <1>2 DEF CurOK
    <2> QED BY <1>1, <1>2, <1>3, <2>1 DEF ServiceInv, Framed
<1>9. Used(m)
    BY <1>3, <1>4 DEF ServiceInv, Used
<1> QED BY <1>7, <1>8, <1>9 DEF ServiceInv

\* Every step keeps the invariant.
LEMMA ServiceEffect ==
    ASSUME NEW k, NEW m, ServersOnTimerCore, BaseInv(k), ServiceInv(k), Effect(k, m)
    PROVE  ServiceInv(m)
<1>1. CASE ByCall(k, m)
    <2>1. PICK c \in Cores, k0 \in Kernels, s \in Servers, ret \in BOOLEAN :
             Running(k, c) /\ Quiet(k, k0) /\ CallEffect(k0, m, c, s, ret)
        BY <1>1 DEF ByCall
    <2>2. BaseInv(k0) /\ ServiceInv(k0)
        BY <2>1, BaseQuiet, SameWorkSteps, ServiceKept
    <2>3. Running(k0, c)
        BY <2>1 DEF Running, Quiet, Steady, Live
    <2> QED BY <2>1, <2>2, <2>3, ServiceCalls
<1>2. CASE BySchedule(k, m)
    <2>1. PICK c \in Cores, k0 \in Kernels : Quiet(k, k0) /\ Dispatches(k0, m, c)
        BY <1>2 DEF BySchedule
    <2>2. BaseInv(k0) /\ ServiceInv(k0)
        BY <2>1, BaseQuiet, SameWorkSteps, ServiceKept
    <2> QED BY <2>1, <2>2, ServiceForms, ServiceDispatches
<1>3. CASE ByBlock(k, m)
    <2>1. PICK c \in Cores, k0 \in Kernels : Running(k, c) /\ Quiet(k, k0) /\ Blocks(k0, m, c)
        BY <1>3 DEF ByBlock
    <2>2. BaseInv(k0) /\ ServiceInv(k0)
        BY <2>1, BaseQuiet, SameWorkSteps, ServiceKept
    <2>3. Running(k0, c)
        BY <2>1 DEF Running, Quiet, Steady, Live
    <2> QED BY <2>1, <2>2, <2>3, ServiceBlocks
<1>4. CASE ByCode(k, m)
    <2>1. PICK c \in Cores, g \in Contexts :
             Reframes(k, m, c, g) /\ g.mode = k.frame[c].mode /\ g.serving = k.frame[c].serving
        BY <1>4 DEF ByCode
    <2>2. k.frame \in [Cores -> Contexts]
        BY KernelFields DEF BaseInv
    <2>3. SameWork(k, m)
        BY <2>1, <2>2, SameWorkReframes
    <2> QED BY <2>3, ServiceKept
<1>5. CASE BySleep(k, m)
    <2>1. PICK c \in Cores, k0 \in Kernels, state \in {"SLEEPING", "WAIT"} :
             /\ Running(k, c) /\ Retasks(k, k0, k.cur[c], state) /\ Dispatches(k0, m, c)
        BY <1>5 DEF BySleep
    <2>2. BaseInv(k0)
        BY <2>1, BaseRetasks DEF Running
    <2>3. SameWork(k, k0)
        BY <2>1, SameWorkSteps DEF Running
    <2>4. ServiceInv(k0)
        BY <2>3, ServiceKept
    <2> QED BY <2>1, <2>2, <2>4, ServiceForms, ServiceDispatches
<1>6. CASE ByQueue(k, m)
    <2>1. PICK k0, k1 \in Kernels, Q \in SUBSET Procs :
             Quiet(k, k0) /\ Queueing(k0, k1, {}) /\ Eases(k1, m, Q)
        BY <1>6 DEF ByQueue
    <2>2. SameWork(k, k0) /\ SameWork(k0, k1) /\ SameWork(k1, m)
        BY <2>1, SameWorkSteps
    <2> QED BY <2>2, ServiceKept
<1>7. CASE ByTimer(k, m)
    <2>1. PICK p \in Procs : k.task[p].state \in {"SLEEPING", "BLOCK"} /\ Retasks(k, m, p, "READY")
        BY <1>7 DEF ByTimer
    <2>2. Live(k, p)
        BY <2>1 DEF Live, proc_get
    <2> QED BY <2>1, <2>2, SameWorkSteps, ServiceKept
<1>8. CASE ByEvent(k, m)
    <2>1. PICK p \in Servers, k1 \in Kernels : Eases(k, k1, {p}) /\ Quiet(k1, m)
        BY <1>8 DEF ByEvent
    <2>2. SameWork(k, k1) /\ SameWork(k1, m)
        BY <2>1, SameWorkSteps
    <2> QED BY <2>2, ServiceKept
<1>9. CASE ByEnd(k, m)
    <2>1. PICK c \in Cores, k0 \in Kernels :
             /\ Running(k, c) /\ k.cur[c] \in Servers /\ Quiet(k, k0) /\ k.frame[c].mode = "handler"
             /\ IF k.srv[k.cur[c]].ring = <<>> THEN m = k0 ELSE EndEffect(k0, m, c)
        BY <1>9 DEF ByEnd
    <2>2. BaseInv(k0) /\ ServiceInv(k0)
        BY <2>1, BaseQuiet, SameWorkSteps, ServiceKept
    <2>3. Running(k0, c) /\ k0.cur[c] = k.cur[c] /\ k0.srv = k.srv /\ k0.frame = k.frame
        BY <2>1 DEF Running, Quiet, Steady, Live
    <2> QED BY <2>1, <2>2, <2>3, ServiceEnds
<1>10. CASE ByTimeout(k, m)
    <2>1. PICK s \in Servers, k0 \in Kernels :
             /\ Watchdog /\ k.srv[s].ring # <<>> /\ ~k.srv[s].do_switch
             /\ TimeoutEffect(k, k0, s) /\ Dispatches(k0, m, 0)
        BY <1>10 DEF ByTimeout
    <2>2. PICK k1, k2, k3, k4, k5, k6 \in Kernels, Q \in SUBSET Procs :
              TimeoutStates(k, k0, s, k1, k2, k3, k4, k5, k6, Q)
        BY <2>1, TimeoutChain
    <2>3. BaseInv(k0)
        BY <2>1, <2>2, TimeoutBase
    <2>4. 0 \in Cores /\ Core[s] = 0
        BY <2>1, Constants DEF ServersOnTimerCore
    <2>5. Serviced(k0, {}, {0})
        BY <2>1, <2>4, ServiceTimeouts
    <2> QED BY <2>1, <2>3, <2>4, <2>5, ServiceDispatches
<1>11. CASE ByDeath(k, m)
    <2>1. PICK p \in Procs, c \in Cores, k0, k1 \in Kernels :
             Quiet(k, k0) /\ Terminates(k0, k1, p) /\ Dispatches(k1, m, c)
        BY <1>11 DEF ByDeath
    <2>2. BaseInv(k0)
        BY <2>1, BaseQuiet
    <2>3. BaseInv(k1)
        BY <2>1, <2>2, BaseTerminates
    <2>4. SameWork(k, k0) /\ SameWork(k0, k1)
        BY <2>1, SameWorkSteps
    <2>5. ServiceInv(k1)
        BY <2>4, ServiceKept
    <2> QED BY <2>1, <2>3, <2>5, ServiceForms, ServiceDispatches
<1>12. CASE BySpawn(k, m)
    BY <1>12, ServiceSpawns
<1> QED BY <1>1, <1>2, <1>3, <1>4, <1>5, <1>6, <1>7, <1>8, <1>9, <1>10, <1>11, <1>12 DEF Effect

\* It holds at the start.
LEMMA ServiceInit == Init => ServiceInv(kernel)
<1> SUFFICES ASSUME Init PROVE ServiceInv(kernel)
    OBVIOUS
<1>1. /\ \A p \in Procs : kernel.task[p].state = "READY" /\ kernel.ctx[p] = MainCtx
      /\ \A s \in Servers : kernel.srv[s].ring = <<>> /\ ~kernel.srv[s].do_switch
      /\ \A c \in Cores : kernel.cur[c] = NoProc
    BY InitKernel DEF NewTask, NewServer
<1>2. Servers \subseteq Procs /\ NoProc \notin Procs /\ \A s \in Servers : Core[s] \in Cores
    BY Constants
<1>3. \A s \in Servers : Resumes(kernel, s) = MainCtx
    BY <1>1, <1>2 DEF Resumes
<1>4. MainCtx.mode = "main"
    BY ContextFacts
<1>5. Served(kernel, {})
    BY <1>1, <1>3, <1>4 DEF Served, ServedOK, Fits, InService
<1>6. Framed(kernel, Cores)
    BY <1>1, <1>2 DEF Framed
<1> QED BY <1>1, <1>5, <1>6 DEF ServiceInv, Used

\* Servers on the timer core stay in the invariant.
LEMMA ServiceHolds == ServersOnTimerCore /\ Spec => []ServiceInv(kernel)
<1> SUFFICES ASSUME ServersOnTimerCore PROVE Spec => []ServiceInv(kernel)
    OBVIOUS
<1>1. BaseInv(kernel) /\ ServiceInv(kernel) /\ [Next]_kernel => ServiceInv(kernel)'
    <2>1. ASSUME BaseInv(kernel), ServiceInv(kernel), Next PROVE ServiceInv(kernel')
        BY <2>1, NextEffect, ServiceEffect
    <2> QED BY <2>1
<1> QED BY ServiceInit, <1>1, BaseHolds, PTL DEF Spec

\* A handler context always serves the request at the head of the ring,
\* whatever else arrives, dies or times out meanwhile.
THEOREM HandlersOwnTheHead == ServersOnTimerCore /\ Spec => []HandlerOwnsHead
<1> SUFFICES ASSUME ServersOnTimerCore PROVE Spec => []HandlerOwnsHead
    OBVIOUS
<1>1. ASSUME ServiceInv(kernel) PROVE HandlerOwnsHead
    <2> SUFFICES ASSUME NEW s \in Servers, Live(kernel, s), Exec(s).mode = "handler"
                 PROVE  /\ kernel.srv[s].ring # <<>>
                        /\ Head(kernel.srv[s].ring).uid = Exec(s).serving
        BY DEF HandlerOwnsHead
    <2>1. Fits(kernel.srv[s], Exec(s))
        <3>1. CASE kernel.cur[Core[s]] = s
            BY <1>1, <3>1, Constants DEF ServiceInv, Framed, Exec
        <3>2. CASE kernel.cur[Core[s]] # s
            BY <1>1, <3>2 DEF ServiceInv, Served, ServedOK, Resumes, Exec
        <3> QED BY <3>1, <3>2
    <2> QED BY <2>1 DEF Fits, InService
<1> QED BY <1>1, ServiceHolds, PTL

\* SYS_IPC_END, which closes the head of the ring without being told which
\* request its caller served, closes the one it served.
THEOREM EndsCloseTheirRequest == ServersOnTimerCore /\ Spec => []EndsOwnRequest
<1> SUFFICES ASSUME ServersOnTimerCore PROVE Spec => []EndsOwnRequest
    OBVIOUS
<1>1. ASSUME BaseInv(kernel), ServiceInv(kernel) PROVE EndsOwnRequest
    <2> SUFFICES ASSUME NEW c \in Cores, At(c, "handler", "end"), kernel.srv[kernel.cur[c]].ring # <<>>
                 PROVE  Serving(kernel, c)
        BY DEF EndsOwnRequest
    <2>1. kernel.cur[c] \in Servers /\ Live(kernel, kernel.cur[c]) /\ kernel.frame[c].mode = "handler"
        BY <1>1 DEF At, BaseInv, ModesOK
    <2>2. Fits(kernel.srv[kernel.cur[c]], kernel.frame[c])
        BY <1>1, <2>1 DEF ServiceInv, Framed
    <2> QED BY <2>1, <2>2 DEF Fits, Serving
<1> QED BY <1>1, ServiceHolds, BaseHolds, PTL

-----------------------------------------------------------------------------
(* Callers: whoever sleeps in a call has something to wait for.             *)

\* The invariant without the processes X.
Called(k, X) == Attended(k, X) /\ PlainOK(k)

\* What a caller waits for stays.
LEMMA WaitsInKept ==
    ASSUME NEW k, NEW m, NEW p, NEW f, f.pc \in {"call", "wait"} => f.to \in Servers, WaitsIn(k, p, f),
           f.to \in Servers /\ Live(k, f.to) =>
              /\ Live(m, f.to)
              /\ \A i \in DOMAIN k.srv[f.to].ring :
                    k.srv[f.to].ring[i].ret /\ ClientOf(k, k.srv[f.to].ring[i]) = {p} =>
                       Has(m.srv[f.to].ring, k.srv[f.to].ring[i])
              /\ Has(k.srv[f.to].waitq, p) => Has(m.srv[f.to].waitq, p),
           Live(m, p), m.uuid[p] = k.uuid[p]
    PROVE  WaitsIn(m, p, f)
<1>1. CASE f.pc = "wait"
    <2>1. f.to \in Servers /\ Live(k, f.to)
        BY <1>1 DEF WaitsIn
    <2>2. PICK i \in DOMAIN k.srv[f.to].ring :
             LET r == k.srv[f.to].ring[i] IN r.uid = f.uid /\ r.ret /\ ClientOf(k, r) = {p}
        BY <1>1 DEF WaitsIn
    <2> DEFINE r == k.srv[f.to].ring[i]
    <2>3. PICK j \in DOMAIN m.srv[f.to].ring : m.srv[f.to].ring[j] = r
        BY <2>1, <2>2 DEF Has
    <2>4. r.client = p /\ r.uuid = k.uuid[p]
        BY <2>2, ClientFacts
    <2>5. ClientOf(m, r) = {p}
        BY <2>4 DEF ClientOf
    <2> QED BY <1>1, <2>1, <2>2, <2>3, <2>5 DEF WaitsIn
<1>2. CASE f.pc = "call"
    BY <1>2 DEF WaitsIn
<1>3. CASE f.pc \notin {"call", "wait"}
    BY <1>3 DEF WaitsIn
<1> QED BY <1>1, <1>2, <1>3

\* A context in no call waits for nothing.
LEMMA WaitsForNothing ==
    ASSUME NEW k, NEW p, NEW f, f.pc \notin {"call", "wait"}
    PROVE  WaitsIn(k, p, f)
BY DEF WaitsIn

\* The calls of the executed contexts.
LEMMA ExecCalls ==
    ASSUME NEW k, BaseInv(k), NEW p \in Procs
    PROVE  CallOK(k, ExecOf(k, p)) /\ (ExecOf(k, p).pc \in {"call", "wait"} => ExecOf(k, p).to \in Servers)
<1>1. Core[p] \in Cores
    BY Constants
<1>2. CallOK(k, ExecOf(k, p))
    BY <1>1, BaseFacts DEF ExecOf
<1> QED BY <1>2 DEF CallOK

\* Only sleepers count, and the sleepers of m sleep in k, with the same contexts
\* and in front of the same servers.
Resting(k, m, X, Y) ==
    /\ SameLife(k, m) /\ m.uuid = k.uuid
    /\ \A p \in Procs \ Y : m.task[p].state = "BLOCK" =>
          /\ k.task[p].state = "BLOCK" /\ p \notin X
          /\ ExecOf(m, p) = ExecOf(k, p) \/ ExecOf(m, p).pc \notin {"call", "wait"}
          /\ \A s \in Servers : Has(k.srv[s].waitq, p) => Has(m.srv[s].waitq, p)
    /\ \A s \in Servers : \A i \in DOMAIN k.srv[s].ring :
          \/ Has(m.srv[s].ring, k.srv[s].ring[i])
          \/ ToWake(k, k.srv[s].ring[i]) \subseteq Y

\* Such steps keep the invariant.
LEMMA AttendedRests ==
    ASSUME NEW k, NEW m, NEW X, NEW Y, BaseInv(k), Attended(k, X), Resting(k, m, X, Y)
    PROVE  Attended(m, Y)
<1> SUFFICES ASSUME NEW p \in Procs \ Y, m.task[p].state = "BLOCK" PROVE WaitsIn(m, p, ExecOf(m, p))
    BY DEF Attended
<1> DEFINE f == ExecOf(k, p)
<1>1. /\ k.task[p].state = "BLOCK" /\ p \notin X
      /\ ExecOf(m, p) = f \/ ExecOf(m, p).pc \notin {"call", "wait"}
      /\ \A s \in Servers : Has(k.srv[s].waitq, p) => Has(m.srv[s].waitq, p)
    BY DEF Resting
<1>2. WaitsIn(k, p, f) /\ (f.pc \in {"call", "wait"} => f.to \in Servers)
    BY <1>1, ExecCalls DEF Attended
<1>3. Live(m, p) /\ m.uuid[p] = k.uuid[p] /\ \A s \in Servers : Live(k, s) => Live(m, s)
    BY Constants DEF Resting, SameLife, Live, proc_get
<1>4. ASSUME NEW s \in Servers, NEW i \in DOMAIN k.srv[s].ring, k.srv[s].ring[i].ret,
             ClientOf(k, k.srv[s].ring[i]) = {p}
      PROVE  Has(m.srv[s].ring, k.srv[s].ring[i])
    <2>1. p \in ToWake(k, k.srv[s].ring[i])
        BY <1>4 DEF ToWake
    <2> QED BY <2>1 DEF Resting
<1> HIDE DEF f
<1>5. WaitsIn(m, p, f)
    BY <1>1, <1>2, <1>3, <1>4, WaitsInKept
<1> QED BY <1>1, <1>5, WaitsForNothing

\* Wakes.
LEMMA CalledEases ==
    ASSUME NEW k, NEW m, NEW X, NEW Q, BaseInv(k), Called(k, X), Eases(k, m, Q)
    PROVE  Called(m, X \ Q)
<1>1. SameLife(k, m) /\ m.uuid = k.uuid /\ m.ctx = k.ctx /\ m.cur = k.cur /\ m.frame = k.frame
    BY EasesLive DEF SameLife, Eases, Alike
<1>2. \A s \in Servers : m.srv[s].ring = k.srv[s].ring /\ m.srv[s].restore_pending = k.srv[s].restore_pending
                         /\ m.srv[s].saved.ctx = k.srv[s].saved.ctx
    BY DEF Eases, EasedServer
<1>3. \A p \in Procs : ExecOf(m, p) = ExecOf(k, p)
    BY <1>1 DEF ExecOf
<1>4. ASSUME NEW p \in Procs \ (X \ Q), m.task[p].state = "BLOCK"
      PROVE  /\ k.task[p].state = "BLOCK" /\ p \notin X
             /\ \A s \in Servers : Has(k.srv[s].waitq, p) => Has(m.srv[s].waitq, p)
    <2>1. p \notin Q /\ k.task[p].state = "BLOCK"
        BY <1>4 DEF Eases, Live, proc_get
    <2> QED BY <1>4, <2>1 DEF Eases
<1>5. Resting(k, m, X, X \ Q)
    BY <1>1, <1>2, <1>3, <1>4, HasSelf DEF Resting
<1>6. Attended(m, X \ Q)
    BY <1>5, AttendedRests DEF Called
<1>7. PlainOK(m)
    BY <1>1, <1>2 DEF PlainOK, Called
<1> QED BY <1>6, <1>7 DEF Called

\* Steps that leave requests and contexts alone.
LEMMA CalledPlain ==
    ASSUME NEW k, NEW m, NEW X, BaseInv(k), Called(k, X), m.task = k.task, m.uuid = k.uuid, m.ctx = k.ctx,
           m.cur = k.cur, m.frame = k.frame,
           \A s \in Servers : /\ m.srv[s].ring = k.srv[s].ring /\ m.srv[s].saved.ctx = k.srv[s].saved.ctx
                              /\ m.srv[s].restore_pending => k.srv[s].restore_pending
                              /\ \A p \in Procs : Has(k.srv[s].waitq, p) => Has(m.srv[s].waitq, p)
    PROVE  Called(m, X)
<1>1. SameLife(k, m)
    BY DEF SameLife, Live
<1>2. \A p \in Procs : ExecOf(m, p) = ExecOf(k, p)
    BY DEF ExecOf
<1>3. Resting(k, m, X, X)
    BY <1>1, <1>2, HasSelf DEF Resting
<1>4. Attended(m, X)
    BY <1>3, AttendedRests DEF Called
<1>5. PlainOK(m)
    BY DEF PlainOK, Called
<1> QED BY <1>4, <1>5 DEF Called

\* Quiet steps.
LEMMA CalledQuiet ==
    ASSUME NEW k, NEW m, NEW X, BaseInv(k), Called(k, X), Quiet(k, m)
    PROVE  Called(m, X)
BY CalledPlain DEF Quiet, Steady

\* A request is armed.
LEMMA CalledArms ==
    ASSUME NEW k, NEW m, NEW X, NEW s \in Servers, NEW restore, BaseInv(k), Called(k, X),
           Arms(k, m, s, restore), restore => k.srv[s].restore_pending
    PROVE  Called(m, X)
<1>1. m.task = k.task /\ m.uuid = k.uuid /\ m.ctx = k.ctx /\ m.cur = k.cur /\ m.frame = k.frame
    BY DEF Arms, Alike
<1>2. ASSUME NEW t \in Servers
      PROVE  /\ m.srv[t].ring = k.srv[t].ring /\ m.srv[t].saved.ctx = k.srv[t].saved.ctx
             /\ m.srv[t].restore_pending => k.srv[t].restore_pending
             /\ m.srv[t].waitq = k.srv[t].waitq
    <2>1. CASE t = s
        BY <2>1 DEF Arms, OneServer
    <2>2. CASE t # s
        BY <2>2 DEF Arms, OneServer
    <2> QED BY <2>1, <2>2
<1>3. ASSUME NEW t \in Servers
      PROVE  /\ m.srv[t].ring = k.srv[t].ring /\ m.srv[t].saved.ctx = k.srv[t].saved.ctx
             /\ m.srv[t].restore_pending => k.srv[t].restore_pending
             /\ \A p \in Procs : Has(k.srv[t].waitq, p) => Has(m.srv[t].waitq, p)
    BY <1>2
<1> QED BY <1>1, <1>3, CalledPlain

\* A caller is queued.
LEMMA CalledQueueing ==
    ASSUME NEW k, NEW m, NEW P, BaseInv(k), Called(k, P), Queueing(k, m, P),
           \A p \in P : p \in Procs => WaitsIn(m, p, ExecOf(m, p))
    PROVE  Called(m, {})
<1>1. m.task = k.task /\ m.uuid = k.uuid /\ m.ctx = k.ctx /\ m.cur = k.cur /\ m.frame = k.frame
    BY DEF Queueing, Alike
<1>2. \A s \in Servers : /\ m.srv[s].ring = k.srv[s].ring /\ m.srv[s].saved = k.srv[s].saved
                         /\ m.srv[s].restore_pending = k.srv[s].restore_pending
                         /\ \A p \in Procs \ P : Has(k.srv[s].waitq, p) => Has(m.srv[s].waitq, p)
    BY DEF Queueing
<1>3. SameLife(k, m) /\ \A p \in Procs : ExecOf(m, p) = ExecOf(k, p)
    BY <1>1 DEF ExecOf, SameLife, Live
<1>4. Resting(k, m, P, P)
    BY <1>1, <1>2, <1>3, HasSelf DEF Resting
<1>5. Attended(m, P)
    BY <1>4, AttendedRests DEF Called
<1>6. PlainOK(m)
    BY <1>1, <1>2 DEF PlainOK, Called
<1> QED BY <1>5, <1>6 DEF Called, Attended

\* The running task goes on with a context that is in order.
LEMMA CalledReframes ==
    ASSUME NEW k, NEW m, NEW c \in Cores, NEW f, NEW X, BaseInv(k), Called(k, {}), Reframes(k, m, c, f),
           k.cur[c] \in Procs, f.pc \in {"call", "wait"} => k.cur[c] \in X,
           Watchdog /\ k.cur[c] \in Servers /\ f.mode = "main" => f.pc = "run"
    PROVE  Called(m, X)
<1>0. k.frame \in [Cores -> Contexts] /\ Core[k.cur[c]] = c
    BY KernelFields, Constants DEF BaseInv, CurOK
<1>1. /\ m.task = k.task /\ m.uuid = k.uuid /\ m.ctx = k.ctx /\ m.cur = k.cur /\ m.srv = k.srv
      /\ m.frame[c] = f /\ \A x \in Cores \ {c} : m.frame[x] = k.frame[x]
    BY <1>0 DEF Reframes, Steady
<1>2. SameLife(k, m)
    BY <1>1 DEF SameLife, Live
<1>3. \A p \in Procs \ {k.cur[c]} : ExecOf(m, p) = ExecOf(k, p)
    <2> SUFFICES ASSUME NEW p \in Procs \ {k.cur[c]} PROVE ExecOf(m, p) = ExecOf(k, p)
        OBVIOUS
    <2>1. Core[p] \in Cores
        BY Constants
    <2> QED BY <1>1, <2>1 DEF ExecOf
<1>4. ExecOf(m, k.cur[c]) = f
    BY <1>0, <1>1 DEF ExecOf
<1>5. Resting(k, m, {}, X)
    BY <1>1, <1>2, <1>3, <1>4, HasSelf DEF Resting
<1>6. Attended(m, X)
    BY <1>5, AttendedRests DEF Called
<1>7. PlainOK(m)
    <2>1. ASSUME NEW s \in Servers, NEW x \in Cores, m.cur[x] = s, m.frame[x].mode = "main", Watchdog
          PROVE  m.frame[x].pc = "run"
        BY <1>1, <2>1 DEF PlainOK, Called
    <2> QED BY <1>1, <2>1 DEF PlainOK, Called
<1> QED BY <1>6, <1>7 DEF Called

\* A task is put into another state.
LEMMA CalledRetasks ==
    ASSUME NEW k, NEW m, NEW p \in Procs, NEW state, BaseInv(k), Called(k, {}), Retasks(k, m, p, state),
           Live(k, p), state # "ZOMBIE", state = "BLOCK" => WaitsIn(k, p, ExecOf(k, p))
    PROVE  Called(m, {})
<1>1. /\ m.uuid = k.uuid /\ m.ctx = k.ctx /\ m.cur = k.cur /\ m.srv = k.srv /\ m.frame = k.frame
      /\ \A q \in Procs \ {p} : m.task[q] = k.task[q]
      /\ m.task[p].state = state
    BY DEF Retasks, Steady
<1>2. SameLife(k, m)
    BY <1>1 DEF SameLife, Live, proc_get
<1>3. \A q \in Procs : ExecOf(m, q) = ExecOf(k, q)
    BY <1>1 DEF ExecOf
<1>4. Resting(k, m, {}, {p})
    BY <1>1, <1>2, <1>3, HasSelf DEF Resting
<1>5. Attended(m, {p})
    BY <1>4, AttendedRests DEF Called
<1>6. state = "BLOCK" => WaitsIn(m, p, ExecOf(m, p))
    <2> SUFFICES ASSUME WaitsIn(k, p, ExecOf(k, p)) PROVE WaitsIn(m, p, ExecOf(m, p))
        OBVIOUS
    <2>1. Live(m, p) /\ \A s \in Servers : Live(k, s) => Live(m, s)
        BY <1>2, Constants DEF SameLife
    <2> DEFINE f == ExecOf(k, p)
    <2>2. f.pc \in {"call", "wait"} => f.to \in Servers
        BY ExecCalls
    <2> HIDE DEF f
    <2>3. WaitsIn(m, p, f)
        BY <1>1, <2>1, <2>2, HasSelf, WaitsInKept DEF f
    <2> QED BY <1>3, <2>3 DEF f
<1>7. Attended(m, {})
    BY <1>1, <1>5, <1>6 DEF Attended
<1>8. PlainOK(m)
    BY <1>1 DEF PlainOK, Called
<1> QED BY <1>7, <1>8 DEF Called

\* A switch.
LEMMA CalledSwitches ==
    ASSUME NEW k, NEW m, NEW c \in Cores, NEW to \in Procs \cup {NoProc}, BaseInv(k),
           Serviced(k, {}, {c}), Called(k, {}), Switches(k, m, c, to),
           to # NoProc => Core[to] = c /\ Live(k, to)
    PROVE  Called(m, {})
<1>0. /\ Servers \subseteq Procs /\ NoProc \notin Procs /\ k \in Kernels /\ CurOK(k)
      /\ k.cur \in [Cores -> Procs \cup {NoProc}] /\ \A p \in Procs : Core[p] \in Cores
    BY Constants, KernelFields DEF BaseInv
<1>1. SameLife(k, m) /\ m.uuid = k.uuid
    <2>1. \A p \in Procs : Live(m, p) <=> Live(k, p)
        BY <1>0, SwitchesLive
    <2> QED BY <2>1 DEF SameLife, Switches, Unswitched
<1>2. /\ m.cur = [k.cur EXCEPT ![c] = to]
      /\ \A x \in Cores \ {c} : m.frame[x] = k.frame[x]
      /\ m.frame[c] = IF to = NoProc THEN ZeroCtx ELSE m.ctx[to]
      /\ \A p \in Procs : m.ctx[p] = IF p = to /\ Injected(k, to) THEN HandlerCtx(Head(k.srv[to].ring).uid)
                                     ELSE Stored(k, c, p)
    BY DEF Switches
<1>3. \A x \in Cores : m.cur[x] = IF x = c THEN to ELSE k.cur[x]
    BY <1>0, <1>2
<1>4. ASSUME NEW s \in Servers
      PROVE  /\ m.srv[s].ring = k.srv[s].ring /\ m.srv[s].waitq = k.srv[s].waitq
             /\ m.srv[s].restore_pending <=> k.srv[s].restore_pending /\ ~(s = k.cur[c] /\ Live(k, s))
             /\ m.srv[s].saved.ctx = IF s = to /\ Injected(k, to) THEN Stored(k, c, s)
                                     ELSE k.srv[s].saved.ctx
    BY DEF Switches, SameService
<1>5. \A u : HandlerCtx(u).mode = "handler" /\ HandlerCtx(u).pc = "entry"
    BY DEF HandlerCtx, Context
<1>6. PlainOK(k) /\ Attended(k, {})
    BY DEF Called
<1>7. ASSUME NEW p \in Procs, m.task[p].state = "BLOCK"
      PROVE  /\ k.task[p].state = "BLOCK"
             /\ ExecOf(m, p) = ExecOf(k, p) \/ ExecOf(m, p).pc \notin {"call", "wait"}
    <2>1. p # to /\ k.task[p].state = "BLOCK"
        BY <1>7 DEF Switches
    <2>2. m.ctx[p] = Stored(k, c, p) /\ Live(k, p)
        BY <1>2, <2>1 DEF Live, proc_get
    <2>3. CASE Core[p] = c
        <3>1. ExecOf(m, p) = Stored(k, c, p)
            BY <1>3, <2>1, <2>2, <2>3 DEF ExecOf
        <3>2. CASE p \in Servers /\ k.srv[p].restore_pending
            BY <1>6, <2>1, <3>1, <3>2 DEF PlainOK, Stored
        <3>3. CASE ~(p \in Servers /\ k.srv[p].restore_pending)
            BY <2>1, <2>2, <2>3, <3>1, <3>3 DEF Stored, ExecOf
        <3> QED BY <2>1, <3>2, <3>3
    <2>4. CASE Core[p] # c
        <3>1. p # k.cur[c]
            BY <1>0, <2>4 DEF CurOK
        <3>2. m.ctx[p] = k.ctx[p] /\ m.cur[Core[p]] = k.cur[Core[p]] /\ m.frame[Core[p]] = k.frame[Core[p]]
            BY <1>0, <1>2, <1>3, <2>2, <2>4, <3>1 DEF Stored
        <3> QED BY <2>1, <3>2 DEF ExecOf
    <2> QED BY <2>3, <2>4
<1>8. Resting(k, m, {}, {})
    BY <1>1, <1>4, <1>7, HasSelf DEF Resting
<1>9. Attended(m, {})
    BY <1>6, <1>8, AttendedRests
<1>10. ASSUME NEW s \in Servers, Watchdog, Stored(k, c, s).mode = "main"
       PROVE  Stored(k, c, s).pc = "run"
    BY <1>6, <1>10 DEF PlainOK, Stored
<1>11. ASSUME NEW s \in Servers, Watchdog, m.ctx[s].mode = "main" PROVE m.ctx[s].pc = "run"
    BY <1>0, <1>2, <1>5, <1>10, <1>11
<1>12. ASSUME NEW s \in Servers, m.srv[s].restore_pending PROVE m.ctx[s].pc \in {"run", "entry"}
    <2>1. k.srv[s].restore_pending /\ ~(s = k.cur[c] /\ Live(k, s))
        BY <1>4, <1>12
    <2>2. Stored(k, c, s) = k.ctx[s] /\ k.ctx[s].pc \in {"run", "entry"}
        BY <1>6, <2>1 DEF Stored, PlainOK
    <2> QED BY <1>0, <1>2, <1>5, <2>2
<1>13. ASSUME NEW s \in Servers, Watchdog PROVE m.srv[s].saved.ctx.pc = "run"
    <2>1. CASE s = to /\ Injected(k, to)
        <3>1. Live(k, s) /\ Core[s] = c /\ k.srv[s].do_switch
            BY <1>0, <2>1 DEF Injected
        <3>2. Stored(k, c, s) = Resumes(k, s)
            BY <1>0, <3>1, StoredResumes
        <3>3. Resumes(k, s).mode = "main"
            BY <3>1 DEF Serviced, Served, ServedOK, Fits, InService
        <3> QED BY <1>4, <1>10, <1>13, <2>1, <3>2, <3>3
    <2>2. CASE ~(s = to /\ Injected(k, to))
        BY <1>4, <1>6, <1>13, <2>2 DEF PlainOK
    <2> QED BY <2>1, <2>2
<1>14. ASSUME NEW s \in Servers, Watchdog, NEW x \in Cores, m.cur[x] = s, m.frame[x].mode = "main"
       PROVE  m.frame[x].pc = "run"
    <2>1. CASE x = c
        BY <1>0, <1>2, <1>3, <1>11, <1>14, <2>1
    <2>2. CASE x # c
        <3>1. k.cur[x] = s /\ m.frame[x] = k.frame[x]
            BY <1>2, <1>3, <1>14, <2>2
        <3> QED BY <1>6, <1>14, <3>1 DEF PlainOK
    <2> QED BY <2>1, <2>2
<1>15. PlainOK(m)
    BY <1>11, <1>12, <1>13, <1>14 DEF PlainOK
<1> QED BY <1>9, <1>15 DEF Called

\* A request is closed: its client has nothing to wait for any more.
LEMMA CalledCloses ==
    ASSUME NEW k, NEW m, NEW s \in Servers, NEW X, BaseInv(k), Called(k, X), Closes(k, m, s), k.srv[s].ring # <<>>
    PROVE  Called(m, X \cup ToWake(k, Head(k.srv[s].ring)))
<1> DEFINE Y == X \cup ToWake(k, Head(k.srv[s].ring))
<1>1. /\ m.task = k.task /\ m.uuid = k.uuid /\ m.ctx = k.ctx /\ m.cur = k.cur /\ m.frame = k.frame
      /\ \A t \in Servers \ {s} : m.srv[t] = k.srv[t]
      /\ m.srv[s].waitq = k.srv[s].waitq /\ m.srv[s].ring = Tail(k.srv[s].ring)
      /\ m.srv[s].restore_pending = k.srv[s].restore_pending /\ m.srv[s].saved = k.srv[s].saved
    BY DEF Closes, OneServer, Alike
<1>2. k.srv[s] \in ServerRecords
    BY KernelFields DEF BaseInv
<1>3. \A i \in DOMAIN k.srv[s].ring : \/ Has(Tail(k.srv[s].ring), k.srv[s].ring[i])
                                      \/ k.srv[s].ring[i] = Head(k.srv[s].ring)
    <2> SUFFICES ASSUME NEW i \in DOMAIN k.srv[s].ring, i # 1
                 PROVE  Has(Tail(k.srv[s].ring), k.srv[s].ring[i])
        BY <1>2, HeadFacts
    <2> DEFINE t == Tail(k.srv[s].ring)
               r == k.srv[s].ring
               L == Len(k.srv[s].ring)
    <2>1. L \in Nat /\ DOMAIN r = 1 .. L /\ DOMAIN t = 1 .. L - 1 /\ \A j \in DOMAIN t : t[j] = r[j + 1]
        BY <1>2, TailFacts
    <2> HIDE DEF t, r, L
    <2>2. i \in DOMAIN r
        BY DEF r
    <2>3. i - 1 \in DOMAIN t /\ t[i - 1] = r[i]
        BY <2>1, <2>2
    <2> QED BY <2>3 DEF Has, t, r
<1>4. SameLife(k, m) /\ \A p \in Procs : ExecOf(m, p) = ExecOf(k, p)
    BY <1>1 DEF SameLife, Live, ExecOf
<1>5. ASSUME NEW t \in Servers, NEW i \in DOMAIN k.srv[t].ring
      PROVE  Has(m.srv[t].ring, k.srv[t].ring[i]) \/ ToWake(k, k.srv[t].ring[i]) \subseteq Y
    <2>1. CASE t = s
        BY <1>1, <1>3, <2>1
    <2>2. CASE t # s
        BY <1>1, <2>2, HasSelf
    <2> QED BY <2>1, <2>2
<1>6. \A t \in Servers : m.srv[t].waitq = k.srv[t].waitq
    BY <1>1
<1> HIDE DEF Y
<1>7. X \subseteq Y
    BY DEF Y
<1>8. Resting(k, m, X, Y)
    BY <1>1, <1>4, <1>5, <1>6, <1>7 DEF Resting
<1>9. Attended(m, Y)
    BY <1>8, AttendedRests DEF Called
<1>10. \A t \in Servers : m.srv[t].restore_pending = k.srv[t].restore_pending /\ m.srv[t].saved = k.srv[t].saved
    BY <1>1
<1>11. PlainOK(m)
    BY <1>1, <1>10 DEF PlainOK, Called
<1> QED BY <1>9, <1>11 DEF Called, Y

\* SYS_IPC_END puts a main context back, which is awake ...
LEMMA CalledFinishes ==
    ASSUME NEW k, NEW m, NEW c \in Cores, NEW s \in Servers, BaseInv(k), Called(k, {}), Finishes(k, m, c, s),
           k.cur[c] = s, SameLife(k, m)
    PROVE  Called(m, {})
<1> DEFINE state == Continued(k.srv[s].saved.state)
<1>0. Servers \subseteq Procs /\ CurOK(k) /\ k.frame \in [Cores -> Contexts] /\ Core[s] = c /\ NoProc \notin Procs
    BY Constants, KernelFields DEF BaseInv, CurOK
<1>1. state # "BLOCK"
    BY DEF Continued
<1>2. Restores(k, m, s, state) /\ m.ctx = k.ctx /\ m.frame = [k.frame EXCEPT ![c] = k.srv[s].saved.ctx]
      /\ ~m.srv[s].restore_pending
    BY DEF Finishes
<1> HIDE DEF state
<1>3. /\ m.uuid = k.uuid /\ m.cur = k.cur /\ m.task[s].state # "BLOCK"
      /\ \A p \in Procs \ {s} : m.task[p] = k.task[p]
      /\ \A t \in Servers \ {s} : m.srv[t] = k.srv[t]
      /\ m.srv[s].waitq = k.srv[s].waitq /\ m.srv[s].ring = k.srv[s].ring /\ m.srv[s].saved = NoSaved
    BY <1>1, <1>2 DEF Restores, OneServer
<1>4. \A x \in Cores : m.frame[x] = IF x = c THEN k.srv[s].saved.ctx ELSE k.frame[x]
    BY <1>0, <1>2
<1>5. ASSUME NEW p \in Procs \ {s} PROVE ExecOf(m, p) = ExecOf(k, p)
    <2>1. Core[p] \in Cores /\ (k.cur[Core[p]] = p => Core[p] # c)
        BY <1>0, Constants
    <2> QED BY <1>2, <1>3, <1>4, <2>1 DEF ExecOf
<1>6. \A t \in Servers : m.srv[t].waitq = k.srv[t].waitq /\ m.srv[t].ring = k.srv[t].ring
    BY <1>3
<1>7. Resting(k, m, {}, {})
    BY <1>3, <1>5, <1>6, HasSelf DEF Resting
<1>8. Attended(m, {})
    BY <1>7, AttendedRests DEF Called
<1>9. PlainOK(k)
    BY DEF Called
<1>10. NoSaved.ctx.pc = "run"
    BY NoSavedFacts, ContextFacts DEF NoSaved
<1>11. ASSUME NEW t \in Servers, Watchdog
       PROVE  /\ m.srv[t].saved.ctx.pc = "run"
              /\ \A x \in Cores : m.cur[x] = t /\ m.frame[x].mode = "main" => m.frame[x].pc = "run"
    <2>1. m.srv[t].saved.ctx.pc = "run"
        BY <1>3, <1>9, <1>10, <1>11 DEF PlainOK
    <2>2. ASSUME NEW x \in Cores, m.cur[x] = t, m.frame[x].mode = "main" PROVE m.frame[x].pc = "run"
        BY <1>3, <1>4, <1>9, <1>11, <2>2 DEF PlainOK
    <2> QED BY <2>1, <2>2
<1>12. \A t \in Servers : m.srv[t].restore_pending => m.ctx[t].pc \in {"run", "entry"}
    BY <1>2, <1>3, <1>9 DEF PlainOK
<1>13. PlainOK(m)
    BY <1>2, <1>9, <1>11, <1>12 DEF PlainOK
<1> QED BY <1>8, <1>13 DEF Called

\* ... and the watchdog one that may be asleep.
LEMMA CalledRecalls ==
    ASSUME NEW k, NEW m, NEW s \in Servers, BaseInv(k), Called(k, {}), Recalls(k, m, s), SameLife(k, m), Watchdog
    PROVE  Called(m, {s})
<1> DEFINE state == k.srv[s].saved.state
<1>0. Servers \subseteq Procs /\ k.ctx \in [Procs -> Contexts]
    BY Constants, KernelFields DEF BaseInv
<1>2. Restores(k, m, s, state) /\ m.frame = k.frame /\ m.ctx = [k.ctx EXCEPT ![s] = k.srv[s].saved.ctx]
    BY DEF Recalls
<1> HIDE DEF state
<1>3. /\ m.uuid = k.uuid /\ m.cur = k.cur
      /\ \A p \in Procs \ {s} : m.task[p] = k.task[p]
      /\ \A t \in Servers \ {s} : m.srv[t] = k.srv[t]
      /\ m.srv[s].waitq = k.srv[s].waitq /\ m.srv[s].ring = k.srv[s].ring /\ m.srv[s].saved = NoSaved
    BY <1>2 DEF Restores, OneServer
<1>4. \A p \in Procs : m.ctx[p] = IF p = s THEN k.srv[s].saved.ctx ELSE k.ctx[p]
    BY <1>0, <1>2
<1>5. \A p \in Procs \ {s} : ExecOf(m, p) = ExecOf(k, p)
    BY <1>2, <1>3, <1>4 DEF ExecOf
<1>6. \A t \in Servers : m.srv[t].waitq = k.srv[t].waitq /\ m.srv[t].ring = k.srv[t].ring
    BY <1>3
<1>7. Resting(k, m, {}, {s})
    BY <1>3, <1>5, <1>6, HasSelf DEF Resting
<1>8. Attended(m, {s})
    BY <1>7, AttendedRests DEF Called
<1>9. PlainOK(k) /\ k.srv[s].saved.ctx.pc = "run"
    BY DEF Called, PlainOK
<1>10. NoSaved.ctx.pc = "run"
    BY NoSavedFacts, ContextFacts DEF NoSaved
<1>11. \A t \in Servers : m.srv[t].saved.ctx.pc = "run"
    BY <1>3, <1>9, <1>10 DEF PlainOK
<1>12. \A t \in Servers : /\ m.srv[t].restore_pending => m.ctx[t].pc \in {"run", "entry"}
                          /\ m.ctx[t].mode = "main" => m.ctx[t].pc = "run"
    BY <1>0, <1>3, <1>4, <1>9 DEF PlainOK
<1>13. PlainOK(m)
    BY <1>2, <1>3, <1>9, <1>11, <1>12 DEF PlainOK
<1> QED BY <1>8, <1>13 DEF Called

\* A request is accepted: its client waits for it.
LEMMA CalledAsks ==
    ASSUME NEW k, NEW m, NEW c \in Cores, NEW s \in Servers, NEW ret \in BOOLEAN, BaseInv(k), Called(k, {}),
           Running(k, c), Live(k, s), Asks(k, m, c, s, ret),
           Watchdog /\ k.cur[c] \in Servers => k.frame[c].mode # "main"
    PROVE  Called(m, {})
<1> DEFINE p == k.cur[c]
           r == Request(k, p, ret)
<1>0. p \in Procs /\ Live(k, p) /\ k \in Kernels /\ Core[p] = c /\ NoProc \notin Procs
    BY Constants DEF Running, BaseInv, CurOK
<1>1. /\ m.task = k.task /\ m.uuid = k.uuid /\ m.ctx = k.ctx /\ m.cur = k.cur
      /\ \A t \in Servers \ {s} : m.srv[t] = k.srv[t]
      /\ m.srv[s].waitq = k.srv[s].waitq /\ m.srv[s].saved = k.srv[s].saved
      /\ m.srv[s].restore_pending = k.srv[s].restore_pending
      /\ Longer(k.srv[s].ring, m.srv[s].ring, r)
    BY DEF Asks, OneServer
<1>2. /\ \A x \in Cores \ {c} : m.frame[x] = k.frame[x]
      /\ m.frame[c].mode = k.frame[c].mode
      /\ ret => m.frame[c].pc = "wait" /\ m.frame[c].to = s /\ m.frame[c].uid = k.ipc_uid + 1
      /\ ~ret => m.frame[c].pc \in {"reply", "run"}
    BY <1>0, AskedFrame
<1>3. SameLife(k, m)
    BY <1>1 DEF SameLife, Live
<1>4. ASSUME NEW q \in Procs \ {p} PROVE ExecOf(m, q) = ExecOf(k, q)
    <2>1. Core[q] \in Cores
        BY Constants
    <2>2. k.cur[Core[q]] = q => Core[q] # c
        OBVIOUS
    <2> QED BY <1>1, <1>2, <2>1, <2>2 DEF ExecOf
<1>5. \A t \in Servers : /\ m.srv[t].waitq = k.srv[t].waitq
                         /\ \A i \in DOMAIN k.srv[t].ring : Has(m.srv[t].ring, k.srv[t].ring[i])
    BY <1>1, HasSelf DEF Longer, Has
<1>6. Resting(k, m, {}, {p})
    BY <1>1, <1>3, <1>4, <1>5 DEF Resting
<1>7. Attended(m, {p})
    BY <1>6, AttendedRests DEF Called
<1>8. ExecOf(m, p) = m.frame[c]
    BY <1>0, <1>1 DEF ExecOf
<1>9. WaitsIn(m, p, m.frame[c])
    <2>1. CASE ret
        <3>1. r.uid = k.ipc_uid + 1 /\ r.ret /\ r.client = p /\ r.uuid = k.uuid[p]
            BY <2>1 DEF Request
        <3> HIDE DEF r, p
        <3>2. ClientOf(m, r) = {p} /\ Live(m, s)
            BY <1>0, <1>1, <3>1 DEF ClientOf, Live
        <3>3. \E i \in DOMAIN m.srv[s].ring : m.srv[s].ring[i] = r
            BY <1>1 DEF Longer
        <3>4. PICK i \in DOMAIN m.srv[s].ring : m.srv[s].ring[i] = r
            BY <3>3
        <3>5. m.frame[c].pc = "wait" /\ m.frame[c].to = s /\ m.frame[c].uid = r.uid
            BY <1>2, <2>1, <3>1
        <3> QED BY <3>1, <3>2, <3>4, <3>5 DEF WaitsIn
    <2>2. CASE ~ret
        BY <1>2, <2>2 DEF WaitsIn
    <2> QED BY <2>1, <2>2
<1>10. Attended(m, {})
    BY <1>7, <1>8, <1>9 DEF Attended
<1>11. \A t \in Servers : m.srv[t].restore_pending = k.srv[t].restore_pending /\ m.srv[t].saved = k.srv[t].saved
    BY <1>1
<1>12. ASSUME NEW t \in Servers, Watchdog, NEW x \in Cores, m.cur[x] = t, m.frame[x].mode = "main"
       PROVE  m.frame[x].pc = "run"
    BY <1>1, <1>2, <1>12 DEF Called, PlainOK
<1>13. PlainOK(m)
    BY <1>1, <1>11, <1>12 DEF PlainOK, Called
<1> QED BY <1>10, <1>13 DEF Called

\* A process ends: nobody goes on waiting for it.
LEMMA CalledTerminates ==
    ASSUME NEW k, NEW m, NEW p \in Procs, BaseInv(k), Called(k, {}), Terminates(k, m, p)
    PROVE  Called(m, {})
<1>0. Servers \subseteq Procs /\ k.uuid \in [Procs -> Nat]
    BY Constants, KernelFields DEF BaseInv
<1>1. /\ m.ctx = k.ctx /\ m.cur = k.cur /\ m.frame = k.frame /\ m.task[p].state = "ZOMBIE"
      /\ m.uuid = [k.uuid EXCEPT ![p] = 0]
    BY DEF Terminates
<1>2. \A q \in Procs : ExecOf(m, q) = ExecOf(k, q)
    BY <1>1 DEF ExecOf
<1>3. ASSUME NEW q \in Procs, m.task[q].state = "BLOCK" PROVE WaitsIn(m, q, ExecOf(m, q))
    <2> DEFINE f == ExecOf(k, q)
    <2>1. q # p /\ m.task[q] = k.task[q] /\ m.uuid[q] = k.uuid[q]
          /\ ~Due(k, p, q) /\ ~(p \in Servers /\ Has(k.srv[p].waitq, q))
        BY <1>0, <1>1, <1>3 DEF Terminates
    <2>2. WaitsIn(k, q, f) /\ (f.pc \in {"call", "wait"} => f.to \in Servers)
        BY <1>3, <2>1, ExecCalls DEF Called, Attended
    <2>3. \A s \in Servers : Live(k, s) /\ s # p => Live(m, s)
        BY <1>0 DEF Terminates, Live, proc_get
    <2>4. Live(m, q)
        BY <1>3 DEF Live, proc_get
    <2>5. \A s \in Servers \ {p} : /\ m.srv[s].ring = k.srv[s].ring
                                   /\ Has(k.srv[s].waitq, q) => Has(m.srv[s].waitq, q)
        BY <1>3, <2>1 DEF Terminates, EasedServer
    <2> HIDE DEF f
    <2>6. CASE f.to # p
        <3>1. WaitsIn(m, q, f)
            BY <2>1, <2>2, <2>3, <2>4, <2>5, <2>6, HasSelf, WaitsInKept
        <3> QED BY <1>2, <3>1 DEF f
    <2>7. CASE f.to = p
        <3>1. f.pc # "wait"
            BY <2>1, <2>2, <2>7 DEF WaitsIn, Due
        <3>2. f.pc # "call"
            BY <2>1, <2>2, <2>7 DEF WaitsIn
        <3> QED BY <1>2, <3>1, <3>2 DEF f, WaitsIn
    <2> QED BY <2>6, <2>7
<1>4. ASSUME NEW s \in Servers
      PROVE  /\ m.srv[s].saved.ctx = k.srv[s].saved.ctx
             /\ m.srv[s].restore_pending => k.srv[s].restore_pending
    BY DEF Terminates, EasedServer
<1>5. PlainOK(m)
    BY <1>1, <1>4 DEF PlainOK, Called
<1> QED BY <1>3, <1>5 DEF Called, Attended

\* A pid is used again.
LEMMA CalledSpawns ==
    ASSUME NEW k, NEW m, BaseInv(k), Called(k, {}), BySpawn(k, m)
    PROVE  Called(m, {})
<1>1. PICK p \in Procs :
       /\ ~Live(k, p) /\ k.cur[Core[p]] # p /\ m.cur = k.cur /\ m.frame = k.frame
       /\ m.task = [k.task EXCEPT ![p] = NewTask("READY")] /\ m.ctx = [k.ctx EXCEPT ![p] = MainCtx]
       /\ m.uuid = [k.uuid EXCEPT ![p] = k.last_uuid + 1]
       /\ \A s \in Servers : m.srv[s] = IF s = p THEN NewServer ELSE k.srv[s]
    BY DEF BySpawn
<1>2. k.task \in [Procs -> Tasks] /\ k.ctx \in [Procs -> Contexts] /\ Servers \subseteq Procs /\ CurOK(k)
      /\ k.uuid \in [Procs -> Nat]
    BY KernelFields, Constants DEF BaseInv
<1>3. \A q \in Procs \ {p} : /\ m.task[q] = k.task[q] /\ m.ctx[q] = k.ctx[q] /\ m.uuid[q] = k.uuid[q]
                             /\ Live(m, q) <=> Live(k, q)
    BY <1>1, <1>2 DEF Live
<1>4. m.ctx[p] = MainCtx /\ m.task[p].state = "READY" /\ MainCtx.pc = "run"
    BY <1>1, <1>2, ContextFacts DEF NewTask
<1>5. ~NewServer.restore_pending /\ NewServer.saved.ctx.pc = "run"
    BY ContextFacts DEF NewServer, NoSaved
<1> HIDE DEF NewServer
<1>6. ASSUME NEW q \in Procs, m.task[q].state = "BLOCK" PROVE WaitsIn(m, q, ExecOf(m, q))
    <2> DEFINE f == ExecOf(k, q)
    <2>1. q # p /\ k.task[q].state = "BLOCK" /\ ExecOf(m, q) = f
        BY <1>1, <1>3, <1>4, <1>6 DEF ExecOf
    <2>2. WaitsIn(k, q, f) /\ (f.pc \in {"call", "wait"} => f.to \in Servers)
        BY <2>1, ExecCalls DEF Called, Attended
    <2>3. Live(m, q) /\ m.uuid[q] = k.uuid[q]
        BY <1>3, <1>6, <2>1 DEF Live, proc_get
    <2>4. \A s \in Servers : Live(k, s) => Live(m, s) /\ m.srv[s] = k.srv[s]
        BY <1>1, <1>2, <1>3
    <2> HIDE DEF f
    <2>5. WaitsIn(m, q, f)
        BY <2>2, <2>3, <2>4, HasSelf, WaitsInKept
    <2> QED BY <2>1, <2>5
<1>7. PlainOK(k)
    BY DEF Called
<1>8. ASSUME NEW s \in Servers
      PROVE  /\ m.srv[s].restore_pending => m.ctx[s].pc \in {"run", "entry"}
             /\ Watchdog => m.srv[s].saved.ctx.pc = "run" /\ (m.ctx[s].mode = "main" => m.ctx[s].pc = "run")
    <2>1. CASE s = p
        <3>1. m.srv[s] = NewServer
            BY <1>1, <2>1
        <3> QED BY <1>4, <1>5, <2>1, <3>1
    <2>2. CASE s # p
        <3>1. m.srv[s] = k.srv[s] /\ m.ctx[s] = k.ctx[s]
            BY <1>1, <1>2, <1>3, <2>2
        <3> QED BY <1>7, <3>1 DEF PlainOK
    <2> QED BY <2>1, <2>2
<1>9. PlainOK(m)
    BY <1>1, <1>7, <1>8 DEF PlainOK
<1> QED BY <1>6, <1>9 DEF Called, Attended

\* A core is given away.
LEMMA CalledDispatches ==
    ASSUME NEW k, NEW m, NEW c \in Cores, BaseInv(k), Serviced(k, {}, {c}), Called(k, {}), Dispatches(k, m, c)
    PROVE  Called(m, {})
<1>1. PICK to \in Procs \cup {NoProc} : /\ Switches(k, m, c, to)
                                        /\ to # NoProc => Core[to] = c /\ k.task[to].state \in Runnable
    BY DEF Dispatches
<1>2. to # NoProc => Core[to] = c /\ Live(k, to)
    BY <1>1 DEF Runnable, Live, proc_get
<1> QED BY <1>1, <1>2, CalledSwitches

\* A task is parked with something to wait for, or goes on.
LEMMA CalledBlocks ==
    ASSUME NEW k, NEW m, NEW c \in Cores, BaseInv(k), ServiceInv(k), Called(k, {}), Running(k, c),
           WaitsIn(k, k.cur[c], ExecOf(k, k.cur[c])), Blocks(k, m, c)
    PROVE  Called(m, {})
<1>1. PICK n \in Kernels, state \in {"BLOCK", "RUNNING", k.task[k.cur[c]].state} :
         /\ Retasks(k, n, k.cur[c], state)
         /\ IF state = "BLOCK" THEN Dispatches(n, m, c) ELSE m = n
    BY DEF Blocks
<1>2. k.cur[c] \in Procs /\ Live(k, k.cur[c]) /\ state \notin {"ZOMBIE", "UNUSED"}
    BY <1>1 DEF Running, Live, proc_get, ServiceInv, Used
<1>3. BaseInv(n)
    BY <1>1, <1>2, BaseRetasks
<1>4. SameWork(k, n)
    BY <1>1, <1>2, SameWorkSteps
<1>5. ServiceInv(n)
    BY <1>4, ServiceKept
<1>6. Called(n, {})
    BY <1>1, <1>2, CalledRetasks
<1> QED BY <1>1, <1>3, <1>5, <1>6, ServiceForms, CalledDispatches

\* A core is handed over.
LEMMA CalledHands ==
    ASSUME NEW k, NEW m, NEW c \in Cores, NEW to \in Procs, BaseInv(k), ServiceInv(k), Called(k, {}),
           Live(k, to), Hands(k, m, c, to)
    PROVE  Called(m, {})
<1>1. PICK n \in Kernels :
         /\ Eases(k, n, {to}) \/ (n = k /\ k.task[to].state = "RUNNING")
         /\ Core[to] = c => Switches(n, m, c, to)
         /\ Core[to] # c => m = n
    BY DEF Hands
<1>2. BaseInv(n) /\ Live(n, to)
    BY <1>1, BaseEases, EasesLive
<1>3. ServiceInv(n)
    BY <1>1, SameWorkSteps, ServiceKept
<1>4. Called(n, {})
    <2>1. CASE Eases(k, n, {to})
        <3>1. Called(n, {} \ {to})
            BY <2>1, CalledEases
        <3>2. {} \ {to} = {}
            OBVIOUS
        <3> QED BY <3>1, <3>2
    <2> QED BY <1>1, <2>1
<1> QED BY <1>1, <1>2, <1>3, <1>4, ServiceForms, CalledSwitches

\* proc_ipc_call(), which no main loop of a server makes under the watchdog.
LEMMA CalledCalls ==
    ASSUME NEW k, NEW m, NEW c \in Cores, NEW s \in Servers, NEW ret \in BOOLEAN, BaseInv(k), ServiceInv(k),
           Called(k, {}), Running(k, c), CallEffect(k, m, c, s, ret),
           Watchdog /\ k.cur[c] \in Servers => k.frame[c].mode # "main"
    PROVE  Called(m, {})
<1> DEFINE f == k.frame[c]
           p == k.cur[c]
<1>0. f \in Contexts /\ k \in Kernels /\ k.frame \in [Cores -> Contexts] /\ s \in Procs /\ p \in Procs
      /\ Core[p] = c
    BY KernelFields, Constants DEF BaseInv, Running, CurOK
<1>1. CASE Reframes(k, m, c, Back(f))
    <2> DEFINE g == Back(f)
    <2>1. g.mode = f.mode /\ g.pc \in {"reply", "run"}
        BY <1>0, CallContexts
    <2> HIDE DEF g
    <2>2. Reframes(k, m, c, g)
        BY <1>1 DEF g
    <2> QED BY <1>0, <2>1, <2>2, CalledReframes
<1>2. CASE /\ Live(k, s)
           /\ \E k1, k2 \in Kernels :
             /\ Reframes(k, k1, c, Calling(k.frame[c], s, ret))
             /\ Queueing(k1, k2, {k.cur[c]}) /\ Has(k2.srv[s].waitq, k.cur[c]) /\ Blocks(k2, m, c)
    <2>1. PICK k1, k2 \in Kernels :
             /\ Reframes(k, k1, c, Calling(k.frame[c], s, ret))
             /\ Queueing(k1, k2, {k.cur[c]}) /\ Has(k2.srv[s].waitq, k.cur[c]) /\ Blocks(k2, m, c)
        BY <1>2
    <2> DEFINE g == Calling(f, s, ret)
    <2>2. g.mode = f.mode /\ g.serving = f.serving /\ g.pc = "call" /\ g.to = s
        <3> HIDE DEF f
        <3> QED BY <1>0 DEF Contexts, Calling
    <2> HIDE DEF g
    <2>3. CallOK(k, g)
        BY <2>2 DEF CallOK
    <2>4. Reframes(k, k1, c, g)
        BY <2>1 DEF g
    <2>5. BaseInv(k1)
        BY <2>2, <2>3, <2>4, BaseReframes
    <2>6. BaseInv(k2)
        BY <2>1, <2>5, BaseQueueing
    <2>7. /\ k1.cur = k.cur /\ k2.cur = k.cur /\ k2.task = k.task
          /\ k2.frame = [k.frame EXCEPT ![c] = g]
        BY <2>1, <2>4 DEF Reframes, Steady, Queueing, Alike
    <2>8. SameWork(k, k1) /\ SameWork(k1, k2)
        BY <1>0, <2>1, <2>2, <2>4, SameWorkReframes, SameWorkSteps
    <2>9. ServiceInv(k2)
        BY <2>8, ServiceKept
    <2>10. Running(k2, c)
        BY <2>7 DEF Running, Live
    <2>11. Called(k1, {p})
        BY <1>0, <2>2, <2>4, CalledReframes
    <2>12. ExecOf(k2, p) = g
        BY <1>0, <2>7 DEF ExecOf
    <2>13. WaitsIn(k2, p, g)
        BY <1>2, <2>1, <2>2, <2>7 DEF WaitsIn, Live
    <2>14. Called(k2, {})
        BY <2>1, <2>5, <2>11, <2>12, <2>13, CalledQueueing
    <2> QED BY <2>1, <2>6, <2>7, <2>9, <2>10, <2>12, <2>13, <2>14, CalledBlocks
<1>3. CASE /\ Live(k, s) /\ ~Closed(k, s)
           /\ \E k1 \in Kernels : /\ Asks(k, k1, c, s, ret)
                                  /\ IF k.srv[s].ring = <<>> THEN Starts(k1, m, c, s) ELSE m = k1
    <2>1. PICK k1 \in Kernels : /\ Asks(k, k1, c, s, ret)
                                /\ IF k.srv[s].ring = <<>> THEN Starts(k1, m, c, s) ELSE m = k1
        BY <1>3
    <2>2. Called(k1, {})
        BY <1>3, <2>1, CalledAsks
    <2>3. CASE k.srv[s].ring = <<>>
        <3>1. PICK n \in Kernels : Arms(k1, n, s, FALSE) /\ Hands(n, m, c, s)
            BY <2>1, <2>3 DEF Starts
        <3>2. BaseInv(k1)
            BY <1>3, <2>1, BaseAsks DEF Running
        <3>3. Live(k1, s) /\ Live(n, s)
            BY <1>3, <2>1, <3>1 DEF Asks, Arms, Live
        <3>4. BaseInv(n)
            BY <3>1, <3>2, <3>3, BaseArms
        <3>5. ServiceInv(n)
            BY <1>3, <2>1, <2>3, <3>1, ServiceFirst, ZenonT(30)
        <3>6. Called(n, {})
            BY <2>2, <3>1, <3>2, CalledArms
        <3> QED BY <1>0, <3>1, <3>3, <3>4, <3>5, <3>6, CalledHands
    <2> QED BY <2>1, <2>2, <2>3
<1> QED BY <1>1, <1>2, <1>3 DEF CallEffect

\* proc_ipc_end()
LEMMA CalledEnds ==
    ASSUME NEW k, NEW m, NEW c \in Cores, BaseInv(k), ServiceInv(k), Called(k, {}), Running(k, c),
           k.cur[c] \in Servers, k.frame[c].mode = "handler", k.srv[k.cur[c]].ring # <<>>, EndEffect(k, m, c)
    PROVE  Called(m, {})
<1> DEFINE s == k.cur[c]
           r == Head(k.srv[s].ring)
<1>1. PICK k1, k2, k3 \in Kernels, Q \in SUBSET Procs : EndStates(k, m, c, k1, k2, k3, Q)
    BY EndChain
<1>2. /\ BaseInv(k1) /\ BaseInv(k2) /\ BaseInv(k3) /\ s \in Procs /\ SameLife(k, k1) /\ k1.srv[s].ring = k.srv[s].ring
    BY <1>1, EndBase, Constants
<1>3. EndNext(k, m, c, k3)
    BY <1>1, ServiceEndNext
<1>4. Finishes(k, k1, c, s) /\ Closes(k1, k2, s) /\ Eases(k2, k3, Q) /\ ToWake(k, r) \subseteq Q
    BY <1>1 DEF EndStates
<1>5. Called(k1, {})
    BY <1>2, <1>4, CalledFinishes
<1>6. Called(k2, {} \cup ToWake(k1, r))
    BY <1>2, <1>4, <1>5, CalledCloses
<1>7. ToWake(k1, r) \subseteq Q
    <2>1. k1.uuid = k.uuid
        BY <1>4 DEF Finishes, Restores
    <2>2. r.client \in Procs
        <3>1. k.srv[s] \in ServerRecords
            BY KernelFields DEF BaseInv
        <3> QED BY <3>1, HeadFacts
    <2> HIDE DEF r
    <2>3. ToWake(k1, r) = ToWake(k, r)
        BY <1>2, <2>1, <2>2 DEF ToWake, ClientOf, SameLife
    <2> QED BY <1>4, <2>3
<1>8. Called(k3, {})
    <2>1. Called(k3, ({} \cup ToWake(k1, r)) \ Q)
        BY <1>2, <1>4, <1>6, CalledEases
    <2>2. ({} \cup ToWake(k1, r)) \ Q = {}
        BY <1>7
    <2> QED BY <2>1, <2>2
<1>9. CASE k3.srv[s].ring # <<>>
    <2>1. PICK n \in Kernels : /\ Arms(k3, n, s, FALSE) /\ Hands(n, m, c, s)
                               /\ BaseInv(n) /\ Live(n, s) /\ ServiceInv(n)
        BY <1>3, <1>9 DEF EndNext
    <2>2. Called(n, {})
        BY <1>2, <1>8, <2>1, CalledArms
    <2> QED BY <1>2, <2>1, <2>2, CalledHands
<1>10. CASE k3.srv[s].ring = <<>>
    <2>1. /\ ServiceInv(k3)
          /\ \/ Dispatches(k3, m, c)
             \/ \E to \in ToWake(k, r) : to \in Procs /\ Live(k3, to) /\ Hands(k3, m, c, to)
        BY <1>3, <1>10 DEF EndNext
    <2> QED BY <1>2, <1>8, <2>1, ServiceForms, CalledDispatches, CalledHands
<1> QED BY <1>9, <1>10

\* The next request of a server whose request was abandoned is armed.
LEMMA CalledRearms ==
    ASSUME NEW k, NEW m, NEW s \in Servers, BaseInv(k), Live(k, s), Watchdog, Called(k, {}), Rearms(k, m, s)
    PROVE  Called(m, {})
<1>1. CASE k.srv[s].ring = <<>>
    BY <1>1 DEF Rearms
<1>2. CASE k.srv[s].ring # <<>>
    <2>1. PICK n \in Kernels : /\ Arms(k, n, s, k.srv[s].restore_pending)
                               /\ Eases(n, m, {s}) \/ m = n
        BY <1>2 DEF Rearms
    <2>2. BaseInv(n)
        BY <2>1, BaseArms
    <2>3. Called(n, {})
        BY <2>1, CalledArms
    <2>4. {} \ {s} = {}
        OBVIOUS
    <2>5. Eases(n, m, {s}) => Called(m, {} \ {s})
        BY <2>2, <2>3, CalledEases
    <2> QED BY <2>1, <2>3, <2>4, <2>5
<1> QED BY <1>1, <1>2

\* proc_ipc_timeout()
LEMMA CalledTimeouts ==
    ASSUME NEW k, NEW m, NEW s \in Servers, BaseInv(k), Called(k, {}), Watchdog, k.srv[s].ring # <<>>,
           TimeoutEffect(k, m, s)
    PROVE  Called(m, {})
<1> DEFINE r == Head(k.srv[s].ring)
<1>0. PICK k1, k2, k3, k4, k5, k6 \in Kernels, Q \in SUBSET Procs :
          TimeoutStates(k, m, s, k1, k2, k3, k4, k5, k6, Q)
    BY TimeoutChain
<1>1. /\ Recalls(k, k1, s)
      /\ Eases(k1, k2, {s}) \/ (k2 = k1 /\ k1.task[s].state = "UNUSED")
      /\ Closes(k2, k3, s) /\ Quiet(k3, k4) /\ Eases(k4, k5, Q)
      /\ ClientOf(k3, r) \subseteq Q /\ Rearms(k5, k6, s) /\ Quiet(k6, m)
    BY <1>0 DEF TimeoutStates
<1>2. /\ BaseInv(k1) /\ BaseInv(k2) /\ BaseInv(k3) /\ BaseInv(k4) /\ BaseInv(k5) /\ BaseInv(k6)
      /\ SameLife(k, k1) /\ SameLife(k, k5) /\ k2.srv[s].ring = k.srv[s].ring
    <2>1. BaseInv(k1) /\ BaseInv(k2) /\ BaseInv(k3) /\ SameLife(k, k1) /\ SameLife(k, k5)
        BY <1>0, TimeoutBase
    <2>2. BaseInv(k4) /\ BaseInv(k5) /\ BaseInv(k6)
        BY <1>0, TimeoutBase
    <2>3. k2.srv[s].ring = k.srv[s].ring
        BY <1>1 DEF Recalls, Restores, Eases, EasedServer
    <2> QED BY <2>1, <2>2, <2>3
<1>3. Live(k5, s) /\ s \in Procs
    BY <1>2, Constants DEF BaseInv, DeadOK, SameLife
<1>4. Called(k1, {s})
    BY <1>1, <1>2, CalledRecalls
<1>5. Called(k2, {})
    <2>1. CASE Eases(k1, k2, {s})
        <3>1. Called(k2, {s} \ {s})
            BY <1>2, <1>4, <2>1, CalledEases
        <3>2. {s} \ {s} = {}
            OBVIOUS
        <3> QED BY <3>1, <3>2
    <2>2. CASE k2 = k1 /\ k1.task[s].state = "UNUSED"
        BY <1>4, <2>2 DEF Called, Attended
    <2> QED BY <1>1, <2>1, <2>2
<1>6. Called(k3, {} \cup ToWake(k2, r))
    BY <1>1, <1>2, <1>5, CalledCloses
<1>7. Called(k4, {} \cup ToWake(k2, r))
    BY <1>1, <1>2, <1>6, CalledQuiet
<1>8. Called(k5, ({} \cup ToWake(k2, r)) \ Q)
    BY <1>1, <1>2, <1>7, CalledEases
<1>9. ({} \cup ToWake(k2, r)) \ Q = {}
    <2>1. k3.uuid = k2.uuid /\ k3.task = k2.task
        BY <1>1 DEF Closes, Alike
    <2> HIDE DEF r
    <2>2. ToWake(k2, r) \subseteq ClientOf(k3, r)
        BY <2>1 DEF ToWake, ClientOf, Live
    <2> QED BY <1>1, <2>2
<1>10. Called(k5, {})
    BY <1>8, <1>9
<1>11. Called(k6, {})
    BY <1>1, <1>2, <1>3, <1>10, CalledRearms
<1> QED BY <1>1, <1>2, <1>11, CalledQuiet

\* A task that is parked in SYS_IPC_GET_RETURN waits for its own request.
LEMMA PendingWaits ==
    ASSUME NEW k, NEW m, NEW c \in Cores, BaseInv(k), m.srv = k.srv, m.task = k.task, m.uuid = k.uuid,
           k.frame[c].pc = "run" \/ (k.frame[c].pc = "wait" /\ Pending(k, c))
    PROVE  WaitsIn(m, k.cur[c], k.frame[c])
<1>1. CASE k.frame[c].pc = "run"
    BY <1>1 DEF WaitsIn
<1>2. CASE k.frame[c].pc = "wait" /\ Pending(k, c)
    <2> DEFINE f == k.frame[c]
               p == k.cur[c]
    <2>1. CallOK(k, f) /\ f.to \in Servers /\ f.pc = "wait"
        BY <1>2, BaseFacts DEF CallOK
    <2>2. Live(k, f.to)
        BY <1>2 DEF Pending
    <2>3. PICK i \in DOMAIN k.srv[f.to].ring :
             k.srv[f.to].ring[i].uid = f.uid /\ ClientOf(k, k.srv[f.to].ring[i]) = {p}
        BY <1>2 DEF Pending
    <2> HIDE DEF f, p
    <2>4. k.srv[f.to].ring[i].ret
        BY <2>1, <2>3 DEF CallOK
    <2>5. ClientOf(m, k.srv[f.to].ring[i]) = {p} /\ Live(m, f.to)
        BY <2>2, <2>3 DEF ClientOf, Live
    <2>6. WaitsIn(m, p, f)
        BY <2>1, <2>3, <2>4, <2>5 DEF WaitsIn
    <2> QED BY <2>6 DEF f, p
<1> QED BY <1>1, <1>2

\* Every step keeps the invariant.
LEMMA CalledKept ==
    ASSUME NEW k, NEW m, ServersOnTimerCore, MainsMakeNoCalls, BaseInv(k), ServiceInv(k), Called(k, {}),
           Effect(k, m)
    PROVE  Called(m, {})
<1>0. PlainOK(k)
    BY DEF Called
<1>1. CASE ByCall(k, m)
    <2>1. PICK c \in Cores, k0 \in Kernels, s \in Servers, ret \in BOOLEAN :
             /\ Running(k, c) /\ Quiet(k, k0) /\ CallEffect(k0, m, c, s, ret)
             /\ \/ k.frame[c].mode = "main" /\ s \in MainCalls[k.cur[c]]
                \/ k.frame[c].mode = "handler"
                \/ k.frame[c].pc = "call"
        BY <1>1 DEF ByCall
    <2>2. BaseInv(k0) /\ ServiceInv(k0) /\ Called(k0, {})
        BY <2>1, BaseQuiet, SameWorkSteps, ServiceKept, CalledQuiet
    <2>3. Running(k0, c) /\ k0.cur = k.cur /\ k0.frame = k.frame
        BY <2>1 DEF Running, Quiet, Steady, Live
    <2>4. Watchdog /\ k.cur[c] \in Servers => k.frame[c].mode # "main"
        BY <1>0, <2>1 DEF PlainOK, MainsMakeNoCalls
    <2> QED BY <2>1, <2>2, <2>3, <2>4, CalledCalls
<1>2. CASE BySchedule(k, m)
    <2>1. PICK c \in Cores, k0 \in Kernels : Quiet(k, k0) /\ Dispatches(k0, m, c)
        BY <1>2 DEF BySchedule
    <2>2. BaseInv(k0) /\ ServiceInv(k0) /\ Called(k0, {})
        BY <2>1, BaseQuiet, SameWorkSteps, ServiceKept, CalledQuiet
    <2> QED BY <2>1, <2>2, ServiceForms, CalledDispatches
<1>3. CASE ByBlock(k, m)
    <2>1. PICK c \in Cores, k0 \in Kernels :
             /\ Running(k, c) /\ Quiet(k, k0) /\ Blocks(k0, m, c)
             /\ k.frame[c].pc = "run" \/ (k.frame[c].pc = "wait" /\ Pending(k, c))
        BY <1>3 DEF ByBlock
    <2>2. BaseInv(k0) /\ ServiceInv(k0) /\ Called(k0, {})
        BY <2>1, BaseQuiet, SameWorkSteps, ServiceKept, CalledQuiet
    <2>3. Running(k0, c) /\ k0.cur = k.cur /\ k0.frame = k.frame /\ k0.srv = k.srv /\ k0.task = k.task
          /\ k0.uuid = k.uuid
        BY <2>1 DEF Running, Quiet, Steady, Live
    <2>4. WaitsIn(k0, k.cur[c], k.frame[c])
        BY <2>1, <2>3, PendingWaits
    <2>5. ExecOf(k0, k.cur[c]) = k.frame[c]
        BY <2>1, <2>3, Constants DEF Running, BaseInv, CurOK, ExecOf
    <2> QED BY <2>1, <2>2, <2>3, <2>4, <2>5, CalledBlocks
<1>4. CASE ByCode(k, m)
    <2>1. PICK c \in Cores, g \in Contexts :
             /\ Running(k, c) /\ Reframes(k, m, c, g) /\ g.mode = k.frame[c].mode
             /\ \/ Returns(k, m, c, g) \/ Begins(k, m, c, g) \/ Works(k, m, c, g) \/ Answers(k, m, c, g)
                \/ Moves(k, m, c, g)
        BY <1>4 DEF ByCode
    <2>2. k.frame[c] \in Contexts
        BY KernelFields DEF BaseInv
    <2>3. g.pc \notin {"call", "wait"} /\ (g.mode = "main" => g.pc = "run")
        <3>1. CASE Returns(k, m, c, g)
            <4>1. g = Back(k.frame[c])
                BY <3>1 DEF Returns
            <4> DEFINE f == k.frame[c]
            <4> HIDE DEF f
            <4>2. f \in Contexts /\ g = Back(f)
                BY <2>2, <4>1 DEF f
            <4> QED BY <4>2 DEF Back, Contexts
        <3>2. CASE Begins(k, m, c, g) \/ Works(k, m, c, g) \/ Answers(k, m, c, g) \/ Moves(k, m, c, g)
            BY <2>1, <3>2 DEF Begins, Works, Answers, Moves
        <3> QED BY <2>1, <3>1, <3>2
    <2> QED BY <2>1, <2>3, CalledReframes DEF Running
<1>5. CASE BySleep(k, m)
    <2>1. PICK c \in Cores, k0 \in Kernels, state \in {"SLEEPING", "WAIT"} :
             /\ Running(k, c) /\ Retasks(k, k0, k.cur[c], state) /\ Dispatches(k0, m, c)
        BY <1>5 DEF BySleep
    <2>2. BaseInv(k0)
        BY <2>1, BaseRetasks DEF Running
    <2>3. SameWork(k, k0)
        BY <2>1, SameWorkSteps DEF Running
    <2>4. ServiceInv(k0)
        BY <2>3, ServiceKept
    <2>5. Called(k0, {})
        BY <2>1, CalledRetasks DEF Running
    <2> QED BY <2>1, <2>2, <2>4, <2>5, ServiceForms, CalledDispatches
<1>6. CASE ByQueue(k, m)
    <2>1. PICK k0, k1 \in Kernels, Q \in SUBSET Procs :
             Quiet(k, k0) /\ Queueing(k0, k1, {}) /\ Eases(k1, m, Q)
        BY <1>6 DEF ByQueue
    <2>2. BaseInv(k0) /\ Called(k0, {})
        BY <2>1, BaseQuiet, CalledQuiet
    <2>3. BaseInv(k1) /\ Called(k1, {})
        BY <2>1, <2>2, BaseQueueing, CalledQueueing
    <2>4. Called(m, {} \ Q)
        BY <2>1, <2>3, CalledEases
    <2>5. {} \ Q = {}
        OBVIOUS
    <2> QED BY <2>4, <2>5
<1>7. CASE ByTimer(k, m)
    <2>1. PICK p \in Procs : k.task[p].state \in {"SLEEPING", "BLOCK"} /\ Retasks(k, m, p, "READY")
        BY <1>7 DEF ByTimer
    <2>2. Live(k, p)
        BY <2>1 DEF Live, proc_get
    <2> QED BY <2>1, <2>2, CalledRetasks
<1>8. CASE ByEvent(k, m)
    <2>1. PICK p \in Servers, k1 \in Kernels : Eases(k, k1, {p}) /\ Quiet(k1, m)
        BY <1>8 DEF ByEvent
    <2>2. BaseInv(k1) /\ Called(k1, {} \ {p})
        BY <2>1, BaseEases, CalledEases
    <2>3. {} \ {p} = {}
        OBVIOUS
    <2> QED BY <2>1, <2>2, <2>3, CalledQuiet
<1>9. CASE ByEnd(k, m)
    <2>1. PICK c \in Cores, k0 \in Kernels :
             /\ Running(k, c) /\ k.cur[c] \in Servers /\ Quiet(k, k0) /\ k.frame[c].mode = "handler"
             /\ IF k.srv[k.cur[c]].ring = <<>> THEN m = k0 ELSE EndEffect(k0, m, c)
        BY <1>9 DEF ByEnd
    <2>2. BaseInv(k0) /\ ServiceInv(k0) /\ Called(k0, {})
        BY <2>1, BaseQuiet, SameWorkSteps, ServiceKept, CalledQuiet
    <2>3. Running(k0, c) /\ k0.cur[c] = k.cur[c] /\ k0.srv = k.srv /\ k0.frame = k.frame
        BY <2>1 DEF Running, Quiet, Steady, Live
    <2> QED BY <2>1, <2>2, <2>3, CalledEnds
<1>10. CASE ByTimeout(k, m)
    <2>1. PICK s \in Servers, k0 \in Kernels :
             /\ Watchdog /\ k.srv[s].ring # <<>> /\ ~k.srv[s].do_switch
             /\ TimeoutEffect(k, k0, s) /\ Dispatches(k0, m, 0)
        BY <1>10 DEF ByTimeout
    <2>2. PICK k1, k2, k3, k4, k5, k6 \in Kernels, Q \in SUBSET Procs :
              TimeoutStates(k, k0, s, k1, k2, k3, k4, k5, k6, Q)
        BY <2>1, TimeoutChain
    <2>3. BaseInv(k0)
        BY <2>1, <2>2, TimeoutBase
    <2>4. 0 \in Cores /\ Core[s] = 0
        BY <2>1, Constants DEF ServersOnTimerCore
    <2>5. Serviced(k0, {}, {0})
        BY <2>1, <2>4, ServiceTimeouts
    <2>6. Called(k0, {})
        BY <2>1, CalledTimeouts
    <2> QED BY <2>1, <2>3, <2>4, <2>5, <2>6, CalledDispatches
<1>11. CASE ByDeath(k, m)
    <2>1. PICK p \in Procs, c \in Cores, k0, k1 \in Kernels :
             Quiet(k, k0) /\ Terminates(k0, k1, p) /\ Dispatches(k1, m, c)
        BY <1>11 DEF ByDeath
    <2>2. BaseInv(k0) /\ Called(k0, {})
        BY <2>1, BaseQuiet, CalledQuiet
    <2>3. BaseInv(k1) /\ Called(k1, {})
        BY <2>1, <2>2, BaseTerminates, CalledTerminates
    <2>4. SameWork(k, k0) /\ SameWork(k0, k1)
        BY <2>1, SameWorkSteps
    <2>5. ServiceInv(k1)
        BY <2>4, ServiceKept
    <2> QED BY <2>1, <2>3, <2>5, ServiceForms, CalledDispatches
<1>12. CASE BySpawn(k, m)
    BY <1>12, CalledSpawns
<1> QED BY <1>1, <1>2, <1>3, <1>4, <1>5, <1>6, <1>7, <1>8, <1>9, <1>10, <1>11, <1>12 DEF Effect

\* It holds at the start.
LEMMA CalledInit == Init => Called(kernel, {})
<1> SUFFICES ASSUME Init PROVE Called(kernel, {})
    OBVIOUS
<1>1. /\ \A p \in Procs : kernel.task[p].state = "READY" /\ kernel.ctx[p] = MainCtx
      /\ \A s \in Servers : ~kernel.srv[s].restore_pending /\ kernel.srv[s].saved = NoSaved
      /\ \A c \in Cores : kernel.cur[c] = NoProc
    BY InitKernel DEF NewTask, NewServer
<1>2. Servers \subseteq Procs /\ NoProc \notin Procs
    BY Constants
<1>3. MainCtx.pc = "run" /\ NoSaved.ctx.pc = "run"
    BY ContextFacts DEF NoSaved
<1>4. PlainOK(kernel)
    BY <1>1, <1>2, <1>3 DEF PlainOK
<1> QED BY <1>1, <1>4 DEF Called, Attended

\* A process asleep in ipc_call() has something to wait for: a request of its
\* own in the ring of a live server, or a place in a live server's wait queue.
\* Its server may die, time out or serve others first.
THEOREM CallersAreAttended == ServersOnTimerCore /\ MainsMakeNoCalls /\ Spec => []CallerAttended
<1> SUFFICES ASSUME ServersOnTimerCore, MainsMakeNoCalls PROVE Spec => []CallerAttended
    OBVIOUS
<1>1. BaseInv(kernel) /\ ServiceInv(kernel) /\ Called(kernel, {}) /\ [Next]_kernel => Called(kernel, {})'
    <2>1. ASSUME BaseInv(kernel), ServiceInv(kernel), Called(kernel, {}), Next PROVE Called(kernel', {})
        BY <2>1, NextEffect, CalledKept
    <2> QED BY <2>1
<1>2. ASSUME Called(kernel, {}) PROVE CallerAttended
    <2> SUFFICES ASSUME NEW p \in Procs, kernel.task[p].state = "BLOCK"
                 PROVE  /\ Exec(p).pc = "wait" =>
                              /\ Live(kernel, Exec(p).to)
                              /\ \E i \in DOMAIN kernel.srv[Exec(p).to].ring :
                                    /\ kernel.srv[Exec(p).to].ring[i].uid = Exec(p).uid
                                    /\ kernel.srv[Exec(p).to].ring[i].client = p
                        /\ Exec(p).pc = "call" =>
                              Live(kernel, Exec(p).to) /\ Has(kernel.srv[Exec(p).to].waitq, p)
        BY DEF CallerAttended
    <2>1. Exec(p) = ExecOf(kernel, p)
        BY DEF Exec, ExecOf
    <2>2. WaitsIn(kernel, p, Exec(p))
        BY <1>2, <2>1 DEF Called, Attended
    <2>3. \A r : ClientOf(kernel, r) = {p} => r.client = p
        BY DEF ClientOf
    <2> QED BY <2>2, <2>3 DEF WaitsIn
<1> QED BY CalledInit, <1>1, <1>2, ServiceHolds, BaseHolds, PTL DEF Spec

-----------------------------------------------------------------------------
(* Without the watchdog: what is executed is what was stored.               *)

\* Nothing waits to be restored.
LEMMA CalmExec ==
    ASSUME NEW k, NEW s \in Servers, BaseInv(k), ~Watchdog
    PROVE  ~k.srv[s].restore_pending /\ Resumes(k, s) = ExecOf(k, s)
BY DEF BaseInv, NoRestore, Resumes, ExecOf

\* A server fits what it executes.
LEMMA CalmServed ==
    ASSUME NEW k, NEW s \in Servers, NEW C, BaseInv(k), ~Watchdog, Serviced(k, {}, C), Live(k, s)
    PROVE  ServedOK(k.srv[s], ExecOf(k, s))
BY CalmExec DEF Serviced, Served

\* What a switch does to the contexts.
LEMMA CalmSwitches ==
    ASSUME NEW k, NEW m, NEW c \in Cores, NEW to \in Procs \cup {NoProc}, BaseInv(k), ~Watchdog,
           Switches(k, m, c, to), to # NoProc => Core[to] = c /\ Live(k, to)
    PROVE  /\ \A p \in Procs : Live(k, p) =>
                 ExecOf(m, p) = IF p = to /\ Injected(k, to) THEN HandlerCtx(Head(k.srv[to].ring).uid)
                                ELSE ExecOf(k, p)
           /\ \A s \in Servers : Live(k, s) =>
                 m.srv[s].saved.ctx = IF s = to /\ Injected(k, to) THEN ExecOf(k, s) ELSE k.srv[s].saved.ctx
<1>0. /\ Servers \subseteq Procs /\ NoProc \notin Procs /\ k \in Kernels /\ CurOK(k)
      /\ k.cur \in [Cores -> Procs \cup {NoProc}] /\ \A p \in Procs : Core[p] \in Cores
    BY Constants, KernelFields DEF BaseInv
<1>2. /\ m.cur = [k.cur EXCEPT ![c] = to]
      /\ \A x \in Cores \ {c} : m.frame[x] = k.frame[x]
      /\ m.frame[c] = IF to = NoProc THEN ZeroCtx ELSE m.ctx[to]
      /\ \A p \in Procs : m.ctx[p] = IF p = to /\ Injected(k, to) THEN HandlerCtx(Head(k.srv[to].ring).uid)
                                     ELSE Stored(k, c, p)
    BY DEF Switches
<1>3. \A x \in Cores : m.cur[x] = IF x = c THEN to ELSE k.cur[x]
    BY <1>0, <1>2
<1>4. ASSUME NEW p \in Procs, Live(k, p), Core[p] = c PROVE Stored(k, c, p) = ExecOf(k, p)
    BY <1>4, CalmExec DEF Stored, ExecOf
<1>5. ASSUME NEW p \in Procs, Live(k, p)
      PROVE  ExecOf(m, p) = IF p = to /\ Injected(k, to) THEN HandlerCtx(Head(k.srv[to].ring).uid)
                            ELSE ExecOf(k, p)
    <2>1. CASE Core[p] = c
        <3>1. ExecOf(m, p) = m.ctx[p]
            BY <1>0, <1>2, <1>3, <2>1 DEF ExecOf
        <3> QED BY <1>2, <1>4, <1>5, <2>1, <3>1
    <2>2. CASE Core[p] # c
        <3>1. p # to /\ p # k.cur[c]
            BY <1>0, <2>2 DEF CurOK
        <3>2. m.ctx[p] = k.ctx[p] /\ m.cur[Core[p]] = k.cur[Core[p]] /\ m.frame[Core[p]] = k.frame[Core[p]]
            BY <1>0, <1>2, <1>3, <2>2, <3>1 DEF Stored
        <3> QED BY <3>1, <3>2 DEF ExecOf
    <2> QED BY <2>1, <2>2
<1>6. ASSUME NEW s \in Servers, Live(k, s)
      PROVE  m.srv[s].saved.ctx = IF s = to /\ Injected(k, to) THEN ExecOf(k, s) ELSE k.srv[s].saved.ctx
    <2>1. m.srv[s].saved.ctx = IF s = to /\ Injected(k, to) THEN Stored(k, c, s) ELSE k.srv[s].saved.ctx
        BY DEF Switches
    <2>2. CASE s = to
        <3>1. Stored(k, c, s) = ExecOf(k, s)
            BY <1>0, <1>4, <1>6, <2>2
        <3> QED BY <2>1, <3>1
    <2> QED BY <2>1, <2>2
<1> QED BY <1>5, <1>6

-----------------------------------------------------------------------------
(* Work is done once, and the main context keeps its own.                   *)

\* Steps that leave requests, contexts and the record of work alone.
SameOnce(k, m) ==
    /\ m.ipc_uid = k.ipc_uid /\ m.log.worked = k.log.worked /\ m.log.steps = k.log.steps
    /\ \A s \in Servers : \/ m.srv[s].ring = <<>>
                          \/ m.srv[s].ring = k.srv[s].ring /\ ExecOf(m, s) = ExecOf(k, s)
    /\ \A s \in Servers : Live(m, s) =>
          /\ Live(k, s) /\ ExecOf(m, s) = ExecOf(k, s)
          /\ m.srv[s].ring = k.srv[s].ring /\ m.srv[s].do_switch = k.srv[s].do_switch
          /\ m.srv[s].saved.ctx = k.srv[s].saved.ctx

\* They keep the invariant.
LEMMA OnceSame ==
    ASSUME NEW k, NEW m, NEW X, NEW Y, OnceInv(k, X, Y), SameOnce(k, m)
    PROVE  OnceInv(m, X, Y)
<1>1. \A s \in Servers : \A i \in DOMAIN m.srv[s].ring :
         /\ i \in DOMAIN k.srv[s].ring /\ m.srv[s].ring[i] = k.srv[s].ring[i]
         /\ Unworked(m, s, i) => Unworked(k, s, i)
    BY DEF SameOnce, Unworked
<1>2. WorkOK(m, X)
    <2>1. \A u \in Uids : m.log.worked[u] <= 1 /\ (u > m.ipc_uid => m.log.worked[u] = 0)
        BY DEF OnceInv, WorkOK, SameOnce
    <2>2. ASSUME NEW s \in Servers, NEW t \in Servers, NEW i \in DOMAIN m.srv[s].ring,
                 NEW j \in DOMAIN m.srv[t].ring, m.srv[s].ring[i].uid = m.srv[t].ring[j].uid
          PROVE  s = t /\ i = j
        BY <1>1, <2>2, SMTT(30) DEF OnceInv, WorkOK
    <2>3. ASSUME NEW s \in Servers, NEW i \in DOMAIN m.srv[s].ring, Unworked(m, s, i), ~(s \in X /\ i = 1)
          PROVE  m.log.worked[m.srv[s].ring[i].uid] = 0
        <3>1. m.log.worked = k.log.worked
            BY DEF SameOnce
        <3> QED BY <1>1, <2>3, <3>1 DEF OnceInv, WorkOK
    <2> QED BY <2>1, <2>2, <2>3 DEF WorkOK
<1>3. KeptOK(m, Y)
    BY DEF OnceInv, KeptOK, SameOnce, InService
<1> QED BY <1>2, <1>3 DEF OnceInv

\* The steps of this kind.
LEMMA SameOnceSteps ==
    ASSUME NEW k, NEW m
    PROVE  /\ \A Q : Eases(k, m, Q) => SameOnce(k, m)
           /\ Quiet(k, m) /\ m.log.worked = k.log.worked /\ m.log.steps = k.log.steps => SameOnce(k, m)
           /\ \A P : Queueing(k, m, P) => SameOnce(k, m)
           /\ \A p \in Procs : \A state : Retasks(k, m, p, state) /\ Live(k, p) /\ m.log.worked = k.log.worked
                                      /\ m.log.steps = k.log.steps => SameOnce(k, m)
           /\ \A p \in Procs : Terminates(k, m, p) => SameOnce(k, m)
<1>0. Servers \subseteq Procs
    BY Constants
<1>1. ASSUME NEW Q, Eases(k, m, Q) PROVE SameOnce(k, m)
    <2>1. ASSUME NEW s \in Servers
          PROVE  /\ m.srv[s].ring = k.srv[s].ring /\ m.srv[s].do_switch = k.srv[s].do_switch
                 /\ m.srv[s].saved.ctx = k.srv[s].saved.ctx
        BY <1>1 DEF Eases, EasedServer
    <2>2. m.cur = k.cur /\ m.ctx = k.ctx /\ m.frame = k.frame /\ m.log = k.log /\ m.ipc_uid = k.ipc_uid
        BY <1>1 DEF Eases, Alike
    <2> QED BY <1>0, <1>1, <2>1, <2>2, EasesLive DEF SameOnce, ExecOf
<1>2. ASSUME Quiet(k, m), m.log.worked = k.log.worked, m.log.steps = k.log.steps PROVE SameOnce(k, m)
    BY <1>2 DEF Quiet, Steady, SameOnce, Live, ExecOf
<1>3. ASSUME NEW P, Queueing(k, m, P) PROVE SameOnce(k, m)
    BY <1>3 DEF Queueing, Alike, SameOnce, Live, ExecOf
<1>4. ASSUME NEW p \in Procs, NEW state, Retasks(k, m, p, state), Live(k, p), m.log.worked = k.log.worked,
             m.log.steps = k.log.steps
      PROVE  SameOnce(k, m)
    <2>1. m.cur = k.cur /\ m.ctx = k.ctx /\ m.frame = k.frame /\ m.srv = k.srv /\ m.ipc_uid = k.ipc_uid
        BY <1>4 DEF Retasks, Steady
    <2>2. ASSUME NEW q \in Procs, Live(m, q) PROVE Live(k, q)
        BY <1>4, <2>2 DEF Retasks, Live
    <2> QED BY <1>0, <1>4, <2>1, <2>2 DEF SameOnce, ExecOf
<1>5. ASSUME NEW p \in Procs, Terminates(k, m, p) PROVE SameOnce(k, m)
    <2>1. m.cur = k.cur /\ m.ctx = k.ctx /\ m.frame = k.frame /\ m.log = k.log /\ m.ipc_uid = k.ipc_uid
        BY <1>5 DEF Terminates
    <2>2. ASSUME NEW q \in Procs, Live(m, q) PROVE Live(k, q) /\ q # p
        BY <1>5, <2>2 DEF Terminates, Live, proc_get
    <2>3. ASSUME NEW s \in Servers, s # p
          PROVE  /\ m.srv[s].ring = k.srv[s].ring /\ m.srv[s].do_switch = k.srv[s].do_switch
                 /\ m.srv[s].saved.ctx = k.srv[s].saved.ctx
        BY <1>5, <2>3 DEF Terminates, EasedServer
    <2>4. p \in Servers => m.srv[p].ring = <<>>
        BY <1>5 DEF Terminates
    <2> QED BY <1>0, <2>1, <2>2, <2>3, <2>4 DEF SameOnce, ExecOf
<1> QED BY <1>1, <1>2, <1>3, <1>4, <1>5

\* The running task goes on; X is empty, or a handler that has just worked.
LEMMA OnceReframes ==
    ASSUME NEW k, NEW m, NEW c \in Cores, NEW f, NEW X, BaseInv(k), OnceInv(k, X, {}), Reframes(k, m, c, f),
           m.log.worked = k.log.worked, m.log.steps = k.log.steps, k.cur[c] \in Procs,
           f.mode = k.frame[c].mode, f.n = k.frame[c].n, X \subseteq {k.cur[c]},
           X # {} => f.mode = "handler",
           f.mode = "handler" /\ f.pc \in {"entry", "body"} => k.frame[c].pc \in {"entry", "body"} /\ X = {}
    PROVE  OnceInv(m, {}, {})
<1> DEFINE p == k.cur[c]
<1>0. k.frame \in [Cores -> Contexts] /\ Core[p] = c
    BY KernelFields, Constants DEF BaseInv, CurOK
<1>1. /\ m.task = k.task /\ m.ctx = k.ctx /\ m.cur = k.cur /\ m.srv = k.srv /\ m.ipc_uid = k.ipc_uid
      /\ m.frame[c] = f /\ \A x \in Cores \ {c} : m.frame[x] = k.frame[x]
    BY <1>0 DEF Reframes, Steady
<1>2. \A q \in Procs \ {p} : ExecOf(m, q) = ExecOf(k, q)
    <2> SUFFICES ASSUME NEW q \in Procs \ {p} PROVE ExecOf(m, q) = ExecOf(k, q)
        OBVIOUS
    <2>1. Core[q] \in Cores
        BY Constants
    <2> QED BY <1>1, <2>1 DEF ExecOf
<1>3. ExecOf(m, p) = f /\ ExecOf(k, p) = k.frame[c]
    BY <1>0, <1>1 DEF ExecOf
<1>4. ASSUME NEW s \in Servers, NEW i, Unworked(m, s, i) PROVE Unworked(k, s, i) /\ ~(s \in X /\ i = 1)
    <2>1. CASE s = p
        BY <1>3, <1>4, <2>1 DEF Unworked
    <2>2. CASE s # p
        BY <1>2, <1>4, <2>2, Constants DEF Unworked
    <2> QED BY <2>1, <2>2
<1>5. \A s \in Servers : ExecOf(m, s).n = ExecOf(k, s).n
    BY <1>2, <1>3, Constants
<1>6. WorkOK(m, {})
    BY <1>1, <1>4 DEF OnceInv, WorkOK
<1>7. KeptOK(m, {})
    BY <1>1, <1>5 DEF OnceInv, KeptOK, Live
<1> QED BY <1>6, <1>7 DEF OnceInv

\* A handler does its work: its request is at the head of the ring, and had none.
LEMMA OnceCounts ==
    ASSUME NEW k, NEW m, NEW p \in Servers, BaseInv(k), OnceInv(k, {}, {}), m \in Kernels,
           Live(k, p), InService(k.srv[p]), ExecOf(k, p).mode = "handler", ExecOf(k, p).pc = "body",
           Counts(k, m, Head(k.srv[p].ring).uid),
           m.ipc_uid = k.ipc_uid, m.srv = k.srv, m.task = k.task,
           \A s \in Servers \ {p} : ExecOf(m, s) = ExecOf(k, s), ExecOf(m, p).n = ExecOf(k, p).n
    PROVE  OnceInv(m, {p}, {})
<1> DEFINE u == Head(k.srv[p].ring).uid
<1>0. k \in Kernels /\ k.srv[p] \in ServerRecords /\ k.srv[p].ring # <<>>
    BY KernelFields DEF BaseInv, InService
<1>1. u \in Uids /\ 1 \in DOMAIN k.srv[p].ring /\ k.srv[p].ring[1].uid = u /\ u <= k.ipc_uid
    <2>1. u \in Uids /\ 1 \in DOMAIN k.srv[p].ring /\ k.srv[p].ring[1].uid = u
        BY <1>0, HeadFacts
    <2> QED BY <2>1 DEF BaseInv, AskedOK, RequestOK
<1> HIDE DEF u
<1>2. m.log.worked = [k.log.worked EXCEPT ![u] = k.log.worked[u] + 1] /\ m.log.steps = k.log.steps
    BY <1>1 DEF Counts, u
<1>3. k.log.worked \in [Uids -> Nat]
    BY <1>0, KernelFields, LogFields
<1>4. k.log.worked[u] = 0
    BY <1>1 DEF OnceInv, WorkOK, Unworked
<1>5. \A v \in Uids : m.log.worked[v] = IF v = u THEN 1 ELSE k.log.worked[v]
    BY <1>1, <1>2, <1>3, <1>4
<1>6. ASSUME NEW s \in Servers, NEW i \in DOMAIN k.srv[s].ring PROVE k.srv[s].ring[i].uid \in Uids
    <2>1. k.srv[s] \in ServerRecords
        BY <1>0, KernelFields
    <2>2. k.srv[s].ring \in Seq(Requests)
        BY <2>1, ServerFields
    <2>3. k.srv[s].ring[i] \in Requests
        BY <1>6, <2>2
    <2> QED BY <2>3 DEF Requests
<1>7. ASSUME NEW s \in Servers, NEW i \in DOMAIN k.srv[s].ring, Unworked(m, s, i), ~(s = p /\ i = 1)
      PROVE  m.log.worked[k.srv[s].ring[i].uid] = 0
    <2>1. k.srv[s].ring[i].uid # u
        BY <1>1, <1>7 DEF OnceInv, WorkOK
    <2>2. Unworked(k, s, i)
        BY <1>7 DEF Unworked
    <2> QED BY <1>5, <1>6, <2>1, <2>2 DEF OnceInv, WorkOK
<1>8. \A v \in Uids : m.log.worked[v] <= 1 /\ (v > m.ipc_uid => m.log.worked[v] = 0)
    <2> SUFFICES ASSUME NEW v \in Uids PROVE m.log.worked[v] <= 1 /\ (v > m.ipc_uid => m.log.worked[v] = 0)
        OBVIOUS
    <2>1. k.log.worked[v] <= 1 /\ (v > k.ipc_uid => k.log.worked[v] = 0)
        BY DEF OnceInv, WorkOK
    <2>2. k.ipc_uid \in Nat /\ v \in Nat /\ u \in Nat
        BY <1>0, <1>1, KernelFields, Constants DEF Uids
    <2> QED BY <1>1, <1>5, <2>1, <2>2
<1>9. WorkOK(m, {p})
    <2>1. \A s, t \in Servers : \A i \in DOMAIN m.srv[s].ring, j \in DOMAIN m.srv[t].ring :
             m.srv[s].ring[i].uid = m.srv[t].ring[j].uid => s = t /\ i = j
        BY <1>1 DEF OnceInv, WorkOK
    <2>2. \A s \in Servers : \A i \in DOMAIN m.srv[s].ring :
             Unworked(m, s, i) /\ ~(s \in {p} /\ i = 1) => m.log.worked[m.srv[s].ring[i].uid] = 0
        BY <1>1, <1>7
    <2> QED BY <1>8, <2>1, <2>2 DEF WorkOK
<1>10. KeptOK(m, {})
    BY <1>2 DEF OnceInv, KeptOK, Live
<1> QED BY <1>9, <1>10 DEF OnceInv

\* The same requests, none of which waits for its work that did not before.
LEMMA WorkKept ==
    ASSUME NEW k, NEW m, NEW X, NEW Z, WorkOK(k, X), m.log.worked = k.log.worked, m.ipc_uid = k.ipc_uid,
           \A s \in Servers : \A i \in DOMAIN m.srv[s].ring :
              /\ i \in DOMAIN k.srv[s].ring /\ m.srv[s].ring[i] = k.srv[s].ring[i]
              /\ Unworked(m, s, i) /\ ~(s \in Z /\ i = 1) => Unworked(k, s, i) /\ ~(s \in X /\ i = 1)
    PROVE  WorkOK(m, Z)
<1>1. \A u \in Uids : m.log.worked[u] <= 1 /\ (u > m.ipc_uid => m.log.worked[u] = 0)
    BY DEF WorkOK
<1>2. ASSUME NEW s \in Servers, NEW t \in Servers, NEW i \in DOMAIN m.srv[s].ring,
             NEW j \in DOMAIN m.srv[t].ring, m.srv[s].ring[i].uid = m.srv[t].ring[j].uid
      PROVE  s = t /\ i = j
    BY <1>2 DEF WorkOK
<1>3. ASSUME NEW s \in Servers, NEW i \in DOMAIN m.srv[s].ring, Unworked(m, s, i), ~(s \in Z /\ i = 1)
      PROVE  m.log.worked[m.srv[s].ring[i].uid] = 0
    BY <1>3 DEF WorkOK
<1> QED BY <1>1, <1>2, <1>3 DEF WorkOK

\* A switch: a main context that is turned into a handler is kept aside.
LEMMA OnceSwitches ==
    ASSUME NEW k, NEW m, NEW c \in Cores, NEW to \in Procs \cup {NoProc}, BaseInv(k), ~Watchdog,
           Serviced(k, {}, {c}), OnceInv(k, {}, {}), Switches(k, m, c, to),
           to # NoProc => Core[to] = c /\ Live(k, to)
    PROVE  OnceInv(m, {}, {})
<1>0. /\ Servers \subseteq Procs /\ NoProc \notin Procs /\ k \in Kernels /\ CurOK(k)
      /\ k.cur \in [Cores -> Procs \cup {NoProc}] /\ \A p \in Procs : Core[p] \in Cores
    BY Constants, KernelFields DEF BaseInv
<1>1. m.ipc_uid = k.ipc_uid /\ m.log = k.log /\ \A s \in Servers : m.srv[s].ring = k.srv[s].ring
    BY DEF Switches, Unswitched, SameService
<1>2. \A p \in Procs : Live(m, p) <=> Live(k, p)
    BY <1>0, SwitchesLive
<1>3. ASSUME NEW s \in Servers, Live(k, s)
      PROVE  /\ ExecOf(m, s) = ExecOf(k, s) \/ (ExecOf(k, s).mode = "main" /\ ~InService(k.srv[s]))
             /\ (IF InService(m.srv[s]) THEN m.srv[s].saved.ctx.n ELSE ExecOf(m, s).n)
                   = (IF InService(k.srv[s]) THEN k.srv[s].saved.ctx.n ELSE ExecOf(k, s).n)
    <2>1. ServedOK(k.srv[s], ExecOf(k, s))
        BY <1>3, CalmServed
    <2>2. /\ ExecOf(m, s) = IF s = to /\ Injected(k, to) THEN HandlerCtx(Head(k.srv[to].ring).uid)
                            ELSE ExecOf(k, s)
          /\ m.srv[s].saved.ctx = IF s = to /\ Injected(k, to) THEN ExecOf(k, s) ELSE k.srv[s].saved.ctx
        <3>1. s \in Procs
            BY <1>0
        <3> QED BY <1>3, <3>1, CalmSwitches, SMTT(30)
    <2>3. m.srv[s].do_switch <=> k.srv[s].do_switch /\ s # to
        BY DEF Switches
    <2>4. CASE s = to /\ Injected(k, to)
        <3>1. k.srv[s].do_switch /\ k.srv[s].ring # <<>>
            BY <2>4 DEF Injected
        <3>2. ~InService(k.srv[s]) /\ InService(m.srv[s])
            BY <1>1, <2>3, <2>4, <3>1 DEF InService
        <3> QED BY <2>1, <2>2, <2>4, <3>2 DEF ServedOK, Fits
    <2>5. CASE ~(s = to /\ Injected(k, to))
        <3>1. s = to => ~k.srv[s].do_switch
            BY <2>1, <2>5 DEF ServedOK, Injected
        <3>2. InService(m.srv[s]) <=> InService(k.srv[s])
            BY <1>1, <2>3, <3>1 DEF InService
        <3> QED BY <2>2, <2>5, <3>2
    <2> QED BY <2>4, <2>5
<1>4. \A s \in Servers : k.srv[s].ring # <<>> => Live(k, s)
    BY DEF BaseInv, DeadOK
<1>5. ASSUME NEW s \in Servers, NEW i \in DOMAIN m.srv[s].ring, Unworked(m, s, i) PROVE Unworked(k, s, i)
    <2>1. Live(k, s)
        BY <1>1, <1>4, <1>5
    <2> QED BY <1>3, <1>5, <2>1 DEF Unworked
<1>6. WorkOK(m, {})
    BY <1>1, <1>5, WorkKept DEF OnceInv
<1>7. KeptOK(m, {})
    <2> SUFFICES ASSUME NEW s \in Servers, Live(m, s)
                 PROVE  m.log.steps[s] = IF InService(m.srv[s]) THEN m.srv[s].saved.ctx.n ELSE ExecOf(m, s).n
        BY DEF KeptOK
    <2>1. Live(k, s)
        BY <1>0, <1>2
    <2> QED BY <1>1, <1>3, <2>1 DEF OnceInv, KeptOK
<1> QED BY <1>6, <1>7 DEF OnceInv

\* A request is accepted: it is a new one.
LEMMA OnceAsks ==
    ASSUME NEW k, NEW m, NEW c \in Cores, NEW s \in Servers, NEW ret \in BOOLEAN, NEW X, BaseInv(k),
           OnceInv(k, X, {}), Running(k, c), X \subseteq {k.cur[c]}, X # {} => k.frame[c].mode = "handler",
           Asks(k, m, c, s, ret)
    PROVE  OnceInv(m, {}, IF k.srv[s].ring = <<>> THEN {s} ELSE {})
<1> DEFINE p == k.cur[c]
           u == k.ipc_uid + 1
           r == Request(k, p, ret)
           Y == IF k.srv[s].ring = <<>> THEN {s} ELSE {}
<1>0. p \in Procs /\ k \in Kernels /\ Core[p] = c /\ NoProc \notin Procs /\ Servers \subseteq Procs
    BY Constants DEF Running, BaseInv, CurOK
<1>1. /\ m.task = k.task /\ m.ctx = k.ctx /\ m.cur = k.cur /\ m.ipc_uid = u
      /\ \A t \in Servers \ {s} : m.srv[t] = k.srv[t]
      /\ m.srv[s].saved = k.srv[s].saved /\ m.srv[s].do_switch = k.srv[s].do_switch
      /\ Longer(k.srv[s].ring, m.srv[s].ring, r) /\ r.uid = u
    BY DEF Asks, OneServer, Request
<1>2. m.log.worked = k.log.worked /\ m.log.steps = k.log.steps
    <2>1. k.log \in Logs
        BY <1>0, KernelFields
    <2> QED BY <2>1 DEF Asks, Logs
<1>3. /\ \A x \in Cores \ {c} : m.frame[x] = k.frame[x]
      /\ m.frame[c].mode = k.frame[c].mode /\ m.frame[c].n = k.frame[c].n
      /\ m.frame[c].mode = "handler" => m.frame[c].pc \in {"wait", "reply"}
    BY <1>0, AskedFrame
<1>4. ASSUME NEW q \in Procs \ {p} PROVE ExecOf(m, q) = ExecOf(k, q)
    <2>1. Core[q] \in Cores
        BY Constants
    <2>2. k.cur[Core[q]] = q => Core[q] # c
        OBVIOUS
    <2> QED BY <1>1, <1>3, <2>1, <2>2 DEF ExecOf
<1>5. ExecOf(m, p) = m.frame[c] /\ ExecOf(k, p) = k.frame[c]
    BY <1>0, <1>1 DEF ExecOf
<1>6. u \in Uids /\ u \in Nat /\ k.ipc_uid \in Nat /\ u > k.ipc_uid
    <2>1. r \in Requests /\ k.ipc_uid \in Nat
        BY <1>0, KernelFields, Constants DEF Asks
    <2>2. u \in Uids
        BY <1>1, <2>1 DEF Requests
    <2> QED BY <2>1, <2>2
<1> HIDE DEF r, u
<1>7. PICK n \in Nat : /\ n \notin DOMAIN k.srv[s].ring
                       /\ DOMAIN m.srv[s].ring = DOMAIN k.srv[s].ring \cup {n}
                       /\ m.srv[s].ring[n] = r
                       /\ \A i \in DOMAIN k.srv[s].ring : m.srv[s].ring[i] = k.srv[s].ring[i]
    BY <1>1 DEF Longer
<1>8. ASSUME NEW t \in Servers, NEW i \in DOMAIN m.srv[t].ring
      PROVE  \/ t = s /\ i = n /\ m.srv[t].ring[i].uid = u
             \/ /\ i \in DOMAIN k.srv[t].ring /\ m.srv[t].ring[i] = k.srv[t].ring[i]
                /\ m.srv[t].ring[i].uid # u
    <2>1. CASE t = s /\ i = n
        BY <1>1, <1>7, <2>1
    <2>2. CASE ~(t = s /\ i = n)
        <3>1. i \in DOMAIN k.srv[t].ring /\ m.srv[t].ring[i] = k.srv[t].ring[i]
            BY <1>1, <1>7, <1>8, <2>2
        <3>2. k.srv[t].ring[i].uid <= k.ipc_uid
            BY <3>1 DEF BaseInv, AskedOK, RequestOK
        <3> QED BY <1>6, <3>1, <3>2
    <2> QED BY <2>1, <2>2
<1>9. ASSUME NEW t \in Servers, NEW i, Unworked(m, t, i) PROVE Unworked(k, t, i) /\ ~(t \in X /\ i = 1)
    <2>1. CASE t = p
        BY <1>3, <1>5, <1>9, <2>1 DEF Unworked
    <2>2. CASE t # p
        BY <1>0, <1>4, <1>9, <2>2 DEF Unworked
    <2> QED BY <2>1, <2>2
<1>10. WorkOK(m, {})
    <2>1. \A v \in Uids : m.log.worked[v] <= 1 /\ (v > m.ipc_uid => m.log.worked[v] = 0)
        <3> SUFFICES ASSUME NEW v \in Uids PROVE m.log.worked[v] <= 1 /\ (v > m.ipc_uid => m.log.worked[v] = 0)
            OBVIOUS
        <3>1. k.log.worked[v] <= 1 /\ (v > k.ipc_uid => k.log.worked[v] = 0)
            BY DEF OnceInv, WorkOK
        <3>2. v > u => v > k.ipc_uid
            BY <1>6 DEF Uids
        <3> QED BY <1>1, <1>2, <3>1, <3>2
    <2>2. ASSUME NEW t \in Servers, NEW q \in Servers, NEW i \in DOMAIN m.srv[t].ring,
                 NEW j \in DOMAIN m.srv[q].ring, m.srv[t].ring[i].uid = m.srv[q].ring[j].uid
          PROVE  t = q /\ i = j
        <3>1. CASE m.srv[t].ring[i].uid = u
            <4>1. t = s /\ i = n
                BY <1>8, <3>1
            <4>2. q = s /\ j = n
                <5>1. m.srv[q].ring[j].uid = u
                    BY <2>2, <3>1
                <5> QED BY <1>8, <5>1
            <4> QED BY <4>1, <4>2
        <3>2. CASE m.srv[t].ring[i].uid # u
            <4>1. /\ i \in DOMAIN k.srv[t].ring /\ m.srv[t].ring[i] = k.srv[t].ring[i]
                  /\ j \in DOMAIN k.srv[q].ring /\ m.srv[q].ring[j] = k.srv[q].ring[j]
                BY <1>8, <2>2, <3>2
            <4> QED BY <2>2, <4>1 DEF OnceInv, WorkOK
        <3> QED BY <3>1, <3>2
    <2>3. ASSUME NEW t \in Servers, NEW i \in DOMAIN m.srv[t].ring, Unworked(m, t, i)
          PROVE  m.log.worked[m.srv[t].ring[i].uid] = 0
        <3>1. CASE m.srv[t].ring[i].uid = u
            <4>1. k.log.worked[u] = 0
                BY <1>6 DEF OnceInv, WorkOK
            <4> QED BY <1>2, <3>1, <4>1
        <3>2. CASE m.srv[t].ring[i].uid # u
            <4>1. i \in DOMAIN k.srv[t].ring /\ m.srv[t].ring[i] = k.srv[t].ring[i]
                BY <1>8, <3>2
            <4> QED BY <1>2, <1>9, <2>3, <4>1 DEF OnceInv, WorkOK
        <3> QED BY <3>1, <3>2
    <2> QED BY <2>1, <2>2, <2>3 DEF WorkOK
<1>11. ASSUME NEW t \in Servers
       PROVE  /\ ExecOf(m, t).n = ExecOf(k, t).n /\ m.srv[t].saved = k.srv[t].saved
              /\ t \notin Y => (InService(m.srv[t]) <=> InService(k.srv[t]))
              /\ t \in Y => ~InService(k.srv[t])
    <2>1. ExecOf(m, t).n = ExecOf(k, t).n
        BY <1>0, <1>3, <1>4, <1>5
    <2>2. m.srv[t].saved = k.srv[t].saved /\ m.srv[t].do_switch = k.srv[t].do_switch
        BY <1>1
    <2>3. t \notin Y => (m.srv[t].ring = <<>> <=> k.srv[t].ring = <<>>)
        BY <1>1 DEF Longer
    <2>4. t \in Y => k.srv[t].ring = <<>>
        OBVIOUS
    <2> QED BY <2>1, <2>2, <2>3, <2>4 DEF InService
<1> HIDE DEF Y
<1>12. KeptOK(m, Y)
    <2> SUFFICES ASSUME NEW t \in Servers, Live(m, t)
                 PROVE  m.log.steps[t] = IF InService(m.srv[t]) /\ t \notin Y THEN m.srv[t].saved.ctx.n
                                         ELSE ExecOf(m, t).n
        BY DEF KeptOK
    <2>1. k.log.steps[t] = IF InService(k.srv[t]) THEN k.srv[t].saved.ctx.n ELSE ExecOf(k, t).n
        BY <1>1 DEF OnceInv, KeptOK, Live
    <2> QED BY <1>2, <1>11, <2>1
<1> QED BY <1>10, <1>12 DEF OnceInv, Y

\* A request is armed.
LEMMA OnceArms ==
    ASSUME NEW k, NEW m, NEW s \in Servers, NEW restore, OnceInv(k, {}, {s}), Arms(k, m, s, restore)
    PROVE  OnceInv(m, {}, {})
<1>1. /\ m.task = k.task /\ m.ctx = k.ctx /\ m.cur = k.cur /\ m.frame = k.frame /\ m.log = k.log
      /\ m.ipc_uid = k.ipc_uid /\ \A t \in Servers \ {s} : m.srv[t] = k.srv[t]
      /\ m.srv[s].ring = k.srv[s].ring /\ m.srv[s].do_switch
    BY DEF Arms, Alike, OneServer
<1>2. \A t \in Servers : m.srv[t].ring = k.srv[t].ring /\ ExecOf(m, t) = ExecOf(k, t)
    BY <1>1 DEF ExecOf
<1>3. WorkOK(m, {})
    <2>1. \A t \in Servers : \A i : Unworked(m, t, i) => Unworked(k, t, i)
        BY <1>2 DEF Unworked
    <2> QED BY <1>1, <1>2, <2>1, WorkKept DEF OnceInv
<1>4. KeptOK(m, {})
    <2> SUFFICES ASSUME NEW t \in Servers, Live(m, t)
                 PROVE  m.log.steps[t] = IF InService(m.srv[t]) THEN m.srv[t].saved.ctx.n ELSE ExecOf(m, t).n
        BY DEF KeptOK
    <2>1. k.log.steps[t] = IF InService(k.srv[t]) /\ t # s THEN k.srv[t].saved.ctx.n ELSE ExecOf(k, t).n
        BY <1>1 DEF OnceInv, KeptOK, Live
    <2>2. CASE t = s
        <3>1. ~InService(m.srv[t])
            BY <1>1, <2>2 DEF InService
        <3> QED BY <1>1, <1>2, <2>1, <2>2, <3>1
    <2>3. CASE t # s
        BY <1>1, <1>2, <2>1, <2>3
    <2> QED BY <2>2, <2>3
<1> QED BY <1>3, <1>4 DEF OnceInv

\* SYS_IPC_END puts the main context back, with all its work ...
LEMMA OnceFinishes ==
    ASSUME NEW k, NEW m, NEW c \in Cores, NEW s \in Servers, BaseInv(k), OnceInv(k, {}, {}),
           Finishes(k, m, c, s), k.cur[c] = s, InService(k.srv[s]), SameLife(k, m)
    PROVE  OnceInv(m, {s}, {s})
<1>0. Servers \subseteq Procs /\ k.frame \in [Cores -> Contexts] /\ Core[s] = c /\ NoProc \notin Procs
    BY Constants, KernelFields DEF BaseInv, CurOK
<1>1. /\ m.ctx = k.ctx /\ m.cur = k.cur /\ m.ipc_uid = k.ipc_uid /\ m.log = k.log
      /\ m.frame = [k.frame EXCEPT ![c] = k.srv[s].saved.ctx]
      /\ \A t \in Servers \ {s} : m.srv[t] = k.srv[t]
      /\ m.srv[s].ring = k.srv[s].ring
    BY DEF Finishes, Restores, OneServer
<1>2. \A x \in Cores : m.frame[x] = IF x = c THEN k.srv[s].saved.ctx ELSE k.frame[x]
    BY <1>0, <1>1
<1>3. ASSUME NEW p \in Procs \ {s} PROVE ExecOf(m, p) = ExecOf(k, p)
    <2>1. Core[p] \in Cores /\ (k.cur[Core[p]] = p => Core[p] # c)
        BY <1>0, Constants
    <2> QED BY <1>1, <1>2, <2>1 DEF ExecOf
<1>4. ExecOf(m, s) = k.srv[s].saved.ctx
    BY <1>0, <1>1, <1>2 DEF ExecOf
<1>5. \A t \in Servers : m.srv[t].ring = k.srv[t].ring
    BY <1>1
<1>6. ASSUME NEW t \in Servers, NEW i, Unworked(m, t, i), ~(t = s /\ i = 1) PROVE Unworked(k, t, i)
    <2>1. CASE t = s
        BY <1>6, <2>1 DEF Unworked
    <2>2. CASE t # s
        BY <1>0, <1>3, <1>6, <2>2 DEF Unworked
    <2> QED BY <2>1, <2>2
<1>7. WorkOK(m, {s})
    BY <1>1, <1>5, <1>6, WorkKept DEF OnceInv
<1>8. KeptOK(m, {s})
    <2> SUFFICES ASSUME NEW t \in Servers, Live(m, t)
                 PROVE  m.log.steps[t] = IF InService(m.srv[t]) /\ t # s THEN m.srv[t].saved.ctx.n
                                         ELSE ExecOf(m, t).n
        BY DEF KeptOK
    <2>1. k.log.steps[t] = IF InService(k.srv[t]) THEN k.srv[t].saved.ctx.n ELSE ExecOf(k, t).n
        BY <1>0 DEF OnceInv, KeptOK, SameLife
    <2>2. CASE t = s
        BY <1>1, <1>4, <2>1, <2>2
    <2>3. CASE t # s
        BY <1>0, <1>1, <1>3, <2>1, <2>3
    <2> QED BY <2>2, <2>3
<1> QED BY <1>7, <1>8 DEF OnceInv

\* ... and closes the request.
LEMMA OnceCloses ==
    ASSUME NEW k, NEW m, NEW s \in Servers, BaseInv(k), OnceInv(k, {s}, {s}), Closes(k, m, s),
           k.srv[s].ring # <<>>
    PROVE  OnceInv(m, {}, {s})
<1>1. /\ m.task = k.task /\ m.ctx = k.ctx /\ m.cur = k.cur /\ m.frame = k.frame /\ m.log = k.log
      /\ m.ipc_uid = k.ipc_uid /\ \A t \in Servers \ {s} : m.srv[t] = k.srv[t]
      /\ m.srv[s].ring = Tail(k.srv[s].ring)
    BY DEF Closes, Alike, OneServer
<1>2. \A t \in Servers : ExecOf(m, t) = ExecOf(k, t) /\ (Live(m, t) <=> Live(k, t))
    BY <1>1 DEF ExecOf, Live
<1>3. ASSUME NEW i \in DOMAIN m.srv[s].ring
      PROVE  i + 1 \in DOMAIN k.srv[s].ring /\ m.srv[s].ring[i] = k.srv[s].ring[i + 1] /\ i \in Nat \ {0}
    <2> DEFINE t == Tail(k.srv[s].ring)
               r == k.srv[s].ring
               L == Len(k.srv[s].ring)
    <2>1. L \in Nat /\ DOMAIN r = 1 .. L /\ DOMAIN t = 1 .. L - 1 /\ \A j \in DOMAIN t : t[j] = r[j + 1]
        <3>1. k.srv[s] \in ServerRecords
            BY KernelFields DEF BaseInv
        <3> QED BY <3>1, TailFacts
    <2>2. m.srv[s].ring = t /\ i \in DOMAIN t
        BY <1>1, <1>3
    <2> HIDE DEF t, r, L
    <2>3. i + 1 \in DOMAIN r /\ t[i] = r[i + 1] /\ i \in Nat \ {0}
        BY <2>1, <2>2
    <2> QED BY <2>2, <2>3 DEF r
<1>4. \A u \in Uids : m.log.worked[u] <= 1 /\ (u > m.ipc_uid => m.log.worked[u] = 0)
    BY <1>1 DEF OnceInv, WorkOK
<1>5. ASSUME NEW t \in Servers, NEW q \in Servers, NEW i \in DOMAIN m.srv[t].ring,
             NEW j \in DOMAIN m.srv[q].ring, m.srv[t].ring[i].uid = m.srv[q].ring[j].uid
      PROVE  t = q /\ i = j
    <2> DEFINE a == IF t = s THEN i + 1 ELSE i
               b == IF q = s THEN j + 1 ELSE j
    <2>1. a \in DOMAIN k.srv[t].ring /\ m.srv[t].ring[i] = k.srv[t].ring[a] /\ (t = s => i \in Nat)
        BY <1>1, <1>3
    <2>2. b \in DOMAIN k.srv[q].ring /\ m.srv[q].ring[j] = k.srv[q].ring[b] /\ (q = s => j \in Nat)
        BY <1>1, <1>3
    <2> HIDE DEF a, b
    <2>3. t = q /\ a = b
        BY <1>5, <2>1, <2>2 DEF OnceInv, WorkOK
    <2> QED BY <2>1, <2>2, <2>3 DEF a, b
<1>6. ASSUME NEW t \in Servers, NEW i \in DOMAIN m.srv[t].ring, Unworked(m, t, i)
      PROVE  m.log.worked[m.srv[t].ring[i].uid] = 0
    <2>1. CASE t = s
        <3> DEFINE j == i + 1
        <3>1. j \in DOMAIN k.srv[s].ring /\ m.srv[s].ring[i] = k.srv[s].ring[j] /\ j # 1
            BY <1>3, <2>1
        <3> HIDE DEF j
        <3>2. Unworked(k, s, j)
            BY <3>1 DEF Unworked
        <3>3. k.log.worked[k.srv[s].ring[j].uid] = 0
            BY <3>1, <3>2 DEF OnceInv, WorkOK
        <3> QED BY <1>1, <2>1, <3>1, <3>3
    <2>2. CASE t # s
        <3>1. Unworked(k, t, i) /\ m.srv[t] = k.srv[t]
            BY <1>1, <1>2, <1>6, <2>2 DEF Unworked
        <3>2. i \in DOMAIN k.srv[t].ring
            BY <3>1
        <3>3. k.log.worked[k.srv[t].ring[i].uid] = 0
            BY <2>2, <3>1, <3>2 DEF OnceInv, WorkOK
        <3> QED BY <1>1, <3>1, <3>3
    <2> QED BY <2>1, <2>2
<1>7. WorkOK(m, {})
    BY <1>4, <1>5, <1>6 DEF WorkOK
<1>8. KeptOK(m, {s})
    <2> SUFFICES ASSUME NEW t \in Servers, Live(m, t)
                 PROVE  m.log.steps[t] = IF InService(m.srv[t]) /\ t # s THEN m.srv[t].saved.ctx.n
                                         ELSE ExecOf(m, t).n
        BY DEF KeptOK
    <2>1. k.log.steps[t] = IF InService(k.srv[t]) /\ t # s THEN k.srv[t].saved.ctx.n ELSE ExecOf(k, t).n
        BY <1>2 DEF OnceInv, KeptOK
    <2> QED BY <1>1, <1>2, <2>1
<1> QED BY <1>7, <1>8 DEF OnceInv

\* A server without requests is judged by what it executes.
LEMMA OnceIdle ==
    ASSUME NEW k, NEW X, NEW s, OnceInv(k, X, {s}), k.srv[s].ring = <<>>
    PROVE  OnceInv(k, X, {})
<1>1. ~InService(k.srv[s])
    BY DEF InService
<1> QED BY <1>1 DEF OnceInv, KeptOK

\* A handler that has worked is past its work.
LEMMA OnceDone ==
    ASSUME NEW k, NEW s, OnceInv(k, {s}, {}), ExecOf(k, s).mode = "handler", ExecOf(k, s).pc \notin {"entry", "body"}
    PROVE  OnceInv(k, {}, {})
<1>1. ~Unworked(k, s, 1)
    BY DEF Unworked
<1> QED BY <1>1 DEF OnceInv, WorkOK

\* A main context does a step of its own work.
LEMMA OnceMoves ==
    ASSUME NEW k, NEW m, NEW c \in Cores, NEW g, BaseInv(k), ServiceInv(k), OnceInv(k, {}, {}), Running(k, c),
           Reframes(k, m, c, g), g.mode = k.frame[c].mode, Moves(k, m, c, g)
    PROVE  OnceInv(m, {}, {})
<1> DEFINE p == k.cur[c]
<1>0. k.frame \in [Cores -> Contexts] /\ Core[p] = c /\ p \in Servers /\ Servers \subseteq Procs /\ Live(k, p)
      /\ k.log.steps \in [Procs -> 0 .. MaxSteps]
    BY KernelFields, LogFields, Constants DEF BaseInv, CurOK, Moves, Running
<1>1. /\ m.task = k.task /\ m.ctx = k.ctx /\ m.cur = k.cur /\ m.srv = k.srv /\ m.ipc_uid = k.ipc_uid
      /\ m.frame[c] = g /\ \A x \in Cores \ {c} : m.frame[x] = k.frame[x]
    BY <1>0 DEF Reframes, Steady
<1>2. /\ g.mode = "main" /\ g.n = k.frame[c].n + 1 /\ m.log.worked = k.log.worked
      /\ m.log.steps = [k.log.steps EXCEPT ![p] = k.frame[c].n + 1]
    BY DEF Moves
<1>3. \A q \in Procs \ {p} : ExecOf(m, q) = ExecOf(k, q)
    <2> SUFFICES ASSUME NEW q \in Procs \ {p} PROVE ExecOf(m, q) = ExecOf(k, q)
        OBVIOUS
    <2>1. Core[q] \in Cores
        BY Constants
    <2> QED BY <1>1, <2>1 DEF ExecOf
<1>4. ExecOf(m, p) = g /\ ExecOf(k, p) = k.frame[c]
    BY <1>0, <1>1 DEF ExecOf
<1>5. ~InService(k.srv[p])
    <2>1. Fits(k.srv[p], k.frame[c])
        BY <1>0 DEF ServiceInv, Framed
    <2> QED BY <2>1 DEF Fits, Moves
<1>6. ASSUME NEW s \in Servers, NEW i PROVE Unworked(k, s, i) <=> Unworked(m, s, i)
    <2>1. CASE s = p
        BY <1>2, <1>4, <2>1 DEF Unworked
    <2>2. CASE s # p
        BY <1>0, <1>3, <2>2 DEF Unworked
    <2> QED BY <2>1, <2>2
<1>7. WorkOK(m, {})
    BY <1>1, <1>2, <1>6 DEF OnceInv, WorkOK
<1>8. KeptOK(m, {})
    <2> SUFFICES ASSUME NEW s \in Servers, Live(m, s)
                 PROVE  m.log.steps[s] = IF InService(m.srv[s]) THEN m.srv[s].saved.ctx.n ELSE ExecOf(m, s).n
        BY DEF KeptOK
    <2>1. CASE s = p
        BY <1>0, <1>1, <1>2, <1>4, <1>5, <2>1
    <2>2. CASE s # p
        <3>1. m.log.steps[s] = k.log.steps[s] /\ Live(k, s)
            BY <1>0, <1>1, <1>2, <2>2 DEF Live
        <3> QED BY <1>0, <1>1, <1>3, <2>2, <3>1 DEF OnceInv, KeptOK
    <2> QED BY <2>1, <2>2
<1> QED BY <1>7, <1>8 DEF OnceInv

\* A pid is used again.
LEMMA OnceSpawns ==
    ASSUME NEW k, NEW m, BaseInv(k), OnceInv(k, {}, {}), BySpawn(k, m)
    PROVE  OnceInv(m, {}, {})
<1>1. PICK p \in Procs :
       /\ ~Live(k, p) /\ k.cur[Core[p]] # p /\ m.cur = k.cur /\ m.frame = k.frame /\ m.ipc_uid = k.ipc_uid
       /\ m.task = [k.task EXCEPT ![p] = NewTask("READY")] /\ m.ctx = [k.ctx EXCEPT ![p] = MainCtx]
       /\ \A s \in Servers : m.srv[s] = IF s = p THEN NewServer ELSE k.srv[s]
       /\ m.log.worked = k.log.worked /\ m.log.steps = [k.log.steps EXCEPT ![p] = 0]
    BY DEF BySpawn
<1>2. k.task \in [Procs -> Tasks] /\ k.ctx \in [Procs -> Contexts] /\ Servers \subseteq Procs
      /\ k.log.steps \in [Procs -> 0 .. MaxSteps]
    BY KernelFields, LogFields, Constants DEF BaseInv
<1>3. \A q \in Procs \ {p} : /\ m.log.steps[q] = k.log.steps[q] /\ ExecOf(m, q) = ExecOf(k, q)
                             /\ Live(m, q) <=> Live(k, q)
    BY <1>1, <1>2 DEF Live, ExecOf
<1>4. ExecOf(m, p).n = 0 /\ m.log.steps[p] = 0
    BY <1>1, <1>2, ContextFacts DEF ExecOf
<1>5. NewServer.ring = <<>>
    BY DEF NewServer
<1> HIDE DEF NewServer
<1>6. ASSUME NEW s \in Servers PROVE IF s = p THEN m.srv[s].ring = <<>> ELSE m.srv[s] = k.srv[s]
    <2>1. m.srv[s] = IF s = p THEN NewServer ELSE k.srv[s]
        BY <1>1
    <2> QED BY <1>5, <2>1
<1>7. ASSUME NEW s \in Servers, NEW i \in DOMAIN m.srv[s].ring
      PROVE  /\ s # p /\ i \in DOMAIN k.srv[s].ring /\ m.srv[s].ring[i] = k.srv[s].ring[i]
             /\ Unworked(m, s, i) <=> Unworked(k, s, i)
    <2>1. s # p /\ m.srv[s] = k.srv[s]
        BY <1>6, <1>7
    <2> QED BY <1>2, <1>3, <1>7, <2>1 DEF Unworked
<1>8. WorkOK(m, {})
    BY <1>1, <1>7, WorkKept DEF OnceInv
<1>9. KeptOK(m, {})
    <2> SUFFICES ASSUME NEW s \in Servers, Live(m, s)
                 PROVE  m.log.steps[s] = IF InService(m.srv[s]) THEN m.srv[s].saved.ctx.n ELSE ExecOf(m, s).n
        BY DEF KeptOK
    <2>1. CASE s = p
        BY <1>4, <1>6, <2>1 DEF InService
    <2>2. CASE s # p
        <3>1. m.srv[s] = k.srv[s] /\ Live(k, s)
            BY <1>2, <1>3, <1>6, <2>2
        <3> QED BY <1>2, <1>3, <2>2, <3>1 DEF OnceInv, KeptOK
    <2> QED BY <2>1, <2>2
<1> QED BY <1>8, <1>9 DEF OnceInv

\* A core is given away.
LEMMA OnceDispatches ==
    ASSUME NEW k, NEW m, NEW c \in Cores, BaseInv(k), ~Watchdog, Serviced(k, {}, {c}), OnceInv(k, {}, {}),
           Dispatches(k, m, c)
    PROVE  OnceInv(m, {}, {})
<1>1. PICK to \in Procs \cup {NoProc} : /\ Switches(k, m, c, to)
                                        /\ to # NoProc => Core[to] = c /\ k.task[to].state \in Runnable
    BY DEF Dispatches
<1>2. to # NoProc => Core[to] = c /\ Live(k, to)
    BY <1>1 DEF Runnable, Live, proc_get
<1> QED BY <1>1, <1>2, OnceSwitches

\* A task is parked, or goes on.
LEMMA OnceBlocks ==
    ASSUME NEW k, NEW m, NEW c \in Cores, BaseInv(k), ~Watchdog, ServiceInv(k), OnceInv(k, {}, {}),
           Running(k, c), Blocks(k, m, c)
    PROVE  OnceInv(m, {}, {})
<1>1. PICK n \in Kernels, state \in {"BLOCK", "RUNNING", k.task[k.cur[c]].state} :
         /\ Retasks(k, n, k.cur[c], state) /\ Alike(k, n)
         /\ IF state = "BLOCK" THEN Dispatches(n, m, c) ELSE m = n
    BY DEF Blocks
<1>2. k.cur[c] \in Procs /\ Live(k, k.cur[c]) /\ state \notin {"ZOMBIE", "UNUSED"}
    BY <1>1 DEF Running, Live, proc_get, ServiceInv, Used
<1>3. BaseInv(n)
    BY <1>1, <1>2, BaseRetasks
<1>4. SameWork(k, n)
    BY <1>1, <1>2, SameWorkSteps
<1>5. ServiceInv(n)
    BY <1>4, ServiceKept
<1>6. n.log.worked = k.log.worked /\ n.log.steps = k.log.steps
    BY <1>1 DEF Alike
<1>7. SameOnce(k, n)
    BY <1>1, <1>2, <1>6, SameOnceSteps
<1>8. OnceInv(n, {}, {})
    BY <1>7, OnceSame
<1> QED BY <1>1, <1>3, <1>5, <1>8, ServiceForms, OnceDispatches

\* A core is handed over.
LEMMA OnceHands ==
    ASSUME NEW k, NEW m, NEW c \in Cores, NEW to \in Procs, BaseInv(k), ~Watchdog, ServiceInv(k),
           OnceInv(k, {}, {}), Live(k, to), Hands(k, m, c, to)
    PROVE  OnceInv(m, {}, {})
<1>1. PICK n \in Kernels :
         /\ Eases(k, n, {to}) \/ (n = k /\ k.task[to].state = "RUNNING")
         /\ Core[to] = c => Switches(n, m, c, to)
         /\ Core[to] # c => m = n
    BY DEF Hands
<1>2. BaseInv(n) /\ Live(n, to)
    BY <1>1, BaseEases, EasesLive
<1>3. ServiceInv(n)
    BY <1>1, SameWorkSteps, ServiceKept
<1>4. OnceInv(n, {}, {})
    BY <1>1, SameOnceSteps, OnceSame
<1> QED BY <1>1, <1>2, <1>3, <1>4, ServiceForms, OnceSwitches

\* proc_ipc_call(); X is empty, or the handler whose work the call is part of.
LEMMA OnceCalls ==
    ASSUME NEW k, NEW m, NEW c \in Cores, NEW s \in Servers, NEW ret \in BOOLEAN, NEW X, BaseInv(k), ~Watchdog,
           ServiceInv(k), OnceInv(k, X, {}), Running(k, c), CallEffect(k, m, c, s, ret),
           X \subseteq {k.cur[c]}, X # {} => k.frame[c].mode = "handler"
    PROVE  OnceInv(m, {}, {})
<1> DEFINE f == k.frame[c]
           p == k.cur[c]
<1>0. f \in Contexts /\ k \in Kernels /\ k.frame \in [Cores -> Contexts] /\ s \in Procs /\ p \in Procs
    BY KernelFields, Constants DEF BaseInv, Running
<1>1. CASE Reframes(k, m, c, Back(k.frame[c])) /\ m.log = k.log
    <2> DEFINE g == Back(f)
    <2>1. g.mode = f.mode /\ g.n = f.n /\ g.pc \in {"reply", "run"}
        <3> HIDE DEF f
        <3> QED BY <1>0 DEF Back, Contexts
    <2> HIDE DEF g
    <2>2. Reframes(k, m, c, g)
        BY <1>1 DEF g
    <2> QED BY <1>0, <1>1, <2>1, <2>2, OnceReframes
<1>2. CASE /\ Live(k, s)
           /\ \E k1, k2 \in Kernels :
             /\ Reframes(k, k1, c, Calling(k.frame[c], s, ret)) /\ k1.log = k.log
             /\ Queueing(k1, k2, {k.cur[c]}) /\ Has(k2.srv[s].waitq, k.cur[c]) /\ Blocks(k2, m, c)
    <2>1. PICK k1, k2 \in Kernels :
             /\ Reframes(k, k1, c, Calling(k.frame[c], s, ret)) /\ k1.log = k.log
             /\ Queueing(k1, k2, {k.cur[c]}) /\ Blocks(k2, m, c)
        BY <1>2
    <2> DEFINE g == Calling(f, s, ret)
    <2>2. g.mode = f.mode /\ g.serving = f.serving /\ g.pc = "call" /\ g.to = s /\ g.n = f.n
        <3> HIDE DEF f
        <3> QED BY <1>0 DEF Contexts, Calling
    <2> HIDE DEF g
    <2>3. CallOK(k, g)
        BY <2>2 DEF CallOK
    <2>4. Reframes(k, k1, c, g)
        BY <2>1 DEF g
    <2>5. BaseInv(k1)
        BY <2>2, <2>3, <2>4, BaseReframes
    <2>6. BaseInv(k2)
        BY <2>1, <2>5, BaseQueueing
    <2>7. k1.cur = k.cur /\ k2.cur = k.cur /\ k2.task = k.task
        BY <2>1, <2>4 DEF Reframes, Steady, Queueing, Alike
    <2>8. SameWork(k, k1) /\ SameWork(k1, k2)
        BY <1>0, <2>1, <2>2, <2>4, SameWorkReframes, SameWorkSteps
    <2>9. ServiceInv(k2)
        BY <2>8, ServiceKept
    <2>10. Running(k2, c)
        BY <2>7 DEF Running, Live
    <2>11. OnceInv(k1, {}, {})
        BY <1>0, <2>1, <2>2, <2>4, OnceReframes
    <2>12. OnceInv(k2, {}, {})
        BY <2>1, <2>11, SameOnceSteps, OnceSame
    <2> QED BY <2>1, <2>6, <2>9, <2>10, <2>12, OnceBlocks
<1>3. CASE /\ Live(k, s) /\ ~Closed(k, s)
           /\ \E k1 \in Kernels : /\ Asks(k, k1, c, s, ret)
                                  /\ IF k.srv[s].ring = <<>> THEN Starts(k1, m, c, s) ELSE m = k1
    <2>1. PICK k1 \in Kernels : /\ Asks(k, k1, c, s, ret)
                                /\ IF k.srv[s].ring = <<>> THEN Starts(k1, m, c, s) ELSE m = k1
        BY <1>3
    <2>2. OnceInv(k1, {}, IF k.srv[s].ring = <<>> THEN {s} ELSE {})
        BY <2>1, OnceAsks
    <2>3. CASE k.srv[s].ring = <<>>
        <3>1. PICK n \in Kernels : Arms(k1, n, s, FALSE) /\ Hands(n, m, c, s)
            BY <2>1, <2>3 DEF Starts
        <3>2. BaseInv(k1)
            BY <1>3, <2>1, BaseAsks DEF Running
        <3>3. Live(k1, s) /\ Live(n, s)
            BY <1>3, <2>1, <3>1 DEF Asks, Arms, Live
        <3>4. BaseInv(n)
            BY <3>1, <3>2, <3>3, BaseArms
        <3>5. ServiceInv(n)
            BY <1>3, <2>1, <2>3, <3>1, ServiceFirst, ZenonT(30)
        <3>6. OnceInv(n, {}, {})
            <4>1. OnceInv(k1, {}, {s})
                BY <2>2, <2>3
            <4> QED BY <3>1, <4>1, OnceArms
        <3> QED BY <1>0, <3>1, <3>3, <3>4, <3>5, <3>6, OnceHands
    <2>4. CASE k.srv[s].ring # <<>>
        BY <2>1, <2>2, <2>4
    <2> QED BY <2>3, <2>4
<1> QED BY <1>1, <1>2, <1>3 DEF CallEffect

\* proc_ipc_end()
LEMMA OnceEnds ==
    ASSUME NEW k, NEW m, NEW c \in Cores, BaseInv(k), ~Watchdog, ServiceInv(k), OnceInv(k, {}, {}),
           Running(k, c), k.cur[c] \in Servers, k.frame[c].mode = "handler", k.srv[k.cur[c]].ring # <<>>,
           EndEffect(k, m, c)
    PROVE  OnceInv(m, {}, {})
<1> DEFINE s == k.cur[c]
           r == Head(k.srv[s].ring)
<1>1. PICK k1, k2, k3 \in Kernels, Q \in SUBSET Procs : EndStates(k, m, c, k1, k2, k3, Q)
    BY EndChain
<1>2. BaseInv(k1) /\ BaseInv(k2) /\ BaseInv(k3) /\ s \in Procs /\ SameLife(k, k1) /\ k1.srv[s].ring = k.srv[s].ring
    BY <1>1, EndBase, Constants
<1>3. EndNext(k, m, c, k3)
    BY <1>1, ServiceEndNext
<1>4. Finishes(k, k1, c, s) /\ Closes(k1, k2, s) /\ Eases(k2, k3, Q)
    BY <1>1 DEF EndStates
<1>5. InService(k.srv[s])
    BY <1>1, ServiceEndStates
<1>6. OnceInv(k1, {s}, {s})
    BY <1>2, <1>4, <1>5, OnceFinishes
<1>7. OnceInv(k2, {}, {s})
    BY <1>2, <1>4, <1>6, OnceCloses
<1>8. OnceInv(k3, {}, {s})
    BY <1>4, <1>7, SameOnceSteps, OnceSame
<1>9. CASE k3.srv[s].ring # <<>>
    <2>1. PICK n \in Kernels : /\ Arms(k3, n, s, FALSE) /\ Hands(n, m, c, s)
                               /\ BaseInv(n) /\ Live(n, s) /\ ServiceInv(n)
        BY <1>3, <1>9 DEF EndNext
    <2>2. OnceInv(n, {}, {})
        BY <1>8, <2>1, OnceArms
    <2> QED BY <1>2, <2>1, <2>2, OnceHands
<1>10. CASE k3.srv[s].ring = <<>>
    <2>1. /\ ServiceInv(k3)
          /\ \/ Dispatches(k3, m, c)
             \/ \E to \in ToWake(k, r) : to \in Procs /\ Live(k3, to) /\ Hands(k3, m, c, to)
        BY <1>3, <1>10 DEF EndNext
    <2>2. OnceInv(k3, {}, {})
        BY <1>8, <1>10, OnceIdle
    <2> QED BY <1>2, <2>1, <2>2, ServiceForms, OnceDispatches, OnceHands
<1> QED BY <1>9, <1>10

\* A handler that is about to work, in a state whose log records it.
LEMMA OnceWorks ==
    ASSUME NEW k, NEW m, NEW c \in Cores, BaseInv(k), ServiceInv(k), OnceInv(k, {}, {}), m \in Kernels,
           Running(k, c), k.cur[c] \in Servers, k.frame[c].mode = "handler", k.frame[c].pc = "body",
           Counts(k, m, k.frame[c].serving), m.ipc_uid = k.ipc_uid, m.srv = k.srv, m.task = k.task,
           m.cur = k.cur, m.ctx = k.ctx, m.frame[c].n = k.frame[c].n,
           \A x \in Cores \ {c} : m.frame[x] = k.frame[x]
    PROVE  OnceInv(m, {k.cur[c]}, {})
<1> DEFINE p == k.cur[c]
<1>0. Core[p] = c /\ Live(k, p) /\ p \in Servers /\ NoProc \notin Procs /\ Servers \subseteq Procs
    BY Constants DEF BaseInv, CurOK, Running
<1>1. Fits(k.srv[p], k.frame[c])
    BY <1>0 DEF ServiceInv, Framed
<1>2. InService(k.srv[p]) /\ Head(k.srv[p].ring).uid = k.frame[c].serving
    BY <1>1 DEF Fits
<1>3. ExecOf(k, p) = k.frame[c] /\ ExecOf(m, p) = m.frame[c]
    BY <1>0 DEF ExecOf
<1>4. ASSUME NEW s \in Servers \ {p} PROVE ExecOf(m, s) = ExecOf(k, s)
    <2>1. Core[s] \in Cores /\ (k.cur[Core[s]] = s => Core[s] # c)
        BY <1>0, Constants
    <2> QED BY <2>1 DEF ExecOf
<1> HIDE DEF p
<1>5. OnceInv(m, {p}, {})
    BY <1>0, <1>2, <1>3, <1>4, OnceCounts
<1> QED BY <1>5 DEF p

\* Every step keeps the invariant.
LEMMA OnceKept ==
    ASSUME NEW k, NEW m, ~Watchdog, BaseInv(k), ServiceInv(k), OnceInv(k, {}, {}), Effect(k, m)
    PROVE  OnceInv(m, {}, {})
<1>1. CASE ByCall(k, m)
    <2>1. PICK c \in Cores, k0 \in Kernels, s \in Servers, ret \in BOOLEAN :
             /\ Running(k, c) /\ Quiet(k, k0) /\ CallEffect(k0, m, c, s, ret)
             /\ \/ SameLog(k, k0)
                \/ /\ k.frame[c].mode = "handler" /\ k.frame[c].pc = "body"
                   /\ k.cur[c] \in Servers /\ Counts(k, k0, k.frame[c].serving)
        BY <1>1 DEF ByCall
    <2>2. BaseInv(k0) /\ ServiceInv(k0)
        BY <2>1, BaseQuiet, SameWorkSteps, ServiceKept
    <2>3. Running(k0, c) /\ k0.cur = k.cur /\ k0.frame = k.frame /\ k0.srv = k.srv /\ k0.task = k.task
          /\ k0.ctx = k.ctx /\ k0.ipc_uid = k.ipc_uid
        BY <2>1 DEF Running, Quiet, Steady, Live
    <2>4. CASE SameLog(k, k0)
        <3>1. SameOnce(k, k0)
            BY <2>1, <2>4, SameOnceSteps DEF SameLog
        <3>2. OnceInv(k0, {}, {})
            BY <3>1, OnceSame
        <3> QED BY <2>1, <2>2, <2>3, <3>2, OnceCalls
    <2>5. CASE /\ k.frame[c].mode = "handler" /\ k.frame[c].pc = "body"
               /\ k.cur[c] \in Servers /\ Counts(k, k0, k.frame[c].serving)
        <3>1. OnceInv(k0, {k.cur[c]}, {})
            BY <2>1, <2>3, <2>5, OnceWorks
        <3> DEFINE X == {k.cur[c]}
        <3>2. X \subseteq {k0.cur[c]}
            BY <2>3
        <3> HIDE DEF X
        <3>3. OnceInv(k0, X, {})
            BY <3>1 DEF X
        <3> QED BY <2>1, <2>2, <2>3, <2>5, <3>2, <3>3, OnceCalls
    <2> QED BY <2>1, <2>4, <2>5
<1>2. CASE BySchedule(k, m)
    <2>1. PICK c \in Cores, k0 \in Kernels : Quiet(k, k0) /\ SameLog(k, k0) /\ Dispatches(k0, m, c)
        BY <1>2 DEF BySchedule
    <2>2. BaseInv(k0) /\ ServiceInv(k0)
        BY <2>1, BaseQuiet, SameWorkSteps, ServiceKept
    <2>3. OnceInv(k0, {}, {})
        BY <2>1, SameOnceSteps, OnceSame DEF SameLog
    <2> QED BY <2>1, <2>2, <2>3, ServiceForms, OnceDispatches
<1>3. CASE ByBlock(k, m)
    <2>1. PICK c \in Cores, k0 \in Kernels :
             Running(k, c) /\ Quiet(k, k0) /\ SameLog(k, k0) /\ Blocks(k0, m, c)
        BY <1>3 DEF ByBlock
    <2>2. BaseInv(k0) /\ ServiceInv(k0)
        BY <2>1, BaseQuiet, SameWorkSteps, ServiceKept
    <2>3. OnceInv(k0, {}, {})
        BY <2>1, SameOnceSteps, OnceSame DEF SameLog
    <2>4. Running(k0, c)
        BY <2>1 DEF Running, Quiet, Steady, Live
    <2> QED BY <2>1, <2>2, <2>3, <2>4, OnceBlocks
<1>4. CASE ByCode(k, m)
    <2>1. PICK c \in Cores, g \in Contexts :
             /\ Running(k, c) /\ Reframes(k, m, c, g) /\ g.mode = k.frame[c].mode
             /\ \/ g.n = k.frame[c].n /\ (Returns(k, m, c, g) \/ Begins(k, m, c, g) \/ Works(k, m, c, g)
                                           \/ Answers(k, m, c, g))
                \/ Moves(k, m, c, g)
        BY <1>4 DEF ByCode
    <2>2. k.frame[c] \in Contexts /\ k.frame \in [Cores -> Contexts]
        BY KernelFields DEF BaseInv
    <2>3. CASE g.n = k.frame[c].n /\ Returns(k, m, c, g)
        <3>1. m.log.worked = k.log.worked /\ m.log.steps = k.log.steps /\ g = Back(k.frame[c])
            BY <2>3 DEF Returns
        <3> DEFINE f == k.frame[c]
        <3>2. g.pc \in {"reply", "run"}
            <4>1. f \in Contexts /\ g = Back(f)
                BY <2>2, <3>1
            <4> HIDE DEF f
            <4> QED BY <4>1 DEF Back, Contexts
        <3> QED BY <2>1, <2>3, <3>1, <3>2, OnceReframes DEF Running
    <2>4. CASE g.n = k.frame[c].n /\ Begins(k, m, c, g)
        <3>1. m.log.worked = k.log.worked /\ m.log.steps = k.log.steps /\ k.frame[c].pc = "entry"
            BY <2>4 DEF Begins, SameLog
        <3> QED BY <2>1, <2>4, <3>1, OnceReframes DEF Running
    <2>5. CASE g.n = k.frame[c].n /\ Works(k, m, c, g)
        <3>1. /\ m \in Kernels /\ m.task = k.task /\ m.ctx = k.ctx /\ m.cur = k.cur /\ m.srv = k.srv
              /\ m.ipc_uid = k.ipc_uid /\ m.frame[c] = g /\ \A x \in Cores \ {c} : m.frame[x] = k.frame[x]
            BY <2>1, <2>2 DEF Reframes, Steady
        <3>2. /\ k.frame[c].mode = "handler" /\ k.frame[c].pc = "body" /\ k.cur[c] \in Servers
              /\ Counts(k, m, k.frame[c].serving) /\ g.pc = "reply"
            BY <2>5 DEF Works
        <3>3. OnceInv(m, {k.cur[c]}, {})
            BY <2>1, <2>5, <3>1, <3>2, OnceWorks
        <3>4. ExecOf(m, k.cur[c]) = g
            BY <2>1, <3>1, Constants DEF ExecOf, BaseInv, CurOK, Running
        <3> QED BY <2>1, <3>2, <3>3, <3>4, OnceDone
    <2>6. CASE g.n = k.frame[c].n /\ Answers(k, m, c, g)
        <3>1. m.log.worked = k.log.worked /\ m.log.steps = k.log.steps /\ g.pc = "end"
            BY <2>6 DEF Answers
        <3> QED BY <2>1, <2>6, <3>1, OnceReframes DEF Running
    <2>7. CASE Moves(k, m, c, g)
        BY <2>1, <2>7, OnceMoves
    <2> QED BY <2>1, <2>3, <2>4, <2>5, <2>6, <2>7
<1>5. CASE BySleep(k, m)
    <2>1. PICK c \in Cores, k0 \in Kernels, state \in {"SLEEPING", "WAIT"} :
             /\ Running(k, c) /\ Retasks(k, k0, k.cur[c], state) /\ Dispatches(k0, m, c)
             /\ k0.log.worked = k.log.worked /\ k0.log.steps = k.log.steps
        BY <1>5 DEF BySleep
    <2>2. BaseInv(k0)
        BY <2>1, BaseRetasks DEF Running
    <2>3. SameWork(k, k0)
        BY <2>1, SameWorkSteps DEF Running
    <2>4. ServiceInv(k0)
        BY <2>3, ServiceKept
    <2>5. SameOnce(k, k0)
        BY <2>1, SameOnceSteps DEF Running
    <2>6. OnceInv(k0, {}, {})
        BY <2>5, OnceSame
    <2> QED BY <2>1, <2>2, <2>4, <2>6, ServiceForms, OnceDispatches
<1>6. CASE ByQueue(k, m)
    <2>1. PICK k0, k1 \in Kernels, Q \in SUBSET Procs :
             Quiet(k, k0) /\ SameLog(k, k0) /\ Queueing(k0, k1, {}) /\ Eases(k1, m, Q)
        BY <1>6 DEF ByQueue
    <2>2. SameOnce(k, k0) /\ SameOnce(k0, k1) /\ SameOnce(k1, m)
        BY <2>1, SameOnceSteps DEF SameLog
    <2> QED BY <2>2, OnceSame
<1>7. CASE ByTimer(k, m)
    <2>1. PICK p \in Procs : /\ k.task[p].state \in {"SLEEPING", "BLOCK"} /\ Retasks(k, m, p, "READY")
                             /\ m.log.worked = k.log.worked /\ m.log.steps = k.log.steps
        BY <1>7 DEF ByTimer
    <2>2. Live(k, p)
        BY <2>1 DEF Live, proc_get
    <2>3. SameOnce(k, m)
        BY <2>1, <2>2, SameOnceSteps
    <2> QED BY <2>3, OnceSame
<1>8. CASE ByEvent(k, m)
    <2>1. PICK p \in Servers, k1 \in Kernels :
             /\ Eases(k, k1, {p}) /\ Quiet(k1, m)
             /\ m.log.worked = k.log.worked /\ m.log.steps = k.log.steps
        BY <1>8 DEF ByEvent
    <2>2. k1.log = k.log
        BY <2>1 DEF Eases, Alike
    <2>3. SameOnce(k, k1) /\ SameOnce(k1, m)
        BY <2>1, <2>2, SameOnceSteps
    <2> QED BY <2>3, OnceSame
<1>9. CASE ByEnd(k, m)
    <2>1. PICK c \in Cores, k0 \in Kernels :
             /\ Running(k, c) /\ k.cur[c] \in Servers /\ Quiet(k, k0) /\ SameLog(k, k0)
             /\ k.frame[c].mode = "handler"
             /\ IF k.srv[k.cur[c]].ring = <<>> THEN m = k0 ELSE EndEffect(k0, m, c)
        BY <1>9 DEF ByEnd
    <2>2. BaseInv(k0) /\ ServiceInv(k0)
        BY <2>1, BaseQuiet, SameWorkSteps, ServiceKept
    <2>3. OnceInv(k0, {}, {})
        BY <2>1, SameOnceSteps, OnceSame DEF SameLog
    <2>4. Running(k0, c) /\ k0.cur[c] = k.cur[c] /\ k0.srv = k.srv /\ k0.frame = k.frame
        BY <2>1 DEF Running, Quiet, Steady, Live
    <2> QED BY <2>1, <2>2, <2>3, <2>4, OnceEnds
<1>10. CASE ByTimeout(k, m)
    BY <1>10 DEF ByTimeout
<1>11. CASE ByDeath(k, m)
    <2>1. PICK p \in Procs, c \in Cores, k0, k1 \in Kernels :
             Quiet(k, k0) /\ SameLog(k, k0) /\ Terminates(k0, k1, p) /\ Dispatches(k1, m, c)
        BY <1>11 DEF ByDeath
    <2>2. BaseInv(k0)
        BY <2>1, BaseQuiet
    <2>3. BaseInv(k1)
        BY <2>1, <2>2, BaseTerminates
    <2>4. SameWork(k, k0) /\ SameWork(k0, k1)
        BY <2>1, SameWorkSteps
    <2>5. ServiceInv(k1)
        BY <2>4, ServiceKept
    <2>6. SameOnce(k, k0) /\ SameOnce(k0, k1)
        BY <2>1, SameOnceSteps DEF SameLog
    <2>7. OnceInv(k1, {}, {})
        BY <2>6, OnceSame
    <2> QED BY <2>1, <2>3, <2>5, <2>7, ServiceForms, OnceDispatches
<1>12. CASE BySpawn(k, m)
    BY <1>12, OnceSpawns
<1> QED BY <1>1, <1>2, <1>3, <1>4, <1>5, <1>6, <1>7, <1>8, <1>9, <1>10, <1>11, <1>12 DEF Effect

\* It holds at the start.
LEMMA OnceInit == Init => OnceInv(kernel, {}, {})
<1> SUFFICES ASSUME Init PROVE OnceInv(kernel, {}, {})
    OBVIOUS
<1>1. /\ \A p \in Procs : kernel.ctx[p] = MainCtx /\ kernel.log.steps[p] = 0
      /\ \A s \in Servers : kernel.srv[s].ring = <<>>
      /\ \A c \in Cores : kernel.cur[c] = NoProc
      /\ \A u \in Uids : kernel.log.worked[u] = 0
    BY InitKernel DEF NewServer, NewLog
<1>2. WorkOK(kernel, {})
    BY <1>1 DEF WorkOK
<1>3. \A p \in Procs : ExecOf(kernel, p).n = 0
    BY <1>1, Constants, ContextFacts DEF ExecOf
<1>4. KeptOK(kernel, {})
    BY <1>1, <1>3, Constants DEF KeptOK, InService
<1> QED BY <1>2, <1>4 DEF OnceInv

\* Without the watchdog the invariant holds.
LEMMA OnceHolds == ~Watchdog /\ Spec => []OnceInv(kernel, {}, {})
<1> SUFFICES ASSUME ~Watchdog PROVE Spec => []OnceInv(kernel, {}, {})
    OBVIOUS
<1>1. BaseInv(kernel) /\ ServiceInv(kernel) /\ OnceInv(kernel, {}, {}) /\ [Next]_kernel
         => OnceInv(kernel, {}, {})'
    <2>1. ASSUME BaseInv(kernel), ServiceInv(kernel), OnceInv(kernel, {}, {}), Next
          PROVE  OnceInv(kernel', {}, {})
        BY <2>1, NextEffect, OnceKept
    <2> QED BY <2>1
<1>2. ServersOnTimerCore
    BY DEF ServersOnTimerCore
<1> QED BY OnceInit, <1>1, <1>2, ServiceHolds, BaseHolds, PTL DEF Spec

\* The work of a request is done at most once, whatever calls, sleeps and
\* deaths interleave with it, as long as the watchdog does not set a server back.
THEOREM WorkIsDoneOnce == ~Watchdog /\ Spec => []AtMostOnce
<1> SUFFICES ASSUME ~Watchdog PROVE Spec => []AtMostOnce
    OBVIOUS
<1>1. OnceInv(kernel, {}, {}) => AtMostOnce
    BY DEF OnceInv, WorkOK, AtMostOnce
<1> QED BY <1>1, OnceHolds, PTL

\* The main context of a server executes, or is kept aside, with all the work
\* it has done.
THEOREM MainContextsAreKept == ~Watchdog /\ Spec => []MainContextKept
<1> SUFFICES ASSUME ~Watchdog PROVE Spec => []MainContextKept
    OBVIOUS
<1>1. ASSUME BaseInv(kernel), ServiceInv(kernel), OnceInv(kernel, {}, {}) PROVE MainContextKept
    <2> SUFFICES ASSUME NEW s \in Servers, Live(kernel, s)
                 PROVE  LET main == IF Exec(s).mode = "main" THEN Exec(s) ELSE kernel.srv[s].saved.ctx
                        IN  main.mode = "main" /\ main.n = kernel.log.steps[s]
        BY DEF MainContextKept
    <2>1. Exec(s) = ExecOf(kernel, s)
        BY DEF Exec, ExecOf
    <2>2. ServedOK(kernel.srv[s], ExecOf(kernel, s))
        BY <1>1, CalmServed, ServiceForms
    <2>3. kernel.log.steps[s] = IF InService(kernel.srv[s]) THEN kernel.srv[s].saved.ctx.n
                                ELSE ExecOf(kernel, s).n
        BY <1>1 DEF OnceInv, KeptOK
    <2> QED BY <2>1, <2>2, <2>3 DEF ServedOK, Fits
<1>2. ServersOnTimerCore
    BY DEF ServersOnTimerCore
<1> QED BY <1>1, <1>2, OnceHolds, ServiceHolds, BaseHolds, PTL

-----------------------------------------------------------------------------
(* Servers that make no calls.                                              *)

\* The context is in no call.
Plain(f) == f.pc \notin {"call", "wait"}

SilentContexts(k) ==
    \A s \in Servers : /\ Plain(k.ctx[s]) /\ Plain(k.srv[s].saved.ctx)
                       /\ \A c \in Cores : k.cur[c] = s => Plain(k.frame[c])

SilentQueues(k) ==
    \A s \in Servers : /\ \A p \in Servers : ~Has(k.srv[s].waitq, p)
                       /\ \A i \in DOMAIN k.srv[s].ring : k.srv[s].ring[i].client \notin Servers

\* No server waits for another one.
Silent(k) == SilentContexts(k) /\ SilentQueues(k)

\* The contexts that the kernel makes are in no call.
LEMMA PlainContexts == Plain(MainCtx) /\ Plain(ZeroCtx) /\ Plain(NoSaved.ctx) /\ \A u : Plain(HandlerCtx(u))
BY DEF Plain, MainCtx, ZeroCtx, NoSaved, HandlerCtx, Context

\* Rings and queues get no server as a client.
LEMMA SilentShrinks ==
    ASSUME NEW k, NEW m, SilentQueues(k),
           \A s \in Servers :
              /\ \A p \in Servers : Has(m.srv[s].waitq, p) => Has(k.srv[s].waitq, p)
              /\ \A i \in DOMAIN m.srv[s].ring : \/ m.srv[s].ring[i].client \notin Servers
                                                 \/ Has(k.srv[s].ring, m.srv[s].ring[i])
    PROVE  SilentQueues(m)
<1>1. ASSUME NEW s \in Servers, NEW p \in Servers PROVE ~Has(m.srv[s].waitq, p)
    BY DEF SilentQueues
<1>2. ASSUME NEW s \in Servers, NEW i \in DOMAIN m.srv[s].ring PROVE m.srv[s].ring[i].client \notin Servers
    <2>1. ASSUME Has(k.srv[s].ring, m.srv[s].ring[i]) PROVE m.srv[s].ring[i].client \notin Servers
        BY <2>1 DEF SilentQueues, Has
    <2> QED BY <2>1
<1> QED BY <1>1, <1>2 DEF SilentQueues

\* Steps that leave the contexts alone.
LEMMA SilentSame ==
    ASSUME NEW k, NEW m, Silent(k), m.ctx = k.ctx, m.cur = k.cur, m.frame = k.frame,
           \A s \in Servers :
              /\ m.srv[s].saved.ctx = k.srv[s].saved.ctx
              /\ m.srv[s].ring = k.srv[s].ring \/ m.srv[s].ring = <<>>
              /\ \A p \in Servers : Has(m.srv[s].waitq, p) => Has(k.srv[s].waitq, p)
    PROVE  Silent(m)
<1>1. SilentContexts(m)
    BY DEF Silent, SilentContexts
<1>2. \A s \in Servers : \A i \in DOMAIN m.srv[s].ring : Has(k.srv[s].ring, m.srv[s].ring[i])
    BY HasSelf
<1>3. SilentQueues(m)
    BY <1>2, SilentShrinks DEF Silent
<1> QED BY <1>1, <1>3 DEF Silent

\* The steps of this kind.
LEMMA SilentSteps ==
    ASSUME NEW k, NEW m, Silent(k)
    PROVE  /\ \A Q : Eases(k, m, Q) => Silent(m)
           /\ Quiet(k, m) => Silent(m)
           /\ \A P : Queueing(k, m, P) /\ P \cap Servers = {} => Silent(m)
           /\ \A p, state : Retasks(k, m, p, state) => Silent(m)
           /\ \A s \in Servers : \A restore : Arms(k, m, s, restore) => Silent(m)
           /\ \A p \in Procs : Terminates(k, m, p) => Silent(m)
<1>0. Servers \subseteq Procs
    BY Constants
<1>1. ASSUME NEW Q, Eases(k, m, Q) PROVE Silent(m)
    <2>1. m.cur = k.cur /\ m.ctx = k.ctx /\ m.frame = k.frame
        BY <1>1 DEF Eases, Alike
    <2>2. \A s \in Servers : /\ m.srv[s].saved.ctx = k.srv[s].saved.ctx /\ m.srv[s].ring = k.srv[s].ring
                             /\ \A p \in Servers : Has(m.srv[s].waitq, p) => Has(k.srv[s].waitq, p)
        BY <1>0, <1>1 DEF Eases, EasedServer
    <2> QED BY <2>1, <2>2, SilentSame
<1>2. ASSUME Quiet(k, m) PROVE Silent(m)
    <2>1. m.cur = k.cur /\ m.ctx = k.ctx /\ m.frame = k.frame /\ m.srv = k.srv
        BY <1>2 DEF Quiet, Steady
    <2> QED BY <2>1, SilentSame
<1>3. ASSUME NEW P, Queueing(k, m, P), P \cap Servers = {} PROVE Silent(m)
    <2>1. m.cur = k.cur /\ m.ctx = k.ctx /\ m.frame = k.frame
        BY <1>3 DEF Queueing, Alike
    <2>2. \A s \in Servers : /\ m.srv[s].saved.ctx = k.srv[s].saved.ctx /\ m.srv[s].ring = k.srv[s].ring
                             /\ \A p \in Servers : Has(m.srv[s].waitq, p) => Has(k.srv[s].waitq, p)
        BY <1>0, <1>3 DEF Queueing
    <2> QED BY <2>1, <2>2, SilentSame
<1>4. ASSUME NEW p, NEW state, Retasks(k, m, p, state) PROVE Silent(m)
    <2>1. m.cur = k.cur /\ m.ctx = k.ctx /\ m.frame = k.frame /\ m.srv = k.srv
        BY <1>4 DEF Retasks, Steady
    <2> QED BY <2>1, SilentSame
<1>5. ASSUME NEW s \in Servers, NEW restore, Arms(k, m, s, restore) PROVE Silent(m)
    <2>1. m.cur = k.cur /\ m.ctx = k.ctx /\ m.frame = k.frame
        BY <1>5 DEF Arms, Alike
    <2>2. ASSUME NEW t \in Servers
          PROVE  /\ m.srv[t].saved.ctx = k.srv[t].saved.ctx /\ m.srv[t].ring = k.srv[t].ring
                 /\ m.srv[t].waitq = k.srv[t].waitq
        <3>1. CASE t = s
            BY <1>5, <3>1 DEF Arms, OneServer
        <3>2. CASE t # s
            BY <1>5, <3>2 DEF Arms, OneServer
        <3> QED BY <3>1, <3>2
    <2> QED BY <2>1, <2>2, SilentSame
<1>6. ASSUME NEW p \in Procs, Terminates(k, m, p) PROVE Silent(m)
    <2>1. m.cur = k.cur /\ m.ctx = k.ctx /\ m.frame = k.frame
        BY <1>6 DEF Terminates
    <2>2. ASSUME NEW s \in Servers
          PROVE  /\ m.srv[s].saved.ctx = k.srv[s].saved.ctx
                 /\ m.srv[s].ring = k.srv[s].ring \/ m.srv[s].ring = <<>>
                 /\ \A q \in Servers : Has(m.srv[s].waitq, q) => Has(k.srv[s].waitq, q)
        BY <1>0, <1>6 DEF Terminates, EasedServer
    <2> QED BY <2>1, <2>2, SilentSame
<1> QED BY <1>1, <1>2, <1>3, <1>4, <1>5, <1>6

\* The running task goes on with a context that is in no call, or is no server.
LEMMA SilentReframes ==
    ASSUME NEW k, NEW m, NEW c \in Cores, NEW f, BaseInv(k), Silent(k), Reframes(k, m, c, f),
           Plain(f) \/ k.cur[c] \notin Servers
    PROVE  Silent(m)
<1>1. k.frame \in [Cores -> Contexts]
    BY KernelFields DEF BaseInv
<1>2. /\ m.ctx = k.ctx /\ m.cur = k.cur /\ m.srv = k.srv
      /\ m.frame[c] = f /\ \A x \in Cores \ {c} : m.frame[x] = k.frame[x]
    BY <1>1 DEF Reframes, Steady
<1>3. SilentContexts(m)
    BY <1>2 DEF Silent, SilentContexts
<1> QED BY <1>2, <1>3 DEF Silent, SilentQueues

\* A request of a client is accepted.
LEMMA SilentAsks ==
    ASSUME NEW k, NEW m, NEW c \in Cores, NEW s \in Servers, NEW ret \in BOOLEAN, BaseInv(k), Silent(k),
           k.cur[c] \notin Servers, Asks(k, m, c, s, ret)
    PROVE  Silent(m) /\ Longer(k.srv[s].ring, m.srv[s].ring, Request(k, k.cur[c], ret))
<1> DEFINE r == Request(k, k.cur[c], ret)
<1>1. /\ m.ctx = k.ctx /\ m.cur = k.cur
      /\ \A t \in Servers \ {s} : m.srv[t] = k.srv[t]
      /\ m.srv[s].waitq = k.srv[s].waitq /\ m.srv[s].saved = k.srv[s].saved
      /\ Longer(k.srv[s].ring, m.srv[s].ring, r) /\ r.client = k.cur[c]
    BY DEF Asks, OneServer, Request
<1>2. \A x \in Cores \ {c} : m.frame[x] = k.frame[x]
    BY AskedFrame DEF BaseInv
<1>3. \A t \in Servers : m.srv[t].waitq = k.srv[t].waitq /\ m.srv[t].saved = k.srv[t].saved
    BY <1>1
<1>4. SilentContexts(m)
    BY <1>1, <1>2, <1>3 DEF Silent, SilentContexts
<1> HIDE DEF r
<1>5. ASSUME NEW t \in Servers, NEW i \in DOMAIN m.srv[t].ring
      PROVE  m.srv[t].ring[i].client \notin Servers \/ Has(k.srv[t].ring, m.srv[t].ring[i])
    <2>1. CASE t = s
        BY <1>1, <1>5, <2>1 DEF Longer, Has
    <2>2. CASE t # s
        BY <1>1, <1>5, <2>2, HasSelf
    <2> QED BY <2>1, <2>2
<1>6. SilentQueues(m)
    BY <1>3, <1>5, SilentShrinks DEF Silent
<1> QED BY <1>1, <1>4, <1>6 DEF Silent, r

\* A service ends.
LEMMA SilentFinishes ==
    ASSUME NEW k, NEW m, NEW c \in Cores, NEW s \in Servers, BaseInv(k), Silent(k), Finishes(k, m, c, s)
    PROVE  Silent(m)
<1>1. k.frame \in [Cores -> Contexts]
    BY KernelFields DEF BaseInv
<1>2. /\ m.ctx = k.ctx /\ m.cur = k.cur /\ m.frame = [k.frame EXCEPT ![c] = k.srv[s].saved.ctx]
      /\ \A t \in Servers \ {s} : m.srv[t] = k.srv[t]
      /\ m.srv[s].waitq = k.srv[s].waitq /\ m.srv[s].ring = k.srv[s].ring /\ m.srv[s].saved = NoSaved
    BY DEF Finishes, Restores, OneServer
<1>3. \A x \in Cores : m.frame[x] = IF x = c THEN k.srv[s].saved.ctx ELSE k.frame[x]
    BY <1>1, <1>2
<1>4. ASSUME NEW t \in Servers
      PROVE  /\ Plain(m.ctx[t]) /\ Plain(m.srv[t].saved.ctx)
             /\ \A x \in Cores : m.cur[x] = t => Plain(m.frame[x])
    <2>1. Plain(m.srv[t].saved.ctx)
        BY <1>2, PlainContexts DEF Silent, SilentContexts
    <2> QED BY <1>2, <1>3, <2>1 DEF Silent, SilentContexts
<1>5. SilentContexts(m)
    BY <1>4 DEF SilentContexts
<1>6. \A t \in Servers : m.srv[t].waitq = k.srv[t].waitq /\ m.srv[t].ring = k.srv[t].ring
    BY <1>2
<1>7. SilentQueues(m)
    BY <1>6, HasSelf, SilentShrinks DEF Silent
<1> QED BY <1>5, <1>7 DEF Silent

\* A request is closed.
LEMMA SilentCloses ==
    ASSUME NEW k, NEW m, NEW s \in Servers, BaseInv(k), Silent(k), Closes(k, m, s), k.srv[s].ring # <<>>
    PROVE  Silent(m)
<1>1. /\ m.ctx = k.ctx /\ m.cur = k.cur /\ m.frame = k.frame
      /\ \A t \in Servers \ {s} : m.srv[t] = k.srv[t]
      /\ m.srv[s].waitq = k.srv[s].waitq /\ m.srv[s].ring = Tail(k.srv[s].ring)
      /\ m.srv[s].saved = k.srv[s].saved
    BY DEF Closes, OneServer, Alike
<1>2. \A t \in Servers : m.srv[t].waitq = k.srv[t].waitq /\ m.srv[t].saved = k.srv[t].saved
    BY <1>1
<1>3. SilentContexts(m)
    BY <1>1, <1>2 DEF Silent, SilentContexts
<1>4. k.srv[s] \in ServerRecords
    BY KernelFields DEF BaseInv
<1>5. ASSUME NEW t \in Servers, NEW i \in DOMAIN m.srv[t].ring PROVE Has(k.srv[t].ring, m.srv[t].ring[i])
    <2>1. CASE t = s
        BY <1>1, <1>4, <1>5, <2>1, TailFacts
    <2>2. CASE t # s
        BY <1>1, <1>5, <2>2, HasSelf
    <2> QED BY <2>1, <2>2
<1>6. SilentQueues(m)
    BY <1>2, <1>5, SilentShrinks DEF Silent
<1> QED BY <1>3, <1>6 DEF Silent

\* A switch.
LEMMA SilentSwitches ==
    ASSUME NEW k, NEW m, NEW c \in Cores, NEW to \in Procs \cup {NoProc}, BaseInv(k), Silent(k),
           Switches(k, m, c, to)
    PROVE  Silent(m)
<1>0. Servers \subseteq Procs /\ NoProc \notin Procs /\ k.cur \in [Cores -> Procs \cup {NoProc}]
    BY Constants, KernelFields DEF BaseInv
<1>1. /\ m.cur = [k.cur EXCEPT ![c] = to]
      /\ \A x \in Cores \ {c} : m.frame[x] = k.frame[x]
      /\ m.frame[c] = IF to = NoProc THEN ZeroCtx ELSE m.ctx[to]
      /\ \A p \in Procs : m.ctx[p] = IF p = to /\ Injected(k, to) THEN HandlerCtx(Head(k.srv[to].ring).uid)
                                     ELSE Stored(k, c, p)
    BY DEF Switches
<1>2. \A x \in Cores : m.cur[x] = IF x = c THEN to ELSE k.cur[x]
    BY <1>0, <1>1
<1>3. \A s \in Servers : /\ m.srv[s].ring = k.srv[s].ring /\ m.srv[s].waitq = k.srv[s].waitq
                         /\ m.srv[s].saved.ctx = IF s = to /\ Injected(k, to) THEN Stored(k, c, s)
                                                 ELSE k.srv[s].saved.ctx
    BY DEF Switches, SameService
<1>4. \A s \in Servers : Plain(Stored(k, c, s))
    BY DEF Silent, SilentContexts, Stored
<1>5. \A s \in Servers : Plain(m.ctx[s])
    BY <1>0, <1>1, <1>4, PlainContexts
<1>6. ASSUME NEW s \in Servers, NEW x \in Cores, m.cur[x] = s PROVE Plain(m.frame[x])
    <2>1. CASE x = c
        BY <1>0, <1>1, <1>2, <1>5, <1>6, <2>1
    <2>2. CASE x # c
        <3>1. k.cur[x] = s /\ m.frame[x] = k.frame[x]
            BY <1>1, <1>2, <1>6, <2>2
        <3> QED BY <3>1 DEF Silent, SilentContexts
    <2> QED BY <2>1, <2>2
<1>7. \A s \in Servers : Plain(m.srv[s].saved.ctx)
    BY <1>3, <1>4 DEF Silent, SilentContexts
<1>8. SilentContexts(m)
    BY <1>5, <1>6, <1>7 DEF SilentContexts
<1>9. SilentQueues(m)
    BY <1>3, HasSelf, SilentShrinks DEF Silent
<1> QED BY <1>8, <1>9 DEF Silent

\* A pid is used again.
LEMMA SilentSpawns ==
    ASSUME NEW k, NEW m, BaseInv(k), Silent(k), BySpawn(k, m)
    PROVE  Silent(m)
<1>1. PICK p \in Procs :
       /\ m.cur = k.cur /\ m.frame = k.frame /\ m.ctx = [k.ctx EXCEPT ![p] = MainCtx]
       /\ \A s \in Servers : m.srv[s] = IF s = p THEN NewServer ELSE k.srv[s]
    BY DEF BySpawn
<1>2. k.ctx \in [Procs -> Contexts] /\ Servers \subseteq Procs
    BY KernelFields, Constants DEF BaseInv
<1>3. \A s \in Servers : m.ctx[s] = IF s = p THEN MainCtx ELSE k.ctx[s]
    BY <1>1, <1>2
<1>4. NewServer.saved.ctx = NoSaved.ctx /\ NewServer.ring = <<>> /\ \A q : ~Has(NewServer.waitq, q)
    BY HasNone DEF NewServer
<1> HIDE DEF NewServer
<1>5. ASSUME NEW s \in Servers
      PROVE  /\ Plain(m.ctx[s]) /\ Plain(m.srv[s].saved.ctx)
             /\ \A q \in Servers : ~Has(m.srv[s].waitq, q)
             /\ \A i \in DOMAIN m.srv[s].ring : m.srv[s].ring[i].client \notin Servers
    <2>1. CASE s = p
        <3>1. m.srv[s] = NewServer
            BY <1>1, <2>1
        <3> QED BY <1>3, <1>4, <2>1, <3>1, PlainContexts
    <2>2. CASE s # p
        BY <1>1, <1>3, <2>2 DEF Silent, SilentContexts, SilentQueues
    <2> QED BY <2>1, <2>2
<1>6. SilentContexts(m)
    BY <1>1, <1>5 DEF Silent, SilentContexts
<1>7. SilentQueues(m)
    BY <1>5 DEF SilentQueues
<1> QED BY <1>6, <1>7 DEF Silent

-----------------------------------------------------------------------------
(* A service pauses the sleep of the main context.                          *)

\* The main context of s sleeps, ...
Dozes(k, s) == k.task[s].state = "SLEEPING" /\ ~InService(k.srv[s])

\* ... or its sleep goes on when the requests are served.
Paused(k, s) == k.srv[s].ring # <<>> /\ k.srv[s].saved.state = "SLEEPING"

\* Naps are not over; those of the servers X have just been put back, and the
\* servers Y are about to give their core away.
Naps(k, X, Y) ==
    \A s \in Servers \cap k.log.napping :
       /\ Live(k, s) => IF s \in X THEN k.task[s].state = "SLEEPING" ELSE Dozes(k, s) \/ Paused(k, s)
       /\ s \notin Y /\ k.cur[Core[s]] = s => k.frame[Core[s]].mode # "main"

\* Steps that leave requests and contexts alone, and wake only paused sleepers.
LEMMA NapSame ==
    ASSUME NEW k, NEW m, NEW X, NEW Y, Naps(k, X, Y), m.cur = k.cur,
           \A x \in Cores : m.frame[x].mode = k.frame[x].mode,
           m.log.napping \subseteq k.log.napping,
           \A s \in Servers \cap m.log.napping : Live(m, s) =>
              /\ Live(k, s)
              /\ m.srv[s].ring = k.srv[s].ring /\ m.srv[s].do_switch = k.srv[s].do_switch
              /\ m.srv[s].saved.state = k.srv[s].saved.state
              /\ m.task[s].state = k.task[s].state \/ (s \notin X /\ Paused(k, s))
    PROVE  Naps(m, X, Y)
<1> SUFFICES ASSUME NEW s \in Servers \cap m.log.napping
             PROVE  /\ Live(m, s) => IF s \in X THEN m.task[s].state = "SLEEPING"
                                     ELSE Dozes(m, s) \/ Paused(m, s)
                    /\ s \notin Y /\ m.cur[Core[s]] = s => m.frame[Core[s]].mode # "main"
    BY DEF Naps
<1>0. s \in Servers \cap k.log.napping /\ Core[s] \in Cores
    BY Constants
<1>1. s \notin Y /\ m.cur[Core[s]] = s => m.frame[Core[s]].mode # "main"
    BY <1>0 DEF Naps
<1>2. ASSUME Live(m, s)
      PROVE  IF s \in X THEN m.task[s].state = "SLEEPING" ELSE Dozes(m, s) \/ Paused(m, s)
    <2>1. IF s \in X THEN k.task[s].state = "SLEEPING" ELSE Dozes(k, s) \/ Paused(k, s)
        BY <1>0, <1>2 DEF Naps
    <2> QED BY <1>2, <2>1 DEF Dozes, Paused, InService
<1> QED BY <1>1, <1>2

\* Tasks are woken: no sleepers but those that are paused with a dispatch armed.
LEMMA NapEases ==
    ASSUME NEW k, NEW m, NEW Q, NEW X, NEW Y, Naps(k, X, Y), Eases(k, m, Q),
           \A s \in Q \cap Servers \cap k.log.napping : s \notin X /\ k.srv[s].do_switch /\ Paused(k, s)
    PROVE  Naps(m, X, Y)
<1>1. m.cur = k.cur /\ m.frame = k.frame /\ m.log = k.log
    BY DEF Eases, Alike
<1>2. ASSUME NEW s \in Servers \cap m.log.napping, Live(m, s)
      PROVE  /\ Live(k, s)
             /\ m.srv[s].ring = k.srv[s].ring /\ m.srv[s].do_switch = k.srv[s].do_switch
             /\ m.srv[s].saved.state = k.srv[s].saved.state
             /\ m.task[s].state = k.task[s].state \/ (s \notin X /\ Paused(k, s))
    <2>1. s \in Procs /\ s \in Servers
        BY Constants
    <2>2. Live(k, s)
        BY <1>2, <2>1, EasesLive
    <2>3. EasedServer(k.srv[s], m.srv[s]) /\ (s \notin Q => m.srv[s].saved = k.srv[s].saved)
        BY <2>1 DEF Eases
    <2>4. CASE s \in Q
        BY <1>1, <2>2, <2>3, <2>4 DEF EasedServer
    <2>5. CASE s \notin Q
        <3>1. m.task[s] = k.task[s]
            BY <2>1, <2>5 DEF Eases
        <3> QED BY <2>2, <2>3, <2>5, <3>1 DEF EasedServer
    <2> QED BY <2>4, <2>5
<1> HIDE DEF Paused
<1> QED BY <1>1, <1>2, NapSame

\* Steps that change nothing that matters here.
LEMMA NapSteps ==
    ASSUME NEW k, NEW m, NEW X, NEW Y, Naps(k, X, Y)
    PROVE  /\ Quiet(k, m) /\ m.log.napping = k.log.napping => Naps(m, X, Y)
           /\ \A P : Queueing(k, m, P) => Naps(m, X, Y)
           /\ \A p, state : /\ Retasks(k, m, p, state) /\ m.log.napping = k.log.napping
                            /\ p \notin Servers \cap k.log.napping
                            => Naps(m, X, Y)
<1>0. Servers \subseteq Procs
    BY Constants
<1>1. ASSUME Quiet(k, m), m.log.napping = k.log.napping PROVE Naps(m, X, Y)
    BY <1>1, NapSame DEF Quiet, Steady, Live
<1>2. ASSUME NEW P, Queueing(k, m, P) PROVE Naps(m, X, Y)
    BY <1>2, NapSame DEF Queueing, Alike, Live
<1>3. ASSUME NEW p, NEW state, Retasks(k, m, p, state), m.log.napping = k.log.napping,
             p \notin Servers \cap k.log.napping
      PROVE  Naps(m, X, Y)
    <2>1. m.cur = k.cur /\ m.frame = k.frame /\ m.srv = k.srv
        BY <1>3 DEF Retasks, Steady
    <2>2. \A s \in Servers \cap m.log.napping : m.task[s] = k.task[s]
        BY <1>0, <1>3 DEF Retasks
    <2> QED BY <1>3, <2>1, <2>2, NapSame DEF Live
<1> QED BY <1>1, <1>2, <1>3

\* A request is accepted; if it is the first, the main context is not saved yet.
LEMMA NapAsks ==
    ASSUME NEW k, NEW m, NEW c \in Cores, NEW s \in Servers, NEW ret \in BOOLEAN, BaseInv(k),
           Naps(k, {}, {}), k.cur[c] \notin Servers, Asks(k, m, c, s, ret)
    PROVE  Naps(m, IF k.srv[s].ring = <<>> THEN {s} ELSE {}, {})
<1> DEFINE X == IF k.srv[s].ring = <<>> THEN {s} ELSE {}
           r == Request(k, k.cur[c], ret)
<1>1. /\ m.task = k.task /\ m.cur = k.cur
      /\ \A t \in Servers \ {s} : m.srv[t] = k.srv[t]
      /\ m.srv[s].saved = k.srv[s].saved /\ m.srv[s].do_switch = k.srv[s].do_switch
      /\ m.srv[s].ring # <<>>
    BY DEF Asks, OneServer, Longer
<1>2. m.log.napping = k.log.napping
    <2>1. m.log = [k.log EXCEPT !.asked = [k.log.asked EXCEPT ![k.ipc_uid + 1] = <<k.cur[c], k.uuid[k.cur[c]]>>]]
        BY DEF Asks
    <2>2. k.log \in Logs
        BY KernelFields DEF BaseInv
    <2> QED BY <2>1, <2>2 DEF Logs
<1>3. \A x \in Cores \ {c} : m.frame[x] = k.frame[x]
    BY AskedFrame DEF BaseInv
<1>4. ASSUME NEW t \in Servers \cap m.log.napping
      PROVE  /\ Live(m, t) => IF t \in X THEN m.task[t].state = "SLEEPING"
                              ELSE Dozes(m, t) \/ Paused(m, t)
             /\ m.cur[Core[t]] = t => m.frame[Core[t]].mode # "main"
    <2>1. t \in Servers \cap k.log.napping /\ Core[t] \in Cores
        BY <1>2, Constants
    <2>2. m.cur[Core[t]] = t => m.frame[Core[t]].mode # "main"
        <3>1. m.cur[Core[t]] = t => Core[t] # c
            BY <1>1, <2>1
        <3> QED BY <1>1, <1>3, <2>1, <3>1 DEF Naps
    <2>3. ASSUME Live(m, t)
          PROVE  IF t \in X THEN m.task[t].state = "SLEEPING" ELSE Dozes(m, t) \/ Paused(m, t)
        <3>1. Live(k, t)
            BY <1>1, <2>3 DEF Live
        <3>2. Dozes(k, t) \/ Paused(k, t)
            BY <2>1, <3>1 DEF Naps
        <3>3. CASE t = s
            BY <1>1, <3>2, <3>3 DEF Dozes, Paused, InService
        <3>4. CASE t # s
            BY <1>1, <2>1, <3>2, <3>4 DEF Dozes, Paused, InService
        <3> QED BY <3>3, <3>4
    <2> QED BY <2>2, <2>3
<1> HIDE DEF X
<1>5. Naps(m, X, {})
    BY <1>4 DEF Naps
<1> QED BY <1>5 DEF X

\* The state of the main context is saved with its sleep.
LEMMA NapArms ==
    ASSUME NEW k, NEW m, NEW s \in Servers, NEW Y, Naps(k, {s}, Y), k.srv[s].ring # <<>>,
           Arms(k, m, s, FALSE)
    PROVE  /\ Naps(m, {}, Y) /\ m.srv[s].do_switch
           /\ s \in m.log.napping /\ Live(m, s) => Paused(m, s)
<1>1. /\ m.task = k.task /\ m.cur = k.cur /\ m.frame = k.frame /\ m.log = k.log
      /\ \A t \in Servers \ {s} : m.srv[t] = k.srv[t]
      /\ m.srv[s].ring = k.srv[s].ring /\ m.srv[s].do_switch /\ m.srv[s].saved.state = k.task[s].state
    BY DEF Arms, OneServer, Alike
<1>2. s \in m.log.napping /\ Live(m, s) => Paused(m, s)
    BY <1>1 DEF Naps, Live, Paused
<1>3. ASSUME NEW t \in Servers \cap m.log.napping
      PROVE  /\ Live(m, t) => Dozes(m, t) \/ Paused(m, t)
             /\ t \notin Y /\ m.cur[Core[t]] = t => m.frame[Core[t]].mode # "main"
    <2>1. t \notin Y /\ m.cur[Core[t]] = t => m.frame[Core[t]].mode # "main"
        BY <1>1 DEF Naps
    <2>2. CASE t = s
        BY <1>2, <2>1, <2>2
    <2>3. CASE t # s
        <3>1. Live(k, t) => Dozes(k, t) \/ Paused(k, t)
            BY <1>1, <2>3 DEF Naps
        <3> QED BY <1>1, <2>1, <2>3, <3>1 DEF Live, Dozes, Paused
    <2> QED BY <2>2, <2>3
<1>4. Naps(m, {}, Y)
    BY <1>3 DEF Naps
<1> QED BY <1>1, <1>2, <1>4

\* A service ends: the main context sleeps again.
LEMMA NapFinishes ==
    ASSUME NEW k, NEW m, NEW c \in Cores, NEW s \in Servers, BaseInv(k), Naps(k, {}, {}),
           k.cur[c] = s, Core[s] = c, InService(k.srv[s]), SameLife(k, m), Finishes(k, m, c, s)
    PROVE  Naps(m, {s}, {s})
<1>0. Servers \subseteq Procs /\ k.frame \in [Cores -> Contexts]
    BY Constants, KernelFields DEF BaseInv
<1>1. /\ m.cur = k.cur /\ m.log = k.log
      /\ \A t \in Servers \ {s} : m.srv[t] = k.srv[t]
      /\ \A p \in Procs \ {s} : m.task[p] = k.task[p]
      /\ m.task[s].state = Continued(k.srv[s].saved.state)
      /\ m.frame = [k.frame EXCEPT ![c] = k.srv[s].saved.ctx]
    BY DEF Finishes, Restores, OneServer
<1>2. \A x \in Cores \ {c} : m.frame[x] = k.frame[x]
    BY <1>0, <1>1
<1>3. ASSUME NEW t \in Servers \cap m.log.napping
      PROVE  /\ Live(m, t) => IF t \in {s} THEN m.task[t].state = "SLEEPING"
                              ELSE Dozes(m, t) \/ Paused(m, t)
             /\ t \notin {s} /\ m.cur[Core[t]] = t => m.frame[Core[t]].mode # "main"
    <2>0. t \in Servers \cap k.log.napping /\ t \in Procs /\ Core[t] \in Cores
        BY <1>0, <1>1, Constants
    <2>1. Live(m, t) => Dozes(k, t) \/ Paused(k, t)
        BY <2>0 DEF Naps, SameLife
    <2>2. CASE t = s
        <3>1. Live(m, s) => k.srv[s].saved.state = "SLEEPING"
            BY <2>1, <2>2 DEF Dozes, Paused
        <3>2. Continued("SLEEPING") = "SLEEPING"
            BY DEF Continued, Runnable
        <3> QED BY <1>1, <2>2, <3>1, <3>2
    <2>3. CASE t # s
        <3>1. m.srv[t] = k.srv[t] /\ m.task[t] = k.task[t]
            BY <1>1, <2>0, <2>3
        <3>2. m.cur[Core[t]] = t => m.frame[Core[t]].mode # "main"
            BY <1>1, <1>2, <2>0, <2>3 DEF Naps
        <3> QED BY <2>1, <2>3, <3>1, <3>2 DEF Dozes, Paused
    <2> QED BY <2>2, <2>3
<1> QED BY <1>3 DEF Naps

\* The request is closed.
LEMMA NapCloses ==
    ASSUME NEW k, NEW m, NEW s \in Servers, NEW Y, Naps(k, {s}, Y), Closes(k, m, s)
    PROVE  Naps(m, {s}, Y)
<1>1. /\ m.task = k.task /\ m.cur = k.cur /\ m.frame = k.frame /\ m.log = k.log
      /\ \A t \in Servers \ {s} : m.srv[t] = k.srv[t]
    BY DEF Closes, OneServer, Alike
<1> QED BY <1>1 DEF Naps, Live, Dozes, Paused

\* There is no other one.
LEMMA NapIdle ==
    ASSUME NEW k, NEW s \in Servers, NEW Y, Naps(k, {s}, Y), k.srv[s].ring = <<>>
    PROVE  Naps(k, {}, Y)
BY DEF Naps, Dozes, InService

\* A switch to a task that may run: a sleeper is dispatched as a handler only.
LEMMA NapSwitches ==
    ASSUME NEW k, NEW m, NEW c \in Cores, NEW to \in Procs \cup {NoProc}, NEW Y, BaseInv(k), ~Watchdog,
           ServiceInv(k), Naps(k, {}, Y), \A s \in Y : Core[s] = c, Switches(k, m, c, to),
           to # NoProc => Core[to] = c /\ k.task[to].state \in Runnable
    PROVE  Naps(m, {}, {})
<1>0. /\ Servers \subseteq Procs /\ NoProc \notin Procs /\ k \in Kernels /\ CurOK(k)
      /\ k.cur \in [Cores -> Procs \cup {NoProc}] /\ \A p \in Procs : Core[p] \in Cores
    BY Constants, KernelFields DEF BaseInv
<1>1. to # NoProc => Core[to] = c /\ Live(k, to)
    BY DEF Runnable, Live, proc_get
<1>2. /\ m.cur = [k.cur EXCEPT ![c] = to] /\ m.log = k.log
      /\ \A x \in Cores \ {c} : m.frame[x] = k.frame[x]
      /\ m.frame[c] = IF to = NoProc THEN ZeroCtx ELSE m.ctx[to]
    BY DEF Switches, Unswitched
<1>3. \A x \in Cores : m.cur[x] = IF x = c THEN to ELSE k.cur[x]
    BY <1>0, <1>2
<1>4. \A p \in Procs : /\ Live(m, p) => Live(k, p)
                       /\ k.task[p].state = "SLEEPING" => p # to /\ m.task[p].state = "SLEEPING"
    <2>1. \A p \in Procs : m.task[p].state = IF p = to THEN "RUNNING"
                               ELSE IF p = k.cur[c] /\ k.task[p].state = "RUNNING" THEN "READY"
                               ELSE k.task[p].state
        BY DEF Switches
    <2>2. \A p \in Procs : k.task[p].state = "SLEEPING" => p # to
        BY <1>0 DEF Runnable
    <2> QED BY <1>0, <1>1, <2>1, <2>2 DEF Live, proc_get
<1>5. \A s \in Servers : /\ m.srv[s].ring = k.srv[s].ring /\ m.srv[s].saved.state = k.srv[s].saved.state
                         /\ s # to => (m.srv[s].do_switch <=> k.srv[s].do_switch)
    BY DEF Switches, SameService
<1>6. ASSUME NEW s \in Servers \cap m.log.napping
      PROVE  /\ Live(m, s) => Dozes(m, s) \/ Paused(m, s)
             /\ m.cur[Core[s]] = s => m.frame[Core[s]].mode # "main"
    <2>0. s \in Servers /\ s \in k.log.napping /\ s \in Procs /\ Core[s] \in Cores /\ s # NoProc
        BY <1>0, <1>2
    <2>1. Live(k, s) => Dozes(k, s) \/ Paused(k, s)
        BY <2>0 DEF Naps
    <2>2. Dozes(k, s) => Dozes(m, s)
        BY <1>4, <1>5, <2>0 DEF Dozes, InService
    <2>3. Paused(k, s) => Paused(m, s)
        BY <1>5, <2>0 DEF Paused
    <2>4. Live(m, s) => Dozes(m, s) \/ Paused(m, s)
        BY <1>4, <2>0, <2>1, <2>2, <2>3
    <2>5. ASSUME m.cur[Core[s]] = s, Core[s] = c PROVE m.frame[Core[s]].mode # "main"
        <3>1. s = to /\ Live(k, s)
            BY <1>1, <1>3, <2>0, <2>5
        <3>2. Paused(k, s)
            BY <1>4, <2>0, <2>1, <3>1 DEF Dozes
        <3>3. m.frame[Core[s]] = ExecOf(m, s)
            BY <2>5 DEF ExecOf
        <3>4. ExecOf(m, s) = IF Injected(k, s) THEN HandlerCtx(Head(k.srv[s].ring).uid) ELSE ExecOf(k, s)
            BY <1>1, <2>0, <3>1, CalmSwitches
        <3>5. CASE Injected(k, s)
            BY <3>3, <3>4, <3>5, ContextFacts DEF HandlerCtx, Context
        <3>6. CASE ~Injected(k, s)
            <4>1. InService(k.srv[s])
                BY <2>0, <3>2, <3>6 DEF Paused, Injected, InService
            <4>2. ServedOK(k.srv[s], ExecOf(k, s))
                BY <2>0, <3>1, CalmServed, ServiceForms
            <4> QED BY <3>3, <3>4, <3>6, <4>1, <4>2 DEF ServedOK, Fits
        <3> QED BY <3>5, <3>6
    <2>6. ASSUME m.cur[Core[s]] = s, Core[s] # c PROVE m.frame[Core[s]].mode # "main"
        <3>1. s \notin Y /\ k.cur[Core[s]] = s /\ m.frame[Core[s]] = k.frame[Core[s]]
            BY <1>2, <1>3, <2>0, <2>6
        <3> QED BY <2>0, <3>1 DEF Naps
    <2> QED BY <2>4, <2>5, <2>6
<1> QED BY <1>6 DEF Naps

\* No server waits, and naps are not over.
NapInv(k, Y) == Silent(k) /\ Naps(k, {}, Y)

\* A core is given away.
LEMMA NapDispatches ==
    ASSUME NEW k, NEW m, NEW c \in Cores, NEW Y, BaseInv(k), ~Watchdog, ServiceInv(k), NapInv(k, Y),
           \A s \in Y : Core[s] = c, Dispatches(k, m, c)
    PROVE  NapInv(m, {})
<1>1. PICK to \in Procs \cup {NoProc} : /\ Switches(k, m, c, to)
                                        /\ to # NoProc => Core[to] = c /\ k.task[to].state \in Runnable
    BY DEF Dispatches
<1>2. Silent(m)
    BY <1>1, SilentSwitches DEF NapInv
<1>3. Naps(m, {}, {})
    BY <1>1, NapSwitches DEF NapInv
<1> QED BY <1>2, <1>3 DEF NapInv

\* A task is parked, or goes on; it is no sleeper.
LEMMA NapBlocks ==
    ASSUME NEW k, NEW m, NEW c \in Cores, BaseInv(k), ~Watchdog, ServiceInv(k), NapInv(k, {}),
           Running(k, c), k.cur[c] \notin Servers \cap k.log.napping, Blocks(k, m, c)
    PROVE  NapInv(m, {})
<1>1. PICK n \in Kernels, state \in {"BLOCK", "RUNNING", k.task[k.cur[c]].state} :
         /\ Retasks(k, n, k.cur[c], state) /\ Alike(k, n)
         /\ IF state = "BLOCK" THEN Dispatches(n, m, c) ELSE m = n
    BY DEF Blocks
<1>2. k.cur[c] \in Procs /\ Live(k, k.cur[c]) /\ state \notin {"ZOMBIE", "UNUSED"}
    BY <1>1 DEF Running, Live, proc_get, ServiceInv, Used
<1>3. BaseInv(n)
    BY <1>1, <1>2, BaseRetasks
<1>4. SameWork(k, n)
    BY <1>1, <1>2, SameWorkSteps
<1>5. ServiceInv(n)
    BY <1>4, ServiceKept
<1>6. Silent(n)
    BY <1>1, SilentSteps DEF NapInv
<1>7. n.log.napping = k.log.napping
    BY <1>1 DEF Alike
<1>8. Naps(n, {}, {})
    BY <1>1, <1>7, NapSteps DEF NapInv
<1>9. NapInv(n, {})
    BY <1>6, <1>8 DEF NapInv
<1>10. CASE state = "BLOCK"
    <2>1. Dispatches(n, m, c) /\ \A s \in {} : Core[s] = c
        BY <1>1, <1>10
    <2> QED BY <1>3, <1>5, <1>9, <2>1, NapDispatches
<1> QED BY <1>1, <1>9, <1>10

\* A core is handed over, to no server or to one with a dispatch armed.
LEMMA NapHands ==
    ASSUME NEW k, NEW m, NEW c \in Cores, NEW to \in Procs, NEW Y, BaseInv(k), ~Watchdog, ServiceInv(k),
           NapInv(k, Y), \A s \in Y : Core[s] = c, Y = {} \/ Core[to] = c, Live(k, to), Hands(k, m, c, to),
           to \in Servers => /\ k.srv[to].do_switch
                             /\ to \in k.log.napping => Paused(k, to)
    PROVE  NapInv(m, {})
<1>1. PICK n \in Kernels :
         /\ Eases(k, n, {to}) \/ (n = k /\ k.task[to].state = "RUNNING")
         /\ Core[to] = c => Switches(n, m, c, to)
         /\ Core[to] # c => m = n
    BY DEF Hands
<1>2. BaseInv(n) /\ Live(n, to)
    BY <1>1, BaseEases, EasesLive
<1>3. ServiceInv(n)
    BY <1>1, SameWorkSteps, ServiceKept
<1>4. Silent(n)
    BY <1>1, SilentSteps DEF NapInv
<1>5. Naps(n, {}, Y)
    <2>1. \A s \in {to} \cap Servers \cap k.log.napping : s \notin {} /\ k.srv[s].do_switch /\ Paused(k, s)
        OBVIOUS
    <2> HIDE DEF Paused
    <2>2. CASE Eases(k, n, {to})
        BY <2>1, <2>2, NapEases DEF NapInv
    <2> QED BY <1>1, <2>2 DEF NapInv
<1>6. CASE Core[to] = c
    <2>1. n.task[to].state \in Runnable
        BY <1>1 DEF Eases, Runnable
    <2>2. Switches(n, m, c, to) /\ (to # NoProc => Core[to] = c /\ n.task[to].state \in Runnable)
        BY <1>1, <1>6, <2>1
    <2>3. to \in Procs \cup {NoProc}
        OBVIOUS
    <2>4. Silent(m)
        BY <1>2, <1>4, <2>2, <2>3, SilentSwitches
    <2>5. Naps(m, {}, {})
        BY <1>2, <1>3, <1>5, <2>2, <2>3, NapSwitches
    <2> QED BY <2>4, <2>5 DEF NapInv
<1>7. CASE Core[to] # c
    BY <1>1, <1>4, <1>5, <1>7 DEF NapInv
<1> QED BY <1>6, <1>7

\* proc_ipc_call() of a client
LEMMA NapCalls ==
    ASSUME NEW k, NEW m, NEW c \in Cores, NEW s \in Servers, NEW ret \in BOOLEAN, BaseInv(k), ~Watchdog,
           ServiceInv(k), NapInv(k, {}), Running(k, c), k.cur[c] \notin Servers, CallEffect(k, m, c, s, ret)
    PROVE  NapInv(m, {})
<1> DEFINE f == k.frame[c]
           p == k.cur[c]
<1>0. f \in Contexts /\ k \in Kernels /\ k.frame \in [Cores -> Contexts] /\ s \in Procs /\ p \in Procs
    BY KernelFields, Constants DEF BaseInv, Running
<1>4. ASSUME NEW n \in Kernels, NEW g, Reframes(k, n, c, g), g.mode = f.mode, n.log = k.log
      PROVE  NapInv(n, {})
    <2>1. Silent(n)
        BY <1>4, SilentReframes DEF NapInv
    <2>2. /\ n.srv = k.srv /\ n.task = k.task /\ n.cur = k.cur
          /\ \A x \in Cores : n.frame[x].mode = k.frame[x].mode
        BY <1>0, <1>4 DEF Reframes, Steady
    <2>3. Naps(n, {}, {})
        BY <1>4, <2>2, NapSame DEF NapInv, Live
    <2> QED BY <2>1, <2>3 DEF NapInv
<1>1. CASE Reframes(k, m, c, Back(k.frame[c])) /\ m.log = k.log
    <2> DEFINE g == Back(f)
    <2>1. g.mode = f.mode
        BY <1>0, CallContexts
    <2> HIDE DEF g
    <2>2. Reframes(k, m, c, g) /\ m \in Kernels
        BY <1>1 DEF g, Reframes, Steady
    <2> QED BY <1>1, <1>4, <2>1, <2>2
<1>2. CASE /\ Live(k, s)
           /\ \E k1, k2 \in Kernels :
             /\ Reframes(k, k1, c, Calling(k.frame[c], s, ret)) /\ k1.log = k.log
             /\ Queueing(k1, k2, {k.cur[c]}) /\ Has(k2.srv[s].waitq, k.cur[c]) /\ Blocks(k2, m, c)
    <2>1. PICK k1, k2 \in Kernels :
             /\ Reframes(k, k1, c, Calling(k.frame[c], s, ret)) /\ k1.log = k.log
             /\ Queueing(k1, k2, {k.cur[c]}) /\ Blocks(k2, m, c)
        BY <1>2
    <2> DEFINE g == Calling(f, s, ret)
    <2>2. g.mode = f.mode /\ g.serving = f.serving /\ g.pc = "call" /\ g.to = s /\ g.n = f.n
        <3> HIDE DEF f
        <3> QED BY <1>0 DEF Contexts, Calling
    <2> HIDE DEF g
    <2>3. CallOK(k, g)
        BY <2>2 DEF CallOK
    <2>4. Reframes(k, k1, c, g)
        BY <2>1 DEF g
    <2>5. BaseInv(k1)
        BY <2>2, <2>3, <2>4, BaseReframes
    <2>6. BaseInv(k2)
        BY <2>1, <2>5, BaseQueueing
    <2>7. k1.cur = k.cur /\ k2.cur = k.cur /\ k2.task = k.task
        BY <2>1, <2>4 DEF Reframes, Steady, Queueing, Alike
    <2>8. SameWork(k, k1) /\ SameWork(k1, k2)
        BY <1>0, <2>1, <2>2, <2>4, SameWorkReframes, SameWorkSteps
    <2>9. ServiceInv(k2)
        BY <2>8, ServiceKept
    <2>10. Running(k2, c)
        BY <2>7 DEF Running, Live
    <2>11. NapInv(k1, {})
        BY <1>4, <2>1, <2>2, <2>4
    <2>12. {k.cur[c]} \cap Servers = {}
        OBVIOUS
    <2>13. NapInv(k2, {})
        BY <2>1, <2>11, <2>12, SilentSteps, NapSteps DEF NapInv
    <2>14. k2.cur[c] \notin Servers \cap k2.log.napping
        BY <2>7
    <2> QED BY <2>1, <2>6, <2>9, <2>10, <2>13, <2>14, NapBlocks
<1>3. CASE /\ Live(k, s) /\ ~Closed(k, s)
           /\ \E k1 \in Kernels : /\ Asks(k, k1, c, s, ret)
                                  /\ IF k.srv[s].ring = <<>> THEN Starts(k1, m, c, s) ELSE m = k1
    <2>1. PICK k1 \in Kernels : /\ Asks(k, k1, c, s, ret)
                                /\ IF k.srv[s].ring = <<>> THEN Starts(k1, m, c, s) ELSE m = k1
        BY <1>3
    <2>2. Naps(k1, IF k.srv[s].ring = <<>> THEN {s} ELSE {}, {}) /\ Silent(k1)
        <3>1. Asks(k, k1, c, s, ret) /\ Silent(k) /\ Naps(k, {}, {})
            BY <2>1 DEF NapInv
        <3>2. Silent(k1) /\ Longer(k.srv[s].ring, k1.srv[s].ring, Request(k, k.cur[c], ret))
            BY <3>1, SilentAsks, Zenon
        <3> QED BY <3>1, <3>2, NapAsks
    <2>3. CASE k.srv[s].ring = <<>>
        <3>1. PICK n \in Kernels : Arms(k1, n, s, FALSE) /\ Hands(n, m, c, s)
            BY <2>1, <2>3 DEF Starts
        <3>2. BaseInv(k1)
            BY <1>3, <2>1, BaseAsks DEF Running
        <3>3. Live(k1, s) /\ Live(n, s)
            BY <1>3, <2>1, <3>1 DEF Asks, Arms, Live
        <3>4. BaseInv(n)
            BY <3>1, <3>2, <3>3, BaseArms
        <3>5. ServiceInv(n)
            <4>1. Live(k, s) /\ Asks(k, k1, c, s, ret) /\ Arms(k1, n, s, FALSE)
                BY <1>3, <2>1, <3>1
            <4> QED BY <2>3, <4>1, ServiceFirst, ZenonT(30)
        <3>6. Naps(n, {}, {}) /\ n.srv[s].do_switch /\ (s \in n.log.napping => Paused(n, s))
            <4>1. Naps(k1, {s}, {})
                BY <2>2, <2>3
            <4>2. k1.srv[s].ring # <<>>
                BY <2>1 DEF Asks, Longer
            <4> QED BY <3>1, <3>3, <4>1, <4>2, NapArms
        <3>7. NapInv(n, {})
            BY <2>2, <3>1, <3>6, SilentSteps DEF NapInv
        <3>8. \A t \in {} : Core[t] = c
            OBVIOUS
        <3> HIDE DEF Paused
        <3> QED BY <1>0, <3>1, <3>3, <3>4, <3>5, <3>6, <3>7, <3>8, NapHands
    <2>4. CASE k.srv[s].ring # <<>>
        BY <2>1, <2>2, <2>4 DEF NapInv
    <2> QED BY <2>3, <2>4
<1> QED BY <1>1, <1>2, <1>3 DEF CallEffect

\* proc_ipc_end()
LEMMA NapEnds ==
    ASSUME NEW k, NEW m, NEW c \in Cores, BaseInv(k), ~Watchdog, ServiceInv(k), NapInv(k, {}),
           Running(k, c), k.cur[c] \in Servers, k.frame[c].mode = "handler", k.srv[k.cur[c]].ring # <<>>,
           EndEffect(k, m, c)
    PROVE  NapInv(m, {})
<1> DEFINE s == k.cur[c]
           r == Head(k.srv[s].ring)
<1>1. PICK k1, k2, k3 \in Kernels, Q \in SUBSET Procs : EndStates(k, m, c, k1, k2, k3, Q)
    BY EndChain
<1>2. BaseInv(k1) /\ BaseInv(k2) /\ BaseInv(k3) /\ s \in Procs /\ SameLife(k, k1) /\ k1.srv[s].ring = k.srv[s].ring
    BY <1>1, EndBase, Constants
<1>3. EndNext(k, m, c, k3)
    BY <1>1, ServiceEndNext
<1>4. Finishes(k, k1, c, s) /\ Closes(k1, k2, s) /\ Eases(k2, k3, Q)
    BY <1>1 DEF EndStates
<1>5. InService(k.srv[s])
    BY <1>1, ServiceEndStates
<1>6. Core[s] = c /\ k.cur[c] = s
    BY Constants DEF BaseInv, CurOK
<1>7. Silent(k1) /\ Naps(k1, {s}, {s})
    BY <1>2, <1>4, <1>5, <1>6, SilentFinishes, NapFinishes DEF NapInv
<1>8. Silent(k2) /\ Naps(k2, {s}, {s})
    <2>1. Silent(k2)
        BY <1>2, <1>4, <1>7, SilentCloses
    <2> QED BY <1>4, <1>7, <2>1, NapCloses
<1>9. \A to \in ToWake(k, r) : to \notin Servers
    <2>1. k.srv[s] \in ServerRecords
        BY KernelFields DEF BaseInv
    <2>2. Has(k.srv[s].ring, r)
        <3>1. k.srv[s].ring \in Seq(Requests)
            BY <2>1 DEF ServerRecords
        <3> QED BY <3>1 DEF Has
    <2>3. r.client \notin Servers
        BY <2>2 DEF NapInv, Silent, SilentQueues, Has
    <2> QED BY <2>3, ClientFacts
<1>10. Q \cap Servers = {}
    <2>1. \A p \in Q : p \in ToWake(k, r) \/ Has(k2.srv[s].waitq, p)
        BY <1>1 DEF EndStates
    <2> QED BY <1>8, <1>9, <2>1 DEF Silent, SilentQueues
<1>11. Silent(k3) /\ Naps(k3, {s}, {s})
    <2>1. Silent(k3)
        BY <1>4, <1>8, SilentSteps
    <2> HIDE DEF Paused
    <2> QED BY <1>4, <1>8, <1>10, <2>1, NapEases
<1>12. \A t \in {s} : Core[t] = c
    BY <1>6
<1>13. CASE k3.srv[s].ring # <<>>
    <2>1. PICK n \in Kernels : /\ Arms(k3, n, s, FALSE) /\ Hands(n, m, c, s)
                               /\ BaseInv(n) /\ Live(n, s) /\ ServiceInv(n)
        BY <1>3, <1>13 DEF EndNext
    <2>2. Naps(n, {}, {s}) /\ n.srv[s].do_switch /\ (s \in n.log.napping => Paused(n, s))
        BY <1>11, <1>13, <2>1, NapArms
    <2>3. NapInv(n, {s})
        BY <1>11, <2>1, <2>2, SilentSteps DEF NapInv
    <2> HIDE DEF Paused
    <2> QED BY <1>2, <1>6, <1>12, <2>1, <2>2, <2>3, NapHands
<1>14. CASE k3.srv[s].ring = <<>>
    <2>1. /\ ServiceInv(k3)
          /\ \/ Dispatches(k3, m, c)
             \/ \E to \in ToWake(k, r) : to \in Procs /\ Core[to] = c /\ Live(k3, to) /\ Hands(k3, m, c, to)
        BY <1>3, <1>14 DEF EndNext
    <2>2. NapInv(k3, {s})
        BY <1>11, <1>14, NapIdle DEF NapInv
    <2>3. CASE Dispatches(k3, m, c)
        BY <1>2, <1>12, <2>1, <2>2, <2>3, NapDispatches
    <2>4. ASSUME NEW to \in ToWake(k, r), to \in Procs, Core[to] = c, Live(k3, to), Hands(k3, m, c, to)
          PROVE  NapInv(m, {})
        <3>1. to \notin Servers
            BY <1>9
        <3> HIDE DEF Paused
        <3> QED BY <1>2, <1>12, <2>1, <2>2, <2>4, <3>1, NapHands
    <2> QED BY <2>1, <2>3, <2>4
<1> QED BY <1>13, <1>14

\* A process dies: no server waits for it, so none is woken out of its sleep.
LEMMA NapTerminates ==
    ASSUME NEW k, NEW m, NEW p \in Procs, NapInv(k, {}), Terminates(k, m, p)
    PROVE  NapInv(m, {})
<1>0. Servers \subseteq Procs
    BY Constants
<1>1. m.cur = k.cur /\ m.frame = k.frame /\ m.log = k.log /\ m.task[p].state = "ZOMBIE"
    BY DEF Terminates
<1>2. ASSUME NEW s \in Servers \cap m.log.napping, Live(m, s)
      PROVE  /\ Live(k, s)
             /\ m.srv[s].ring = k.srv[s].ring /\ m.srv[s].do_switch = k.srv[s].do_switch
             /\ m.srv[s].saved.state = k.srv[s].saved.state
             /\ m.task[s].state = k.task[s].state \/ (s \notin {} /\ Paused(k, s))
    <2>0. s \in Servers /\ s \in Procs /\ s # p /\ s \in k.log.napping
        BY <1>0, <1>1, <1>2 DEF Live, proc_get
    <2>1. ~Told(k, p, s)
        <3>1. p \in Servers => ~Has(k.srv[p].waitq, s)
            BY <2>0 DEF NapInv, Silent, SilentQueues
        <3>2. p \in Servers => \A i \in DOMAIN k.srv[p].ring : k.srv[p].ring[i].client # s
            BY <2>0 DEF NapInv, Silent, SilentQueues
        <3> QED BY <3>1, <3>2 DEF Told, ClientOf
    <2>2. EasedServer(k.srv[s], m.srv[s]) /\ m.srv[s].saved = k.srv[s].saved
        BY <2>0, <2>1 DEF Terminates
    <2>3. m.task[s] = k.task[s] \/ (Live(k, s) /\ k.task[s].state = "WAIT")
        BY <2>0, <2>1 DEF Terminates
    <2>4. Live(k, s)
        BY <1>2, <2>3 DEF Live
    <2>5. k.task[s].state = "WAIT" => Paused(k, s)
        BY <2>0, <2>4 DEF NapInv, Naps, Dozes
    <2> QED BY <2>2, <2>3, <2>4, <2>5 DEF EasedServer
<1> HIDE DEF Paused
<1>3. Naps(m, {}, {})
    BY <1>1, <1>2, NapSame DEF NapInv
<1>4. Silent(m)
    BY SilentSteps DEF NapInv
<1> QED BY <1>3, <1>4 DEF NapInv

\* Sleepers do not execute their main context.
LEMMA NapMain ==
    ASSUME NEW k, NEW c \in Cores, BaseInv(k), NapInv(k, {}), Running(k, c), k.frame[c].mode = "main"
    PROVE  k.cur[c] \notin Servers \cap k.log.napping
BY Constants DEF NapInv, Naps, BaseInv, CurOK, Running

\* Nobody calls but clients.
LEMMA NapCaller ==
    ASSUME NEW k, NEW c \in Cores, NapInv(k, {}), k.frame[c].pc \in {"call", "wait"}
    PROVE  k.cur[c] \notin Servers
BY DEF NapInv, Silent, SilentContexts, Plain

\* The end of a sleep: if it was the nap of the main context, it is over.
LEMMA NapTimers ==
    ASSUME NEW k, NEW m, BaseInv(k), ~Watchdog, ServiceInv(k), NapInv(k, {}), ByTimer(k, m)
    PROVE  NapInv(m, {})
<1>0. Servers \subseteq Procs
    BY Constants
<1>1. PICK p \in Procs :
         /\ k.task[p].state \in {"SLEEPING", "BLOCK"} /\ Retasks(k, m, p, "READY")
         /\ m.log.napping = IF k.ctx[p].mode = "main" THEN k.log.napping \ {p} ELSE k.log.napping
    BY DEF ByTimer
<1>2. m.cur = k.cur /\ m.frame = k.frame /\ m.srv = k.srv /\ \A q \in Procs \ {p} : m.task[q] = k.task[q]
    BY <1>1 DEF Retasks, Steady
<1>3. Live(k, p)
    BY <1>1 DEF Live, proc_get
<1>4. ASSUME p \in Servers \cap m.log.napping PROVE Paused(k, p)
    <2>1. p \in Servers /\ p \in k.log.napping /\ k.ctx[p].mode # "main"
        BY <1>1, <1>4
    <2>2. ASSUME Dozes(k, p) PROVE FALSE
        <3>1. ServedOK(k.srv[p], ExecOf(k, p))
            BY <1>3, <2>1, CalmServed, ServiceForms
        <3>2. ExecOf(k, p).mode = "main"
            BY <2>2, <3>1 DEF ServedOK, Fits, Dozes
        <3>3. k.cur[Core[p]] = p /\ ExecOf(k, p) = k.frame[Core[p]]
            BY <2>1, <3>2 DEF ExecOf
        <3> QED BY <2>1, <3>2, <3>3 DEF NapInv, Naps
    <2> QED BY <1>3, <2>1, <2>2 DEF NapInv, Naps
<1>5. m.log.napping \subseteq k.log.napping
    BY <1>1
<1>6. \A s \in Servers \cap m.log.napping : Live(m, s) =>
         Live(k, s) /\ (m.task[s].state = k.task[s].state \/ (s \notin {} /\ Paused(k, s)))
    BY <1>0, <1>2, <1>3, <1>4 DEF Live
<1> HIDE DEF Paused
<1>7. Naps(m, {}, {})
    BY <1>2, <1>5, <1>6, NapSame DEF NapInv
<1>8. Silent(m)
    BY <1>1, SilentSteps DEF NapInv
<1> QED BY <1>7, <1>8 DEF NapInv

\* A pid is used again.
LEMMA NapSpawns ==
    ASSUME NEW k, NEW m, BaseInv(k), NapInv(k, {}), BySpawn(k, m)
    PROVE  NapInv(m, {})
<1>1. PICK p \in Procs :
       /\ m.cur = k.cur /\ m.frame = k.frame /\ m.task = [k.task EXCEPT ![p] = NewTask("READY")]
       /\ \A s \in Servers : m.srv[s] = IF s = p THEN NewServer ELSE k.srv[s]
       /\ m.log.napping = k.log.napping \ {p}
    BY DEF BySpawn
<1>2. k.task \in [Procs -> Tasks] /\ Servers \subseteq Procs
    BY KernelFields, Constants DEF BaseInv
<1>3. \A s \in Servers \cap m.log.napping : m.task[s] = k.task[s] /\ m.srv[s] = k.srv[s]
    BY <1>1, <1>2
<1>4. m.log.napping \subseteq k.log.napping
    BY <1>1
<1>5. Naps(m, {}, {})
    BY <1>1, <1>3, <1>4, NapSame DEF NapInv, Live
<1>6. Silent(m)
    BY SilentSpawns DEF NapInv
<1> QED BY <1>5, <1>6 DEF NapInv

\* usleep() and waitpid().
LEMMA NapSleeps ==
    ASSUME NEW k, NEW m, BaseInv(k), ~Watchdog, ServiceInv(k), NapInv(k, {}), BySleep(k, m)
    PROVE  NapInv(m, {})
<1>1. PICK c \in Cores, k0 \in Kernels, state \in {"SLEEPING", "WAIT"} :
         /\ Running(k, c) /\ Retasks(k, k0, k.cur[c], state) /\ Dispatches(k0, m, c)
         /\ \/ /\ state = "SLEEPING" /\ k.frame[c].mode = "main" /\ k.cur[c] \in Servers
               /\ k0.log.napping = k.log.napping \cup {k.cur[c]}
            \/ /\ state = "SLEEPING" /\ k.frame[c].mode = "handler" /\ k.cur[c] \in Servers
               /\ k0.log.napping = k.log.napping
            \/ state = "WAIT" /\ k.frame[c].mode = "main" /\ k0.log.napping = k.log.napping
    BY DEF BySleep
<1> DEFINE p == k.cur[c]
<1>2. BaseInv(k0)
    BY <1>1, BaseRetasks DEF Running
<1>3. SameWork(k, k0)
    BY <1>1, SameWorkSteps DEF Running
<1>4. ServiceInv(k0)
    BY <1>3, ServiceKept
<1>5. Silent(k0)
    BY <1>1, SilentSteps DEF NapInv
<1>6. Core[p] = c /\ p \in Procs /\ Live(k, p) /\ Servers \subseteq Procs
    BY <1>1, Constants DEF Running, BaseInv, CurOK
<1>7. /\ k0.cur = k.cur /\ k0.frame = k.frame /\ k0.srv = k.srv /\ k0.task[p].state = state
      /\ \A q \in Procs \ {p} : k0.task[q] = k.task[q]
    BY <1>1 DEF Retasks, Steady
<1>8. Naps(k0, {}, {p})
    <2>1. CASE /\ state = "SLEEPING" /\ k.frame[c].mode = "main" /\ p \in Servers
               /\ k0.log.napping = k.log.napping \cup {p}
        <3>1. Fits(k.srv[p], k.frame[c])
            BY <1>1, <1>6, <2>1 DEF ServiceInv, Framed
        <3>2. Dozes(k0, p)
            BY <1>7, <2>1, <3>1 DEF Dozes, Fits
        <3>3. ASSUME NEW t \in Servers \cap k0.log.napping
              PROVE  /\ Live(k0, t) => Dozes(k0, t) \/ Paused(k0, t)
                     /\ t \notin {p} /\ k0.cur[Core[t]] = t => k0.frame[Core[t]].mode # "main"
            <4>1. CASE t = p
                BY <3>2, <4>1
            <4>2. CASE t # p
                <5>1. t \in Servers \cap k.log.napping /\ k0.task[t] = k.task[t]
                    BY <1>6, <1>7, <2>1, <4>2
                <5>2. /\ Live(k, t) => Dozes(k, t) \/ Paused(k, t)
                      /\ k.cur[Core[t]] = t => k.frame[Core[t]].mode # "main"
                    BY <5>1 DEF NapInv, Naps
                <5> QED BY <1>7, <5>1, <5>2 DEF Live, Dozes, Paused
            <4> QED BY <4>1, <4>2
        <3> QED BY <3>3 DEF Naps
    <2>2. CASE /\ state = "SLEEPING" /\ k.frame[c].mode = "handler" /\ p \in Servers
               /\ k0.log.napping = k.log.napping
        <3>1. Fits(k.srv[p], k.frame[c])
            BY <1>1, <1>6, <2>2 DEF ServiceInv, Framed
        <3>2. p \in k.log.napping => Paused(k, p)
            BY <1>6, <2>2, <3>1 DEF NapInv, Naps, Dozes, Fits
        <3>3. \A s \in Servers \cap k0.log.napping : Live(k0, s) =>
                 Live(k, s) /\ (k0.task[s].state = k.task[s].state \/ (s \notin {} /\ Paused(k, s)))
            BY <1>6, <1>7, <2>2, <3>2 DEF Live
        <3> HIDE DEF Paused
        <3>4. Naps(k0, {}, {})
            BY <1>7, <2>2, <3>3, NapSame DEF NapInv
        <3> QED BY <3>4 DEF Naps
    <2>3. CASE state = "WAIT" /\ k.frame[c].mode = "main" /\ k0.log.napping = k.log.napping
        <3>1. k.cur[c] \notin Servers \cap k.log.napping
            BY <1>1, <2>3, NapMain
        <3>2. Naps(k0, {}, {})
            BY <1>1, <2>3, <3>1, NapSteps DEF NapInv
        <3> QED BY <3>2 DEF Naps
    <2> QED BY <1>1, <2>1, <2>2, <2>3
<1>9. NapInv(k0, {p})
    BY <1>5, <1>8 DEF NapInv
<1>10. \A s \in {p} : Core[s] = c
    BY <1>6
<1> HIDE DEF p
<1> QED BY <1>1, <1>2, <1>4, <1>9, <1>10, NapDispatches

\* User code calls nobody by itself.
LEMMA NapCodes ==
    ASSUME NEW k, NEW m, BaseInv(k), NapInv(k, {}), ByCode(k, m)
    PROVE  NapInv(m, {})
<1>1. PICK c \in Cores, g \in Contexts :
         /\ Running(k, c) /\ Reframes(k, m, c, g) /\ g.mode = k.frame[c].mode
         /\ Returns(k, m, c, g) \/ Begins(k, m, c, g) \/ Works(k, m, c, g) \/ Answers(k, m, c, g)
            \/ Moves(k, m, c, g)
    BY DEF ByCode
<1>2. k.frame[c] \in Contexts /\ k.frame \in [Cores -> Contexts]
    BY KernelFields DEF BaseInv
<1>3. m.log.napping = k.log.napping
    BY <1>1 DEF Returns, Begins, Works, Answers, Moves, SameLog, Counts
<1>4. Plain(g) \/ k.cur[c] \notin Servers
    <2>1. CASE Returns(k, m, c, g)
        BY <2>1, NapCaller DEF Returns
    <2>2. CASE Begins(k, m, c, g) \/ Works(k, m, c, g) \/ Answers(k, m, c, g) \/ Moves(k, m, c, g)
        BY <2>2 DEF Begins, Works, Answers, Moves, Plain
    <2> QED BY <1>1, <2>1, <2>2
<1>5. Silent(m)
    BY <1>1, <1>4, SilentReframes DEF NapInv
<1>6. /\ m.srv = k.srv /\ m.task = k.task /\ m.cur = k.cur
      /\ \A x \in Cores : m.frame[x].mode = k.frame[x].mode
    BY <1>1, <1>2 DEF Reframes, Steady
<1>7. Naps(m, {}, {})
    BY <1>3, <1>6, NapSame DEF NapInv, Live
<1> QED BY <1>5, <1>7 DEF NapInv

\* Every step keeps the invariant.
LEMMA NapKept ==
    ASSUME NEW k, NEW m, ~Watchdog, ServersMakeNoCalls, BaseInv(k), ServiceInv(k), NapInv(k, {}), Effect(k, m)
    PROVE  NapInv(m, {})
<1>0. \A c \in Cores : \A s \in {} : Core[s] = c
    OBVIOUS
<1>20. ASSUME NEW k0, Quiet(k, k0), SameLog(k, k0)
       PROVE  BaseInv(k0) /\ ServiceInv(k0) /\ NapInv(k0, {})
    <2>1. BaseInv(k0) /\ ServiceInv(k0)
        BY <1>20, BaseQuiet, SameWorkSteps, ServiceKept
    <2>2. Silent(k0)
        BY <1>20, SilentSteps DEF NapInv
    <2>3. Naps(k0, {}, {})
        BY <1>20, NapSteps DEF NapInv, SameLog
    <2> QED BY <2>1, <2>2, <2>3 DEF NapInv
<1>1. CASE ByCall(k, m)
    <2>1. PICK c \in Cores, k0 \in Kernels, s \in Servers, ret \in BOOLEAN :
             /\ Running(k, c) /\ Quiet(k, k0) /\ CallEffect(k0, m, c, s, ret)
             /\ \/ s \in MainCalls[k.cur[c]] /\ SameLog(k, k0)
                \/ k.cur[c] \in Servers /\ s \in HandlerCalls[k.cur[c]]
                \/ k.frame[c].pc = "call" /\ SameLog(k, k0)
        BY <1>1 DEF ByCall
    <2>2. k.cur[c] \notin Servers /\ SameLog(k, k0)
        BY <2>1, NapCaller DEF ServersMakeNoCalls, OnlyHandlersCall
    <2>3. Running(k0, c) /\ k0.cur = k.cur
        BY <2>1 DEF Running, Quiet, Steady, Live
    <2>4. BaseInv(k0) /\ ServiceInv(k0) /\ NapInv(k0, {})
        BY <1>20, <2>1, <2>2
    <2>5. k0.cur[c] \notin Servers /\ CallEffect(k0, m, c, s, ret)
        BY <2>1, <2>2, <2>3
    <2> QED BY <2>3, <2>4, <2>5, NapCalls
<1>2. CASE BySchedule(k, m)
    <2>1. PICK c \in Cores, k0 \in Kernels : Quiet(k, k0) /\ SameLog(k, k0) /\ Dispatches(k0, m, c)
        BY <1>2 DEF BySchedule
    <2> QED BY <1>0, <1>20, <2>1, NapDispatches
<1>3. CASE ByBlock(k, m)
    <2>1. PICK c \in Cores, k0 \in Kernels :
             /\ Running(k, c) /\ Quiet(k, k0) /\ SameLog(k, k0) /\ Blocks(k0, m, c)
             /\ k.frame[c].mode = "main" \/ k.frame[c].pc = "wait"
        BY <1>3 DEF ByBlock
    <2>2. k.cur[c] \notin Servers \cap k.log.napping
        BY <2>1, NapMain, NapCaller
    <2>3. Running(k0, c) /\ k0.cur = k.cur /\ k0.log.napping = k.log.napping
        BY <2>1 DEF Running, Quiet, Steady, Live, SameLog
    <2>4. BaseInv(k0) /\ ServiceInv(k0) /\ NapInv(k0, {})
        BY <1>20, <2>1
    <2> QED BY <2>1, <2>2, <2>3, <2>4, NapBlocks
<1>4. CASE ByCode(k, m)
    BY <1>4, NapCodes
<1>5. CASE BySleep(k, m)
    BY <1>5, NapSleeps
<1>6. CASE ByQueue(k, m)
    <2>1. PICK c \in Cores, k0, k1 \in Kernels, Q \in SUBSET Procs :
             /\ k.cur[c] \in Servers /\ Quiet(k, k0) /\ SameLog(k, k0) /\ Queueing(k0, k1, {}) /\ Eases(k1, m, Q)
             /\ \A p \in Q : Has(k1.srv[k.cur[c]].waitq, p)
        BY <1>6 DEF ByQueue
    <2>2. Silent(k0) /\ Naps(k0, {}, {})
        BY <1>20, <2>1 DEF NapInv
    <2>3. {} \cap Servers = {}
        OBVIOUS
    <2>4. Silent(k1) /\ Naps(k1, {}, {})
        BY <2>1, <2>2, <2>3, SilentSteps, NapSteps
    <2>5. Q \cap Servers = {}
        BY <2>1, <2>4 DEF Silent, SilentQueues
    <2>6. Silent(m)
        BY <2>1, <2>4, SilentSteps
    <2> HIDE DEF Paused
    <2>7. Naps(m, {}, {})
        BY <2>1, <2>4, <2>5, NapEases
    <2> QED BY <2>6, <2>7 DEF NapInv
<1>7. CASE ByTimer(k, m)
    BY <1>7, NapTimers
<1>8. CASE ByEvent(k, m)
    <2>1. PICK p \in Servers, k1 \in Kernels :
             Eases(k, k1, {p}) /\ Quiet(k1, m) /\ m.log.napping = k.log.napping \ {p}
        BY <1>8 DEF ByEvent
    <2>2. Silent(m)
        BY <2>1, SilentSteps DEF NapInv
    <2>3. /\ m.cur = k.cur /\ m.frame = k.frame /\ m.task = k1.task /\ m.srv = k1.srv
          /\ m.log.napping \subseteq k.log.napping
        BY <2>1 DEF Eases, Alike, Quiet, Steady
    <2>4. ASSUME NEW s \in Servers \cap m.log.napping, Live(m, s)
          PROVE  /\ Live(k, s)
                 /\ m.srv[s].ring = k.srv[s].ring /\ m.srv[s].do_switch = k.srv[s].do_switch
                 /\ m.srv[s].saved.state = k.srv[s].saved.state
                 /\ m.task[s].state = k.task[s].state \/ (s \notin {} /\ Paused(k, s))
        <3>1. s \in Servers /\ s \in Procs /\ s \notin {p}
            BY <2>1, Constants
        <3>2. /\ k1.task[s] = k.task[s] /\ EasedServer(k.srv[s], k1.srv[s])
              /\ k1.srv[s].saved = k.srv[s].saved
            BY <2>1, <3>1 DEF Eases
        <3> QED BY <2>3, <2>4, <3>2 DEF Live, EasedServer
    <2> HIDE DEF Paused
    <2>5. Naps(m, {}, {})
        BY <2>3, <2>4, NapSame DEF NapInv
    <2> QED BY <2>2, <2>5 DEF NapInv
<1>9. CASE ByEnd(k, m)
    <2>1. PICK c \in Cores, k0 \in Kernels :
             /\ Running(k, c) /\ k.cur[c] \in Servers /\ Quiet(k, k0) /\ SameLog(k, k0)
             /\ k.frame[c].mode = "handler"
             /\ IF k.srv[k.cur[c]].ring = <<>> THEN m = k0 ELSE EndEffect(k0, m, c)
        BY <1>9 DEF ByEnd
    <2>2. BaseInv(k0) /\ ServiceInv(k0) /\ NapInv(k0, {})
        BY <1>20, <2>1
    <2>3. Running(k0, c) /\ k0.cur[c] = k.cur[c] /\ k0.srv = k.srv /\ k0.frame = k.frame
        BY <2>1 DEF Running, Quiet, Steady, Live
    <2> QED BY <2>1, <2>2, <2>3, NapEnds
<1>10. CASE ByTimeout(k, m)
    BY <1>10 DEF ByTimeout
<1>11. CASE ByDeath(k, m)
    <2>1. PICK p \in Procs, c \in Cores, k0, k1 \in Kernels :
             Quiet(k, k0) /\ SameLog(k, k0) /\ Terminates(k0, k1, p) /\ Dispatches(k1, m, c)
        BY <1>11 DEF ByDeath
    <2>2. BaseInv(k0) /\ ServiceInv(k0) /\ NapInv(k0, {})
        BY <1>20, <2>1
    <2>3. BaseInv(k1) /\ NapInv(k1, {})
        BY <2>1, <2>2, BaseTerminates, NapTerminates
    <2>4. SameWork(k0, k1)
        BY <2>1, SameWorkSteps
    <2>5. ServiceInv(k1)
        BY <2>2, <2>4, ServiceKept
    <2> QED BY <1>0, <2>1, <2>3, <2>5, NapDispatches
<1>12. CASE BySpawn(k, m)
    BY <1>12, NapSpawns
<1> QED BY <1>1, <1>2, <1>3, <1>4, <1>5, <1>6, <1>7, <1>8, <1>9, <1>10, <1>11, <1>12 DEF Effect

\* It holds at the start.
LEMMA NapInit == Init => NapInv(kernel, {})
<1> SUFFICES ASSUME Init PROVE NapInv(kernel, {})
    OBVIOUS
<1>1. /\ \A p \in Procs : kernel.ctx[p] = MainCtx
      /\ \A s \in Servers : kernel.srv[s] = NewServer
      /\ \A c \in Cores : kernel.cur[c] = NoProc
      /\ kernel.log.napping = {}
    BY InitKernel DEF NewLog
<1>2. NewServer.saved.ctx = NoSaved.ctx /\ NewServer.ring = <<>> /\ \A q : ~Has(NewServer.waitq, q)
    BY HasNone DEF NewServer
<1> HIDE DEF NewServer
<1>3. SilentContexts(kernel)
    BY <1>1, <1>2, PlainContexts, Constants DEF SilentContexts
<1>4. SilentQueues(kernel)
    BY <1>1, <1>2 DEF SilentQueues
<1>5. Naps(kernel, {}, {})
    BY <1>1 DEF Naps
<1> QED BY <1>3, <1>4, <1>5 DEF NapInv, Silent

\* Serving requests pauses the usleep() of a main context and never cuts it
\* short, when no server calls another one (the wake-up of a handler that waits
\* for its own reply also wakes the main context it has interrupted).
THEOREM SleepsAreNotCut == ~Watchdog /\ ServersMakeNoCalls /\ Spec => []SleepNotCut
<1> SUFFICES ASSUME ~Watchdog, ServersMakeNoCalls PROVE Spec => []SleepNotCut
    OBVIOUS
<1>1. BaseInv(kernel) /\ ServiceInv(kernel) /\ NapInv(kernel, {}) /\ [Next]_kernel => NapInv(kernel, {})'
    <2>1. ASSUME BaseInv(kernel), ServiceInv(kernel), NapInv(kernel, {}), Next
          PROVE  NapInv(kernel', {})
        BY <2>1, NextEffect, NapKept
    <2> QED BY <2>1
<1>2. NapInv(kernel, {}) => SleepNotCut
    BY DEF NapInv, Naps, SleepNotCut, Exec
<1>3. ServersOnTimerCore
    BY DEF ServersOnTimerCore
<1> QED BY NapInit, <1>1, <1>2, <1>3, ServiceHolds, BaseHolds, PTL DEF Spec

-----------------------------------------------------------------------------
(* Answers: a reply that was published is what its caller finds.            *)

\* The request i of s has no reply yet.
Unanswered(k, s, i) ==
    ~(i = 1 /\ ExecOf(k, s).mode = "handler" /\ ExecOf(k, s).pc = "end")

\* p waits for the reply of s to the request u.
Awaits(k, p, u, s) ==
    ExecOf(k, p).pc = "wait" /\ ExecOf(k, p).uid = u /\ ExecOf(k, p).to = s

\* The request r of s is open, and whoever has made it waits for the reply.
Pledged(k, s, r) ==
    /\ r.uid \notin k.log.answered
    /\ r.ret => \A p \in ClientOf(k, r) : Awaits(k, p, r.uid, s)

\* All requests without a reply are; without the heads of the servers X.
PledgesOK(k, X) ==
    \A s \in Servers : \A i \in DOMAIN k.srv[s].ring :
       Unanswered(k, s, i) /\ ~(s \in X /\ i = 1) => Pledged(k, s, k.srv[s].ring[i])

\* The slot of p, who waits for the reply u, says whether there is one.
SlotOK(k, p, u) ==
    /\ u \notin k.log.failed /\ k.log.asked[u] = <<p, k.uuid[p]>>
    /\ u \in k.log.answered <=> k.res[p].state = "RETURN"
    /\ k.res[p].state = "RETURN" => k.res[p].uid = u

SlotsOK(k) ==
    \A p \in Procs : Live(k, p) /\ ExecOf(k, p).pc = "wait" => SlotOK(k, p, ExecOf(k, p).uid)

PastOK(k) ==
    /\ k.log.answered \cap k.log.failed = {}
    /\ \A u \in k.log.answered \cup k.log.failed : u <= k.ipc_uid

\* The main context of a server is in no call.
MainsOK(k) ==
    \A s \in Servers : Live(k, s) =>
       (ExecOf(k, s).mode = "main" => ExecOf(k, s).pc = "run") /\ k.srv[s].saved.ctx.pc = "run"

AnswerInv(k, X) == PledgesOK(k, X) /\ SlotsOK(k) /\ PastOK(k) /\ MainsOK(k)

\* The request i of s in m was there in k, and open if it is.
Carries(k, m, X, Z, s, i) ==
    \E j \in DOMAIN k.srv[s].ring :
       /\ m.srv[s].ring[i] = k.srv[s].ring[j]
       /\ Unanswered(m, s, i) /\ ~(s \in Z /\ i = 1) => Unanswered(k, s, j) /\ ~(s \in X /\ j = 1)

\* From k to m p waits as before, or did not wait and does not, or is new.
Stays(k, m, p) ==
    \/ /\ Live(k, p) /\ m.uuid[p] = k.uuid[p]
       /\ \/ /\ ExecOf(m, p) = ExecOf(k, p)
             /\ m.res[p] = k.res[p] \/ (m.res[p].state # "RETURN" /\ k.res[p].state # "RETURN")
          \/ ExecOf(k, p).pc # "wait" /\ ExecOf(m, p).pc # "wait"
    \/ m.uuid[p] = k.last_uuid + 1 /\ ExecOf(m, p).pc # "wait"

\* A step that gives no reply and makes no request.
AnswerStep(k, m, X, Z) ==
    /\ m.ipc_uid = k.ipc_uid /\ m.log.asked = k.log.asked
    /\ m.log.answered = k.log.answered /\ m.log.failed = k.log.failed
    /\ \A p \in Procs : Live(m, p) => Stays(k, m, p)
    /\ \A s \in Servers : \A i \in DOMAIN m.srv[s].ring : Carries(k, m, X, Z, s, i)
    /\ MainsOK(m)

\* A request in a ring.
LEMMA RingRequest ==
    ASSUME NEW k, BaseInv(k), NEW s \in Servers, NEW i \in DOMAIN k.srv[s].ring
    PROVE  LET r == k.srv[s].ring[i] IN
           /\ r \in Requests /\ r.uid \in Uids /\ r.client \in Procs /\ r.uuid \in Nat
           /\ RequestOK(k, r) /\ Live(k, s)
<1>1. k.srv[s] \in ServerRecords
    BY KernelFields DEF BaseInv
<1>2. k.srv[s].ring \in Seq(Requests)
    BY <1>1, ServerFields
<1>3. k.srv[s].ring[i] \in Requests
    BY <1>2
<1>4. RequestOK(k, k.srv[s].ring[i])
    BY DEF BaseInv, AskedOK
<1>5. Live(k, s)
    BY DEF BaseInv, DeadOK
<1> QED BY <1>3, <1>4, <1>5 DEF Requests

\* Such steps keep the invariant.
LEMMA AnswerKeeps ==
    ASSUME NEW k, NEW m, NEW X, NEW Z, BaseInv(k), AnswerInv(k, X), AnswerStep(k, m, X, Z)
    PROVE  AnswerInv(m, Z)
<1>1. ASSUME NEW s \in Servers, NEW i \in DOMAIN m.srv[s].ring, Unanswered(m, s, i), ~(s \in Z /\ i = 1)
      PROVE  Pledged(m, s, m.srv[s].ring[i])
    <2>1. PICK j \in DOMAIN k.srv[s].ring :
             m.srv[s].ring[i] = k.srv[s].ring[j] /\ Unanswered(k, s, j) /\ ~(s \in X /\ j = 1)
        BY <1>1 DEF AnswerStep, Carries
    <2> DEFINE r == k.srv[s].ring[j]
    <2>2. Pledged(k, s, r)
        BY <2>1 DEF AnswerInv, PledgesOK
    <2>3. r.client \in Procs /\ r.uuid \in Nat /\ r.uuid <= k.last_uuid /\ k.last_uuid \in Nat
        <3>1. k.last_uuid \in Nat
            BY KernelFields DEF BaseInv
        <3> QED BY <3>1, RingRequest DEF RequestOK
    <2> HIDE DEF r
    <2>4. ASSUME NEW p \in ClientOf(m, r), r.ret PROVE Awaits(m, p, r.uid, s)
        <3>1. p = r.client /\ p \in Procs /\ Live(m, p) /\ m.uuid[p] = r.uuid
            BY <2>3, <2>4 DEF ClientOf
        <3>2. Stays(k, m, p)
            BY <3>1 DEF AnswerStep
        <3>3. m.uuid[p] # k.last_uuid + 1
            BY <2>3, <3>1
        <3>4. Live(k, p) /\ k.uuid[p] = r.uuid
            BY <3>1, <3>2, <3>3 DEF Stays
        <3>5. p \in ClientOf(k, r)
            BY <3>1, <3>4 DEF ClientOf
        <3>6. Awaits(k, p, r.uid, s)
            BY <2>2, <2>4, <3>5 DEF Pledged
        <3> QED BY <3>2, <3>3, <3>6 DEF Stays, Awaits
    <2>5. r.uid \notin m.log.answered
        BY <2>2 DEF Pledged, AnswerStep
    <2> QED BY <2>1, <2>4, <2>5 DEF Pledged, r
<1>2. PledgesOK(m, Z)
    BY <1>1 DEF PledgesOK
<1>3. ASSUME NEW p \in Procs, Live(m, p), ExecOf(m, p).pc = "wait" PROVE SlotOK(m, p, ExecOf(m, p).uid)
    <2>1. /\ Live(k, p) /\ m.uuid[p] = k.uuid[p] /\ ExecOf(m, p) = ExecOf(k, p)
          /\ m.res[p] = k.res[p] \/ (m.res[p].state # "RETURN" /\ k.res[p].state # "RETURN")
        BY <1>3 DEF AnswerStep, Stays
    <2>2. SlotOK(k, p, ExecOf(m, p).uid)
        BY <1>3, <2>1 DEF AnswerInv, SlotsOK
    <2> QED BY <2>1, <2>2 DEF SlotOK, AnswerStep
<1>4. SlotsOK(m)
    BY <1>3 DEF SlotsOK
<1>5. PastOK(m)
    BY DEF AnswerInv, PastOK, AnswerStep
<1>6. MainsOK(m)
    BY DEF AnswerStep
<1> QED BY <1>2, <1>4, <1>5, <1>6 DEF AnswerInv

\* Steps that leave what is executed, and the requests, alone.
SameAnswer(k, m) ==
    /\ m.ipc_uid = k.ipc_uid /\ m.log.asked = k.log.asked
    /\ m.log.answered = k.log.answered /\ m.log.failed = k.log.failed
    /\ \A p \in Procs : Live(m, p) =>
          /\ Live(k, p) /\ m.uuid[p] = k.uuid[p] /\ ExecOf(m, p) = ExecOf(k, p)
          /\ m.res[p] = k.res[p] \/ (m.res[p].state # "RETURN" /\ k.res[p].state # "RETURN")
    /\ \A s \in Servers : /\ \/ m.srv[s].ring = <<>>
                             \/ m.srv[s].ring = k.srv[s].ring /\ ExecOf(m, s) = ExecOf(k, s)
                          /\ m.srv[s].saved.ctx = k.srv[s].saved.ctx

\* They keep the invariant.
LEMMA AnswerSame ==
    ASSUME NEW k, NEW m, NEW X, BaseInv(k), AnswerInv(k, X), SameAnswer(k, m)
    PROVE  AnswerInv(m, X)
<1>0. Servers \subseteq Procs
    BY Constants
<1>1. \A p \in Procs : Live(m, p) => Stays(k, m, p)
    BY DEF SameAnswer, Stays
<1>2. ASSUME NEW s \in Servers, NEW i \in DOMAIN m.srv[s].ring PROVE Carries(k, m, X, X, s, i)
    <2>1. m.srv[s].ring = k.srv[s].ring /\ ExecOf(m, s) = ExecOf(k, s)
        BY <1>2 DEF SameAnswer
    <2>2. i \in DOMAIN k.srv[s].ring /\ (Unanswered(m, s, i) => Unanswered(k, s, i))
        BY <1>2, <2>1 DEF Unanswered
    <2> QED BY <2>1, <2>2 DEF Carries
<1>3. MainsOK(m)
    BY <1>0 DEF SameAnswer, AnswerInv, MainsOK
<1>4. AnswerStep(k, m, X, X)
    BY <1>1, <1>2, <1>3 DEF AnswerStep, SameAnswer
<1> QED BY <1>4, AnswerKeeps

\* The log says the same about replies.
SameReplies(k, m) ==
    m.res = k.res /\ m.log.answered = k.log.answered /\ m.log.failed = k.log.failed

\* The steps of this kind.
LEMMA SameAnswerSteps ==
    ASSUME NEW k, NEW m
    PROVE  /\ \A Q : Eases(k, m, Q) => SameAnswer(k, m)
           /\ Quiet(k, m) /\ SameReplies(k, m) => SameAnswer(k, m)
           /\ \A P : Queueing(k, m, P) => SameAnswer(k, m)
           /\ \A p \in Procs : \A state : Retasks(k, m, p, state) /\ Live(k, p) /\ SameReplies(k, m)
                                      => SameAnswer(k, m)
           /\ \A s \in Servers : \A restore : Arms(k, m, s, restore) => SameAnswer(k, m)
           /\ \A p \in Procs : Terminates(k, m, p) => SameAnswer(k, m)
<1>0. Servers \subseteq Procs
    BY Constants
<1>1. ASSUME NEW Q, Eases(k, m, Q) PROVE SameAnswer(k, m)
    <2>1. ASSUME NEW s \in Servers
          PROVE  m.srv[s].ring = k.srv[s].ring /\ m.srv[s].saved.ctx = k.srv[s].saved.ctx
        BY <1>1 DEF Eases, EasedServer
    <2>2. /\ m.cur = k.cur /\ m.ctx = k.ctx /\ m.frame = k.frame /\ m.log = k.log /\ m.ipc_uid = k.ipc_uid
          /\ m.res = k.res /\ m.uuid = k.uuid
        BY <1>1 DEF Eases, Alike
    <2> QED BY <1>0, <1>1, <2>1, <2>2, EasesLive DEF SameAnswer, ExecOf
<1>2. ASSUME Quiet(k, m), SameReplies(k, m) PROVE SameAnswer(k, m)
    BY <1>2 DEF Quiet, Steady, SameReplies, SameAnswer, Live, ExecOf
<1>3. ASSUME NEW P, Queueing(k, m, P) PROVE SameAnswer(k, m)
    BY <1>3 DEF Queueing, Alike, SameAnswer, Live, ExecOf
<1>4. ASSUME NEW p \in Procs, NEW state, Retasks(k, m, p, state), Live(k, p), SameReplies(k, m)
      PROVE  SameAnswer(k, m)
    <2>1. /\ m.cur = k.cur /\ m.ctx = k.ctx /\ m.frame = k.frame /\ m.srv = k.srv /\ m.ipc_uid = k.ipc_uid
          /\ m.log.asked = k.log.asked /\ m.uuid = k.uuid
        BY <1>4 DEF Retasks, Steady
    <2>2. ASSUME NEW q \in Procs, Live(m, q) PROVE Live(k, q)
        BY <1>4, <2>2 DEF Retasks, Live
    <2> QED BY <1>0, <1>4, <2>1, <2>2 DEF SameAnswer, SameReplies, ExecOf
<1>5. ASSUME NEW s \in Servers, NEW restore, Arms(k, m, s, restore) PROVE SameAnswer(k, m)
    <2>1. /\ m.cur = k.cur /\ m.ctx = k.ctx /\ m.frame = k.frame /\ m.log = k.log /\ m.ipc_uid = k.ipc_uid
          /\ m.res = k.res /\ m.uuid = k.uuid /\ m.task = k.task
        BY <1>5 DEF Arms, Alike
    <2>2. ASSUME NEW t \in Servers
          PROVE  m.srv[t].ring = k.srv[t].ring /\ m.srv[t].saved.ctx = k.srv[t].saved.ctx
        <3>1. CASE t = s
            BY <1>5, <3>1 DEF Arms
        <3>2. CASE t # s
            BY <1>5, <3>2 DEF Arms, OneServer
        <3> QED BY <3>1, <3>2
    <2> QED BY <2>1, <2>2 DEF SameAnswer, Live, ExecOf
<1>6. ASSUME NEW p \in Procs, Terminates(k, m, p) PROVE SameAnswer(k, m)
    <2>1. /\ m.cur = k.cur /\ m.ctx = k.ctx /\ m.frame = k.frame /\ m.log = k.log /\ m.ipc_uid = k.ipc_uid
          /\ \A q \in Procs : m.res[q] = k.res[q] \/ (m.res[q] = NoResult /\ k.res[q].state # "RETURN")
        BY <1>6 DEF Terminates
    <2>2. ASSUME NEW q \in Procs, Live(m, q) PROVE Live(k, q) /\ q # p
        BY <1>6, <2>2 DEF Terminates, Live, proc_get
    <2>3. \A q \in Procs \ {p} : m.uuid[q] = k.uuid[q]
        BY <1>6 DEF Terminates
    <2>4. \A s \in Servers : /\ m.srv[s].ring = k.srv[s].ring \/ m.srv[s].ring = <<>>
                             /\ m.srv[s].saved.ctx = k.srv[s].saved.ctx
        BY <1>6 DEF Terminates, EasedServer
    <2>5. NoResult.state # "RETURN"
        BY DEF NoResult
    <2> HIDE DEF NoResult
    <2> QED BY <1>0, <2>1, <2>2, <2>3, <2>4, <2>5 DEF SameAnswer, ExecOf
<1> QED BY <1>1, <1>2, <1>3, <1>4, <1>5, <1>6

\* The running task goes on, neither from nor to a place where it waits.
LEMMA AnswerReframes ==
    ASSUME NEW k, NEW m, NEW c \in Cores, NEW f, BaseInv(k), AnswerInv(k, {}), Reframes(k, m, c, f),
           SameReplies(k, m), k.cur[c] \in Procs, k.frame[c].pc \notin {"wait", "end"}, f.pc # "wait",
           k.cur[c] \in Servers /\ f.mode = "main" => f.pc = "run"
    PROVE  AnswerInv(m, {})
<1> DEFINE p == k.cur[c]
<1>0. k.frame \in [Cores -> Contexts] /\ Core[p] = c /\ Servers \subseteq Procs
    BY KernelFields, Constants DEF BaseInv, CurOK
<1>1. /\ m.task = k.task /\ m.ctx = k.ctx /\ m.cur = k.cur /\ m.srv = k.srv /\ m.ipc_uid = k.ipc_uid
      /\ m.uuid = k.uuid /\ m.log.asked = k.log.asked
      /\ m.frame[c] = f /\ \A x \in Cores \ {c} : m.frame[x] = k.frame[x]
    BY <1>0 DEF Reframes, Steady
<1>2. \A q \in Procs \ {p} : ExecOf(m, q) = ExecOf(k, q)
    <2> SUFFICES ASSUME NEW q \in Procs \ {p} PROVE ExecOf(m, q) = ExecOf(k, q)
        OBVIOUS
    <2>1. Core[q] \in Cores
        BY Constants
    <2> QED BY <1>1, <2>1 DEF ExecOf
<1>3. ExecOf(m, p) = f /\ ExecOf(k, p) = k.frame[c]
    BY <1>0, <1>1 DEF ExecOf
<1> HIDE DEF p
<1>4. ASSUME NEW q \in Procs, Live(m, q) PROVE Stays(k, m, q)
    <2>1. Live(k, q) /\ m.uuid[q] = k.uuid[q] /\ m.res[q] = k.res[q]
        BY <1>1, <1>4 DEF Live, SameReplies
    <2>2. CASE q = p
        BY <1>3, <2>1, <2>2 DEF Stays
    <2>3. CASE q # p
        BY <1>2, <2>1, <2>3 DEF Stays
    <2> QED BY <2>2, <2>3
<1>5. ASSUME NEW s \in Servers, NEW i \in DOMAIN m.srv[s].ring PROVE Carries(k, m, {}, {}, s, i)
    <2>1. Unanswered(m, s, i) => Unanswered(k, s, i)
        <3>1. CASE s = p
            BY <1>3, <3>1 DEF Unanswered
        <3>2. CASE s # p
            BY <1>0, <1>2, <3>2 DEF Unanswered
        <3> QED BY <3>1, <3>2
    <2> QED BY <1>1, <1>5, <2>1 DEF Carries
<1>6. MainsOK(m)
    <2> SUFFICES ASSUME NEW s \in Servers, Live(m, s)
                 PROVE  (ExecOf(m, s).mode = "main" => ExecOf(m, s).pc = "run") /\ m.srv[s].saved.ctx.pc = "run"
        BY DEF MainsOK
    <2>1. (ExecOf(k, s).mode = "main" => ExecOf(k, s).pc = "run") /\ k.srv[s].saved.ctx.pc = "run"
        BY <1>1 DEF AnswerInv, MainsOK, Live
    <2>2. CASE s = p
        BY <1>1, <1>3, <2>1, <2>2 DEF p
    <2>3. CASE s # p
        BY <1>0, <1>1, <1>2, <2>1, <2>3
    <2> QED BY <2>2, <2>3
<1>7. AnswerStep(k, m, {}, {})
    BY <1>1, <1>4, <1>5, <1>6 DEF AnswerStep, SameReplies
<1> QED BY <1>7, AnswerKeeps

\* A switch: a main context that is turned into a handler is in no call.
LEMMA AnswerSwitches ==
    ASSUME NEW k, NEW m, NEW c \in Cores, NEW to \in Procs \cup {NoProc}, BaseInv(k), ~Watchdog,
           Serviced(k, {}, {c}), AnswerInv(k, {}), Switches(k, m, c, to),
           to # NoProc => Core[to] = c /\ Live(k, to)
    PROVE  AnswerInv(m, {})
<1>0. /\ Servers \subseteq Procs /\ NoProc \notin Procs /\ k \in Kernels /\ CurOK(k)
      /\ k.cur \in [Cores -> Procs \cup {NoProc}] /\ \A p \in Procs : Core[p] \in Cores
    BY Constants, KernelFields DEF BaseInv
<1>1. /\ m.ipc_uid = k.ipc_uid /\ m.log = k.log /\ m.uuid = k.uuid /\ m.res = k.res
      /\ \A s \in Servers : m.srv[s].ring = k.srv[s].ring
    BY DEF Switches, Unswitched, SameService
<1>2. \A p \in Procs : Live(m, p) <=> Live(k, p)
    BY <1>0, SwitchesLive
<1>3. ASSUME NEW s \in Servers, Live(k, s)
      PROVE  /\ \/ ExecOf(m, s) = ExecOf(k, s) /\ m.srv[s].saved.ctx = k.srv[s].saved.ctx
                \/ /\ ExecOf(k, s).mode = "main" /\ ExecOf(k, s).pc = "run"
                   /\ ExecOf(m, s).mode = "handler" /\ ExecOf(m, s).pc = "entry"
                   /\ m.srv[s].saved.ctx = ExecOf(k, s)
    <2>1. ServedOK(k.srv[s], ExecOf(k, s))
        BY <1>3, CalmServed
    <2>2. /\ ExecOf(m, s) = IF s = to /\ Injected(k, to) THEN HandlerCtx(Head(k.srv[to].ring).uid)
                            ELSE ExecOf(k, s)
          /\ m.srv[s].saved.ctx = IF s = to /\ Injected(k, to) THEN ExecOf(k, s) ELSE k.srv[s].saved.ctx
        <3>1. s \in Procs
            BY <1>0
        <3> QED BY <1>3, <3>1, CalmSwitches
    <2>3. CASE s = to /\ Injected(k, to)
        <3>1. ~InService(k.srv[s])
            BY <2>3 DEF Injected, InService
        <3>2. ExecOf(k, s).mode = "main" /\ ExecOf(k, s).pc = "run"
            BY <1>3, <2>1, <3>1 DEF ServedOK, Fits, AnswerInv, MainsOK
        <3>3. \A u : HandlerCtx(u).mode = "handler" /\ HandlerCtx(u).pc = "entry"
            BY DEF HandlerCtx, Context
        <3> QED BY <2>2, <2>3, <3>2, <3>3
    <2> QED BY <2>2, <2>3
<1>4. \A p \in Procs \ Servers : Live(k, p) => ExecOf(m, p) = ExecOf(k, p)
    <2> SUFFICES ASSUME NEW p \in Procs, p \notin Servers, Live(k, p) PROVE ExecOf(m, p) = ExecOf(k, p)
        OBVIOUS
    <2>1. ExecOf(m, p) = IF p = to /\ Injected(k, to) THEN HandlerCtx(Head(k.srv[to].ring).uid) ELSE ExecOf(k, p)
        BY CalmSwitches
    <2> QED BY <2>1 DEF Injected
<1>5. ASSUME NEW p \in Procs, Live(m, p) PROVE Stays(k, m, p)
    <2>1. Live(k, p) /\ m.uuid[p] = k.uuid[p] /\ m.res[p] = k.res[p]
        BY <1>1, <1>2, <1>5
    <2>2. CASE p \in Servers
        BY <1>3, <2>1, <2>2 DEF Stays
    <2>3. CASE p \notin Servers
        BY <1>4, <2>1, <2>3 DEF Stays
    <2> QED BY <2>2, <2>3
<1>6. ASSUME NEW s \in Servers, NEW i \in DOMAIN m.srv[s].ring PROVE Carries(k, m, {}, {}, s, i)
    <2>1. i \in DOMAIN k.srv[s].ring /\ Live(k, s)
        BY <1>1, <1>6 DEF BaseInv, DeadOK
    <2>2. Unanswered(m, s, i) => Unanswered(k, s, i)
        BY <1>3, <2>1 DEF Unanswered
    <2> QED BY <1>1, <2>1, <2>2 DEF Carries
<1>7. MainsOK(m)
    <2> SUFFICES ASSUME NEW s \in Servers, Live(m, s)
                 PROVE  (ExecOf(m, s).mode = "main" => ExecOf(m, s).pc = "run") /\ m.srv[s].saved.ctx.pc = "run"
        BY DEF MainsOK
    <2>1. Live(k, s)
        BY <1>0, <1>2
    <2> QED BY <1>3, <2>1 DEF AnswerInv, MainsOK
<1>8. AnswerStep(k, m, {}, {})
    BY <1>1, <1>5, <1>6, <1>7 DEF AnswerStep
<1> QED BY <1>8, AnswerKeeps

\* SYS_IPC_END puts the main context back: the request at the head waits no more ...
LEMMA AnswerFinishes ==
    ASSUME NEW k, NEW m, NEW c \in Cores, NEW s \in Servers, BaseInv(k), AnswerInv(k, {}),
           Finishes(k, m, c, s), k.cur[c] = s, Live(k, s), SameLife(k, m),
           k.frame[c].pc = "end"
    PROVE  AnswerInv(m, {s})
<1>0. /\ Servers \subseteq Procs /\ k.frame \in [Cores -> Contexts] /\ Core[s] = c /\ NoProc \notin Procs
      /\ k.res \in [Procs -> Results]
    BY Constants, KernelFields DEF BaseInv, CurOK
<1>1. /\ m.ctx = k.ctx /\ m.cur = k.cur /\ m.ipc_uid = k.ipc_uid /\ m.log = k.log /\ m.uuid = k.uuid
      /\ m.frame = [k.frame EXCEPT ![c] = k.srv[s].saved.ctx]
      /\ m.res = [k.res EXCEPT ![s] = k.srv[s].saved.res]
      /\ \A t \in Servers \ {s} : m.srv[t] = k.srv[t]
      /\ m.srv[s].ring = k.srv[s].ring /\ m.srv[s].saved = NoSaved
    BY DEF Finishes, Restores, OneServer
<1>2. \A x \in Cores : m.frame[x] = IF x = c THEN k.srv[s].saved.ctx ELSE k.frame[x]
    BY <1>0, <1>1
<1>3. ASSUME NEW p \in Procs \ {s} PROVE ExecOf(m, p) = ExecOf(k, p) /\ m.res[p] = k.res[p]
    <2>1. Core[p] \in Cores /\ (k.cur[Core[p]] = p => Core[p] # c)
        BY <1>0, Constants
    <2> QED BY <1>0, <1>1, <1>2, <2>1 DEF ExecOf
<1>4. ExecOf(m, s) = k.srv[s].saved.ctx /\ ExecOf(k, s) = k.frame[c]
    BY <1>0, <1>1, <1>2 DEF ExecOf
<1>5. k.srv[s].saved.ctx.pc = "run" /\ m.srv[s].saved.ctx.pc = "run"
    <2>1. NoSaved.ctx.pc = "run"
        BY DEF NoSaved, ZeroCtx, Context
    <2> QED BY <1>1, <2>1 DEF AnswerInv, MainsOK
<1>6. ASSUME NEW p \in Procs, Live(m, p) PROVE Stays(k, m, p)
    <2>1. Live(k, p) /\ m.uuid[p] = k.uuid[p]
        BY <1>1, <1>6 DEF SameLife
    <2>2. CASE p = s
        <3>1. ExecOf(k, p).pc # "wait" /\ ExecOf(m, p).pc # "wait"
            BY <1>4, <1>5, <2>2
        <3> QED BY <2>1, <3>1 DEF Stays
    <2>3. CASE p # s
        BY <1>3, <2>1, <2>3 DEF Stays
    <2> QED BY <2>2, <2>3
<1>7. ASSUME NEW t \in Servers, NEW i \in DOMAIN m.srv[t].ring PROVE Carries(k, m, {}, {s}, t, i)
    <2>1. m.srv[t].ring = k.srv[t].ring
        BY <1>1
    <2>2. Unanswered(m, t, i) /\ ~(t = s /\ i = 1) => Unanswered(k, t, i)
        <3>1. CASE t = s
            BY <3>1 DEF Unanswered
        <3>2. CASE t # s
            BY <1>0, <1>3, <3>2 DEF Unanswered
        <3> QED BY <3>1, <3>2
    <2> QED BY <1>7, <2>1, <2>2 DEF Carries
<1>8. MainsOK(m)
    <2> SUFFICES ASSUME NEW t \in Servers, Live(m, t)
                 PROVE  (ExecOf(m, t).mode = "main" => ExecOf(m, t).pc = "run") /\ m.srv[t].saved.ctx.pc = "run"
        BY DEF MainsOK
    <2>1. CASE t = s
        BY <1>4, <1>5, <2>1
    <2>2. CASE t # s
        <3>1. Live(k, t) /\ m.srv[t] = k.srv[t] /\ ExecOf(m, t) = ExecOf(k, t)
            BY <1>0, <1>1, <1>3, <2>2 DEF SameLife
        <3> QED BY <3>1 DEF AnswerInv, MainsOK
    <2> QED BY <2>1, <2>2
<1>9. AnswerStep(k, m, {}, {s})
    BY <1>1, <1>6, <1>7, <1>8 DEF AnswerStep
<1> QED BY <1>9, AnswerKeeps

\* ... and closes it.
LEMMA AnswerCloses ==
    ASSUME NEW k, NEW m, NEW s \in Servers, BaseInv(k), AnswerInv(k, {s}), Closes(k, m, s),
           k.srv[s].ring # <<>>
    PROVE  AnswerInv(m, {})
<1>1. /\ m.task = k.task /\ m.ctx = k.ctx /\ m.cur = k.cur /\ m.frame = k.frame /\ m.log = k.log
      /\ m.ipc_uid = k.ipc_uid /\ m.res = k.res /\ m.uuid = k.uuid
      /\ \A t \in Servers \ {s} : m.srv[t] = k.srv[t]
      /\ m.srv[s].ring = Tail(k.srv[s].ring) /\ m.srv[s].saved = k.srv[s].saved
    BY DEF Closes, Alike, OneServer
<1>2. \A p \in Procs : ExecOf(m, p) = ExecOf(k, p) /\ (Live(m, p) <=> Live(k, p))
    BY <1>1 DEF ExecOf, Live
<1>3. ASSUME NEW i \in DOMAIN m.srv[s].ring
      PROVE  i + 1 \in DOMAIN k.srv[s].ring /\ m.srv[s].ring[i] = k.srv[s].ring[i + 1] /\ i \in Nat \ {0}
    <2> DEFINE t == Tail(k.srv[s].ring)
               r == k.srv[s].ring
               L == Len(k.srv[s].ring)
    <2>1. L \in Nat /\ DOMAIN r = 1 .. L /\ DOMAIN t = 1 .. L - 1 /\ \A j \in DOMAIN t : t[j] = r[j + 1]
        <3>1. k.srv[s] \in ServerRecords
            BY KernelFields DEF BaseInv
        <3> QED BY <3>1, TailFacts
    <2>2. m.srv[s].ring = t /\ i \in DOMAIN t
        BY <1>1, <1>3
    <2> HIDE DEF t, r, L
    <2>3. i + 1 \in DOMAIN r /\ t[i] = r[i + 1] /\ i \in Nat \ {0}
        BY <2>1, <2>2
    <2> QED BY <2>2, <2>3 DEF r
<1>4. \A p \in Procs : Live(m, p) => Stays(k, m, p)
    BY <1>1, <1>2 DEF Stays
<1>5. ASSUME NEW t \in Servers, NEW i \in DOMAIN m.srv[t].ring PROVE Carries(k, m, {s}, {}, t, i)
    <2>1. CASE t = s
        <3> DEFINE j == i + 1
        <3>1. j \in DOMAIN k.srv[s].ring /\ m.srv[s].ring[i] = k.srv[s].ring[j] /\ j # 1
            BY <1>3, <1>5, <2>1
        <3> HIDE DEF j
        <3>2. Unanswered(k, s, j)
            BY <3>1 DEF Unanswered
        <3> QED BY <2>1, <3>1, <3>2 DEF Carries
    <2>2. CASE t # s
        <3>1. m.srv[t] = k.srv[t] /\ (Unanswered(m, t, i) => Unanswered(k, t, i))
            BY <1>1, <1>2, <2>2, Constants DEF Unanswered
        <3> QED BY <1>5, <2>2, <3>1 DEF Carries
    <2> QED BY <2>1, <2>2
<1>6. MainsOK(m)
    <2> SUFFICES ASSUME NEW t \in Servers, Live(m, t)
                 PROVE  (ExecOf(m, t).mode = "main" => ExecOf(m, t).pc = "run") /\ m.srv[t].saved.ctx.pc = "run"
        BY DEF MainsOK
    <2>1. Live(k, t) /\ ExecOf(m, t) = ExecOf(k, t) /\ m.srv[t].saved = k.srv[t].saved
        BY <1>1, <1>2, Constants
    <2> QED BY <2>1 DEF AnswerInv, MainsOK
<1>7. AnswerStep(k, m, {s}, {})
    BY <1>1, <1>4, <1>5, <1>6 DEF AnswerStep
<1> QED BY <1>7, AnswerKeeps

\* A pid is used again: nobody takes the new process for the old one.
LEMMA AnswerSpawns ==
    ASSUME NEW k, NEW m, BaseInv(k), AnswerInv(k, {}), BySpawn(k, m)
    PROVE  AnswerInv(m, {})
<1>1. PICK p \in Procs :
       /\ ~Live(k, p) /\ k.cur[Core[p]] # p /\ m.cur = k.cur /\ m.frame = k.frame /\ m.ipc_uid = k.ipc_uid
       /\ m.task = [k.task EXCEPT ![p] = NewTask("READY")] /\ m.ctx = [k.ctx EXCEPT ![p] = MainCtx]
       /\ m.res = [k.res EXCEPT ![p] = NoResult] /\ m.uuid = [k.uuid EXCEPT ![p] = k.last_uuid + 1]
       /\ \A s \in Servers : m.srv[s] = IF s = p THEN NewServer ELSE k.srv[s]
       /\ m.log.asked = k.log.asked /\ m.log.answered = k.log.answered /\ m.log.failed = k.log.failed
    BY DEF BySpawn
<1>2. /\ k.task \in [Procs -> Tasks] /\ k.ctx \in [Procs -> Contexts] /\ Servers \subseteq Procs
      /\ k.res \in [Procs -> Results] /\ k.uuid \in [Procs -> Nat]
    BY KernelFields, Constants DEF BaseInv
<1>3. \A q \in Procs \ {p} : /\ m.uuid[q] = k.uuid[q] /\ ExecOf(m, q) = ExecOf(k, q)
                             /\ m.res[q] = k.res[q] /\ (Live(m, q) <=> Live(k, q))
    BY <1>1, <1>2 DEF Live, ExecOf
<1>4. ExecOf(m, p).pc = "run" /\ m.uuid[p] = k.last_uuid + 1
    BY <1>1, <1>2, ContextFacts DEF ExecOf
<1>5. NewServer.ring = <<>> /\ NewServer.saved.ctx.pc = "run"
    BY DEF NewServer, NoSaved, ZeroCtx, Context
<1> HIDE DEF NewServer
<1>6. ASSUME NEW s \in Servers
      PROVE  IF s = p THEN m.srv[s].ring = <<>> /\ m.srv[s].saved.ctx.pc = "run" ELSE m.srv[s] = k.srv[s]
    <2>1. m.srv[s] = IF s = p THEN NewServer ELSE k.srv[s]
        BY <1>1
    <2> QED BY <1>5, <2>1
<1>7. ASSUME NEW q \in Procs, Live(m, q) PROVE Stays(k, m, q)
    <2>1. CASE q = p
        <3>1. m.uuid[q] = k.last_uuid + 1 /\ ExecOf(m, q).pc # "wait"
            BY <1>4, <2>1
        <3> QED BY <3>1 DEF Stays
    <2>2. CASE q # p
        BY <1>3, <1>7, <2>2 DEF Stays
    <2> QED BY <2>1, <2>2
<1>8. ASSUME NEW s \in Servers, NEW i \in DOMAIN m.srv[s].ring PROVE Carries(k, m, {}, {}, s, i)
    <2>1. s # p /\ m.srv[s] = k.srv[s]
        BY <1>6, <1>8
    <2>2. Unanswered(m, s, i) => Unanswered(k, s, i)
        BY <1>2, <1>3, <2>1 DEF Unanswered
    <2> QED BY <1>8, <2>1, <2>2 DEF Carries
<1>9. MainsOK(m)
    <2> SUFFICES ASSUME NEW s \in Servers, Live(m, s)
                 PROVE  (ExecOf(m, s).mode = "main" => ExecOf(m, s).pc = "run") /\ m.srv[s].saved.ctx.pc = "run"
        BY DEF MainsOK
    <2>1. CASE s = p
        BY <1>4, <1>6, <2>1
    <2>2. CASE s # p
        <3>1. m.srv[s] = k.srv[s] /\ Live(k, s) /\ ExecOf(m, s) = ExecOf(k, s)
            BY <1>2, <1>3, <1>6, <2>2
        <3> QED BY <3>1 DEF AnswerInv, MainsOK
    <2> QED BY <2>1, <2>2
<1>10. AnswerStep(k, m, {}, {})
    BY <1>1, <1>7, <1>8, <1>9 DEF AnswerStep
<1> QED BY <1>10, AnswerKeeps

\* A request is accepted: nobody has answered it, and who made it waits for the reply.
LEMMA AnswerAsks ==
    ASSUME NEW k, NEW m, NEW c \in Cores, NEW s \in Servers, NEW ret \in BOOLEAN, BaseInv(k),
           AnswerInv(k, {}), Running(k, c), Asks(k, m, c, s, ret), k.frame[c].pc \notin {"wait", "end"},
           k.cur[c] \in Servers => k.frame[c].mode = "handler"
    PROVE  AnswerInv(m, {}) /\ Longer(k.srv[s].ring, m.srv[s].ring, Request(k, k.cur[c], ret))
<1> DEFINE p == k.cur[c]
           u == k.ipc_uid + 1
           r == Request(k, p, ret)
<1>0. p \in Procs /\ k \in Kernels /\ Core[p] = c /\ NoProc \notin Procs /\ Servers \subseteq Procs
    BY Constants DEF Running, BaseInv, CurOK
<1>1. /\ m.task = k.task /\ m.ctx = k.ctx /\ m.cur = k.cur /\ m.ipc_uid = u /\ m.uuid = k.uuid
      /\ \A t \in Servers \ {s} : m.srv[t] = k.srv[t]
      /\ m.srv[s].saved = k.srv[s].saved
      /\ \A q \in Procs \ {p} : m.res[q] = k.res[q]
      /\ m.res[p].state = "BUSY"
      /\ Longer(k.srv[s].ring, m.srv[s].ring, r)
      /\ r.uid = u /\ r.client = p /\ r.uuid = k.uuid[p] /\ r.ret = ret
    BY DEF Asks, OneServer, Request
<1>2. /\ m.log.answered = k.log.answered /\ m.log.failed = k.log.failed
      /\ m.log.asked = [k.log.asked EXCEPT ![u] = <<p, k.uuid[p]>>]
      /\ k.log.asked \in [Uids -> (Procs \cup {NoProc}) \X Nat]
      /\ k.log.answered \subseteq Uids /\ k.log.failed \subseteq Uids \cup {0}
    <2>1. k.log \in Logs
        BY <1>0, KernelFields
    <2>2. m.log.answered = k.log.answered /\ m.log.failed = k.log.failed
        BY <2>1 DEF Asks, Logs
    <2> QED BY <2>1, <2>2, LogFields DEF Asks
<1>3. /\ \A x \in Cores \ {c} : m.frame[x] = k.frame[x]
      /\ m.frame[c].mode = k.frame[c].mode
      /\ ret => m.frame[c].pc = "wait" /\ m.frame[c].to = s /\ m.frame[c].uid = u
      /\ ~ret => m.frame[c].pc # "wait"
    BY <1>0, AskedFrame
<1>4. ASSUME NEW q \in Procs \ {p} PROVE ExecOf(m, q) = ExecOf(k, q)
    <2>1. Core[q] \in Cores
        BY Constants
    <2>2. k.cur[Core[q]] = q => Core[q] # c
        OBVIOUS
    <2> QED BY <1>1, <1>3, <2>1, <2>2 DEF ExecOf
<1>5. ExecOf(m, p) = m.frame[c] /\ ExecOf(k, p) = k.frame[c]
    BY <1>0, <1>1 DEF ExecOf
<1>6. u \in Uids /\ u \in Nat /\ k.ipc_uid \in Nat /\ u > k.ipc_uid /\ Uids \subseteq Nat
    <2>1. r \in Requests /\ k.ipc_uid \in Nat
        BY <1>0, KernelFields, Constants DEF Asks
    <2>2. u \in Uids
        BY <1>1, <2>1 DEF Requests
    <2> QED BY <2>1, <2>2 DEF Uids
<1>7. u \notin k.log.answered /\ u \notin k.log.failed
    BY <1>6 DEF AnswerInv, PastOK
<1> HIDE DEF r, u
<1>8. PICK n \in Nat : /\ n \notin DOMAIN k.srv[s].ring
                       /\ DOMAIN m.srv[s].ring = DOMAIN k.srv[s].ring \cup {n}
                       /\ m.srv[s].ring[n] = r
                       /\ \A i \in DOMAIN k.srv[s].ring : m.srv[s].ring[i] = k.srv[s].ring[i]
    BY <1>1 DEF Longer
<1>9. \A q \in Procs : Live(m, q) <=> Live(k, q)
    BY <1>1 DEF Live
<1>10. \A q \in Procs : Live(m, q) /\ ExecOf(m, q).pc = "wait" => SlotOK(m, q, ExecOf(m, q).uid)
    <2> SUFFICES ASSUME NEW q \in Procs, Live(m, q), ExecOf(m, q).pc = "wait"
                 PROVE  SlotOK(m, q, ExecOf(m, q).uid)
        OBVIOUS
    <2>1. CASE q = p
        <3>1. ExecOf(m, q).uid = u
            BY <1>3, <1>5, <2>1
        <3>2. m.log.asked[u] = <<p, m.uuid[p]>>
            BY <1>1, <1>2, <1>6
        <3>3. m.res[p].state # "RETURN"
            BY <1>1
        <3>4. SlotOK(m, p, u)
            BY <1>2, <1>7, <3>2, <3>3 DEF SlotOK
        <3> QED BY <2>1, <3>1, <3>4
    <2>2. CASE q # p
        <3> DEFINE v == ExecOf(k, q).uid
        <3>1. ExecOf(m, q) = ExecOf(k, q) /\ Live(k, q) /\ m.res[q] = k.res[q] /\ m.uuid[q] = k.uuid[q]
            BY <1>1, <1>4, <1>9, <2>2
        <3>2. SlotOK(k, q, v)
            BY <3>1 DEF AnswerInv, SlotsOK
        <3>3. v \in Uids /\ v <= k.ipc_uid
            BY <3>1, ExecCalls DEF CallOK
        <3> HIDE DEF v
        <3>4. v # u
            BY <1>6, <3>3
        <3>5. m.log.asked[v] = k.log.asked[v]
            BY <1>2, <3>3, <3>4
        <3>6. SlotOK(m, q, v)
            BY <1>2, <3>1, <3>2, <3>5 DEF SlotOK
        <3> QED BY <3>1, <3>6 DEF v
    <2> QED BY <2>1, <2>2
<1>11. ASSUME NEW t \in Servers, NEW i \in DOMAIN m.srv[t].ring, Unanswered(m, t, i)
       PROVE  Pledged(m, t, m.srv[t].ring[i])
    <2>1. CASE t = s /\ i = n
        <3>1. ASSUME NEW q \in ClientOf(m, r), ret PROVE Awaits(m, q, u, s)
            <4>1. q = p
                BY <1>1, <3>1, ClientFacts
            <4> QED BY <1>3, <1>5, <3>1, <4>1 DEF Awaits
        <3> QED BY <1>1, <1>2, <1>7, <1>8, <2>1, <3>1 DEF Pledged
    <2>2. CASE ~(t = s /\ i = n)
        <3> DEFINE a == k.srv[t].ring[i]
        <3>1. i \in DOMAIN k.srv[t].ring /\ m.srv[t].ring[i] = a
            BY <1>1, <1>8, <1>11, <2>2
        <3>2. Unanswered(k, t, i)
            <4>1. CASE t = p
                BY <1>5, <4>1 DEF Unanswered
            <4>2. CASE t # p
                BY <1>0, <1>4, <1>11, <4>2 DEF Unanswered
            <4> QED BY <4>1, <4>2
        <3>3. Pledged(k, t, a)
            BY <3>1, <3>2 DEF AnswerInv, PledgesOK
        <3>4. a.client \in Procs
            BY <3>1, RingRequest
        <3> HIDE DEF a
        <3>5. ASSUME NEW q \in ClientOf(m, a), a.ret PROVE Awaits(m, q, a.uid, t)
            <4>1. q = a.client /\ Live(m, q) /\ m.uuid[q] = a.uuid
                BY <3>5, ClientFacts
            <4>2. q \in ClientOf(k, a)
                BY <1>1, <1>9, <3>4, <4>1 DEF ClientOf
            <4>3. Awaits(k, q, a.uid, t)
                BY <3>3, <3>5, <4>2 DEF Pledged
            <4>4. q # p
                BY <1>5, <4>3 DEF Awaits
            <4> QED BY <1>4, <3>4, <4>1, <4>3, <4>4 DEF Awaits
        <3> QED BY <1>2, <3>1, <3>3, <3>5 DEF Pledged
    <2> QED BY <2>1, <2>2
<1>12. PastOK(m)
    <2>1. k.log.answered \cap k.log.failed = {} /\ \A v \in k.log.answered \cup k.log.failed : v <= k.ipc_uid
        BY DEF AnswerInv, PastOK
    <2>2. ASSUME NEW v \in k.log.answered \cup k.log.failed PROVE v <= u
        <3>1. v \in Uids \cup {0} /\ v <= k.ipc_uid
            BY <1>2, <2>1, <2>2
        <3>2. v \in Nat
            BY <1>6, <3>1
        <3> QED BY <1>6, <3>1, <3>2
    <2> QED BY <1>1, <1>2, <2>1, <2>2 DEF PastOK
<1>13. MainsOK(m)
    <2> SUFFICES ASSUME NEW t \in Servers, Live(m, t)
                 PROVE  (ExecOf(m, t).mode = "main" => ExecOf(m, t).pc = "run") /\ m.srv[t].saved.ctx.pc = "run"
        BY DEF MainsOK
    <2>1. Live(k, t) /\ m.srv[t].saved = k.srv[t].saved
        BY <1>0, <1>1, <1>9
    <2>2. CASE t = p
        BY <1>3, <1>5, <2>1, <2>2 DEF AnswerInv, MainsOK
    <2>3. CASE t # p
        BY <1>0, <1>4, <2>1, <2>3 DEF AnswerInv, MainsOK
    <2> QED BY <2>2, <2>3
<1>14. PledgesOK(m, {}) /\ SlotsOK(m)
    BY <1>10, <1>11 DEF PledgesOK, SlotsOK
<1> QED BY <1>1, <1>12, <1>13, <1>14 DEF AnswerInv, r

\* A handler publishes its reply: its client waits for it, and nobody else does.
LEMMA AnswerAnswers ==
    ASSUME NEW k, NEW m, NEW c \in Cores, NEW g, BaseInv(k), ServiceInv(k), OnceInv(k, {}, {}),
           AnswerInv(k, {}), Running(k, c), Reframes(k, m, c, g), g.mode = k.frame[c].mode,
           Answers(k, m, c, g)
    PROVE  AnswerInv(m, {})
<1> DEFINE s == k.cur[c]
           r == k.srv[s].ring[1]
           to == IF r.ret THEN ClientOf(k, r) ELSE {}
<1>0. /\ k.frame \in [Cores -> Contexts] /\ Core[s] = c /\ s \in Servers /\ Servers \subseteq Procs
      /\ Live(k, s) /\ k.frame[c].mode = "handler" /\ k.frame[c].pc = "reply" /\ g.pc = "end"
    BY KernelFields, Constants DEF BaseInv, CurOK, Running, Answers
<1>1. /\ m.task = k.task /\ m.ctx = k.ctx /\ m.cur = k.cur /\ m.srv = k.srv /\ m.ipc_uid = k.ipc_uid
      /\ m.uuid = k.uuid /\ m.log.asked = k.log.asked
      /\ m.frame[c] = g /\ \A x \in Cores \ {c} : m.frame[x] = k.frame[x]
    BY <1>0 DEF Reframes, Steady
<1>2. /\ InService(k.srv[s]) /\ Head(k.srv[s].ring).uid = k.frame[c].serving
      /\ 1 \in DOMAIN k.srv[s].ring /\ Head(k.srv[s].ring) = r
    <2>1. Fits(k.srv[s], k.frame[c])
        BY <1>0 DEF ServiceInv, Framed
    <2>2. InService(k.srv[s]) /\ Head(k.srv[s].ring).uid = k.frame[c].serving
        BY <1>0, <2>1 DEF Fits
    <2>3. k.srv[s] \in ServerRecords
        BY <1>0, KernelFields DEF BaseInv
    <2>4. k.srv[s].ring \in Seq(Requests) /\ k.srv[s].ring # <<>>
        BY <2>2, <2>3, ServerFields DEF InService
    <2> QED BY <2>2, <2>4
<1>3. Serving(k, c)
    BY <1>2 DEF Serving, InService
<1>4. /\ m.log.failed = k.log.failed
      /\ m.log.answered = (IF to = {} THEN k.log.answered ELSE k.log.answered \cup {r.uid})
      /\ \A p \in Procs : m.res[p] = IF p \in to THEN [uid |-> r.uid, state |-> "RETURN"] ELSE k.res[p]
    <2>1. to = IF Serving(k, c) /\ Head(k.srv[s].ring).ret THEN ClientOf(k, Head(k.srv[s].ring)) ELSE {}
        BY <1>2, <1>3
    <2> HIDE DEF to
    <2> QED BY <1>2, <2>1 DEF Answers
<1>5. /\ r.uid \in Uids /\ r.client \in Procs /\ r.uid <= k.ipc_uid
      /\ k.log.asked[r.uid] = <<r.client, r.uuid>>
    BY <1>0, <1>2, RingRequest DEF RequestOK
<1>6. ExecOf(m, s) = g /\ ExecOf(k, s) = k.frame[c]
    BY <1>0, <1>1 DEF ExecOf
<1>7. \A q \in Procs \ {s} : ExecOf(m, q) = ExecOf(k, q)
    <2> SUFFICES ASSUME NEW q \in Procs \ {s} PROVE ExecOf(m, q) = ExecOf(k, q)
        OBVIOUS
    <2>1. Core[q] \in Cores
        BY Constants
    <2> QED BY <1>1, <2>1 DEF ExecOf
<1>8. \A q \in Procs : Live(m, q) <=> Live(k, q)
    BY <1>1 DEF Live
<1>9. Pledged(k, s, r)
    <2>1. Unanswered(k, s, 1)
        BY <1>0, <1>6 DEF Unanswered
    <2> QED BY <1>0, <1>2, <2>1 DEF AnswerInv, PledgesOK
<1> HIDE DEF r
<1>10. \A p \in to : p = r.client /\ Live(k, p) /\ k.uuid[p] = r.uuid /\ Awaits(k, p, r.uid, s)
    BY <1>9, ClientFacts DEF Pledged
<1> HIDE DEF to, s
<1>11. ASSUME NEW p \in to PROVE p \in Procs /\ SlotOK(k, p, r.uid)
    BY <1>5, <1>10, <1>11 DEF AnswerInv, SlotsOK, Awaits
<1>12. ASSUME NEW t \in Servers, NEW i \in DOMAIN m.srv[t].ring, Unanswered(m, t, i)
       PROVE  Pledged(m, t, m.srv[t].ring[i])
    <2> DEFINE a == k.srv[t].ring[i]
    <2>1. i \in DOMAIN k.srv[t].ring /\ m.srv[t].ring[i] = a
        BY <1>1, <1>12
    <2>2. ~(t = s /\ i = 1)
        BY <1>0, <1>6, <1>12 DEF Unanswered
    <2>3. Unanswered(k, t, i)
        <3>1. CASE t = s
            BY <1>0, <1>6, <3>1 DEF Unanswered
        <3>2. CASE t # s
            BY <1>0, <1>7, <1>12, <3>2 DEF Unanswered
        <3> QED BY <3>1, <3>2
    <2>4. Pledged(k, t, a)
        BY <2>1, <2>3 DEF AnswerInv, PledgesOK
    <2>5. a.uid # r.uid
        BY <1>0, <1>2, <2>1, <2>2 DEF OnceInv, WorkOK, r
    <2>6. a.client \in Procs
        BY <2>1, RingRequest
    <2> HIDE DEF a
    <2>7. ASSUME NEW q \in ClientOf(m, a), a.ret PROVE Awaits(m, q, a.uid, t)
        <3>1. q = a.client /\ Live(m, q) /\ m.uuid[q] = a.uuid
            BY <2>7, ClientFacts
        <3>2. q \in ClientOf(k, a)
            BY <1>1, <1>8, <2>6, <3>1 DEF ClientOf
        <3>3. Awaits(k, q, a.uid, t)
            BY <2>4, <2>7, <3>2 DEF Pledged
        <3>4. q # s
            BY <1>0, <1>6, <3>3 DEF Awaits
        <3> QED BY <1>7, <2>6, <3>1, <3>3, <3>4 DEF Awaits
    <2>8. a.uid \notin m.log.answered
        BY <1>4, <2>4, <2>5 DEF Pledged
    <2> QED BY <2>1, <2>7, <2>8 DEF Pledged
<1>13. \A q \in Procs : Live(m, q) /\ ExecOf(m, q).pc = "wait" => SlotOK(m, q, ExecOf(m, q).uid)
    <2> SUFFICES ASSUME NEW q \in Procs, Live(m, q), ExecOf(m, q).pc = "wait"
                 PROVE  SlotOK(m, q, ExecOf(m, q).uid)
        OBVIOUS
    <2> DEFINE v == ExecOf(k, q).uid
    <2>1. q # s
        BY <1>0, <1>6
    <2>2. ExecOf(m, q) = ExecOf(k, q) /\ Live(k, q) /\ m.uuid[q] = k.uuid[q]
        BY <1>1, <1>7, <1>8, <2>1
    <2>3. SlotOK(k, q, v)
        BY <2>2 DEF AnswerInv, SlotsOK
    <2>4. CASE q \in to
        <3>1. v = r.uid
            BY <1>10, <2>4 DEF Awaits
        <3>2. m.res[q].state = "RETURN" /\ m.res[q].uid = r.uid
            BY <1>4, <2>4
        <3>3. r.uid \in m.log.answered
            BY <1>4, <2>4
        <3> HIDE DEF v
        <3>4. SlotOK(m, q, v)
            BY <1>1, <1>4, <2>2, <2>3, <3>1, <3>2, <3>3 DEF SlotOK
        <3> QED BY <2>2, <3>4 DEF v
    <2>5. CASE q \notin to
        <3>1. m.res[q] = k.res[q]
            BY <1>4, <2>5
        <3> HIDE DEF v
        <3>2. v \in m.log.answered <=> v \in k.log.answered
            <4>1. CASE to = {}
                BY <1>4, <4>1
            <4>2. CASE to # {}
                <5>1. PICK p \in to : TRUE
                    BY <4>2
                <5>2. SlotOK(k, p, r.uid) /\ p # q
                    BY <1>11, <2>5, <5>1
                <5>3. v # r.uid
                    BY <2>3, <5>2 DEF SlotOK
                <5> QED BY <1>4, <5>3
            <4> QED BY <4>1, <4>2
        <3>3. SlotOK(m, q, v)
            BY <1>1, <1>4, <2>2, <2>3, <3>1, <3>2 DEF SlotOK
        <3> QED BY <2>2, <3>3 DEF v
    <2> QED BY <2>4, <2>5
<1>14. PastOK(m)
    <2>1. k.log.answered \cap k.log.failed = {} /\ \A v \in k.log.answered \cup k.log.failed : v <= k.ipc_uid
        BY DEF AnswerInv, PastOK
    <2>2. CASE to = {}
        BY <1>1, <1>4, <2>1, <2>2 DEF PastOK
    <2>3. CASE to # {}
        <3>1. r.uid \notin k.log.failed
            BY <1>11, <2>3 DEF SlotOK
        <3> QED BY <1>1, <1>4, <1>5, <2>1, <2>3, <3>1 DEF PastOK
    <2> QED BY <2>2, <2>3
<1>15. MainsOK(m)
    <2> SUFFICES ASSUME NEW t \in Servers, Live(m, t)
                 PROVE  (ExecOf(m, t).mode = "main" => ExecOf(m, t).pc = "run") /\ m.srv[t].saved.ctx.pc = "run"
        BY DEF MainsOK
    <2>1. (ExecOf(k, t).mode = "main" => ExecOf(k, t).pc = "run") /\ k.srv[t].saved.ctx.pc = "run"
        BY <1>0, <1>8 DEF AnswerInv, MainsOK
    <2>2. CASE t = s
        BY <1>0, <1>1, <1>6, <2>1, <2>2
    <2>3. CASE t # s
        BY <1>0, <1>1, <1>7, <2>1, <2>3
    <2> QED BY <2>2, <2>3
<1>16. PledgesOK(m, {}) /\ SlotsOK(m)
    BY <1>12, <1>13 DEF PledgesOK, SlotsOK
<1> QED BY <1>14, <1>15, <1>16 DEF AnswerInv

\* SYS_IPC_GET_RETURN takes a reply, or fails: then there is none, and none will come.
LEMMA AnswerReturns ==
    ASSUME NEW k, NEW m, NEW c \in Cores, NEW g, BaseInv(k), AnswerInv(k, {}), Running(k, c),
           Reframes(k, m, c, g), g.mode = k.frame[c].mode, Returns(k, m, c, g)
    PROVE  AnswerInv(m, {})
<1> DEFINE p == k.cur[c]
           f == k.frame[c]
           u == f.uid
<1>0. /\ k.frame \in [Cores -> Contexts] /\ Core[p] = c /\ p \in Procs /\ Servers \subseteq Procs
      /\ Live(k, p) /\ f.pc = "wait" /\ k.res \in [Procs -> Results]
    BY KernelFields, Constants DEF BaseInv, CurOK, Running, Returns
<1>1. /\ m.task = k.task /\ m.ctx = k.ctx /\ m.cur = k.cur /\ m.srv = k.srv /\ m.ipc_uid = k.ipc_uid
      /\ m.uuid = k.uuid /\ m.log.asked = k.log.asked
      /\ m.frame[c] = g /\ \A x \in Cores \ {c} : m.frame[x] = k.frame[x]
    BY <1>0 DEF Reframes, Steady
<1>2. g.pc = IF g.mode = "handler" THEN "reply" ELSE "run"
    <2>1. g = Back(f) /\ f \in Contexts /\ g.mode = f.mode
        BY <1>0 DEF Returns
    <2> HIDE DEF f
    <2> QED BY <2>1 DEF Back, Contexts
<1>3. /\ m.log.answered = k.log.answered
      /\ \/ /\ k.res[p].state = "RETURN" /\ m.log.failed = k.log.failed
            /\ \A q \in Procs \ {p} : m.res[q] = k.res[q]
         \/ /\ IF k.res[p].state = "RETURN" THEN k.res[p].uid # u ELSE ~Pending(k, c)
            /\ m.log.failed = k.log.failed \cup {u} /\ m.res = k.res
    BY <1>0 DEF Returns
<1>4. ExecOf(m, p) = g /\ ExecOf(k, p) = f
    BY <1>0, <1>1 DEF ExecOf
<1>5. \A q \in Procs \ {p} : ExecOf(m, q) = ExecOf(k, q)
    <2> SUFFICES ASSUME NEW q \in Procs \ {p} PROVE ExecOf(m, q) = ExecOf(k, q)
        OBVIOUS
    <2>1. Core[q] \in Cores
        BY Constants
    <2> QED BY <1>1, <2>1 DEF ExecOf
<1>6. \A q \in Procs : Live(m, q) <=> Live(k, q)
    BY <1>1 DEF Live
<1>7. SlotOK(k, p, u) /\ u \in Uids /\ u <= k.ipc_uid
    <2>1. CallOK(k, ExecOf(k, p))
        BY <1>0, ExecCalls
    <2> QED BY <1>0, <1>4, <2>1 DEF AnswerInv, SlotsOK, CallOK
<1>8. m.log.failed # k.log.failed => m.log.failed = k.log.failed \cup {u} /\ u \notin k.log.answered
    BY <1>3, <1>7 DEF SlotOK
<1>9. ASSUME NEW t \in Servers, NEW i \in DOMAIN k.srv[t].ring, Unanswered(k, t, i),
             k.srv[t].ring[i].ret, p \in ClientOf(k, k.srv[t].ring[i])
      PROVE  FALSE
    <2> DEFINE a == k.srv[t].ring[i]
    <2>1. Pledged(k, t, a)
        BY <1>9 DEF AnswerInv, PledgesOK
    <2>2. a.uid \notin k.log.answered /\ a.uid = u /\ f.to = t
        BY <1>4, <1>9, <2>1 DEF Pledged, Awaits
    <2>3. k.res[p].state # "RETURN"
        BY <1>7, <2>2 DEF SlotOK
    <2>4. Live(k, t)
        BY <1>9, RingRequest
    <2>5. ClientOf(k, a) = {p}
        BY <1>9, ClientFacts
    <2>6. Pending(k, c)
        BY <1>9, <2>2, <2>4, <2>5 DEF Pending
    <2> QED BY <1>3, <2>3, <2>6
<1> HIDE DEF p, f, u
<1>10. ASSUME NEW t \in Servers, NEW i \in DOMAIN m.srv[t].ring, Unanswered(m, t, i)
       PROVE  Pledged(m, t, m.srv[t].ring[i])
    <2> DEFINE a == k.srv[t].ring[i]
    <2>1. i \in DOMAIN k.srv[t].ring /\ m.srv[t].ring[i] = a
        BY <1>1, <1>10
    <2>2. Unanswered(k, t, i)
        <3>1. CASE t = p
            BY <1>0, <1>4, <3>1 DEF Unanswered
        <3>2. CASE t # p
            BY <1>0, <1>5, <1>10, <3>2 DEF Unanswered
        <3> QED BY <3>1, <3>2
    <2>3. Pledged(k, t, a)
        BY <2>1, <2>2 DEF AnswerInv, PledgesOK
    <2>4. a.client \in Procs
        BY <2>1, RingRequest
    <2>5. a.ret => p \notin ClientOf(k, a)
        BY <1>9, <2>1, <2>2
    <2> HIDE DEF a
    <2>6. ASSUME NEW q \in ClientOf(m, a), a.ret PROVE Awaits(m, q, a.uid, t)
        <3>1. q = a.client /\ Live(m, q) /\ m.uuid[q] = a.uuid
            BY <2>6, ClientFacts
        <3>2. q \in ClientOf(k, a)
            BY <1>1, <1>6, <2>4, <3>1 DEF ClientOf
        <3>3. Awaits(k, q, a.uid, t) /\ q # p
            BY <2>3, <2>5, <2>6, <3>2 DEF Pledged
        <3> QED BY <1>5, <2>4, <3>1, <3>3 DEF Awaits
    <2> QED BY <1>3, <2>1, <2>3, <2>6 DEF Pledged
<1>11. \A q \in Procs : Live(m, q) /\ ExecOf(m, q).pc = "wait" => SlotOK(m, q, ExecOf(m, q).uid)
    <2> SUFFICES ASSUME NEW q \in Procs, Live(m, q), ExecOf(m, q).pc = "wait"
                 PROVE  SlotOK(m, q, ExecOf(m, q).uid)
        OBVIOUS
    <2> DEFINE v == ExecOf(k, q).uid
    <2>1. q # p
        BY <1>2, <1>4
    <2>2. ExecOf(m, q) = ExecOf(k, q) /\ Live(k, q) /\ m.uuid[q] = k.uuid[q] /\ m.res[q] = k.res[q]
        BY <1>1, <1>3, <1>5, <1>6, <2>1
    <2>3. SlotOK(k, q, v)
        BY <2>2 DEF AnswerInv, SlotsOK
    <2> HIDE DEF v
    <2>4. v # u
        BY <1>7, <2>1, <2>3 DEF SlotOK
    <2>5. v \notin m.log.failed
        BY <1>8, <2>3, <2>4 DEF SlotOK
    <2>6. SlotOK(m, q, v)
        BY <1>1, <1>3, <2>2, <2>3, <2>5 DEF SlotOK
    <2> QED BY <2>2, <2>6 DEF v
<1>12. PastOK(m)
    <2>1. k.log.answered \cap k.log.failed = {} /\ \A v \in k.log.answered \cup k.log.failed : v <= k.ipc_uid
        BY DEF AnswerInv, PastOK
    <2>2. CASE m.log.failed = k.log.failed
        BY <1>1, <1>3, <2>1, <2>2 DEF PastOK
    <2>3. CASE m.log.failed # k.log.failed
        BY <1>1, <1>3, <1>7, <1>8, <2>1, <2>3 DEF PastOK
    <2> QED BY <2>2, <2>3
<1>13. MainsOK(m)
    <2> SUFFICES ASSUME NEW t \in Servers, Live(m, t)
                 PROVE  (ExecOf(m, t).mode = "main" => ExecOf(m, t).pc = "run") /\ m.srv[t].saved.ctx.pc = "run"
        BY DEF MainsOK
    <2>1. (ExecOf(k, t).mode = "main" => ExecOf(k, t).pc = "run") /\ k.srv[t].saved.ctx.pc = "run"
        BY <1>0, <1>6 DEF AnswerInv, MainsOK
    <2>2. CASE t = p
        BY <1>1, <1>2, <1>4, <2>1, <2>2
    <2>3. CASE t # p
        BY <1>0, <1>1, <1>5, <2>1, <2>3
    <2> QED BY <2>2, <2>3
<1>14. PledgesOK(m, {}) /\ SlotsOK(m)
    BY <1>10, <1>11 DEF PledgesOK, SlotsOK
<1> QED BY <1>12, <1>13, <1>14 DEF AnswerInv

\* A core is given away.
LEMMA AnswerDispatches ==
    ASSUME NEW k, NEW m, NEW c \in Cores, BaseInv(k), ~Watchdog, Serviced(k, {}, {c}), AnswerInv(k, {}),
           Dispatches(k, m, c)
    PROVE  AnswerInv(m, {})
<1>1. PICK to \in Procs \cup {NoProc} : /\ Switches(k, m, c, to)
                                        /\ to # NoProc => Core[to] = c /\ k.task[to].state \in Runnable
    BY DEF Dispatches
<1>2. to # NoProc => Core[to] = c /\ Live(k, to)
    BY <1>1 DEF Runnable, Live, proc_get
<1> QED BY <1>1, <1>2, AnswerSwitches

\* A task is parked, or goes on.
LEMMA AnswerBlocks ==
    ASSUME NEW k, NEW m, NEW c \in Cores, BaseInv(k), ~Watchdog, ServiceInv(k), AnswerInv(k, {}),
           Running(k, c), Blocks(k, m, c)
    PROVE  AnswerInv(m, {})
<1>1. PICK n \in Kernels, state \in {"BLOCK", "RUNNING", k.task[k.cur[c]].state} :
         /\ Retasks(k, n, k.cur[c], state) /\ Alike(k, n)
         /\ IF state = "BLOCK" THEN Dispatches(n, m, c) ELSE m = n
    BY DEF Blocks
<1>2. k.cur[c] \in Procs /\ Live(k, k.cur[c]) /\ state \notin {"ZOMBIE", "UNUSED"}
    BY <1>1 DEF Running, Live, proc_get, ServiceInv, Used
<1>3. BaseInv(n)
    BY <1>1, <1>2, BaseRetasks
<1>4. SameWork(k, n)
    BY <1>1, <1>2, SameWorkSteps
<1>5. ServiceInv(n)
    BY <1>4, ServiceKept
<1>6. SameReplies(k, n)
    BY <1>1 DEF Alike, SameReplies
<1>7. SameAnswer(k, n)
    BY <1>1, <1>2, <1>6, SameAnswerSteps
<1>8. AnswerInv(n, {})
    BY <1>7, AnswerSame
<1> QED BY <1>1, <1>3, <1>5, <1>8, ServiceForms, AnswerDispatches

\* A core is handed over.
LEMMA AnswerHands ==
    ASSUME NEW k, NEW m, NEW c \in Cores, NEW to \in Procs, BaseInv(k), ~Watchdog, ServiceInv(k),
           AnswerInv(k, {}), Live(k, to), Hands(k, m, c, to)
    PROVE  AnswerInv(m, {})
<1>1. PICK n \in Kernels :
         /\ Eases(k, n, {to}) \/ (n = k /\ k.task[to].state = "RUNNING")
         /\ Core[to] = c => Switches(n, m, c, to)
         /\ Core[to] # c => m = n
    BY DEF Hands
<1>2. BaseInv(n) /\ Live(n, to)
    BY <1>1, BaseEases, EasesLive
<1>3. ServiceInv(n)
    BY <1>1, SameWorkSteps, ServiceKept
<1>4. AnswerInv(n, {})
    BY <1>1, SameAnswerSteps, AnswerSame
<1> QED BY <1>1, <1>2, <1>3, <1>4, ServiceForms, AnswerSwitches

\* proc_ipc_call()
LEMMA AnswerCalls ==
    ASSUME NEW k, NEW m, NEW c \in Cores, NEW s \in Servers, NEW ret \in BOOLEAN, BaseInv(k), ~Watchdog,
           ServiceInv(k), AnswerInv(k, {}), Running(k, c), CallEffect(k, m, c, s, ret),
           k.frame[c].pc \notin {"wait", "end"}, k.cur[c] \in Servers => k.frame[c].mode = "handler"
    PROVE  AnswerInv(m, {})
<1> DEFINE f == k.frame[c]
           p == k.cur[c]
<1>0. f \in Contexts /\ k \in Kernels /\ k.frame \in [Cores -> Contexts] /\ s \in Procs /\ p \in Procs
    BY KernelFields, Constants DEF BaseInv, Running
<1>1. CASE Reframes(k, m, c, Back(k.frame[c])) /\ m.log = k.log /\ m.res = k.res
    <2> DEFINE g == Back(f)
    <2>1. g.mode = f.mode /\ g.pc = IF g.mode = "handler" THEN "reply" ELSE "run"
        <3> HIDE DEF f
        <3> QED BY <1>0 DEF Back, Contexts
    <2> HIDE DEF g
    <2>2. Reframes(k, m, c, g) /\ SameReplies(k, m)
        BY <1>1 DEF g, SameReplies
    <2> QED BY <1>0, <2>1, <2>2, AnswerReframes
<1>2. CASE /\ Live(k, s)
           /\ \E k1, k2 \in Kernels :
             /\ Reframes(k, k1, c, Calling(k.frame[c], s, ret)) /\ k1.log = k.log /\ k1.res = k.res
             /\ Queueing(k1, k2, {k.cur[c]}) /\ Has(k2.srv[s].waitq, k.cur[c]) /\ Blocks(k2, m, c)
    <2>1. PICK k1, k2 \in Kernels :
             /\ Reframes(k, k1, c, Calling(k.frame[c], s, ret)) /\ k1.log = k.log /\ k1.res = k.res
             /\ Queueing(k1, k2, {k.cur[c]}) /\ Blocks(k2, m, c)
        BY <1>2
    <2> DEFINE g == Calling(f, s, ret)
    <2>2. g.mode = f.mode /\ g.serving = f.serving /\ g.pc = "call" /\ g.to = s
        <3> HIDE DEF f
        <3> QED BY <1>0 DEF Contexts, Calling
    <2> HIDE DEF g
    <2>3. CallOK(k, g)
        BY <2>2 DEF CallOK
    <2>4. Reframes(k, k1, c, g) /\ SameReplies(k, k1)
        BY <2>1 DEF g, SameReplies
    <2>5. BaseInv(k1)
        BY <2>2, <2>3, <2>4, BaseReframes
    <2>6. BaseInv(k2)
        BY <2>1, <2>5, BaseQueueing
    <2>7. k1.cur = k.cur /\ k2.cur = k.cur /\ k2.task = k.task
        BY <2>1, <2>4 DEF Reframes, Steady, Queueing, Alike
    <2>8. SameWork(k, k1) /\ SameWork(k1, k2)
        BY <1>0, <2>1, <2>2, <2>4, SameWorkReframes, SameWorkSteps
    <2>9. ServiceInv(k2)
        BY <2>8, ServiceKept
    <2>10. Running(k2, c)
        BY <2>7 DEF Running, Live
    <2>11. AnswerInv(k1, {})
        BY <1>0, <2>2, <2>4, AnswerReframes
    <2>12. AnswerInv(k2, {})
        BY <2>1, <2>5, <2>11, SameAnswerSteps, AnswerSame
    <2> QED BY <2>1, <2>6, <2>9, <2>10, <2>12, AnswerBlocks
<1>3. CASE /\ Live(k, s) /\ ~Closed(k, s)
           /\ \E k1 \in Kernels : /\ Asks(k, k1, c, s, ret)
                                  /\ IF k.srv[s].ring = <<>> THEN Starts(k1, m, c, s) ELSE m = k1
    <2>1. PICK k1 \in Kernels : /\ Asks(k, k1, c, s, ret)
                                /\ IF k.srv[s].ring = <<>> THEN Starts(k1, m, c, s) ELSE m = k1
        BY <1>3
    <2>2. AnswerInv(k1, {}) /\ Longer(k.srv[s].ring, k1.srv[s].ring, Request(k, k.cur[c], ret))
        BY <2>1, AnswerAsks, Zenon
    <2>3. CASE k.srv[s].ring = <<>>
        <3>1. PICK n \in Kernels : Arms(k1, n, s, FALSE) /\ Hands(n, m, c, s)
            BY <2>1, <2>3 DEF Starts
        <3>2. BaseInv(k1)
            BY <1>3, <2>1, BaseAsks DEF Running
        <3>3. Live(k1, s) /\ Live(n, s)
            BY <1>3, <2>1, <3>1 DEF Asks, Arms, Live
        <3>4. BaseInv(n)
            BY <3>1, <3>2, <3>3, BaseArms
        <3>5. ServiceInv(n)
            BY <1>3, <2>1, <2>3, <3>1, ServiceFirst, ZenonT(30)
        <3>6. AnswerInv(n, {})
            BY <2>2, <3>1, <3>2, SameAnswerSteps, AnswerSame
        <3> QED BY <1>0, <3>1, <3>3, <3>4, <3>5, <3>6, AnswerHands
    <2>4. CASE k.srv[s].ring # <<>>
        BY <2>1, <2>2, <2>4
    <2> QED BY <2>3, <2>4
<1> QED BY <1>1, <1>2, <1>3 DEF CallEffect

\* proc_ipc_end()
LEMMA AnswerEnds ==
    ASSUME NEW k, NEW m, NEW c \in Cores, BaseInv(k), ~Watchdog, ServiceInv(k), AnswerInv(k, {}),
           Running(k, c), k.cur[c] \in Servers, k.frame[c].mode = "handler", k.frame[c].pc = "end",
           k.srv[k.cur[c]].ring # <<>>, EndEffect(k, m, c)
    PROVE  AnswerInv(m, {})
<1> DEFINE s == k.cur[c]
           r == Head(k.srv[s].ring)
<1>1. PICK k1, k2, k3 \in Kernels, Q \in SUBSET Procs : EndStates(k, m, c, k1, k2, k3, Q)
    BY EndChain
<1>2. BaseInv(k1) /\ BaseInv(k2) /\ BaseInv(k3) /\ s \in Procs /\ SameLife(k, k1) /\ k1.srv[s].ring = k.srv[s].ring
    BY <1>1, EndBase, Constants
<1>3. EndNext(k, m, c, k3)
    BY <1>1, ServiceEndNext
<1>4. Finishes(k, k1, c, s) /\ Closes(k1, k2, s) /\ Eases(k2, k3, Q)
    BY <1>1 DEF EndStates
<1>5. Live(k, s) /\ k.cur[c] = s
    BY DEF Running
<1>6. AnswerInv(k1, {s})
    BY <1>2, <1>4, <1>5, AnswerFinishes
<1>7. AnswerInv(k2, {})
    BY <1>2, <1>4, <1>6, AnswerCloses
<1>8. AnswerInv(k3, {})
    BY <1>2, <1>4, <1>7, SameAnswerSteps, AnswerSame
<1>9. CASE k3.srv[s].ring # <<>>
    <2>1. PICK n \in Kernels : /\ Arms(k3, n, s, FALSE) /\ Hands(n, m, c, s)
                               /\ BaseInv(n) /\ Live(n, s) /\ ServiceInv(n)
        BY <1>3, <1>9 DEF EndNext
    <2>2. AnswerInv(n, {})
        BY <1>2, <1>8, <2>1, SameAnswerSteps, AnswerSame
    <2> QED BY <1>2, <2>1, <2>2, AnswerHands
<1>10. CASE k3.srv[s].ring = <<>>
    <2>1. /\ ServiceInv(k3)
          /\ \/ Dispatches(k3, m, c)
             \/ \E to \in ToWake(k, r) : to \in Procs /\ Live(k3, to) /\ Hands(k3, m, c, to)
        BY <1>3, <1>10 DEF EndNext
    <2> QED BY <1>2, <1>8, <2>1, ServiceForms, AnswerDispatches, AnswerHands
<1> QED BY <1>9, <1>10

\* Steps of user code.
LEMMA AnswerCodes ==
    ASSUME NEW k, NEW m, BaseInv(k), ServiceInv(k), OnceInv(k, {}, {}), AnswerInv(k, {}), ByCode(k, m)
    PROVE  AnswerInv(m, {})
<1>1. PICK c \in Cores, g \in Contexts :
         /\ Running(k, c) /\ Reframes(k, m, c, g) /\ g.mode = k.frame[c].mode
         /\ \/ Returns(k, m, c, g) \/ Begins(k, m, c, g) \/ Works(k, m, c, g)
            \/ Answers(k, m, c, g) \/ Moves(k, m, c, g)
    BY DEF ByCode
<1>2. CASE Returns(k, m, c, g)
    BY <1>1, <1>2, AnswerReturns
<1>3. CASE Answers(k, m, c, g)
    BY <1>1, <1>3, AnswerAnswers
<1>4. CASE Begins(k, m, c, g)
    <2>1. SameReplies(k, m) /\ k.frame[c].pc = "entry" /\ g.pc # "wait" /\ g.mode # "main"
        BY <1>1, <1>4 DEF Begins, SameLog, SameReplies
    <2> QED BY <1>1, <2>1, AnswerReframes DEF Running
<1>5. CASE Works(k, m, c, g)
    <2>1. SameReplies(k, m) /\ k.frame[c].pc = "body" /\ g.pc # "wait" /\ g.mode # "main"
        BY <1>1, <1>5 DEF Works, Counts, SameReplies
    <2> QED BY <1>1, <2>1, AnswerReframes DEF Running
<1>6. CASE Moves(k, m, c, g)
    <2>1. SameReplies(k, m) /\ k.frame[c].pc = "run" /\ g.pc = "run"
        BY <1>1, <1>6 DEF Moves, SameReplies
    <2> QED BY <1>1, <2>1, AnswerReframes DEF Running
<1> QED BY <1>1, <1>2, <1>3, <1>4, <1>5, <1>6

\* Every step keeps the invariant.
LEMMA AnswerKept ==
    ASSUME NEW k, NEW m, ~Watchdog, OnlyHandlersCall, BaseInv(k), ServiceInv(k), OnceInv(k, {}, {}),
           AnswerInv(k, {}), Effect(k, m)
    PROVE  AnswerInv(m, {})
<1>1. CASE ByCall(k, m)
    <2>1. PICK c \in Cores, k0 \in Kernels, s \in Servers, ret \in BOOLEAN :
             /\ Running(k, c) /\ Quiet(k, k0) /\ k0.res = k.res /\ CallEffect(k0, m, c, s, ret)
             /\ \/ /\ k.frame[c].mode = "main" /\ k.frame[c].pc = "run" /\ s \in MainCalls[k.cur[c]]
                   /\ SameLog(k, k0)
                \/ /\ k.frame[c].mode = "handler" /\ k.frame[c].pc = "body"
                   /\ Counts(k, k0, k.frame[c].serving)
                \/ /\ k.frame[c].mode \in {"main", "handler"} /\ k.frame[c].pc = "call"
                   /\ SameLog(k, k0)
        BY <1>1 DEF ByCall
    <2>2. BaseInv(k0) /\ ServiceInv(k0)
        BY <2>1, BaseQuiet, SameWorkSteps, ServiceKept
    <2>3. Running(k0, c) /\ k0.cur = k.cur /\ k0.frame = k.frame
        BY <2>1 DEF Running, Quiet, Steady, Live
    <2>4. SameReplies(k, k0)
        BY <2>1 DEF SameReplies, SameLog, Counts
    <2>5. SameAnswer(k, k0)
        BY <2>1, <2>4, SameAnswerSteps
    <2>6. AnswerInv(k0, {})
        BY <2>5, AnswerSame
    <2>7. k.frame[c].pc \notin {"wait", "end"}
        BY <2>1
    <2>8. ASSUME k.cur[c] \in Servers PROVE k.frame[c].mode = "handler"
        <3>1. ExecOf(k, k.cur[c]) = k.frame[c] /\ Live(k, k.cur[c])
            BY <2>1, Constants DEF ExecOf, BaseInv, CurOK, Running
        <3>2. k.frame[c].mode = "main" => k.frame[c].pc = "run"
            BY <2>8, <3>1 DEF AnswerInv, MainsOK
        <3>3. MainCalls[k.cur[c]] = {}
            BY <2>8 DEF OnlyHandlersCall
        <3> QED BY <2>1, <3>2, <3>3
    <2> QED BY <2>1, <2>2, <2>3, <2>6, <2>7, <2>8, AnswerCalls
<1>2. CASE BySchedule(k, m)
    <2>1. PICK c \in Cores, k0 \in Kernels : Quiet(k, k0) /\ SameLog(k, k0) /\ k0.res = k.res /\ Dispatches(k0, m, c)
        BY <1>2 DEF BySchedule
    <2>2. BaseInv(k0) /\ ServiceInv(k0)
        BY <2>1, BaseQuiet, SameWorkSteps, ServiceKept
    <2>3. AnswerInv(k0, {})
        BY <2>1, SameAnswerSteps, AnswerSame DEF SameLog, SameReplies
    <2> QED BY <2>1, <2>2, <2>3, ServiceForms, AnswerDispatches
<1>3. CASE ByBlock(k, m)
    <2>1. PICK c \in Cores, k0 \in Kernels :
             Running(k, c) /\ Quiet(k, k0) /\ SameLog(k, k0) /\ k0.res = k.res /\ Blocks(k0, m, c)
        BY <1>3 DEF ByBlock
    <2>2. BaseInv(k0) /\ ServiceInv(k0)
        BY <2>1, BaseQuiet, SameWorkSteps, ServiceKept
    <2>3. AnswerInv(k0, {})
        BY <2>1, SameAnswerSteps, AnswerSame DEF SameLog, SameReplies
    <2>4. Running(k0, c)
        BY <2>1 DEF Running, Quiet, Steady, Live
    <2> QED BY <2>1, <2>2, <2>3, <2>4, AnswerBlocks
<1>4. CASE ByCode(k, m)
    BY <1>4, AnswerCodes
<1>5. CASE BySleep(k, m)
    <2>1. PICK c \in Cores, k0 \in Kernels, state \in {"SLEEPING", "WAIT"} :
             /\ Running(k, c) /\ Retasks(k, k0, k.cur[c], state) /\ Dispatches(k0, m, c)
             /\ SameReplies(k, k0)
        BY <1>5 DEF BySleep, SameReplies
    <2>2. BaseInv(k0)
        BY <2>1, BaseRetasks DEF Running
    <2>3. SameWork(k, k0)
        BY <2>1, SameWorkSteps DEF Running
    <2>4. ServiceInv(k0)
        BY <2>3, ServiceKept
    <2>5. SameAnswer(k, k0)
        BY <2>1, SameAnswerSteps DEF Running
    <2>6. AnswerInv(k0, {})
        BY <2>5, AnswerSame
    <2> QED BY <2>1, <2>2, <2>4, <2>6, ServiceForms, AnswerDispatches
<1>6. CASE ByQueue(k, m)
    <2>1. PICK k0, k1 \in Kernels, Q \in SUBSET Procs :
             Quiet(k, k0) /\ SameReplies(k, k0) /\ Queueing(k0, k1, {}) /\ Eases(k1, m, Q)
        BY <1>6 DEF ByQueue, SameLog, SameReplies
    <2>2. SameAnswer(k, k0) /\ SameAnswer(k0, k1) /\ SameAnswer(k1, m)
        BY <2>1, SameAnswerSteps
    <2>3. BaseInv(k0) /\ BaseInv(k1)
        BY <2>1, BaseQuiet, BaseQueueing
    <2> QED BY <2>2, <2>3, AnswerSame
<1>7. CASE ByTimer(k, m)
    <2>1. PICK p \in Procs : /\ k.task[p].state \in {"SLEEPING", "BLOCK"} /\ Retasks(k, m, p, "READY")
                             /\ SameReplies(k, m)
        BY <1>7 DEF ByTimer, SameReplies
    <2>2. Live(k, p)
        BY <2>1 DEF Live, proc_get
    <2>3. SameAnswer(k, m)
        BY <2>1, <2>2, SameAnswerSteps
    <2> QED BY <2>3, AnswerSame
<1>8. CASE ByEvent(k, m)
    <2>1. PICK p \in Servers, k1 \in Kernels : Eases(k, k1, {p}) /\ Quiet(k1, m) /\ SameReplies(k, m)
        BY <1>8 DEF ByEvent, SameReplies
    <2>2. SameReplies(k1, m)
        BY <2>1 DEF Eases, Alike, SameReplies
    <2>3. SameAnswer(k, k1) /\ SameAnswer(k1, m)
        BY <2>1, <2>2, SameAnswerSteps
    <2>4. BaseInv(k1)
        BY <2>1, BaseEases
    <2> QED BY <2>3, <2>4, AnswerSame
<1>9. CASE ByEnd(k, m)
    <2>1. PICK c \in Cores, k0 \in Kernels :
             /\ Running(k, c) /\ k.cur[c] \in Servers /\ Quiet(k, k0) /\ SameReplies(k, k0)
             /\ k.frame[c].mode = "handler" /\ k.frame[c].pc = "end"
             /\ IF k.srv[k.cur[c]].ring = <<>> THEN m = k0 ELSE EndEffect(k0, m, c)
        BY <1>9 DEF ByEnd, SameLog, SameReplies
    <2>2. BaseInv(k0) /\ ServiceInv(k0)
        BY <2>1, BaseQuiet, SameWorkSteps, ServiceKept
    <2>3. AnswerInv(k0, {})
        BY <2>1, SameAnswerSteps, AnswerSame
    <2>4. Running(k0, c) /\ k0.cur[c] = k.cur[c] /\ k0.srv = k.srv /\ k0.frame = k.frame
        BY <2>1 DEF Running, Quiet, Steady, Live
    <2> QED BY <2>1, <2>2, <2>3, <2>4, AnswerEnds
<1>10. CASE ByTimeout(k, m)
    BY <1>10 DEF ByTimeout
<1>11. CASE ByDeath(k, m)
    <2>1. PICK p \in Procs, c \in Cores, k0, k1 \in Kernels :
             Quiet(k, k0) /\ SameReplies(k, k0) /\ Terminates(k0, k1, p) /\ Dispatches(k1, m, c)
        BY <1>11 DEF ByDeath, SameLog, SameReplies
    <2>2. BaseInv(k0)
        BY <2>1, BaseQuiet
    <2>3. BaseInv(k1)
        BY <2>1, <2>2, BaseTerminates
    <2>4. SameWork(k, k0) /\ SameWork(k0, k1)
        BY <2>1, SameWorkSteps
    <2>5. ServiceInv(k1)
        BY <2>4, ServiceKept
    <2>6. SameAnswer(k, k0) /\ SameAnswer(k0, k1)
        BY <2>1, SameAnswerSteps
    <2>7. AnswerInv(k1, {})
        BY <2>2, <2>6, AnswerSame
    <2> QED BY <2>1, <2>3, <2>5, <2>7, ServiceForms, AnswerDispatches
<1>12. CASE BySpawn(k, m)
    BY <1>12, AnswerSpawns
<1> QED BY <1>1, <1>2, <1>3, <1>4, <1>5, <1>6, <1>7, <1>8, <1>9, <1>10, <1>11, <1>12 DEF Effect

\* It holds at the start.
LEMMA AnswerInit == Init => AnswerInv(kernel, {})
<1> SUFFICES ASSUME Init PROVE AnswerInv(kernel, {})
    OBVIOUS
<1>1. /\ \A p \in Procs : kernel.ctx[p] = MainCtx
      /\ \A s \in Servers : kernel.srv[s].ring = <<>> /\ kernel.srv[s].saved = NoSaved
      /\ \A c \in Cores : kernel.cur[c] = NoProc
      /\ kernel.log.answered = {} /\ kernel.log.failed = {}
    BY InitKernel DEF NewServer, NewLog
<1>2. \A p \in Procs : ExecOf(kernel, p).pc = "run"
    BY <1>1, Constants, ContextFacts DEF ExecOf
<1>3. NoSaved.ctx.pc = "run"
    BY DEF NoSaved, ZeroCtx, Context
<1> HIDE DEF NoSaved
<1>4. PledgesOK(kernel, {}) /\ SlotsOK(kernel) /\ PastOK(kernel)
    BY <1>1, <1>2 DEF PledgesOK, SlotsOK, PastOK
<1>5. MainsOK(kernel)
    BY <1>1, <1>2, <1>3, Constants DEF MainsOK
<1> QED BY <1>4, <1>5 DEF AnswerInv

\* A call whose reply was published does not fail (proc_ipc_set_return,
\* proc_ipc_get_return, proc_ipc_clear), for clients and for handlers that call
\* other servers: its caller waits for just this reply until it has it, nobody
\* else can take it, and the death of the server does not withdraw it.  The main
\* contexts of servers make no calls (the reply slot of one would be put aside
\* and back while it is filled), and the watchdog does not set servers back.
THEOREM AnswersAreNotLost == ~Watchdog /\ OnlyHandlersCall /\ Spec => []AnsweredNotFailed
<1> SUFFICES ASSUME ~Watchdog, OnlyHandlersCall PROVE Spec => []AnsweredNotFailed
    OBVIOUS
<1>1. BaseInv(kernel) /\ ServiceInv(kernel) /\ OnceInv(kernel, {}, {}) /\ AnswerInv(kernel, {}) /\ [Next]_kernel
         => AnswerInv(kernel, {})'
    <2>1. ASSUME BaseInv(kernel), ServiceInv(kernel), OnceInv(kernel, {}, {}), AnswerInv(kernel, {}), Next
          PROVE  AnswerInv(kernel', {})
        BY <2>1, NextEffect, AnswerKept
    <2> QED BY <2>1
<1>2. ServersOnTimerCore
    BY DEF ServersOnTimerCore
<1>3. AnswerInv(kernel, {}) => AnsweredNotFailed
    BY DEF AnswerInv, PastOK, AnsweredNotFailed
<1> QED BY AnswerInit, <1>1, <1>2, <1>3, OnceHolds, ServiceHolds, BaseHolds, PTL DEF Spec

=============================================================================
