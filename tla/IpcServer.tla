----------------------------- MODULE IpcServer -----------------------------
(***************************************************************************)
(* Synchronous ipc with single-task servers (src/kernel/kernel/src/ipc.c,   *)
(* the context switch, watchdog and teardown of proc.c, libc's ipc_call and *)
(* handle_ipc).  A server has one context: a request hijacks it, the kernel *)
(* keeps the server's main context and reply slot aside while the handler   *)
(* runs, and SYS_IPC_END puts them back.                                    *)
(*                                                                         *)
(* Granularity.  System calls and the timer run under kernel_lock, so each  *)
(* is one step from one kernel state to the next.  The operators below take *)
(* a kernel state k and give the state after the function they are named    *)
(* for; where the function ends in schedule() they give the set of states,  *)
(* one for each task that may be dispatched.                                *)
(***************************************************************************)
EXTENDS TaskState, Sequences, FiniteSets

CONSTANTS
    Procs,                 \* processes (one context each)
    Servers,               \* those with a registered ipc entry
    NoProc,                \* nobody; the idle task of a core
    Cores, Core,           \* cores, and Core[p]: where p runs
    MainCalls,             \* MainCalls[p]: servers the main context calls
    HandlerCalls,          \* HandlerCalls[p]: servers p's handler calls
    Kinds,                 \* TRUE: calls with a reply, FALSE: IPC_NON_RETURN
    NonBlock,              \* servers registered with IPC_NON_BLOCK
    MainOps,               \* other things main contexts do ("reap": a server
                           \* waits for a process, "waitpid": a client does)
    Mortal, MaxUuid,       \* processes that may die, and incarnations of all
    Watchdog,              \* may a request exceed IPC_TIMEOUT_USEC?
    IPC_CTX_MAX,           \* requests a server holds
    IPC_WAKE_BATCH_LIMIT,  \* waiters let in at a time
    MaxCalls, MaxSteps     \* bounds: calls, and steps of a main context

ASSUME ConstantsAssumption ==
    /\ Servers \subseteq Procs /\ NonBlock \subseteq Servers
    /\ NoProc \notin Procs /\ Core \in [Procs -> Cores] /\ 0 \in Cores
    /\ MainCalls \in [Procs -> SUBSET Servers]
    /\ HandlerCalls \in [Servers -> SUBSET Servers]
    /\ \A p \in Servers : p \notin MainCalls[p] \cup HandlerCalls[p]
    /\ Kinds \subseteq BOOLEAN /\ Mortal \subseteq Procs /\ Watchdog \in BOOLEAN
    /\ MainOps \subseteq {"step", "block", "usleep", "waitpid", "reap", "disable"}
    /\ IPC_CTX_MAX \in Nat \ {0} /\ IPC_WAKE_BATCH_LIMIT \in Nat \ {0}
    /\ MaxCalls \in Nat /\ MaxSteps \in Nat /\ MaxUuid \in Nat

VARIABLE kernel

Uids == 1 .. MaxCalls

\* The registers of a user context, as far as libc's ipc code depends on them:
\* which code it is (mode), where in it (pc), the request a handler was entered
\* for (serving), the call in progress (to, uid, ret), and how much of its own
\* work a main context has done (n).
Contexts ==
    [mode: {"main", "handler", "zero"},
     pc: {"run", "call", "wait", "entry", "body", "reply", "end"},
     serving: Uids \cup {0}, to: Servers \cup {NoProc}, uid: Uids \cup {0},
     ret: BOOLEAN, n: 0 .. MaxSteps]

Context(mode, pc, uid) ==
    [mode |-> mode, pc |-> pc, serving |-> uid, to |-> NoProc, uid |-> 0,
     ret |-> FALSE, n |-> 0]
MainCtx == Context("main", "run", 0)
HandlerCtx(uid) == Context("handler", "entry", uid)
ZeroCtx == Context("zero", "run", 0)

\* ipc_res_t: the reply slot of a process.
Results == [uid: Uids \cup {0}, state: {"IDLE", "BUSY", "RETURN"}]
NoResult == [uid |-> 0, state |-> "IDLE"]

Saved == [state: States \cup {"UNUSED"}, sleep_counter: BOOLEAN,
          ctx: Contexts, res: Results]
NoSaved == [state |-> "UNUSED", sleep_counter |-> FALSE, ctx |-> ZeroCtx,
            res |-> NoResult]

Requests == [uid: Uids, client: Procs, uuid: Nat, ret: BOOLEAN]

\* ipc_server_t: ring is the FIFO of accepted requests, waitq the clients that
\* wait to be admitted.
NewServer == [ring |-> <<>>, waitq |-> <<>>, disabled |-> FALSE,
              do_switch |-> FALSE, restore_pending |-> FALSE, saved |-> NoSaved]

\* log is history: calls begun, who asked for a uid, replies published and not
\* withdrawn, calls that failed, handler executions, main steps done, main
\* contexts whose usleep() has neither expired nor been woken.
NewLog == [calls |-> 0, asked |-> [u \in Uids |-> <<NoProc, 0>>],
           answered |-> {}, failed |-> {}, worked |-> [u \in Uids |-> 0],
           steps |-> [p \in Procs |-> 0], napping |-> {}]

Init ==
    kernel = [task |-> [p \in Procs |-> NewTask("READY")],
              ctx |-> [p \in Procs |-> MainCtx],
              res |-> [p \in Procs |-> NoResult],
              uuid |-> [p \in Procs |-> 1],
              wait_for |-> [p \in Procs |-> NoProc],
              srv |-> [s \in Servers |-> NewServer],
              cur |-> [c \in Cores |-> NoProc],
              frame |-> [c \in Cores |-> ZeroCtx],
              need_resched |-> [c \in Cores |-> "no"],
              ipc_uid |-> 0,
              last_uuid |-> 1,
              log |-> NewLog]

Asleep == {"BLOCK", "SLEEPING", "WAIT"}
Runnable == {"READY", "RUNNING"}

\* Generic is the only token here.  UNUSED is restored by a SYS_IPC_END whose
\* service the watchdog of another core has ended before.
Tasks == [state: States \cup {"UNUSED"}, block_by: {Generic}, wake_by: {Generic},
          wake_pending: BOOLEAN, sleep_counter: BOOLEAN]

ServerRecords == [ring: {r \in Seq(Requests) : Len(r) <= IPC_CTX_MAX}, waitq: Seq(Procs),
                  disabled: BOOLEAN, do_switch: BOOLEAN, restore_pending: BOOLEAN,
                  saved: Saved]

Logs == [calls: 0 .. MaxCalls, asked: [Uids -> (Procs \cup {NoProc}) \X Nat],
         answered: SUBSET Uids, failed: SUBSET (Uids \cup {0}), worked: [Uids -> Nat],
         steps: [Procs -> 0 .. MaxSteps], napping: SUBSET Procs]

Kernels == [task: [Procs -> Tasks], ctx: [Procs -> Contexts], res: [Procs -> Results],
            uuid: [Procs -> Nat], wait_for: [Procs -> Procs \cup {NoProc}],
            srv: [Servers -> ServerRecords], cur: [Cores -> Procs \cup {NoProc}],
            frame: [Cores -> Contexts], need_resched: [Cores -> {"no", "raised", "due"}],
            ipc_uid: 0 .. MaxCalls, last_uuid: Nat, log: Logs]

TypeOK == kernel \in Kernels

-----------------------------------------------------------------------------
(* Waking, switching and scheduling.                                        *)

Live(k, p) == proc_get(k.task[p])

Has(seq, x) == \E i \in DOMAIN seq : seq[i] = x

\* The state with another task record of p, or server record of s.
SetTask(k, p, t) == [k EXCEPT !.task = [q \in Procs |-> IF q = p THEN t ELSE k.task[q]]]
SetServer(k, s, v) == [k EXCEPT !.srv = [t \in Servers |-> IF t = s THEN v ELSE k.srv[t]]]

\* The queue without the members of Q.
Without(queue, Q) ==
    LET left[i \in 0 .. Len(queue)] ==
            IF i = 0 THEN <<>>
            ELSE IF queue[i] \in Q THEN left[i - 1] ELSE Append(left[i - 1], queue[i])
    IN  left[Len(queue)]

\* proc_ipc_cancel_wait(): the members of Q leave the admission queues.
proc_ipc_cancel_wait(k, Q) ==
    [k EXCEPT !.srv = [s \in Servers |-> [k.srv[s] EXCEPT !.waitq = Without(@, Q)]]]

\* Unless a dispatch is armed, the saved main state becomes READY, too.
WakeSaved(k, Q) ==
    [k EXCEPT !.srv = [s \in Servers |->
                          IF s \in Q /\ ~k.srv[s].do_switch
                          THEN [k.srv[s] EXCEPT !.saved.state = "READY"]
                          ELSE k.srv[s]]]

\* proc_wakeup() of the members of Q that are alive.
proc_wakeup(k, Q) ==
    LET L == {p \in Q : Live(k, p)} IN
    [WakeSaved(proc_ipc_cancel_wait(k, L), L) EXCEPT
        !.task = [p \in Procs |-> IF p \in L THEN proc_wakeup_by(k.task[p], Generic)
                                  ELSE k.task[p]]]

\* proc_wakeup_all_state(), for a task about to be dispatched.
proc_wakeup_all_state(k, p) == WakeSaved(SetTask(k, p, proc_ready(k.task[p])), {p})

\* Mutant: the registers of the main context are not kept.
Inject_unsaved(k, s) ==
    IF s \notin Servers THEN k
    ELSE IF ~k.srv[s].do_switch THEN k
    ELSE IF k.srv[s].ring = <<>>
    THEN SetServer(k, s, [k.srv[s] EXCEPT !.do_switch = FALSE])
    ELSE [SetServer(k, s, [k.srv[s] EXCEPT !.do_switch = FALSE]) EXCEPT
             !.ctx[s] = HandlerCtx(Head(k.srv[s].ring).uid)]

\* proc_switch(): the part that turns the context of a server into a handler.
Inject(k, s) ==
    IF s \notin Servers THEN k
    ELSE IF ~k.srv[s].do_switch THEN k
    ELSE IF k.srv[s].ring = <<>>
    THEN SetServer(k, s, [k.srv[s] EXCEPT !.do_switch = FALSE])
    ELSE [SetServer(k, s, [k.srv[s] EXCEPT !.do_switch = FALSE, !.saved.ctx = k.ctx[s]]) EXCEPT
             !.ctx[s] = HandlerCtx(Head(k.srv[s].ring).uid)]

\* Mutant: the frame is stored over the context the watchdog restored.
Store_always(k, c) ==
    LET p == k.cur[c] IN
    IF p = NoProc \/ ~Live(k, p) THEN k
    ELSE [k EXCEPT !.ctx[p] = k.frame[c]]

\* proc_switch(): the part that stores the context of the outgoing task p.
Store(k, c) ==
    LET p == k.cur[c] IN
    IF p = NoProc \/ ~Live(k, p) THEN k
    ELSE IF p \in Servers /\ k.srv[p].restore_pending
    THEN SetServer(k, p, [k.srv[p] EXCEPT !.restore_pending = FALSE])
    ELSE [k EXCEPT !.ctx[p] = k.frame[c]]

\* A running task that is switched out is queued again.
Requeue(k, c, to) ==
    LET p == k.cur[c] IN
    IF p \notin {NoProc, to} /\ k.task[p].state = "RUNNING"
    THEN SetTask(k, p, proc_ready(k.task[p])) ELSE k

proc_switch(k, c, to) ==
    LET k1 == Requeue(Inject(Store(k, c), to), c, to) IN
    IF to = NoProc
    THEN [k1 EXCEPT !.cur[c] = NoProc, !.frame[c] = ZeroCtx]
    ELSE [SetTask(k1, to, [k1.task[to] EXCEPT !.state = "RUNNING"]) EXCEPT
             !.cur[c] = to, !.frame[c] = k1.ctx[to]]

\* The ready queue is abstracted to the set of its members.
Ready(k, c) ==
    {p \in Procs : /\ Core[p] = c
                   /\ \/ k.task[p].state = "READY"
                      \/ k.task[p].state = "RUNNING" /\ k.cur[c] = p}

schedule(k, c) ==
    {proc_switch(k, c, to) : to \in IF Ready(k, c) = {} THEN {NoProc} ELSE Ready(k, c)}

\* proc_switch_multi_core(): the cpu goes straight to a task of the same core,
\* a task of another core is woken and that core interrupted.
proc_switch_multi_core(k, c, to) ==
    IF Core[to] # c THEN proc_wakeup(k, {to})
    ELSE IF k.task[to].state = "RUNNING" THEN proc_switch(k, c, to)
    ELSE proc_switch(proc_wakeup_all_state(k, to), c, to)

\* proc_block() of the task that runs on c.
proc_block(k, c) ==
    LET t == proc_block_by(k.task[k.cur[c]], Generic)
        k1 == SetTask(k, k.cur[c], t)
    IN  IF t.state = "BLOCK" THEN schedule(k1, c) ELSE {k1}

\* proc_unready() of the task that runs on c, then schedule().
Sleep(k, c, state) ==
    LET t == proc_unready(k.task[k.cur[c]], state)
        slept == IF state = "SLEEPING" THEN [t EXCEPT !.sleep_counter = TRUE] ELSE t
    IN  schedule(SetTask(k, k.cur[c], slept), c)

-----------------------------------------------------------------------------
(* Service: saving and restoring the main context, the request ring.        *)

\* Mutant: a request that arrives while the server sleeps forgets the sleep.
proc_save_state_ready(k, s) ==
    SetServer(k, s, [k.srv[s] EXCEPT !.saved.state = "READY", !.saved.res = k.res[s]])

proc_save_state(k, s) ==
    SetServer(k, s, [k.srv[s] EXCEPT
        !.saved = [@ EXCEPT !.state = k.task[s].state,
                            !.sleep_counter = k.task[s].sleep_counter, !.res = k.res[s]]])

\* Everything but the registers, which go to the frame or to proc->ctx.
proc_restore_state(k, s) ==
    LET v == k.srv[s].saved
        k1 == SetTask(k, s, [k.task[s] EXCEPT !.state = v.state,
                                              !.sleep_counter = v.sleep_counter])
    IN  [SetServer(k1, s, [k.srv[s] EXCEPT !.saved = NoSaved]) EXCEPT !.res[s] = v.res]

\* Mutant: a pid is taken for the process that had it.
ClientOf_pid(k, r) == IF Live(k, r.client) THEN {r.client} ELSE {}

\* proc_ipc_get_client(): the process that asked, unless its pid was reused.
ClientOf(k, r) ==
    IF Live(k, r.client) /\ k.uuid[r.client] = r.uuid THEN {r.client} ELSE {}

proc_ipc_do_task(k, c, s) ==
    LET k1 == proc_save_state(k, s)
        v == [k1.srv[s] EXCEPT !.do_switch = TRUE, !.restore_pending = FALSE]
    IN  proc_switch_multi_core(SetServer(k1, s, v), c, s)

\* Mutant: the request stays in the ring.
proc_ipc_close_kept(k, s) == k

proc_ipc_close(k, s) == SetServer(k, s, [k.srv[s] EXCEPT !.ring = Tail(@)])

\* proc_ipc_wakeup(): let waiters in, as many as there is room for and at most
\* a batch; those that are awake already are dropped without counting.
proc_ipc_wakeup(k, s) ==
    LET q == k.srv[s].waitq
        room == IPC_CTX_MAX - Len(k.srv[s].ring)
        budget == IF room > IPC_WAKE_BATCH_LIMIT THEN IPC_WAKE_BATCH_LIMIT ELSE room
        asleep == {i \in DOMAIN q : k.task[q[i]].state \in Asleep}
        popped == {i \in DOMAIN q : Cardinality({j \in asleep : j < i}) < budget}
        rest == SubSeq(q, Cardinality(popped) + 1, Len(q))
    IN  proc_wakeup(SetServer(k, s, [k.srv[s] EXCEPT !.waitq = rest]),
                    {q[i] : i \in popped \cap asleep})

-----------------------------------------------------------------------------
(* The system calls, made by the task that runs on core c.                  *)

\* libc's ipc_call() is over; a handler goes on to its reply.
Back(f) == [f EXCEPT !.pc = IF f.mode = "handler" THEN "reply" ELSE "run",
                     !.to = NoProc, !.uid = 0, !.ret = FALSE]

\* proc_ipc_wait(): queue for admission and block.  Its re-check of the server
\* under the server lock cannot succeed: kernel_lock is held since the first.
proc_ipc_wait(k, c, s) ==
    LET p == k.cur[c]
        elsewhere == \E r \in Servers \ {s} : Has(k.srv[r].waitq, p)
        k1 == IF elsewhere THEN proc_ipc_cancel_wait(k, {p}) ELSE k
    IN  proc_block(IF Has(k1.srv[s].waitq, p) THEN k1
                   ELSE SetServer(k1, s, [k1.srv[s] EXCEPT !.waitq = Append(@, p)]), c)

\* proc_ipc_req(): a request of p at the tail of the ring of s.
proc_ipc_req(k, s, p, ret) ==
    LET uid == k.ipc_uid + 1
        r == [uid |-> uid, client |-> p, uuid |-> k.uuid[p], ret |-> ret]
    IN  [SetServer(k, s, [k.srv[s] EXCEPT !.ring = Append(@, r)]) EXCEPT
            !.ipc_uid = uid, !.log.asked[uid] = <<p, k.uuid[p]>>]

\* The server does not accept requests now.
Closed(k, s) == k.srv[s].disabled \/ Len(k.srv[s].ring) >= IPC_CTX_MAX

\* IPC_ERROR_RETRY makes libc call again (pc = "call"), a uid makes it wait for
\* the reply (pc = "wait").
proc_ipc_call(k, c, s, ret) ==
    LET p == k.cur[c]
        calling == [k EXCEPT !.frame[c] = [k.frame[c] EXCEPT !.pc = "call", !.to = s, !.ret = ret]]
        k1 == [proc_ipc_req(k, s, p, ret) EXCEPT
                  !.res[p] = [k.res[p] EXCEPT !.state = "BUSY"],
                  !.frame[c] = IF ret THEN [calling.frame[c] EXCEPT !.pc = "wait",
                                                !.uid = k.ipc_uid + 1]
                               ELSE Back(k.frame[c])]
    IN  IF ~Live(k, s) THEN {[k EXCEPT !.frame[c] = Back(k.frame[c])]}
        ELSE IF Closed(k, s) THEN proc_ipc_wait(calling, c, s)
        ELSE IF k.srv[s].ring = <<>> THEN {proc_ipc_do_task(k1, c, s)}
        ELSE {k1}

\* proc_ipc_find_task() and proc_ipc_get_client(): is the request of f pending?
Pending(k, c) ==
    LET f == k.frame[c] IN
    /\ Live(k, f.to)
    /\ \E i \in DOMAIN k.srv[f.to].ring : LET r == k.srv[f.to].ring[i] IN
          r.uid = f.uid /\ ClientOf(k, r) = {k.cur[c]}

proc_ipc_get_return(k, c) ==
    LET p == k.cur[c]
        f == k.frame[c]
        failed == [k EXCEPT !.frame[c] = Back(f), !.log.failed = @ \cup {f.uid}]
    IN  IF k.res[p].state # "RETURN"
        THEN IF Pending(k, c) THEN proc_block(k, c) ELSE {failed}
        ELSE IF k.res[p].uid # f.uid THEN {failed}
        ELSE {[k EXCEPT !.frame[c] = Back(f), !.res[p] = NoResult]}

\* proc_ipc_serving_task(): the head of the ring, if it is the request asked for.
Serving(k, c) ==
    LET r == k.srv[k.cur[c]].ring IN r # <<>> /\ Head(r).uid = k.frame[c].serving

proc_ipc_get_arg(k, c) ==
    [k EXCEPT !.frame[c].pc = IF Serving(k, c) THEN "body" ELSE "end"]

\* proc_ipc_set_return(): publish the reply; the client is woken by ipc_end.
proc_ipc_set_return(k, c) ==
    LET r == Head(k.srv[k.cur[c]].ring)
        to == IF Serving(k, c) /\ r.ret THEN ClientOf(k, r) ELSE {}
    IN  [k EXCEPT !.frame[c].pc = "end",
                  !.res = [p \in Procs |-> IF p \in to THEN [uid |-> r.uid, state |-> "RETURN"]
                                           ELSE k.res[p]],
                  !.log.answered = IF to = {} THEN @ ELSE @ \cup {r.uid}]

\* proc_ipc_end(), up to the point where the request is closed: put the main
\* context back; a main context that was blocked is made READY.
EndService(k, c) ==
    LET s == k.cur[c]
        main == k.srv[s].saved.ctx
        k1 == proc_restore_state(k, s)
        k2 == SetServer(k1, s, [k1.srv[s] EXCEPT !.restore_pending = FALSE])
        state == IF k2.task[s].state \in Runnable \cup {"BLOCK"} THEN "READY"
                 ELSE k2.task[s].state
        k3 == [SetTask(k2, s, [k2.task[s] EXCEPT !.state = state]) EXCEPT !.frame[c] = main]
    IN  proc_ipc_wakeup(proc_ipc_close(k3, s), s)

ToWake(k, r) == IF r.ret THEN ClientOf(k, r) ELSE {}

proc_ipc_end(k, c) ==
    LET s == k.cur[c]
        r == Head(k.srv[s].ring)
        to == ToWake(k, r)
        k1 == proc_wakeup(EndService(k, c), to)
        more == k1.srv[s].ring # <<>>
    IN  IF k.srv[s].ring = <<>> THEN {k}
        ELSE IF to # {} /\ s \notin NonBlock /\ ~more /\ Core[r.client] = c
        THEN {proc_switch_multi_core(k1, c, r.client)}
        ELSE IF more THEN {proc_ipc_do_task(k1, c, s)}
        ELSE schedule(k1, c)

proc_ipc_disable(k, s) == SetServer(k, s, [k.srv[s] EXCEPT !.disabled = TRUE])

\* Mutant: nobody is told that the server is open again.
proc_ipc_enable_quiet(k, s) == SetServer(k, s, [k.srv[s] EXCEPT !.disabled = FALSE])

proc_ipc_enable(k, s) ==
    proc_ipc_wakeup(SetServer(k, s, [k.srv[s] EXCEPT !.disabled = FALSE]), s)

-----------------------------------------------------------------------------
(* The watchdog and the end of a process.                                   *)

\* proc_resume_after_timeout()
Resume(k, s) ==
    IF k.task[s].state \in Runnable THEN SetTask(k, s, proc_ready(k.task[s]))
    ELSE IF k.task[s].state \in Asleep THEN proc_wakeup(k, {s}) ELSE k

\* The reply slot of the client of an abandoned request r.
Withdraw(k, r) ==
    [k EXCEPT !.res = [p \in Procs |-> IF p \in ClientOf(k, r) /\ k.res[p].uid = r.uid
                                       THEN NoResult ELSE k.res[p]],
              !.log.answered = @ \ {r.uid}]

Abort(k, r) == proc_wakeup(Withdraw(k, r), ClientOf(k, r))

\* proc_ipc_timeout(): give up the request at the head of the ring of s, put
\* the main context back, arm the next request and interrupt the server's core.
proc_ipc_timeout(k, s) ==
    LET r == Head(k.srv[s].ring)
        main == k.srv[s].saved.ctx
        k0 == proc_restore_state(k, s)
        v == [k0.srv[s] EXCEPT !.do_switch = FALSE, !.restore_pending = TRUE]
        k1 == Resume([SetServer(k0, s, v) EXCEPT !.ctx[s] = main], s)
        k2 == proc_ipc_wakeup(Abort(proc_ipc_close(k1, s), r), s)
        k3 == proc_save_state(k2, s)
        k4 == IF k2.srv[s].ring = <<>> THEN k2
              ELSE Resume(SetServer(k3, s, [k3.srv[s] EXCEPT !.do_switch = TRUE]), s)
    IN  IF Core[s] = 0 THEN k4 ELSE [k4 EXCEPT !.need_resched[Core[s]] = "raised"]

\* proc_ipc_clear(): who waits for a reply of s, and the slot it finds then.
ReplyWaiters(k, s) ==
    LET ring == IF s \in Servers THEN k.srv[s].ring ELSE <<>>
    IN  {r \in {ring[i] : i \in DOMAIN ring} : r.ret /\ ClientOf(k, r) # {}}

\* Mutant: a reply that is already published is withdrawn.
Cleared_always(res, r) == IF res.uid = r.uid THEN NoResult ELSE res

Cleared(res, r) == IF res.uid = r.uid /\ res.state # "RETURN" THEN NoResult ELSE res

\* The server s, if p is one, without requests.
NoRequests(k, p) ==
    IF p \notin Servers THEN k
    ELSE SetServer(k, p, [k.srv[p] EXCEPT !.ring = <<>>, !.do_switch = FALSE,
                                          !.restore_pending = FALSE])

\* Mutant: only the requests are dropped.
proc_ipc_clear_silent(k, s) == NoRequests(k, s)

proc_ipc_clear(k, s) ==
    LET waiting == ReplyWaiters(k, s)
        clients == {r.client : r \in waiting}
        request(p) == CHOOSE r \in waiting : r.client = p
        k1 == [NoRequests(k, s) EXCEPT
                  !.res = [p \in Procs |-> IF p \in clients THEN Cleared(k.res[p], request(p))
                                           ELSE k.res[p]]]
    IN  proc_wakeup(k1, clients)

\* Mutant: the clients that wait for admission are forgotten.
proc_ipc_wakeup_all_none(k, s) == k

proc_ipc_wakeup_all(k, s) ==
    LET q == IF s \in Servers THEN k.srv[s].waitq ELSE <<>>
    IN  proc_wakeup(k, {q[i] : i \in DOMAIN q})

\* Mutant: the end of a process is not announced.
proc_wakeup_waiting_none(k, p) == k

proc_wakeup_waiting(k, p) ==
    LET W == {q \in Procs : k.task[q].state = "WAIT" /\ k.wait_for[q] = p} IN
    [k EXCEPT !.task = [q \in Procs |-> IF q \in W THEN proc_ready(k.task[q]) ELSE k.task[q]],
              !.wait_for = [q \in Procs |-> IF q \in W THEN NoProc ELSE k.wait_for[q]]]

\* proc_terminate() of a process.
proc_terminate(k, p) ==
    LET k0 == SetTask(k, p, proc_unready(k.task[p], "ZOMBIE"))
        k1 == proc_ipc_cancel_wait(k0, {p})
        k2 == proc_wakeup_waiting(proc_ipc_wakeup_all(proc_ipc_clear(k1, p), p), p)
    IN  [k2 EXCEPT !.uuid[p] = 0]

-----------------------------------------------------------------------------
(* Steps.                                                                   *)

\* The live process on core c is at this point of its code.  An interrupt that
\* was raised for the core stops user code, but not a system call that waits
\* for kernel_lock already: that one runs first (Trap), then the interrupt.
At(c, mode, pc) ==
    /\ kernel.cur[c] # NoProc /\ Live(kernel, kernel.cur[c])
    /\ kernel.need_resched[c] # "due"
    /\ kernel.frame[c].mode = mode /\ kernel.frame[c].pc = pc

Trap(c) == [kernel EXCEPT !.need_resched[c] = IF @ = "no" THEN @ ELSE "due"]
UserMode(c) == kernel.need_resched[c] = "no"

\* The timer (core 0) or an interrupt from another core.
Schedule(c) == kernel' \in schedule([kernel EXCEPT !.need_resched[c] = "no"], c)

\* The bounds of calls and of uids (a context that is set back calls again).
CallsLeft == kernel.log.calls < MaxCalls /\ kernel.ipc_uid < MaxCalls

\* ipc_call() begins, in a main context ...
Call(c) ==
    /\ At(c, "main", "run") /\ CallsLeft
    /\ \E s \in MainCalls[kernel.cur[c]], ret \in Kinds :
          kernel' \in proc_ipc_call([Trap(c) EXCEPT !.log.calls = @ + 1], c, s, ret)

\* ... or in a handler, whose work it is part of.
NestedCall(c) ==
    /\ At(c, "handler", "body") /\ CallsLeft
    /\ \E s \in HandlerCalls[kernel.cur[c]] :
          kernel' \in proc_ipc_call([Trap(c) EXCEPT !.log.calls = @ + 1,
                          !.log.worked[kernel.frame[c].serving] = @ + 1], c, s, TRUE)

\* libc's loops around SYS_IPC_CALL and SYS_IPC_GET_RETURN.
RetryCall(c) ==
    /\ \E mode \in {"main", "handler"} : At(c, mode, "call")
    /\ kernel.ipc_uid < MaxCalls
    /\ kernel' \in proc_ipc_call(Trap(c), c, kernel.frame[c].to, kernel.frame[c].ret)

GetReturn(c) ==
    /\ \E mode \in {"main", "handler"} : At(c, mode, "wait")
    /\ kernel' \in proc_ipc_get_return(Trap(c), c)

\* handle_ipc(): get the argument, do the work, publish the reply, end.
GetArg(c) == At(c, "handler", "entry") /\ kernel' = proc_ipc_get_arg(Trap(c), c)

Work(c) ==
    /\ At(c, "handler", "body") /\ UserMode(c)
    /\ kernel' = [kernel EXCEPT !.frame[c].pc = "reply",
                                !.log.worked[kernel.frame[c].serving] = @ + 1]

SetReturn(c) == At(c, "handler", "reply") /\ kernel' = proc_ipc_set_return(Trap(c), c)

End(c) == At(c, "handler", "end") /\ kernel' \in proc_ipc_end(Trap(c), c)

\* What a main context does besides calls.
MainStep(c) ==
    /\ "step" \in MainOps /\ At(c, "main", "run") /\ kernel.cur[c] \in Servers
    /\ UserMode(c) /\ kernel.frame[c].n < MaxSteps
    /\ kernel' = [kernel EXCEPT !.frame[c].n = @ + 1,
                                !.log.steps[kernel.cur[c]] = kernel.frame[c].n + 1]

\* proc_ipc_sync_serving(): some request is accepted, so its context is hijacked.
sync_serving(p) == p \in Servers /\ kernel.srv[p].ring # <<>>

sys_proc_block(c) ==
    /\ "block" \in MainOps /\ At(c, "main", "run") /\ kernel.cur[c] \in Servers
    /\ kernel' \in IF sync_serving(kernel.cur[c]) THEN schedule(Trap(c), c)
                   ELSE proc_block(Trap(c), c)

\* Handlers sleep, too (drivers poll their hardware).
sys_usleep(c) ==
    /\ "usleep" \in MainOps /\ kernel.cur[c] \in Servers
    /\ At(c, "main", "run") \/ At(c, "handler", "body")
    /\ kernel' \in Sleep([Trap(c) EXCEPT !.log.napping =
           IF At(c, "main", "run") THEN @ \cup {kernel.cur[c]} ELSE @], c, "SLEEPING")

proc_waitpid(c) ==
    /\ At(c, "main", "run")
    /\ (IF kernel.cur[c] \in Servers THEN "reap" ELSE "waitpid") \in MainOps
    /\ \E p \in Mortal \ {kernel.cur[c]} :
          /\ Live(kernel, p)
          /\ kernel' \in Sleep([Trap(c) EXCEPT !.wait_for[kernel.cur[c]] = p], c, "WAIT")

\* libc's ipc_disable() tries until no request is accepted.
Disable(c) ==
    /\ "disable" \in MainOps /\ At(c, "main", "run") /\ kernel.cur[c] \in Servers
    /\ kernel.srv[kernel.cur[c]].ring = <<>> /\ ~kernel.srv[kernel.cur[c]].disabled
    /\ kernel' = proc_ipc_disable(Trap(c), kernel.cur[c])

Enable(c) ==
    /\ At(c, "main", "run") /\ kernel.cur[c] \in Servers
    /\ kernel.srv[kernel.cur[c]].disabled
    /\ kernel' = proc_ipc_enable(Trap(c), kernel.cur[c])

\* The deadline of a sleep passes.
Timer(p) ==
    /\ CanExpire(kernel.task[p])
    /\ kernel' = [kernel EXCEPT !.task[p] = renew_sleep_counter(kernel.task[p]),
           !.log.napping = IF kernel.ctx[p].mode = "main" THEN @ \ {p} ELSE @]

\* SYS_WAKEUP from somebody else: the event a blocked main context waits for.
Event(p) ==
    /\ p \in Servers /\ "block" \in MainOps /\ Live(kernel, p)
    /\ kernel' = [proc_wakeup(kernel, {p}) EXCEPT !.log.napping = @ \ {p}]

\* renew_ipc_counter(), in the timer interrupt of core 0: the service has been
\* runnable for IPC_TIMEOUT_USEC (10 s, so that the server was dispatched and
\* its handler has begun).  The interrupt ends in schedule().
IpcTimeout(s) ==
    /\ Watchdog /\ kernel.srv[s].ring # <<>> /\ kernel.task[s].state \in Runnable
    /\ ~kernel.srv[s].do_switch
    /\ kernel' \in schedule(proc_ipc_timeout(kernel, s), 0)

\* exit, or a fatal fault, of the process that runs.
Exit(p) ==
    /\ p \in Mortal /\ Live(kernel, p) /\ kernel.cur[Core[p]] = p
    /\ kernel.need_resched[Core[p]] # "due"
    /\ kernel' \in schedule(proc_terminate(Trap(Core[p]), p), Core[p])

\* sys_signal(): the process on core c kills one that sleeps.
Kill(c, p) ==
    /\ p \in Mortal /\ kernel.task[p].state \in Asleep
    /\ At(c, "main", "run")
    /\ kernel' \in schedule(proc_terminate(Trap(c), p), c)

\* The pid of a dead process is used again (fork after the funeral).
Spawn(p) ==
    /\ ~Live(kernel, p) /\ kernel.cur[Core[p]] # p /\ kernel.last_uuid < MaxUuid
    /\ kernel' = [kernel EXCEPT
           !.task[p] = NewTask("READY"), !.ctx[p] = MainCtx, !.res[p] = NoResult,
           !.wait_for[p] = NoProc, !.last_uuid = @ + 1,
           !.uuid[p] = kernel.last_uuid + 1, !.log.steps[p] = 0, !.log.napping = @ \ {p},
           !.srv = [s \in Servers |-> IF s = p THEN NewServer ELSE kernel.srv[s]]]

\* The code of handlers and of libc's loops, which goes on by itself.
Proceed(c) ==
    \/ RetryCall(c) \/ GetReturn(c) \/ GetArg(c) \/ Work(c) \/ SetReturn(c) \/ End(c)

Next ==
    \/ \E c \in Cores :
          \/ Schedule(c) \/ Proceed(c) \/ Call(c) \/ NestedCall(c)
          \/ MainStep(c) \/ sys_proc_block(c) \/ sys_usleep(c) \/ proc_waitpid(c)
          \/ Disable(c) \/ Enable(c)
    \/ \E p \in Procs :
          \/ Timer(p) \/ Event(p) \/ Exit(p) \/ Spawn(p)
          \/ \E c \in Cores : Kill(c, p)
    \/ \E s \in Servers : IpcTimeout(s)

Spec == Init /\ [][Next]_kernel

-----------------------------------------------------------------------------
(* Properties.                                                              *)

\* The context p executes, or will execute when it is dispatched.
Exec(p) == IF kernel.cur[Core[p]] = p THEN kernel.frame[Core[p]] ELSE kernel.ctx[p]

\* A handler context always serves the request at the head of the ring: this is
\* what lets proc_ipc_end() close "the head" without being told which request
\* its caller served.
HandlerOwnsHead ==
    \A s \in Servers : Live(kernel, s) /\ Exec(s).mode = "handler" =>
        /\ kernel.srv[s].ring # <<>>
        /\ Head(kernel.srv[s].ring).uid = Exec(s).serving

\* Wherever SYS_IPC_END can execute, it closes the request its caller has
\* served, not a later one (proc_ipc_serving_task is meant to check that).
EndsOwnRequest ==
    \A c \in Cores : At(c, "handler", "end") =>
        kernel.srv[kernel.cur[c]].ring = <<>> \/ Serving(kernel, c)

\* The main context of a server is never lost or set back: it executes, or it
\* is kept in saved_state, with all the work it has done.
MainContextKept ==
    \A s \in Servers : Live(kernel, s) =>
        LET main == IF Exec(s).mode = "main" THEN Exec(s) ELSE kernel.srv[s].saved.ctx
        IN  main.mode = "main" /\ main.n = kernel.log.steps[s]

\* The work of a request is done at most once.
AtMostOnce == \A u \in Uids : kernel.log.worked[u] <= 1

\* A process asleep in ipc_call() has something to wait for: its request is in
\* the ring of a live server, or the process is in a live server's wait queue.
CallerAttended ==
    \A p \in Procs : kernel.task[p].state = "BLOCK" =>
        /\ Exec(p).pc = "wait" =>
              /\ Live(kernel, Exec(p).to)
              /\ LET ring == kernel.srv[Exec(p).to].ring IN \E i \in DOMAIN ring :
                    ring[i].uid = Exec(p).uid /\ ring[i].client = p
        /\ Exec(p).pc = "call" =>
              Live(kernel, Exec(p).to) /\ Has(kernel.srv[Exec(p).to].waitq, p)

\* A reply that a handler has published, and no watchdog withdrawn, is not
\* reported to the caller as a failed call.
AnsweredNotFailed == kernel.log.answered \cap kernel.log.failed = {}

\* A reply only ever reaches the process that asked, not a later one with the
\* same pid (proc_ipc_get_client).
ReplyToAsker ==
    \A p \in Procs : Live(kernel, p) /\ kernel.res[p].state = "RETURN" =>
        kernel.log.asked[kernel.res[p].uid] = <<p, kernel.uuid[p]>>

\* Nobody waits for admission to a server that is open and idle, unless
\* somebody else is on the way in (whose ipc_end will wake the next batch).
NoForgottenWaiter ==
    \A s \in Servers : LET v == kernel.srv[s] IN
        v.waitq # <<>> /\ ~v.disabled /\ v.ring = <<>> =>
            \E p \in Procs : /\ Exec(p).pc = "call" /\ Exec(p).to = s
                             /\ kernel.task[p].state \in Runnable

\* Who waits in waitpid() waits for a process that is alive
\* (proc_wakeup_waiting wakes every waiter when it dies).
WaitsForLiving ==
    \A p \in Procs : kernel.task[p].state = "WAIT" => Live(kernel, kernel.wait_for[p])

\* Serving a request pauses the usleep() of the main context but does not cut
\* it short (proc_wakeup_all_state, proc_ipc_end).
SleepNotCut ==
    \A s \in Servers : s \in kernel.log.napping /\ kernel.cur[Core[s]] = s
                       => Exec(s).mode # "main"

-----------------------------------------------------------------------------
\* The handler and libc code of the running task goes on; a READY task is
\* dispatched again and again (FIFO ready queue, timer and interrupts between
\* cores).
Waiting(p) == kernel.task[p].state = "READY"
Dispatched(p) == Waiting(p) /\ kernel'.task[p].state = "RUNNING"

InCode(p) == kernel.cur[Core[p]] = p /\ Live(kernel, p) /\ Exec(p).pc # "run"
Advance(p) == InCode(p) /\ Proceed(Core[p])

FairSpec ==
    /\ Spec
    /\ \A p \in Procs : /\ []<>Waiting(p) => []<><<Dispatched(p)>>_kernel
                        /\ []<>InCode(p) => []<><<Advance(p)>>_kernel

\* Every ipc_call() of a client returns, also if the server dies meanwhile.
CallReturns ==
    \A p \in Procs \ Servers :
        Exec(p).pc \in {"call", "wait"} ~> Exec(p).pc = "run" \/ ~Live(kernel, p)
=============================================================================
