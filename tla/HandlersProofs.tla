-------------------------- MODULE HandlersProofs --------------------------
(***************************************************************************)
(* Proofs about Handlers, for any clients, any interrupts and any bounds:  *)
(* what the state of p is made of, that the scheduler finds p, that the    *)
(* devices are heard again, and that the three handlers nest as long as no *)
(* watchdog interferes and the father sends at most one signal.            *)
(***************************************************************************)
EXTENDS Handlers, TLAPS

-----------------------------------------------------------------------------
(* Contexts on top of one another, whatever they stand for.                *)

Kinds == {"intr", "sig", "ipc"}

\* The handlers A are in progress above the main context, c is on top, and each
\* handler h has interrupted u[h].
Nested(A, u, c) ==
    /\ c \in A \cup {"main"}
    /\ c = "main" => A = {}
    /\ \A h \in A : u[h] \in (A \cup {"main"}) \ {h, c}
    /\ \A g, h \in A : g # h => u[g] # u[h] /\ ~(u[g] = h /\ u[h] = g)

\* proc_switch() starts a handler: it is put on top of what p was doing.
LEMMA Push ==
    ASSUME NEW A \in SUBSET Kinds, NEW u, NEW v, NEW c, NEW h \in Kinds \ A,
           Nested(A, u, c), v[h] = c, \A g \in A : v[g] = u[g]
    PROVE  Nested(A \cup {h}, v, h)
<1>1. h # "main" /\ h # c
    BY DEF Kinds, Nested
<1>2. \A g \in A : v[g] \in (A \cup {"main"}) \ {g, c}
    BY DEF Nested
<1>3. \A g \in A : v[g] # h
    BY <1>1, <1>2
<1> QED BY <1>1, <1>2, <1>3 DEF Nested

\* interrupt_end(), proc_signal_end(), proc_ipc_end(): the handler on top goes.
LEMMA Pop ==
    ASSUME NEW A \in SUBSET Kinds, NEW u, NEW v, NEW h \in A,
           Nested(A, u, h), \A g \in A \ {h} : v[g] = u[g]
    PROVE  Nested(A \ {h}, v, u[h])
<1>1. u[h] \in (A \ {h}) \cup {"main"}
    BY DEF Nested
<1>2. ASSUME NEW g \in A \ {h}
      PROVE  v[g] \in ((A \ {h}) \cup {"main"}) \ {g, u[h]}
    BY <1>2 DEF Nested
<1>3. ASSUME u[h] = "main", NEW g \in A \ {h}
      PROVE  FALSE
    <2>1. u[g] \in A \ {g, h}
        BY <1>3 DEF Nested
    <2>2. PICK k \in A \ {g, h} : u[g] = k
        BY <2>1
    <2>3. u[k] \in A \ {g, h, k}
        BY <1>3, <2>2 DEF Nested
    <2> QED BY <2>2, <2>3, <1>3 DEF Kinds
<1>4. \A f, g \in A \ {h} : f # g => v[f] # v[g] /\ ~(v[f] = g /\ v[g] = f)
    BY DEF Nested
<1> QED BY <1>1, <1>2, <1>3, <1>4 DEF Nested

\* The handlers in progress, ended one after the other, lead to the main context.
LEMMA Descent ==
    ASSUME NEW A \in SUBSET Kinds, NEW u, NEW c, Nested(A, u, c)
    PROVE  LET d(f) == IF f \in A THEN u[f] ELSE f
           IN  {c, d(c), d(d(c)), d(d(d(c)))} = A \cup {"main"}
<1> DEFINE d(f) == IF f \in A THEN u[f] ELSE f
<1>1. CASE A = {}
    BY <1>1 DEF Nested
<1>2. CASE A # {}
    <2>1. c \in A /\ "main" \notin A
        BY <1>2 DEF Nested, Kinds
    <2>2. CASE u[c] = "main"
        <3>1. A = {c}
            <4>1. Nested(A \ {c}, u, u[c])
                BY <2>1, Pop
            <4> QED BY <2>1, <2>2, <4>1 DEF Nested
        <3> QED BY <2>1, <2>2, <3>1
    <2>3. CASE u[c] # "main"
        <3>1. PICK b \in A \ {c} : u[c] = b
            BY <2>1, <2>3 DEF Nested
        <3>2. CASE u[b] = "main"
            <4>1. Nested(A \ {c}, u, b)
                BY <2>1, <3>1, Pop
            <4>2. Nested((A \ {c}) \ {b}, u, u[b])
                BY <3>1, <4>1, Pop
            <4>3. A = {c, b}
                BY <2>1, <3>1, <3>2, <4>2 DEF Nested
            <4> QED BY <2>1, <3>1, <3>2, <4>3
        <3>3. CASE u[b] # "main"
            <4>1. PICK a \in A \ {b, c} : u[b] = a
                BY <2>1, <3>1, <3>3 DEF Nested
            <4>2. A = {a, b, c}
                BY <2>1, <3>1, <4>1 DEF Kinds
            <4>3. u[a] = "main"
                BY <2>1, <3>1, <4>1, <4>2 DEF Nested
            <4> QED BY <2>1, <3>1, <4>1, <4>2, <4>3
        <3> QED BY <3>2, <3>3
    <2> QED BY <2>2, <2>3
<1> QED BY <1>1, <1>2

-----------------------------------------------------------------------------
(* The handlers of a process.                                              *)

\* Those in progress: the interrupt's while its state is WORKING, the signal's
\* while it keeps a context, the request's while the ring holds a request that
\* is not still to be started.
Active(s) ==
    {h \in Kinds : \/ h = "intr" /\ s.interrupt.state = "WORKING"
                   \/ h = "sig" /\ s.signal.saved.ctx # "zero"
                   \/ h = "ipc" /\ s.ipc.ring # <<>> /\ ~s.ipc.do_switch}

\* What each has interrupted.
Under(s) ==
    [h \in Kinds |-> IF h = "intr" THEN s.interrupt.saved.ctx
                     ELSE IF h = "sig" THEN s.signal.saved.ctx
                     ELSE s.ipc.saved.ctx]

\* A state with which a process goes on.
Resumable(saved) == saved.state \notin {"UNUSED", "ZOMBIE"}

\* The books of p are in order, with the context c on top: no watchdog is at
\* work, a handler in progress or to be started has saved a proper state, none is
\* to be started twice, and the contexts nest.
Good(s, c) ==
    /\ ~s.interrupt.restore_pending /\ ~s.ipc.restore_pending
    /\ s.interrupt.state # "IDLE" => Resumable(s.interrupt.saved)
    /\ s.signal.do_switch \/ "sig" \in Active(s) => Resumable(s.signal.saved)
    /\ s.signal.do_switch => "sig" \notin Active(s)
    /\ s.ipc.ring # <<>> => Resumable(s.ipc.saved)
    /\ s.ipc.do_switch => s.ipc.ring # <<>>
    /\ Nested(Active(s), Under(s), c)

\* p is where the scheduler looks for it.
Found(s) ==
    /\ s.task.state = "READY" => s.queued
    /\ s.task.state = "RUNNING" => s.queued \/ s.current

\* t keeps the handlers of s, and a saved state of t resumes if that of s does.
Alike(s, t) ==
    /\ t.interrupt.state = s.interrupt.state /\ t.interrupt.irq = s.interrupt.irq
    /\ t.interrupt.restore_pending = s.interrupt.restore_pending
    /\ t.interrupt.saved.ctx = s.interrupt.saved.ctx
    /\ Resumable(s.interrupt.saved) => Resumable(t.interrupt.saved)
    /\ t.signal.do_switch = s.signal.do_switch
    /\ t.signal.saved.ctx = s.signal.saved.ctx
    /\ Resumable(s.signal.saved) => Resumable(t.signal.saved)
    /\ t.ipc.ring = s.ipc.ring /\ t.ipc.do_switch = s.ipc.do_switch
    /\ t.ipc.restore_pending = s.ipc.restore_pending
    /\ t.ipc.saved.ctx = s.ipc.saved.ctx
    /\ Resumable(s.ipc.saved) => Resumable(t.ipc.saved)

\* Such a change keeps the books in order.
LEMMA AlikeGood ==
    ASSUME NEW s, NEW t, NEW c, Alike(s, t), Good(s, c)
    PROVE  Good(t, c) /\ Active(t) = Active(s)
<1>1. Active(t) = Active(s)
    BY DEF Alike, Active
<1>2. Under(t) = Under(s)
    BY DEF Alike, Under
<1> QED BY <1>1, <1>2 DEF Good, Alike

-----------------------------------------------------------------------------
(* Readying, waking and switching.                                         *)

\* proc_ready(): p is in the ready queue, and nothing else is different.
LEMMA ReadyFacts ==
    ASSUME NEW s \in Process
    PROVE  /\ Ready(s) \in Process
           /\ Ready(s).task.state = "READY" /\ Ready(s).queued
           /\ Ready(s).current = s.current /\ Ready(s).regs = s.regs /\ Ready(s).ctx = s.ctx
           /\ Ready(s).interrupt = s.interrupt /\ Ready(s).signal = s.signal
           /\ Ready(s).ipc = s.ipc
BY DEF Ready, proc_ready, Process, Task, States

\* proc_wakeup_all_state(): the same, and the saved states can be resumed.
LEMMA WakeAllFacts ==
    ASSUME NEW s \in Process
    PROVE  LET t == proc_wakeup_all_state(s) IN
           /\ t \in Process
           /\ t.task.state = "READY" /\ t.queued
           /\ t.current = s.current /\ t.regs = s.regs /\ t.ctx = s.ctx
           /\ Alike(s, t)
<1> DEFINE r == Ready(s)
           t == proc_wakeup_all_state(s)
<1>1. r \in Process
    BY ReadyFacts
<1>2. t = [r EXCEPT !.signal.saved.state = "READY", !.interrupt.saved.state = "READY",
                    !.ipc.saved.state = IF s.ipc.do_switch THEN @ ELSE "READY"]
    BY DEF proc_wakeup_all_state
<1> HIDE DEF r, t
<1>3. t \in Process
    <2>1. t.signal \in Signal
        BY <1>1, <1>2 DEF Process, Signal, Saved, States
    <2>2. t.interrupt \in Interrupt
        BY <1>1, <1>2 DEF Process, Interrupt, Saved, States
    <2>3. t.ipc \in Ipc
        BY <1>1, <1>2 DEF Process, Ipc, Saved, States
    <2>4. t = [r EXCEPT !.signal = t.signal, !.interrupt = t.interrupt, !.ipc = t.ipc]
        BY <1>1, <1>2 DEF Process
    <2> QED BY <1>1, <2>1, <2>2, <2>3, <2>4 DEF Process
<1>4. t.task = r.task /\ t.queued = r.queued /\ t.current = r.current
      /\ t.regs = r.regs /\ t.ctx = r.ctx
    BY <1>1, <1>2 DEF Process
<1>5. Alike(r, t)
    BY <1>1, <1>2 DEF Process, Interrupt, Signal, Ipc, Saved, Alike, Resumable
<1>6. Alike(s, t)
    BY <1>5, ReadyFacts DEF Alike, r
<1> QED BY <1>3, <1>4, <1>6, ReadyFacts DEF r, t

\* proc_wakeup() of a process that is there: it is ready afterwards.
LEMMA WakeupFacts ==
    ASSUME NEW s \in Process, Alive(s)
    PROVE  LET t == proc_wakeup(s) IN
           /\ t \in Process
           /\ t.task.state = "READY" /\ t.queued
           /\ t.current = s.current /\ t.regs = s.regs /\ t.ctx = s.ctx
           /\ Alike(s, t)
<1> DEFINE a == proc_wakeup_all_state(s)
           w == proc_wakeup_by(s.task, Generic)
           t == [a EXCEPT !.task = w]
<1>1. proc_wakeup(s) = t
    BY DEF proc_wakeup
<1>2. w \in Task /\ w.state = "READY"
    <2>1. s.task.state # "ZOMBIE"
        BY DEF Alive, proc_get
    <2>2. s.task \in Task
        BY DEF Process
    <2>3. CASE s.task.state = "BLOCK"
        BY <2>2, <2>3 DEF proc_wakeup_by, NewTask, Task, Generic, States
    <2>4. CASE s.task.state # "BLOCK"
        BY <2>1, <2>2, <2>4 DEF proc_wakeup_by, latch, proc_ready, Task, Generic, States
    <2> QED BY <2>3, <2>4
<1>3. a \in Process /\ Alike(s, a) /\ a.queued
      /\ a.current = s.current /\ a.regs = s.regs /\ a.ctx = s.ctx
    BY WakeAllFacts
<1> HIDE DEF a, w
<1>4. t \in Process
    BY <1>2, <1>3 DEF Process
<1>5. t.task = w /\ t.queued = a.queued /\ t.current = a.current /\ t.regs = a.regs
      /\ t.ctx = a.ctx /\ t.interrupt = a.interrupt /\ t.signal = a.signal /\ t.ipc = a.ipc
    BY <1>3 DEF Process
<1>6. Alike(s, t)
    BY <1>3, <1>5 DEF Alike
<1> QED BY <1>1, <1>2, <1>3, <1>4, <1>5, <1>6

\* proc_switch(), the task that leaves the cpu, if no watchdog is at work.
LEMMA StoreFacts ==
    ASSUME NEW s \in Process
    PROVE  /\ Store(s) \in Process
           /\ Store(s).task = s.task /\ Store(s).queued = s.queued
           /\ Store(s).current = s.current
           /\ Store(s).interrupt.state = s.interrupt.state
           /\ Store(s).interrupt.irq = s.interrupt.irq
           /\ ~s.interrupt.restore_pending /\ ~s.ipc.restore_pending =>
                 Alike(s, Store(s)) /\ Store(s).ctx = s.regs
<1>1. CASE s.interrupt.restore_pending \/ s.ipc.restore_pending
    <2>1. Store(s) = [s EXCEPT !.regs = s.ctx, !.interrupt.restore_pending = FALSE,
                               !.ipc.restore_pending = FALSE]
        BY <1>1 DEF Store
    <2>2. Store(s).interrupt = [s.interrupt EXCEPT !.restore_pending = FALSE]
          /\ Store(s).ipc = [s.ipc EXCEPT !.restore_pending = FALSE]
        BY <2>1 DEF Process
    <2>3. Store(s).interrupt \in Interrupt /\ Store(s).ipc \in Ipc
          /\ Store(s).interrupt.state = s.interrupt.state
          /\ Store(s).interrupt.irq = s.interrupt.irq
        BY <2>2 DEF Process, Interrupt, Ipc
    <2>4. Store(s) = [s EXCEPT !.regs = s.ctx, !.interrupt = Store(s).interrupt,
                               !.ipc = Store(s).ipc]
        BY <2>1 DEF Process
    <2> QED BY <1>1, <2>3, <2>4 DEF Process
<1>2. CASE ~(s.interrupt.restore_pending \/ s.ipc.restore_pending)
    <2>1. Store(s) = [s EXCEPT !.ctx = s.regs]
        BY <1>2 DEF Store
    <2> QED BY <1>2, <2>1 DEF Process, Alike
<1> QED BY <1>1, <1>2

\* ... and the one that gets it: a handler that is started is put on top.
LEMMA InjectFacts ==
    ASSUME NEW s \in Process
    PROVE  LET t == Inject(s) IN
           /\ t \in Process
           /\ t.interrupt.irq = s.interrupt.irq
           /\ t.interrupt.state = "IDLE" <=> s.interrupt.state = "IDLE"
           /\ Good(s, s.ctx) => /\ Good(t, t.ctx)
                                /\ ~s.signal.do_switch /\ "sig" \notin Active(s) =>
                                      ~t.signal.do_switch /\ "sig" \notin Active(t)
<1> DEFINE t == Inject(s)
<1>0. /\ s.interrupt \in Interrupt /\ s.signal \in Signal /\ s.ipc \in Ipc /\ s.ctx \in Frames
      /\ Active(s) \in SUBSET Kinds
    BY DEF Process, Active
<1>1. CASE s.interrupt.state = "START"
    <2> DEFINE x == [s.interrupt EXCEPT !.state = "WORKING", !.saved.ctx = s.ctx]
    <2>1. t = [s EXCEPT !.interrupt = x, !.ctx = "intr"]
        BY <1>1 DEF Inject
    <2>3. x \in Interrupt /\ x.irq = s.interrupt.irq /\ x.state = "WORKING"
          /\ x.saved.ctx = s.ctx /\ x.saved.state = s.interrupt.saved.state
          /\ x.restore_pending = s.interrupt.restore_pending
        BY <1>0 DEF Interrupt, Saved
    <2> HIDE DEF t, x
    <2>6. t.interrupt = x
        BY <2>1 DEF Process
    <2>2. t.interrupt \in Interrupt /\ t.interrupt.irq = s.interrupt.irq
          /\ t.interrupt.state = "WORKING" /\ t.interrupt.saved.ctx = s.ctx
          /\ t.interrupt.saved.state = s.interrupt.saved.state
          /\ t.interrupt.restore_pending = s.interrupt.restore_pending
        BY <2>3, <2>6
    <2>4. t \in Process /\ t.ctx = "intr" /\ t.signal = s.signal /\ t.ipc = s.ipc
        BY <2>1, <2>3 DEF Process, Frames
    <2>5. ASSUME Good(s, s.ctx)
          PROVE  Good(t, t.ctx) /\ ("sig" \in Active(t) <=> "sig" \in Active(s))
        <3>1. "intr" \notin Active(s) /\ Active(t) = Active(s) \cup {"intr"}
            BY <1>1, <2>2, <2>4 DEF Active, Kinds
        <3>2. Under(t)["intr"] = s.ctx /\ \A g \in Active(s) : Under(t)[g] = Under(s)[g]
            BY <2>2, <2>4, <3>1 DEF Under, Kinds, Active
        <3>3. Nested(Active(t), Under(t), "intr")
            <4>1. "intr" \in Kinds \ Active(s) /\ Nested(Active(s), Under(s), s.ctx)
                BY <2>5, <3>1 DEF Good, Kinds
            <4> QED BY <1>0, <3>1, <3>2, <4>1, Push
        <3> QED BY <1>1, <2>2, <2>4, <2>5, <3>1, <3>3 DEF Good, Resumable
    <2> QED BY <1>1, <2>2, <2>4, <2>5 DEF t
<1>2. CASE s.interrupt.state # "START" /\ s.signal.do_switch
    <2> DEFINE x == [s.signal EXCEPT !.do_switch = FALSE, !.saved.ctx = s.ctx]
    <2>1. t = [s EXCEPT !.signal = x, !.ctx = "sig"]
        BY <1>2 DEF Inject
    <2>3. x \in Signal /\ ~x.do_switch /\ x.saved.ctx = s.ctx
          /\ x.saved.state = s.signal.saved.state
        BY <1>0 DEF Signal, Saved
    <2> HIDE DEF t, x
    <2>6. t.signal = x
        BY <2>1 DEF Process
    <2>2. t.signal \in Signal /\ ~t.signal.do_switch /\ t.signal.saved.ctx = s.ctx
          /\ t.signal.saved.state = s.signal.saved.state
        BY <2>3, <2>6
    <2>4. t \in Process /\ t.ctx = "sig" /\ t.interrupt = s.interrupt /\ t.ipc = s.ipc
        BY <2>1, <2>3 DEF Process, Frames
    <2>5. ASSUME Good(s, s.ctx)
          PROVE  Good(t, t.ctx)
        <3>1. s.ctx # "zero"
            BY <2>5 DEF Good, Nested, Active, Kinds
        <3>2. "sig" \notin Active(s) /\ Active(t) = Active(s) \cup {"sig"}
            BY <1>2, <2>2, <2>4, <2>5, <3>1 DEF Active, Kinds, Good
        <3>3. Under(t)["sig"] = s.ctx /\ \A g \in Active(s) : Under(t)[g] = Under(s)[g]
            BY <2>2, <2>4, <3>2 DEF Under, Kinds, Active
        <3>4. Nested(Active(t), Under(t), "sig")
            <4>1. "sig" \in Kinds \ Active(s) /\ Nested(Active(s), Under(s), s.ctx)
                BY <2>5, <3>2 DEF Good, Kinds
            <4> QED BY <1>0, <3>2, <3>3, <4>1, Push
        <3> QED BY <1>2, <2>2, <2>4, <2>5, <3>4 DEF Good, Resumable
    <2> QED BY <1>2, <2>2, <2>4, <2>5 DEF t
<1>3. CASE s.interrupt.state # "START" /\ ~s.signal.do_switch /\ s.ipc.do_switch
    <2> DEFINE x == IF s.ipc.ring = <<>> THEN [s.ipc EXCEPT !.do_switch = FALSE]
                    ELSE [s.ipc EXCEPT !.do_switch = FALSE, !.saved.ctx = s.ctx]
               y == IF s.ipc.ring = <<>> THEN s.ctx ELSE "ipc"
    <2>3. x \in Ipc /\ ~x.do_switch /\ x.ring = s.ipc.ring
          /\ (s.ipc.ring # <<>> => x.saved.ctx = s.ctx)
          /\ x.saved.state = s.ipc.saved.state /\ x.restore_pending = s.ipc.restore_pending
        <3>1. CASE s.ipc.ring = <<>>
            BY <1>0, <3>1 DEF Ipc, Saved
        <3>2. CASE s.ipc.ring # <<>>
            BY <1>0, <3>2 DEF Ipc, Saved
        <3> QED BY <3>1, <3>2
    <2>1. t = [s EXCEPT !.ipc = x, !.ctx = y]
        <3>1. CASE s.ipc.ring = <<>>
            <4>1. t = [s EXCEPT !.ipc = [@ EXCEPT !.do_switch = FALSE]]
                BY <1>3, <3>1 DEF Inject
            <4>2. t = [s EXCEPT !.ipc = x]
                BY <3>1, <4>1
            <4>3. y = s.ctx
                BY <3>1
            <4> HIDE DEF t, x, y
            <4> QED BY <4>2, <4>3 DEF Process
        <3>2. CASE s.ipc.ring # <<>>
            BY <1>3, <3>2 DEF Inject
        <3> QED BY <3>1, <3>2
    <2>8. y = IF s.ipc.ring = <<>> THEN s.ctx ELSE "ipc"
        OBVIOUS
    <2> HIDE DEF t, x, y
    <2>6. t.ipc = x
        BY <2>1 DEF Process
    <2>2. t.ipc \in Ipc /\ ~t.ipc.do_switch /\ t.ipc.ring = s.ipc.ring
          /\ (s.ipc.ring # <<>> => t.ipc.saved.ctx = s.ctx)
          /\ t.ipc.saved.state = s.ipc.saved.state
          /\ t.ipc.restore_pending = s.ipc.restore_pending
        BY <2>3, <2>6
    <2>4. t \in Process /\ t.ctx = (IF s.ipc.ring = <<>> THEN s.ctx ELSE "ipc")
          /\ t.interrupt = s.interrupt /\ t.signal = s.signal
        BY <2>1, <2>3, <2>8 DEF Process, Frames
    <2>5. ASSUME Good(s, s.ctx)
          PROVE  Good(t, t.ctx) /\ ("sig" \in Active(t) <=> "sig" \in Active(s))
        <3>1. s.ipc.ring # <<>> /\ t.ctx = "ipc"
            BY <1>3, <2>4, <2>5 DEF Good
        <3>2. "ipc" \notin Active(s) /\ Active(t) = Active(s) \cup {"ipc"}
            BY <1>3, <2>2, <2>4, <3>1 DEF Active, Kinds
        <3>3. Under(t)["ipc"] = s.ctx /\ \A g \in Active(s) : Under(t)[g] = Under(s)[g]
            BY <2>2, <2>4, <3>1, <3>2 DEF Under, Kinds, Active
        <3>4. Nested(Active(t), Under(t), "ipc")
            <4>1. "ipc" \in Kinds \ Active(s) /\ Nested(Active(s), Under(s), s.ctx)
                BY <2>5, <3>2 DEF Good, Kinds
            <4> QED BY <1>0, <3>2, <3>3, <4>1, Push
        <3> QED BY <1>3, <2>2, <2>4, <2>5, <3>1, <3>2, <3>4 DEF Good, Resumable
    <2> QED BY <1>3, <2>2, <2>4, <2>5 DEF t
<1>4. CASE s.interrupt.state # "START" /\ ~s.signal.do_switch /\ ~s.ipc.do_switch
    BY <1>4 DEF Inject
<1> QED BY <1>1, <1>2, <1>3, <1>4

\* The books are in order with what p executes or will resume with on top.
InOrder(s) == Good(s, Context(s))

\* No signal has arrived yet, or its handler has ended.
Unsignalled(s) == ~s.signal.do_switch /\ "sig" \notin Active(s)

\* What every way to wake and to switch p does.
Carries(s, t) ==
    /\ t \in Process /\ Found(t)
    /\ t.interrupt.irq = s.interrupt.irq
    /\ t.interrupt.state = "IDLE" <=> s.interrupt.state = "IDLE"
    /\ Alive(s) => Alive(t)
    /\ Alive(s) /\ InOrder(s) => InOrder(t) /\ (Unsignalled(s) => Unsignalled(t))

\* Steps of that kind compose with a change that leaves the handlers alone.
LEMMA AlikeCarries ==
    ASSUME NEW s, NEW t, NEW w, Alike(s, t), Carries(t, w), Alive(s) => Alive(t),
           InOrder(s) => Context(t) = Context(s)
    PROVE  Carries(s, w)
<1>1. t.interrupt.irq = s.interrupt.irq /\ t.interrupt.state = s.interrupt.state
    BY DEF Alike
<1>2. ASSUME InOrder(s)
      PROVE  InOrder(t) /\ (Unsignalled(s) => Unsignalled(t))
    <2>1. Good(t, Context(s)) /\ Active(t) = Active(s)
        BY <1>2, AlikeGood DEF InOrder
    <2> QED BY <1>2, <2>1 DEF InOrder, Unsignalled, Alike
<1> QED BY <1>1, <1>2 DEF Carries

\* proc_switch() to p: it runs, with the handler that was started, if any, on top.
LEMMA SwitchToFacts ==
    ASSUME NEW s \in Process
    PROVE  /\ Carries(s, SwitchTo(s))
           /\ SwitchTo(s).task.state = "RUNNING" /\ SwitchTo(s).current
<1> DEFINE r == IF s.current THEN Store(s) ELSE s
           i == Inject(r)
           t == [i EXCEPT !.task.state = "RUNNING", !.queued = FALSE, !.current = TRUE,
                          !.regs = i.ctx]
<1>1. SwitchTo(s) = t
    BY DEF SwitchTo
<1>2. /\ r \in Process /\ r.interrupt.irq = s.interrupt.irq
      /\ r.interrupt.state = s.interrupt.state
    BY StoreFacts
<1>3. /\ i \in Process /\ i.interrupt.irq = r.interrupt.irq
      /\ i.interrupt.state = "IDLE" <=> r.interrupt.state = "IDLE"
    BY <1>2, InjectFacts
<1>4. ASSUME InOrder(s)
      PROVE  Good(i, i.ctx) /\ (Unsignalled(s) => Unsignalled(i))
    <2>1. ~s.interrupt.restore_pending /\ ~s.ipc.restore_pending
        BY <1>4 DEF InOrder, Good
    <2>2. Alike(s, r) /\ r.ctx = Context(s)
        BY <2>1, StoreFacts DEF Alike, Context, Process
    <2>3. Good(r, r.ctx) /\ Active(r) = Active(s) /\ r.signal.do_switch = s.signal.do_switch
        BY <1>4, <2>2, AlikeGood DEF InOrder, Alike
    <2> QED BY <1>2, <2>3, InjectFacts DEF Unsignalled
<1> HIDE DEF r, i
<1>5. /\ t \in Process /\ t.task.state = "RUNNING" /\ t.current
      /\ t.interrupt = i.interrupt /\ t.signal = i.signal /\ t.ipc = i.ipc
      /\ t.regs = i.ctx /\ t.ctx = i.ctx
    BY <1>3 DEF Process, Task, States
<1>6. Context(t) = i.ctx
    BY <1>5 DEF Context
<1> HIDE DEF t
<1>7. ASSUME InOrder(s)
      PROVE  InOrder(t) /\ (Unsignalled(s) => Unsignalled(t))
    <2>1. Alike(i, t)
        BY <1>5 DEF Alike
    <2>2. Good(t, i.ctx) /\ Active(t) = Active(i)
        BY <1>4, <1>7, <2>1, AlikeGood
    <2> QED BY <1>4, <1>5, <1>6, <1>7, <2>2 DEF InOrder, Unsignalled
<1>8. Alive(t) /\ Found(t)
    BY <1>5 DEF Alive, proc_get, Found
<1> QED BY <1>1, <1>2, <1>3, <1>5, <1>7, <1>8 DEF Carries

\* proc_switch() from p: it resumes later what it was doing.
LEMMA SwitchAwayFacts ==
    ASSUME NEW s \in Process, Found(s)
    PROVE  Carries(s, SwitchAway(s))
<1> DEFINE r == IF Runs(s) THEN Store(s) ELSE s
           t == [r EXCEPT !.current = FALSE]
<1>1. SwitchAway(s) = IF Runs(s) /\ t.task.state = "RUNNING" THEN Ready(t) ELSE t
    BY DEF SwitchAway
<1>2. /\ r \in Process /\ r.interrupt.irq = s.interrupt.irq
      /\ r.interrupt.state = s.interrupt.state /\ r.task = s.task /\ r.queued = s.queued
    BY StoreFacts
<1>3. ASSUME InOrder(s), Alive(s)
      PROVE  Alike(s, r) /\ r.ctx = Context(s)
    <2>1. ~s.interrupt.restore_pending /\ ~s.ipc.restore_pending
        BY <1>3 DEF InOrder, Good
    <2> QED BY <1>3, <2>1, StoreFacts DEF Runs, Alike, Context, Process
<1> HIDE DEF r
<1>4. /\ t \in Process /\ ~t.current /\ t.task = r.task /\ t.queued = r.queued
      /\ t.ctx = r.ctx /\ t.interrupt = r.interrupt /\ t.signal = r.signal /\ t.ipc = r.ipc
    BY <1>2 DEF Process
<1> HIDE DEF t
<1> DEFINE w == SwitchAway(s)
<1>5. /\ w \in Process /\ ~w.current /\ w.ctx = t.ctx /\ w.interrupt = t.interrupt
      /\ w.signal = t.signal /\ w.ipc = t.ipc
    BY <1>1, <1>4, ReadyFacts
<1>6. Found(w) /\ (Alive(s) => Alive(w))
    <2>1. CASE Runs(s) /\ t.task.state = "RUNNING"
        BY <1>1, <1>4, <2>1, ReadyFacts DEF Found, Alive, proc_get
    <2>2. CASE ~(Runs(s) /\ t.task.state = "RUNNING")
        <3>1. w = t /\ w.task = s.task /\ w.queued = s.queued
            BY <1>1, <1>2, <1>4, <2>2
        <3> QED BY <1>2, <1>4, <2>2, <3>1 DEF Found, Runs, Alive, proc_get
    <2> QED BY <2>1, <2>2
<1> HIDE DEF w
<1>7. ASSUME InOrder(s), Alive(s)
      PROVE  InOrder(w) /\ (Unsignalled(s) => Unsignalled(w))
    <2>1. Alike(s, w)
        BY <1>3, <1>4, <1>5, <1>7 DEF Alike
    <2>2. Context(w) = Context(s)
        BY <1>3, <1>4, <1>5, <1>7 DEF Context
    <2>3. Good(w, Context(s)) /\ Active(w) = Active(s)
        BY <1>7, <2>1, AlikeGood DEF InOrder
    <2> QED BY <2>1, <2>2, <2>3 DEF InOrder, Unsignalled, Alike
<1> QED BY <1>2, <1>4, <1>5, <1>6, <1>7 DEF Carries, w

\* schedule(): p goes on, or another task does.
LEMMA ScheduleFacts ==
    ASSUME NEW s \in Process, Found(s), NEW t \in schedule(s)
    PROVE  Carries(s, t)
<1>1. CASE t = SwitchAway(s)
    BY <1>1, SwitchAwayFacts
<1>2. CASE t # SwitchAway(s)
    <2> DEFINE r == [s EXCEPT !.task.state = "RUNNING"]
    <2>1. t = SwitchTo(r)
        BY <1>2 DEF schedule
    <2>2. /\ r \in Process /\ r.current = s.current /\ r.regs = s.regs /\ r.ctx = s.ctx
          /\ r.interrupt = s.interrupt /\ r.signal = s.signal /\ r.ipc = s.ipc
          /\ r.task.state = "RUNNING"
        BY DEF Process, Task, States
    <2> HIDE DEF r
    <2>3. Alike(s, r) /\ Context(r) = Context(s) /\ Alive(r)
        BY <2>2 DEF Alike, Context, Alive, proc_get
    <2> QED BY <2>1, <2>2, <2>3, SwitchToFacts, AlikeCarries
<1> QED BY <1>1, <1>2

\* proc_switch_multi_core(): a handler that p is to run is announced.
LEMMA MultiCoreFacts ==
    ASSUME NEW s \in Process, NEW local \in BOOLEAN, local \/ Alive(s)
    PROVE  Carries(s, proc_switch_multi_core(s, local))
<1>1. CASE local
    <2> DEFINE r == IF s.task.state = "RUNNING" THEN s ELSE proc_wakeup_all_state(s)
    <2>1. proc_switch_multi_core(s, local) = SwitchTo(r)
        BY <1>1 DEF proc_switch_multi_core
    <2>2. r \in Process /\ Alike(s, r) /\ r.current = s.current /\ r.regs = s.regs
          /\ r.ctx = s.ctx /\ (r.task.state = "READY" \/ r.task = s.task)
        BY WakeAllFacts DEF Alike
    <2>3. Context(r) = Context(s) /\ (Alive(s) => Alive(r))
        BY <2>2 DEF Context, Alike, Alive, proc_get
    <2> HIDE DEF r
    <2> QED BY <2>1, <2>2, <2>3, SwitchToFacts, AlikeCarries
<1>2. CASE ~local
    <2> DEFINE w == proc_wakeup(s)
    <2>1. proc_switch_multi_core(s, local) = w /\ Alive(s)
        BY <1>2 DEF proc_switch_multi_core
    <2>2. w \in Process /\ Alike(s, w) /\ w.current = s.current /\ w.regs = s.regs
          /\ w.ctx = s.ctx /\ w.task.state = "READY" /\ w.queued
        BY <2>1, WakeupFacts
    <2> HIDE DEF w
    <2>3. Context(w) = Context(s) /\ Alive(w) /\ Found(w)
        BY <2>2 DEF Context, Alike, Alive, proc_get, Found
    <2>4. Carries(w, w)
        BY <2>2, <2>3 DEF Carries
    <2> QED BY <2>1, <2>2, <2>3, <2>4, AlikeCarries
<1> QED BY <1>1, <1>2

-----------------------------------------------------------------------------
(* What is begun and what ends.                                            *)

\* An interrupt is to be handled: it waits for proc_switch().
LEMMA StartedFacts ==
    ASSUME NEW s \in Process, NEW irq \in Irqs \cup {Soft}, s.interrupt.state = "IDLE"
    PROVE  LET t == Started(s, irq) IN
           /\ t \in Process /\ t.task = s.task
           /\ t.interrupt.irq = irq /\ t.interrupt.state # "IDLE"
           /\ Alive(s) /\ InOrder(s) => InOrder(t) /\ (Unsignalled(s) => Unsignalled(t))
<1> DEFINE t == Started(s, irq)
           v == proc_save_state(s, s.interrupt.saved)
<1>1. v \in Saved /\ v.ctx = s.interrupt.saved.ctx /\ (Alive(s) => Resumable(v))
    BY DEF Process, Task, Interrupt, Saved, proc_save_state, Alive, proc_get, Resumable
<1>2. t = [s EXCEPT !.interrupt = [state |-> "START", irq |-> irq, pending |-> FALSE,
                                   restore_pending |-> FALSE, saved |-> v]]
    BY DEF Started
<1> HIDE DEF t, v
<1>3. /\ t \in Process /\ t.task = s.task /\ t.current = s.current /\ t.regs = s.regs
      /\ t.ctx = s.ctx /\ t.signal = s.signal /\ t.ipc = s.ipc
      /\ t.interrupt.state = "START" /\ t.interrupt.irq = irq /\ t.interrupt.saved = v
      /\ ~t.interrupt.restore_pending
    BY <1>1, <1>2 DEF Process, Interrupt
<1>4. ASSUME Alive(s), InOrder(s)
      PROVE  InOrder(t) /\ (Unsignalled(s) => Unsignalled(t))
    <2>1. Context(t) = Context(s)
        BY <1>3, <1>4 DEF Context, InOrder, Good
    <2>2. Active(t) = Active(s)
        BY <1>3 DEF Active
    <2>3. Under(t) = Under(s)
        BY <1>1, <1>3 DEF Under
    <2> QED BY <1>1, <1>3, <1>4, <2>1, <2>2, <2>3 DEF InOrder, Good, Unsignalled
<1> QED BY <1>3, <1>4 DEF t

\* interrupt_end(): the handler that ran is gone, p goes on below it.
LEMMA ResumedFacts ==
    ASSUME NEW s \in Process, s.current, s.regs = "intr"
    PROVE  LET t == Resumed(s) IN
           /\ t \in Process /\ Found(t) /\ t.current
           /\ t.interrupt.state = "IDLE" /\ t.interrupt.irq = s.interrupt.irq
           /\ InOrder(s) => /\ Alive(t) /\ InOrder(t)
                            /\ Unsignalled(s) => Unsignalled(t)
<1> DEFINE v == s.interrupt.saved
           i == [s.interrupt EXCEPT !.saved = NoSaved, !.state = "IDLE",
                                    !.restore_pending = FALSE]
           k == [s.task EXCEPT !.state = v.state, !.sleep_counter = v.sleep_counter]
           r == [s EXCEPT !.task = k, !.regs = v.ctx, !.interrupt = i]
           t == Resumed(s)
<1>0. s.interrupt \in Interrupt /\ s.task \in Task /\ v \in Saved
    BY DEF Process, Interrupt
<1>1. i \in Interrupt /\ i.state = "IDLE" /\ i.irq = s.interrupt.irq /\ i.saved = NoSaved
      /\ ~i.restore_pending
    <2>1. NoSaved \in Saved
        BY DEF NoSaved, Saved, Frames
    <2> QED BY <1>0, <2>1 DEF Interrupt
<1>2. k \in Task /\ k.state = v.state
    BY <1>0 DEF Task, Saved
<1>3. t = IF r.task.state \in {"READY", "RUNNING"} THEN Ready(r) ELSE r
    <2>1. r = [Restored(s, v) EXCEPT !.regs = v.ctx, !.interrupt.saved = NoSaved,
                 !.interrupt.state = "IDLE", !.interrupt.restore_pending = FALSE]
        BY DEF Restored, Process
    <2> HIDE DEF r
    <2> QED BY <2>1 DEF Resumed
<1>4. v.ctx \in Frames
    BY <1>0 DEF Saved
<1> HIDE DEF i, k, v
<1>5. /\ r \in Process /\ r.task = k /\ r.current /\ r.regs = v.ctx /\ r.interrupt = i
      /\ r.signal = s.signal /\ r.ipc = s.ipc
    BY <1>1, <1>2, <1>4 DEF Process
<1> HIDE DEF r
<1>6. /\ t \in Process /\ t.current /\ t.regs = v.ctx /\ t.interrupt = i /\ t.signal = s.signal
      /\ t.ipc = s.ipc /\ Found(t) /\ (t.task.state = "READY" \/ t.task = k)
    BY <1>3, <1>5, ReadyFacts DEF Found
<1> HIDE DEF t
<1>7. ASSUME InOrder(s)
      PROVE  Alive(t) /\ InOrder(t) /\ (Unsignalled(s) => Unsignalled(t))
    <2>1. ~s.interrupt.restore_pending /\ ~s.ipc.restore_pending /\ Context(s) = "intr"
        BY <1>7 DEF InOrder, Good, Context
    <2>2. Nested(Active(s), Under(s), "intr") /\ "intr" \in Active(s)
        BY <1>7, <2>1 DEF InOrder, Good, Nested
    <2>3. Resumable(v)
        BY <1>7, <2>2 DEF InOrder, Good, Active, v
    <2>4. Active(t) = Active(s) \ {"intr"} /\ Active(s) \in SUBSET Kinds
        BY <1>1, <1>6 DEF Active
    <2>5. Under(s)["intr"] = v.ctx /\ \A g \in Active(s) \ {"intr"} : Under(t)[g] = Under(s)[g]
        BY <1>6 DEF Under, Kinds, Active, v
    <2>6. Nested(Active(t), Under(t), v.ctx)
        BY <2>2, <2>4, <2>5, Pop
    <2>7. Context(t) = v.ctx
        BY <1>1, <1>6, <2>1 DEF Context
    <2>8. Alive(t)
        BY <1>2, <1>6, <2>3 DEF Alive, proc_get, Resumable
    <2> QED BY <1>1, <1>6, <1>7, <2>1, <2>4, <2>6, <2>7, <2>8 DEF InOrder, Good, Unsignalled
<1> QED BY <1>1, <1>6, <1>7 DEF t

\* A signal is to be handled.
LEMMA SignalledFacts ==
    ASSUME NEW s \in Process, Alive(s)
    PROVE  LET t == Signalled(s) IN
           /\ t \in Process /\ t.task = s.task /\ t.interrupt = s.interrupt
           /\ InOrder(s) /\ Unsignalled(s) => InOrder(t)
<1> DEFINE t == Signalled(s)
           v == proc_save_state(s, s.signal.saved)
<1>1. v \in Saved /\ v.ctx = s.signal.saved.ctx /\ Resumable(v)
    BY DEF Process, Task, Signal, Saved, proc_save_state, Alive, proc_get, Resumable
<1>2. t = [s EXCEPT !.signal = [do_switch |-> TRUE, saved |-> v]]
    BY DEF Signalled
<1> HIDE DEF t, v
<1>3. /\ t \in Process /\ t.task = s.task /\ t.current = s.current /\ t.regs = s.regs
      /\ t.ctx = s.ctx /\ t.interrupt = s.interrupt /\ t.ipc = s.ipc
      /\ t.signal.saved = v
    BY <1>1, <1>2 DEF Process, Signal
<1>4. ASSUME InOrder(s), Unsignalled(s)
      PROVE  InOrder(t)
    <2>1. Context(t) = Context(s)
        BY <1>3 DEF Context
    <2>2. Active(t) = Active(s)
        BY <1>1, <1>3 DEF Active
    <2>3. Under(t) = Under(s)
        BY <1>1, <1>3 DEF Under
    <2> QED BY <1>1, <1>3, <1>4, <2>1, <2>2, <2>3 DEF InOrder, Good, Unsignalled
<1> QED BY <1>3, <1>4 DEF t

\* proc_signal_end(): so does p after the handler of a signal.
SignalEnded(s) ==
    Ready([Restored(s, s.signal.saved) EXCEPT !.regs = s.signal.saved.ctx, !.signal.saved = NoSaved])

\* The signal is over and what it interrupted is on top.
LEMMA SignalEndedFacts ==
    ASSUME NEW s \in Process, s.current, s.regs = "sig"
    PROVE  LET t == SignalEnded(s) IN
           /\ t \in Process /\ Found(t) /\ t.interrupt = s.interrupt
           /\ InOrder(s) => Alive(t) /\ InOrder(t) /\ Unsignalled(t)
<1> DEFINE v == s.signal.saved
           i == [s.signal EXCEPT !.saved = NoSaved]
           k == [s.task EXCEPT !.state = v.state, !.sleep_counter = v.sleep_counter]
           r == [s EXCEPT !.task = k, !.regs = v.ctx, !.signal = i]
           t == SignalEnded(s)
<1>0. s.signal \in Signal /\ s.task \in Task /\ v \in Saved
    BY DEF Process, Signal
<1>1. i \in Signal /\ i.do_switch = s.signal.do_switch /\ i.saved = NoSaved
    <2>1. NoSaved \in Saved
        BY DEF NoSaved, Saved, Frames
    <2> QED BY <1>0, <2>1 DEF Signal
<1>2. k \in Task
    BY <1>0 DEF Task, Saved
<1>3. t = Ready(r)
    <2>1. r = [Restored(s, v) EXCEPT !.regs = v.ctx, !.signal.saved = NoSaved]
        BY DEF Restored, Process
    <2> QED BY <2>1 DEF SignalEnded
<1>4. v.ctx \in Frames
    BY <1>0 DEF Saved
<1> HIDE DEF i, k, v
<1>5. /\ r \in Process /\ r.current /\ r.regs = v.ctx /\ r.interrupt = s.interrupt
      /\ r.signal = i /\ r.ipc = s.ipc
    BY <1>1, <1>2, <1>4 DEF Process
<1> HIDE DEF r
<1>6. /\ t \in Process /\ t.current /\ t.regs = v.ctx /\ t.interrupt = s.interrupt
      /\ t.signal = i /\ t.ipc = s.ipc /\ Found(t) /\ Alive(t)
    BY <1>3, <1>5, ReadyFacts DEF Found, Alive, proc_get
<1> HIDE DEF t
<1>7. ASSUME InOrder(s)
      PROVE  InOrder(t) /\ Unsignalled(t)
    <2>1. ~s.interrupt.restore_pending /\ ~s.ipc.restore_pending /\ Context(s) = "sig"
        BY <1>7 DEF InOrder, Good, Context
    <2>2. Nested(Active(s), Under(s), "sig") /\ "sig" \in Active(s) /\ ~s.signal.do_switch
        BY <1>7, <2>1 DEF InOrder, Good, Nested
    <2>4. Active(t) = Active(s) \ {"sig"} /\ Active(s) \in SUBSET Kinds
        BY <1>1, <1>6 DEF Active, NoSaved
    <2>5. Under(s)["sig"] = v.ctx /\ \A g \in Active(s) \ {"sig"} : Under(t)[g] = Under(s)[g]
        BY <1>6 DEF Under, Kinds, Active, v
    <2>6. Nested(Active(t), Under(t), v.ctx)
        BY <2>2, <2>4, <2>5, Pop
    <2>7. Context(t) = v.ctx
        BY <1>6, <2>1 DEF Context
    <2> QED BY <1>1, <1>6, <1>7, <2>1, <2>2, <2>4, <2>6, <2>7 DEF InOrder, Good, Unsignalled
<1> QED BY <1>6, <1>7 DEF t

\* A request is to be served, the ring holds it.
Requested(s) ==
    [s EXCEPT !.ipc = [@ EXCEPT !.do_switch = TRUE, !.restore_pending = FALSE,
                                !.saved = proc_save_state(s, s.ipc.saved)]]

WithRing(s, q) == [s EXCEPT !.ipc.ring = q]

\* Only the ring of requests is different.
LEMMA WithRingFacts ==
    ASSUME NEW s \in Process, NEW q \in Seq(Clients)
    PROVE  LET t == WithRing(s, q) IN
           /\ t \in Process /\ t.task = s.task /\ t.queued = s.queued /\ t.current = s.current
           /\ t.regs = s.regs /\ t.ctx = s.ctx /\ t.interrupt = s.interrupt
           /\ t.signal = s.signal /\ t.ipc.ring = q /\ t.ipc.saved = s.ipc.saved
           /\ t.ipc.do_switch = s.ipc.do_switch
           /\ t.ipc.restore_pending = s.ipc.restore_pending
<1> DEFINE i == [s.ipc EXCEPT !.ring = q]
<1>1. WithRing(s, q) = [s EXCEPT !.ipc = i]
    BY DEF WithRing, Process
<1>2. i \in Ipc /\ i.ring = q /\ i.saved = s.ipc.saved /\ i.do_switch = s.ipc.do_switch
      /\ i.restore_pending = s.ipc.restore_pending
    BY DEF Process, Ipc
<1> HIDE DEF i
<1> QED BY <1>1, <1>2 DEF Process

\* proc_ipc_do_task(), before the switch: the request waits for proc_switch().
LEMMA RequestedFacts ==
    ASSUME NEW s \in Process, NEW q \in Seq(Clients), q # <<>>, "ipc" \notin Active(s)
    PROVE  LET t == Requested(WithRing(s, q)) IN
           /\ t \in Process /\ t.task = s.task /\ t.interrupt = s.interrupt
           /\ Alive(s) /\ InOrder(s) => InOrder(t) /\ (Unsignalled(s) => Unsignalled(t))
<1> DEFINE w == WithRing(s, q)
           v == proc_save_state(w, w.ipc.saved)
           i == [w.ipc EXCEPT !.do_switch = TRUE, !.restore_pending = FALSE, !.saved = v]
           t == Requested(w)
<1>0. w \in Process /\ w.task = s.task
    BY WithRingFacts
<1>1. v \in Saved /\ v.ctx = w.ipc.saved.ctx /\ (Alive(s) => Resumable(v))
    <2>1. w.ipc.saved \in Saved /\ w.task \in Task
        BY <1>0 DEF Process, Ipc
    <2> QED BY <1>0, <2>1 DEF Task, Saved, proc_save_state, Alive, proc_get, Resumable
<1>2. t = [w EXCEPT !.ipc = i]
    <2>1. w.ipc \in Ipc
        BY <1>0 DEF Process
    <2> HIDE DEF w
    <2> QED BY <2>1 DEF Requested
<1>3. i \in Ipc /\ i.do_switch /\ ~i.restore_pending /\ i.saved = v /\ i.ring = q
    <2>1. w.ipc \in Ipc /\ w.ipc.ring = q
        BY <1>0, WithRingFacts DEF Process
    <2> HIDE DEF v
    <2> QED BY <1>1, <2>1 DEF Ipc
<1> HIDE DEF i, v, w
<1>4. /\ t \in Process /\ t.task = w.task /\ t.current = w.current /\ t.regs = w.regs
      /\ t.ctx = w.ctx /\ t.interrupt = w.interrupt /\ t.signal = w.signal /\ t.ipc = i
    BY <1>0, <1>2, <1>3 DEF Process
<1> HIDE DEF t
<1>5. /\ t.task = s.task /\ t.current = s.current /\ t.regs = s.regs /\ t.ctx = s.ctx
      /\ t.interrupt = s.interrupt /\ t.signal = s.signal /\ v.ctx = s.ipc.saved.ctx
    BY <1>1, <1>4, WithRingFacts DEF w
<1>6. ASSUME Alive(s), InOrder(s)
      PROVE  InOrder(t) /\ (Unsignalled(s) => Unsignalled(t))
    <2>1. Context(t) = Context(s)
        BY <1>3, <1>4, <1>5, <1>6 DEF Context, InOrder, Good
    <2>2. Active(t) = Active(s)
        BY <1>3, <1>4, <1>5 DEF Active
    <2>3. Under(t) = Under(s)
        BY <1>3, <1>4, <1>5 DEF Under
    <2> QED BY <1>1, <1>3, <1>4, <1>5, <1>6, <2>1, <2>2, <2>3 DEF InOrder, Good, Unsignalled
<1> QED BY <1>4, <1>5, <1>6 DEF t, w

\* proc_ipc_end(), up to the next request: the handler that ran is gone, and q is
\* the rest of the ring.
Answered(s, q) ==
    LET r == [Restored(s, s.ipc.saved) EXCEPT
                 !.regs = s.ipc.saved.ctx, !.task.state = IF @ = "BLOCK" THEN "READY" ELSE @,
                 !.ipc = [@ EXCEPT !.saved = NoSaved, !.restore_pending = FALSE, !.ring = q]]
    IN  IF r.task.state \in {"READY", "RUNNING"} THEN Ready(r) ELSE r

\* It in terms of the task and of the ipc record.
LEMMA AnsweredForm ==
    ASSUME NEW s \in Process, NEW q
    PROVE  LET v == s.ipc.saved
               k == [s.task EXCEPT !.state = IF v.state = "BLOCK" THEN "READY" ELSE v.state,
                                   !.sleep_counter = v.sleep_counter]
               i == [s.ipc EXCEPT !.saved = NoSaved, !.restore_pending = FALSE, !.ring = q]
               r == [s EXCEPT !.task = k, !.regs = v.ctx, !.ipc = i]
           IN  Answered(s, q) = IF r.task.state \in {"READY", "RUNNING"} THEN Ready(r) ELSE r
<1> DEFINE v == s.ipc.saved
           x == IF v.state = "BLOCK" THEN "READY" ELSE v.state
           k == [s.task EXCEPT !.state = x, !.sleep_counter = v.sleep_counter]
           i == [s.ipc EXCEPT !.saved = NoSaved, !.restore_pending = FALSE, !.ring = q]
           r == [s EXCEPT !.task = k, !.regs = v.ctx, !.ipc = i]
           z == [s EXCEPT !.task = [@ EXCEPT !.state = v.state,
                                             !.sleep_counter = v.sleep_counter]]
           y == [z EXCEPT !.regs = v.ctx, !.task.state = IF @ = "BLOCK" THEN "READY" ELSE @,
                 !.ipc = [@ EXCEPT !.saved = NoSaved, !.restore_pending = FALSE, !.ring = q]]
<1>1. Restored(s, v) = z
    BY DEF Restored, Process
<1>2. Answered(s, q) = IF y.task.state \in {"READY", "RUNNING"} THEN Ready(y) ELSE y
    <2> HIDE DEF z
    <2> QED BY <1>1 DEF Answered
<1>3. y = r
    <2>1. /\ z.task = [s.task EXCEPT !.state = v.state, !.sleep_counter = v.sleep_counter]
          /\ z.task.state = v.state /\ z.ipc = s.ipc
          /\ DOMAIN z = DOMAIN s
          /\ \A f \in DOMAIN s : f # "task" => z[f] = s[f]
        BY DEF Process, Task
    <2>2. y = [z EXCEPT !.regs = v.ctx, !.task.state = x, !.ipc = i]
        <3> HIDE DEF z, v
        <3>1. \A f : f.task.state = v.state =>
                 (IF f.task.state = "BLOCK" THEN "READY" ELSE f.task.state) = x
            OBVIOUS
        <3> QED BY <2>1 DEF Process
    <2> HIDE DEF y, z, i, x, v
    <2>3. [z.task EXCEPT !.state = x] = k
        BY <2>1 DEF Process, Task
    <2> HIDE DEF k
    <2> QED BY <2>1, <2>2, <2>3 DEF Process
<1> HIDE DEF y, r
<1> QED BY <1>2, <1>3 DEF r

\* With no request left, the books are in order without the handler.
LEMMA AnsweredFacts ==
    ASSUME NEW s \in Process, s.current, s.regs = "ipc", NEW q \in Seq(Clients)
    PROVE  LET t == Answered(s, q) IN
           /\ t \in Process /\ Found(t) /\ t.interrupt = s.interrupt /\ t.ipc.ring = q
           /\ InOrder(s) => Alive(t)
           /\ InOrder(s) /\ q = <<>> => InOrder(t) /\ (Unsignalled(s) => Unsignalled(t))
<1> DEFINE v == s.ipc.saved
           i == [s.ipc EXCEPT !.saved = NoSaved, !.restore_pending = FALSE, !.ring = q]
           k == [s.task EXCEPT !.state = IF v.state = "BLOCK" THEN "READY" ELSE v.state,
                               !.sleep_counter = v.sleep_counter]
           r == [s EXCEPT !.task = k, !.regs = v.ctx, !.ipc = i]
           t == Answered(s, q)
<1>0. s.ipc \in Ipc /\ s.task \in Task /\ v \in Saved
    BY DEF Process, Ipc
<1>1. i \in Ipc /\ i.do_switch = s.ipc.do_switch /\ i.saved = NoSaved /\ i.ring = q
      /\ ~i.restore_pending
    <2>1. NoSaved \in Saved
        BY DEF NoSaved, Saved, Frames
    <2> QED BY <1>0, <2>1 DEF Ipc
<1>2. k \in Task /\ (Resumable(v) => k.state \notin {"UNUSED", "ZOMBIE"})
    BY <1>0 DEF Task, Saved, States, Resumable
<1>3. t = IF r.task.state \in {"READY", "RUNNING"} THEN Ready(r) ELSE r
    BY AnsweredForm
<1>4. v.ctx \in Frames
    BY <1>0 DEF Saved
<1> HIDE DEF i, k, v
<1>5. /\ r \in Process /\ r.task = k /\ r.current /\ r.regs = v.ctx /\ r.ipc = i
      /\ r.interrupt = s.interrupt /\ r.signal = s.signal
    BY <1>1, <1>2, <1>4 DEF Process
<1> HIDE DEF r
<1>6. /\ t \in Process /\ t.current /\ t.regs = v.ctx /\ t.interrupt = s.interrupt
      /\ t.signal = s.signal /\ t.ipc = i /\ Found(t)
      /\ (t.task.state = "READY" \/ t.task = k)
    BY <1>3, <1>5, ReadyFacts DEF Found
<1> HIDE DEF t
<1>7. ASSUME InOrder(s)
      PROVE  Alive(t) /\ (q = <<>> => InOrder(t) /\ (Unsignalled(s) => Unsignalled(t)))
    <2>1. ~s.interrupt.restore_pending /\ ~s.ipc.restore_pending /\ Context(s) = "ipc"
        BY <1>7 DEF InOrder, Good, Context
    <2>2. /\ Nested(Active(s), Under(s), "ipc") /\ "ipc" \in Active(s)
          /\ ~s.ipc.do_switch /\ s.ipc.ring # <<>>
        BY <1>7, <2>1 DEF InOrder, Good, Nested, Active
    <2>3. Alive(t)
        BY <1>2, <1>6, <1>7, <2>2 DEF InOrder, Good, Alive, proc_get, v
    <2> SUFFICES ASSUME q = <<>>
                 PROVE  InOrder(t) /\ (Unsignalled(s) => Unsignalled(t))
        BY <2>3
    <2>4. Active(t) = Active(s) \ {"ipc"} /\ Active(s) \in SUBSET Kinds
        BY <1>1, <1>6 DEF Active
    <2>5. Under(s)["ipc"] = v.ctx /\ \A g \in Active(s) \ {"ipc"} : Under(t)[g] = Under(s)[g]
        BY <1>6 DEF Under, Kinds, Active, v
    <2>6. Nested(Active(t), Under(t), v.ctx)
        <3>1. Nested(Active(s) \ {"ipc"}, Under(t), Under(s)["ipc"])
            BY <2>2, <2>4, <2>5, Pop
        <3> QED BY <2>4, <2>5, <3>1
    <2>7. Context(t) = v.ctx
        BY <1>1, <1>6, <2>1 DEF Context
    <2> QED BY <1>1, <1>6, <1>7, <2>1, <2>2, <2>4, <2>6, <2>7 DEF InOrder, Good, Unsignalled
<1> QED BY <1>1, <1>6, <1>7 DEF t

\* The rest of the ring changes nothing else.
LEMMA AnsweredRing ==
    ASSUME NEW s \in Process, NEW q \in Seq(Clients)
    PROVE  Answered(s, q) = WithRing(Answered(s, <<>>), q)
<1> DEFINE v == s.ipc.saved
           k == [s.task EXCEPT !.state = IF v.state = "BLOCK" THEN "READY" ELSE v.state,
                               !.sleep_counter = v.sleep_counter]
           i(x) == [s.ipc EXCEPT !.saved = NoSaved, !.restore_pending = FALSE, !.ring = x]
           r(x) == [s EXCEPT !.task = k, !.regs = v.ctx, !.ipc = i(x)]
<1>1. \A x : Answered(s, x) = IF r(x).task.state \in {"READY", "RUNNING"} THEN Ready(r(x)) ELSE r(x)
    BY AnsweredForm
<1> HIDE DEF k, v
<1>2. [i(<<>>) EXCEPT !.ring = q] = i(q)
    BY DEF Process, Ipc
<1> HIDE DEF i
<1>3. r(q).task = r(<<>>).task /\ WithRing(r(<<>>), q) = r(q)
    BY <1>2 DEF WithRing, Process
<1>4. WithRing(Ready(r(<<>>)), q) = Ready(r(q))
    BY <1>2 DEF WithRing, Ready, Process
<1> HIDE DEF r
<1> QED BY <1>1, <1>3, <1>4

-----------------------------------------------------------------------------
(* The inductive invariant.                                                *)

Records ==
    /\ p \in Process
    /\ client \in [Clients -> {"run", "retry", "blocked", "served", "dead"}]
    /\ waitq \in Seq(Clients) /\ irq_off \subseteq Irqs
    /\ log \in [interrupts: Nat, signals: Nat, calls: Nat, timeouts: Nat, collided: SUBSET Irqs]

\* An interrupt is disabled while p handles it, or came during another one.
Heard(off, s, l) ==
    off \subseteq l.collided \cup (IF s.interrupt.state = "IDLE" THEN {} ELSE {s.interrupt.irq})

\* As long as no watchdog interferes, and with one signal.
Ordered(s, l) ==
    l.timeouts = 0 /\ l.signals <= 1 =>
        /\ s.task.state # "UNUSED"
        /\ Alive(s) => InOrder(s) /\ (l.signals = 0 => Unsignalled(s))

HandlersInv == Records /\ Found(p) /\ Heard(irq_off, p, log) /\ Ordered(p, log)

\* Waking and switching p keeps its books in order ...
LEMMA CarriesOrdered ==
    ASSUME NEW s, NEW t, NEW l, Carries(s, t), Alive(s), Ordered(s, l)
    PROVE  Ordered(t, l)
BY DEF Carries, Ordered, Alive

\* ... and the interrupt it handles.
LEMMA CarriesHeard ==
    ASSUME NEW s, NEW t, NEW l, NEW off, Carries(s, t), Heard(off, s, l)
    PROVE  Heard(off, t, l)
BY DEF Carries, Heard

\* A step that wakes or switches p and does nothing else.
LEMMA CarriesInv ==
    ASSUME HandlersInv, Alive(p), Carries(p, p'), UNCHANGED <<client, waitq, irq_off, log>>
    PROVE  HandlersInv'
<1>1. Ordered(p', log)
    BY CarriesOrdered DEF HandlersInv
<1>2. Heard(irq_off, p', log)
    BY CarriesHeard DEF HandlersInv
<1> QED BY <1>1, <1>2 DEF HandlersInv, Records, Carries

\* The process starts ready to run, in its main context.
LEMMA InitInv == Init => HandlersInv
<1> SUFFICES ASSUME Init PROVE HandlersInv
    OBVIOUS
<1>1. /\ p.task = NewTask("READY") /\ p.queued = TRUE /\ p.current = FALSE /\ p.regs = "zero"
      /\ p.ctx = "main" /\ p.signal = [do_switch |-> FALSE, saved |-> NoSaved]
      /\ p.interrupt = [state |-> "IDLE", irq |-> Soft, pending |-> FALSE,
                        restore_pending |-> FALSE, saved |-> NoSaved]
      /\ p.ipc = [ring |-> <<>>, do_switch |-> FALSE, restore_pending |-> FALSE, saved |-> NoSaved]
    BY DEF Init, NewProcess
<1>2. NoSaved \in Saved
    BY DEF NoSaved, Saved, Frames
<1>3. p \in Process
    BY <1>1, <1>2 DEF Init, NewProcess, Process, Task, Interrupt, Signal, Ipc, NewTask, States, Frames
<1>4. Records
    BY <1>3 DEF Records, Init
<1>5. Found(p) /\ Heard(irq_off, p, log)
    BY <1>1 DEF Found, Heard, Init
<1>6. Active(p) = {} /\ Context(p) = "main"
    BY <1>1 DEF Active, Context, NoSaved
<1>7. Ordered(p, log)
    BY <1>1, <1>6 DEF Ordered, InOrder, Good, Nested, Unsignalled, NewTask
<1> QED BY <1>4, <1>5, <1>7 DEF HandlersInv

-----------------------------------------------------------------------------
(* The scheduler, and what p itself does.                                  *)

\* The timer.
LEMMA TickInv == HandlersInv /\ Tick => HandlersInv'
BY ScheduleFacts, CarriesInv DEF Tick, HandlersInv, Records

\* proc_usleep(): p sleeps with its contexts as they are.
LEMMA UsleepInv == HandlersInv /\ proc_usleep => HandlersInv'
<1> SUFFICES ASSUME HandlersInv, proc_usleep PROVE HandlersInv'
    OBVIOUS
<1> DEFINE t == [p EXCEPT !.queued = FALSE, !.task.state = "SLEEPING", !.task.sleep_counter = TRUE]
<1>1. p \in Process /\ Alive(p) /\ p' \in schedule(t)
    BY DEF HandlersInv, Records, proc_usleep, Runs
<1>2. /\ t \in Process /\ t.task.state = "SLEEPING" /\ t.current = p.current /\ t.regs = p.regs
      /\ t.ctx = p.ctx /\ t.interrupt = p.interrupt /\ t.signal = p.signal /\ t.ipc = p.ipc
    BY <1>1 DEF Process, Task, States
<1> HIDE DEF t
<1>3. Found(t) /\ Alive(t) /\ Alike(p, t) /\ Context(t) = Context(p)
    BY <1>2 DEF Found, Alive, proc_get, Alike, Context
<1>4. Carries(p, p')
    BY <1>1, <1>2, <1>3, ScheduleFacts, AlikeCarries
<1> QED BY <1>1, <1>4, CarriesInv DEF proc_usleep

\* proc_block() either blocks p or leaves it running.
LEMMA BlockTask ==
    ASSUME NEW k \in Task, k.state \notin {"UNUSED", "ZOMBIE"}
    PROVE  /\ proc_block_by(k, Generic) \in Task
           /\ proc_block_by(k, Generic).state \notin {"READY", "UNUSED", "ZOMBIE"}
<1>1. consume(k) \in Task /\ consume(k).state = k.state
    BY DEF consume, Task, Generic
<1>2. CASE run_now(k, Generic, FALSE)
    <2>1. proc_block_by(k, Generic) = keep_running(consume(k))
        BY <1>2 DEF proc_block_by, Block
    <2> QED BY <1>1, <2>1 DEF keep_running, Task, Generic, States
<1>3. CASE ~run_now(k, Generic, FALSE)
    <2>1. proc_block_by(k, Generic) = park(consume(k), Generic, FALSE)
        BY <1>3 DEF proc_block_by, Block
    <2> QED BY <1>1, <2>1 DEF park, proc_unready, Task, Generic, States
<1> QED BY <1>2, <1>3

\* proc_block(): p blocks, or a latched wake lets it run on.
LEMMA BlockInv == HandlersInv /\ Block_p => HandlersInv'
<1> SUFFICES ASSUME HandlersInv, Block_p PROVE HandlersInv'
    OBVIOUS
<1> DEFINE k == proc_block_by(p.task, Generic)
<1>1. p \in Process /\ Alive(p) /\ p.current /\ Found(p)
    BY DEF HandlersInv, Records, Block_p, Runs
<1>2. k \in Task /\ k.state \notin {"READY", "UNUSED", "ZOMBIE"}
    BY <1>1, BlockTask DEF Process, Alive, proc_get
<1>3. p' \in IF k.state = "BLOCK" THEN schedule([p EXCEPT !.task = k, !.queued = FALSE])
             ELSE {[p EXCEPT !.task = k]}
    BY DEF Block_p
<1> HIDE DEF k
<1>4. CASE k.state = "BLOCK"
    <2> DEFINE t == [p EXCEPT !.task = k, !.queued = FALSE]
    <2>1. /\ t \in Process /\ t.task = k /\ t.current = p.current /\ t.regs = p.regs
          /\ t.ctx = p.ctx /\ t.interrupt = p.interrupt /\ t.signal = p.signal /\ t.ipc = p.ipc
        BY <1>1, <1>2 DEF Process
    <2>2. p' \in schedule(t)
        BY <1>3, <1>4
    <2> HIDE DEF t
    <2>3. Found(t) /\ Alive(t) /\ Alike(p, t) /\ Context(t) = Context(p)
        BY <1>4, <2>1 DEF Found, Alive, proc_get, Alike, Context
    <2>4. Carries(p, p')
        BY <2>1, <2>2, <2>3, ScheduleFacts, AlikeCarries
    <2> QED BY <1>1, <2>4, CarriesInv DEF Block_p
<1>5. CASE k.state # "BLOCK"
    <2> DEFINE t == [p EXCEPT !.task = k]
    <2>1. /\ t \in Process /\ t.task = k /\ t.current = p.current /\ t.regs = p.regs
          /\ t.ctx = p.ctx /\ t.interrupt = p.interrupt /\ t.signal = p.signal /\ t.ipc = p.ipc
        BY <1>1, <1>2 DEF Process
    <2>2. p' = t
        BY <1>3, <1>5
    <2> HIDE DEF t
    <2>3. Found(t) /\ Alive(t) /\ Alike(p, t) /\ Context(t) = Context(p)
        BY <1>1, <1>2, <2>1 DEF Found, Alive, proc_get, Alike, Context
    <2>4. Carries(p, p')
        <3>1. Carries(t, t)
            BY <2>1, <2>3 DEF Carries
        <3> QED BY <2>2, <2>3, <3>1, AlikeCarries
    <2> QED BY <1>1, <2>4, CarriesInv DEF Block_p
<1> QED BY <1>4, <1>5

\* A wake-up that p gets is a step of the kind Carries describes.
LEMMA WakeCarries ==
    ASSUME NEW s \in Process, Alive(s)
    PROVE  Carries(s, proc_wakeup(s))
<1> DEFINE w == proc_wakeup(s)
<1>1. w \in Process /\ Alike(s, w) /\ w.current = s.current /\ w.regs = s.regs
      /\ w.ctx = s.ctx /\ w.task.state = "READY" /\ w.queued
    BY WakeupFacts
<1> HIDE DEF w
<1>2. Context(w) = Context(s) /\ Alive(w) /\ Found(w)
    BY <1>1 DEF Context, Alike, Alive, proc_get, Found
<1>3. Carries(w, w)
    BY <1>1, <1>2 DEF Carries
<1>4. Carries(s, w)
    BY <1>1, <1>2, <1>3, AlikeCarries
<1> QED BY <1>4 DEF w

\* proc_wakeup() ends a block.
LEMMA WakeInv == HandlersInv /\ Wake => HandlersInv'
BY WakeCarries, CarriesInv DEF Wake, HandlersInv, Records, Alive, proc_get

\* renew_sleep_counter() ends a sleep.
LEMMA SleepOverInv == HandlersInv /\ SleepOver => HandlersInv'
<1> SUFFICES ASSUME HandlersInv, SleepOver PROVE HandlersInv'
    OBVIOUS
<1> DEFINE r == Ready(p)
           k == renew_sleep_counter(r.task)
           t == [r EXCEPT !.task = k]
<1>1. p \in Process /\ Alive(p) /\ p' = t
    BY DEF HandlersInv, Records, SleepOver, CanExpire, Alive, proc_get
<1>2. /\ r \in Process /\ r.queued /\ r.current = p.current /\ r.regs = p.regs /\ r.ctx = p.ctx
      /\ r.interrupt = p.interrupt /\ r.signal = p.signal /\ r.ipc = p.ipc
    BY <1>1, ReadyFacts
<1> HIDE DEF r
<1>3. k \in Task /\ k.state = "READY"
    <2>1. r.task \in Task
        BY <1>2 DEF Process
    <2> QED BY <2>1 DEF renew_sleep_counter, proc_ready, Task, States, Generic
<1> HIDE DEF k
<1>4. /\ t \in Process /\ t.queued /\ t.task = k /\ t.current = r.current /\ t.regs = r.regs
      /\ t.ctx = r.ctx /\ t.interrupt = r.interrupt /\ t.signal = r.signal /\ t.ipc = r.ipc
    BY <1>2, <1>3 DEF Process
<1> HIDE DEF t
<1>5. Found(t) /\ Alive(t) /\ Alike(p, t) /\ Context(t) = Context(p)
    BY <1>2, <1>3, <1>4 DEF Found, Alive, proc_get, Alike, Context
<1>6. Carries(t, t)
    BY <1>4, <1>5 DEF Carries
<1>7. Carries(p, p')
    BY <1>1, <1>5, <1>6, AlikeCarries
<1> QED BY <1>1, <1>7, CarriesInv DEF SleepOver

-----------------------------------------------------------------------------
(* Interrupts.                                                             *)

\* Another event is counted.
LEMMA CountFacts ==
    ASSUME Records, NEW f \in {"interrupts", "signals", "calls", "timeouts"}
    PROVE  /\ Count(f) \in [interrupts: Nat, signals: Nat, calls: Nat, timeouts: Nat,
                            collided: SUBSET Irqs]
           /\ Count(f)[f] = log[f] + 1
           /\ \A g \in {"interrupts", "signals", "calls", "timeouts", "collided"} \ {f} :
                 Count(f)[g] = log[g]
BY SMTT(30) DEF Records, Count

\* interrupt_send_raw() to p not busy with an interrupt: the irq is its interrupt now.
LEMMA SendIdleInv ==
    ASSUME HandlersInv, Alive(p), NEW irq \in Interrupts, NEW local \in BOOLEAN,
           SendIdle(irq, local)
    PROVE  HandlersInv'
<1> DEFINE t == Started(p, irq)
<1>1. p \in Process /\ irq \in Irqs \cup {Soft} /\ p.interrupt.state = "IDLE"
      /\ p' = proc_switch_multi_core(t, local) /\ log' = Count("interrupts")
      /\ irq_off' = irq_off \cup ({irq} \ {Soft}) /\ UNCHANGED <<client, waitq>>
    BY HandlersAssumption DEF HandlersInv, Records, SendIdle, InterruptFree
<1>2. /\ t \in Process /\ t.task = p.task /\ t.interrupt.irq = irq
      /\ t.interrupt.state # "IDLE"
      /\ InOrder(p) => InOrder(t) /\ (Unsignalled(p) => Unsignalled(t))
    BY <1>1, StartedFacts
<1> HIDE DEF t
<1>3. Alive(t)
    BY <1>2 DEF Alive
<1>4. Carries(t, p')
    BY <1>1, <1>2, <1>3, MultiCoreFacts
<1>5. /\ log' \in [interrupts: Nat, signals: Nat, calls: Nat, timeouts: Nat, collided: SUBSET Irqs]
      /\ log'.signals = log.signals /\ log'.timeouts = log.timeouts
      /\ log'.collided = log.collided
    BY <1>1, CountFacts DEF HandlersInv
<1>6. Ordered(t, log')
    BY <1>2, <1>3, <1>5 DEF HandlersInv, Ordered, Alive
<1>7. Ordered(p', log')
    BY <1>3, <1>4, <1>6, CarriesOrdered
<1>8. Heard(irq_off', p', log')
    BY <1>1, <1>2, <1>4, <1>5 DEF HandlersInv, Heard, Carries
<1>9. Records' /\ Found(p)'
    BY <1>1, <1>4, <1>5 DEF HandlersInv, Records, Carries
<1> QED BY <1>7, <1>8, <1>9 DEF HandlersInv

\* interrupt_send_raw() to p busy with one: the irq is disabled and recorded.
LEMMA SendBusyInv ==
    ASSUME HandlersInv, Alive(p), NEW irq \in Interrupts, SendBusy(irq)
    PROVE  HandlersInv'
<1>1. p \in Process /\ irq \in Irqs /\ p' = [p EXCEPT !.interrupt.pending = TRUE]
      /\ irq_off' = irq_off \cup {irq} /\ UNCHANGED <<client, waitq>>
      /\ log' = [Count("interrupts") EXCEPT !.collided = @ \cup {irq}]
    BY HandlersAssumption DEF HandlersInv, Records, SendBusy
<1>2. /\ p' \in Process /\ p'.task = p.task /\ p'.queued = p.queued /\ p'.current = p.current
      /\ p'.regs = p.regs /\ p'.ctx = p.ctx /\ p'.signal = p.signal /\ p'.ipc = p.ipc
      /\ p'.interrupt.state = p.interrupt.state /\ p'.interrupt.irq = p.interrupt.irq
      /\ p'.interrupt.saved = p.interrupt.saved
      /\ p'.interrupt.restore_pending = p.interrupt.restore_pending
    BY <1>1 DEF Process, Interrupt
<1>3. Alive(p') /\ Found(p') /\ Alike(p, p') /\ Context(p') = Context(p)
    BY <1>2 DEF HandlersInv, Found, Alive, proc_get, Alike, Context
<1>4. Carries(p', p')
    BY <1>2, <1>3 DEF Carries
<1>5. Carries(p, p')
    BY <1>3, <1>4, AlikeCarries
<1>6. /\ log' \in [interrupts: Nat, signals: Nat, calls: Nat, timeouts: Nat, collided: SUBSET Irqs]
      /\ log'.signals = log.signals /\ log'.timeouts = log.timeouts
      /\ log'.collided = log.collided \cup {irq}
    BY <1>1, CountFacts DEF HandlersInv
<1>7. Ordered(p', log')
    <2>1. Ordered(p', log)
        BY <1>5, CarriesOrdered DEF HandlersInv
    <2> QED BY <1>6, <2>1 DEF Ordered
<1>8. Heard(irq_off', p', log')
    BY <1>1, <1>2, <1>6 DEF HandlersInv, Heard
<1> QED BY <1>1, <1>2, <1>3, <1>6, <1>7, <1>8 DEF HandlersInv, Records

\* Both cases of interrupt_send_raw().
LEMMA InterruptSendInv ==
    ASSUME HandlersInv, NEW irq \in Interrupts, interrupt_send(irq)
    PROVE  HandlersInv'
BY SendIdleInv, SendBusyInv DEF interrupt_send

\* proc_interrupt_wakeup() of a client, in the steps that end an interrupt.
LEMMA InterruptWakeupTypes ==
    ASSUME Records, proc_interrupt_wakeup
    PROVE  /\ client' \in [Clients -> {"run", "retry", "blocked", "served", "dead"}]
           /\ waitq' \in Seq(Clients)
BY DEF Records, proc_interrupt_wakeup

\* interrupt_end() with a pending interrupt: the handler goes and is started again.
LEMMA EndAgainInv == HandlersInv /\ EndAgain => HandlersInv'
<1> SUFFICES ASSUME HandlersInv, EndAgain PROVE HandlersInv'
    OBVIOUS
<1> DEFINE r == Resumed(p)
           t == [r EXCEPT !.ctx = r.regs]
           w == Started(t, p.interrupt.irq)
<1>1. /\ p \in Process /\ Alive(p) /\ p.current /\ p.regs = "intr"
      /\ p' = proc_switch_multi_core(w, TRUE) /\ UNCHANGED <<client, waitq, irq_off, log>>
    BY DEF HandlersInv, Records, EndAgain, Runs
<1>2. /\ r \in Process /\ r.current /\ r.interrupt.state = "IDLE"
      /\ InOrder(p) => Alive(r) /\ InOrder(r) /\ (Unsignalled(p) => Unsignalled(r))
    BY <1>1, ResumedFacts
<1> HIDE DEF r
<1>3. /\ t \in Process /\ t.current /\ t.task = r.task /\ t.regs = r.regs
      /\ t.interrupt = r.interrupt /\ t.signal = r.signal /\ t.ipc = r.ipc
    BY <1>2 DEF Process
<1> HIDE DEF t
<1>4. InOrder(p) => Alive(t) /\ InOrder(t) /\ (Unsignalled(p) => Unsignalled(t))
    <2> SUFFICES ASSUME InOrder(p)
                 PROVE  Alive(t) /\ InOrder(t) /\ (Unsignalled(p) => Unsignalled(t))
        OBVIOUS
    <2>1. InOrder(r) /\ Alive(r) /\ Alike(r, t)
        BY <1>2, <1>3 DEF Alike
    <2>2. Good(t, Context(r)) /\ Active(t) = Active(r)
        BY <2>1, AlikeGood DEF InOrder
    <2>3. Context(t) = Context(r)
        BY <1>2, <1>3, <2>1 DEF Context, InOrder, Good
    <2> QED BY <1>2, <1>3, <2>1, <2>2, <2>3 DEF InOrder, Unsignalled, Alive, proc_get
<1>5. p.interrupt.irq \in Irqs \cup {Soft}
    BY <1>1 DEF Process, Interrupt
<1>6. /\ w \in Process /\ w.task = t.task /\ w.interrupt.irq = p.interrupt.irq
      /\ w.interrupt.state # "IDLE"
      /\ Alive(t) /\ InOrder(t) => InOrder(w) /\ (Unsignalled(t) => Unsignalled(w))
    BY <1>2, <1>3, <1>5, StartedFacts
<1> HIDE DEF w
<1>7. Carries(w, p')
    BY <1>1, <1>6, MultiCoreFacts
<1>8. Ordered(p', log')
    <2>1. SwitchTo(IF w.task.state = "RUNNING" THEN w ELSE proc_wakeup_all_state(w)).task.state
             = "RUNNING"
        BY <1>6, WakeAllFacts, SwitchToFacts
    <2>2. p'.task.state = "RUNNING"
        BY <1>1, <2>1 DEF proc_switch_multi_core
    <2>3. InOrder(p) => Alive(w)
        BY <1>4, <1>6 DEF Alive
    <2> QED BY <1>1, <1>4, <1>6, <1>7, <2>2, <2>3 DEF HandlersInv, Ordered, Carries
<1>9. Heard(irq_off', p', log')
    BY <1>1, <1>6, <1>7 DEF HandlersInv, Heard, Carries
<1> QED BY <1>1, <1>7, <1>8, <1>9 DEF HandlersInv, Records, Carries

\* interrupt_end(): p goes on below the handler, and the irq is enabled.
LEMMA EndLastInv == HandlersInv /\ EndLast => HandlersInv'
<1> SUFFICES ASSUME HandlersInv, EndLast PROVE HandlersInv'
    OBVIOUS
<1> DEFINE r == Resumed(p)
           t == [r EXCEPT !.interrupt.pending = FALSE]
<1>1. /\ p \in Process /\ Alive(p) /\ p.current /\ p.regs = "intr" /\ p' \in schedule(t)
      /\ irq_off' = irq_off \ {p.interrupt.irq} /\ log' = log
      /\ client' \in [Clients -> {"run", "retry", "blocked", "served", "dead"}]
      /\ waitq' \in Seq(Clients)
    BY InterruptWakeupTypes DEF HandlersInv, Records, EndLast, Runs
<1>2. /\ r \in Process /\ Found(r) /\ r.interrupt.state = "IDLE"
      /\ InOrder(p) => Alive(r) /\ InOrder(r) /\ (Unsignalled(p) => Unsignalled(r))
    BY <1>1, ResumedFacts
<1> HIDE DEF r
<1>3. /\ t \in Process /\ t.task = r.task /\ t.queued = r.queued /\ t.current = r.current
      /\ t.regs = r.regs /\ t.ctx = r.ctx /\ t.signal = r.signal /\ t.ipc = r.ipc
      /\ t.interrupt.state = r.interrupt.state /\ t.interrupt.irq = r.interrupt.irq
      /\ t.interrupt.saved = r.interrupt.saved
      /\ t.interrupt.restore_pending = r.interrupt.restore_pending
    BY <1>2 DEF Process, Interrupt
<1> HIDE DEF t
<1>4. Found(t) /\ Alike(r, t) /\ Context(t) = Context(r) /\ (Alive(r) => Alive(t))
    BY <1>2, <1>3 DEF Found, Alike, Context, Alive
<1>5. Carries(t, p')
    BY <1>1, <1>3, <1>4, ScheduleFacts
<1>6. Carries(r, p')
    BY <1>4, <1>5, AlikeCarries
<1>7. Ordered(p', log')
    BY <1>1, <1>2, <1>6 DEF HandlersInv, Ordered, Carries, Alive
<1>8. Heard(irq_off', p', log')
    BY <1>1, <1>2, <1>6 DEF HandlersInv, Heard, Carries
<1> QED BY <1>1, <1>6, <1>7, <1>8 DEF HandlersInv, Records, Carries

\* proc_interrupt_timeout(): p is still found and the irq enabled.
LEMMA TimeoutInv == HandlersInv /\ proc_interrupt_timeout => HandlersInv'
<1> SUFFICES ASSUME HandlersInv, proc_interrupt_timeout PROVE HandlersInv'
    OBVIOUS
<1> DEFINE v == p.interrupt.saved
           k == [p.task EXCEPT !.state = v.state, !.sleep_counter = v.sleep_counter]
           i == [p.interrupt EXCEPT !.saved = NoSaved, !.state = "IDLE",
                                    !.restore_pending = (p.interrupt.state = "WORKING")]
           r == [p EXCEPT !.task = k, !.ctx = v.ctx, !.interrupt = i]
<1>1. /\ p \in Process /\ p.interrupt \in Interrupt /\ p.task \in Task /\ v \in Saved
      /\ irq_off' = irq_off \ {p.interrupt.irq} /\ log' = Count("timeouts")
      /\ client' \in [Clients -> {"run", "retry", "blocked", "served", "dead"}]
      /\ waitq' \in Seq(Clients)
    BY InterruptWakeupTypes DEF HandlersInv, Records, proc_interrupt_timeout, Process, Interrupt
<1>2. p' = IF r.task.state \in {"READY", "RUNNING"} THEN Ready(r) ELSE proc_wakeup(r)
    <2>1. r = [Restored(p, v) EXCEPT !.ctx = v.ctx, !.interrupt.saved = NoSaved,
                 !.interrupt.state = "IDLE",
                 !.interrupt.restore_pending = p.interrupt.state = "WORKING"]
        BY <1>1 DEF Restored, Process
    <2>2. p' = Rolled(p)
        BY DEF proc_interrupt_timeout
    <2> HIDE DEF r
    <2> QED BY <2>1, <2>2 DEF Rolled
<1>3. k \in Task /\ v.ctx \in Frames
    BY <1>1 DEF Task, Saved
<1>4. i \in Interrupt /\ i.state = "IDLE"
    <2>1. NoSaved \in Saved
        BY DEF NoSaved, Saved, Frames
    <2> QED BY <1>1, <2>1 DEF Interrupt
<1> HIDE DEF k, v, i
<1>5. r \in Process /\ r.interrupt = i
    BY <1>1, <1>3, <1>4 DEF Process
<1> HIDE DEF r
<1>6. p' \in Process /\ Found(p') /\ p'.interrupt.state = "IDLE"
    <2>1. CASE r.task.state \in {"READY", "RUNNING"}
        BY <1>2, <1>4, <1>5, <2>1, ReadyFacts DEF Found
    <2>2. CASE r.task.state \notin {"READY", "RUNNING"} /\ Alive(r)
        BY <1>2, <1>4, <1>5, <2>2, WakeupFacts DEF Found, Alike
    <2>3. CASE r.task.state \notin {"READY", "RUNNING"} /\ ~Alive(r)
        BY <1>2, <1>4, <1>5, <2>3 DEF Found, proc_wakeup
    <2> QED BY <2>1, <2>2, <2>3
<1>7. /\ log' \in [interrupts: Nat, signals: Nat, calls: Nat, timeouts: Nat, collided: SUBSET Irqs]
      /\ log'.timeouts = log.timeouts + 1 /\ log'.collided = log.collided
    BY <1>1, CountFacts DEF HandlersInv
<1>8. Ordered(p', log')
    BY <1>7 DEF Ordered, HandlersInv, Records
<1>9. Heard(irq_off', p', log')
    BY <1>1, <1>6, <1>7 DEF HandlersInv, Heard
<1> QED BY <1>1, <1>6, <1>7, <1>8, <1>9 DEF HandlersInv, Records

-----------------------------------------------------------------------------
(* Signals.                                                                *)

\* A signal announced in any way: the first one leaves the books in order.
LEMMA SignalStep ==
    ASSUME HandlersInv, Alive(p), Carries(Signalled(p), p'), log' = Count("signals"),
           UNCHANGED <<client, waitq, irq_off>>
    PROVE  HandlersInv'
<1> DEFINE t == Signalled(p)
<1>1. p \in Process
    BY DEF HandlersInv, Records
<1>2. /\ t \in Process /\ t.task = p.task /\ t.interrupt = p.interrupt
      /\ InOrder(p) /\ Unsignalled(p) => InOrder(t)
    BY <1>1, SignalledFacts
<1> HIDE DEF t
<1>3. Carries(t, p') /\ Alive(t)
    BY <1>2 DEF t, Alive
<1>4. /\ log' \in [interrupts: Nat, signals: Nat, calls: Nat, timeouts: Nat, collided: SUBSET Irqs]
      /\ log'.signals = log.signals + 1 /\ log'.timeouts = log.timeouts
      /\ log'.collided = log.collided
    BY CountFacts DEF HandlersInv
<1>5. Ordered(t, log')
    <2>1. log.signals \in Nat
        BY DEF HandlersInv, Records
    <2>2. log'.signals <= 1 => log.signals = 0 /\ log.signals <= 1 /\ log'.signals # 0
        BY <1>4, <2>1
    <2> QED BY <1>2, <1>3, <1>4, <2>2 DEF HandlersInv, Ordered, Alive
<1>6. Ordered(p', log')
    BY <1>3, <1>5, CarriesOrdered
<1>7. Heard(irq_off', p', log')
    BY <1>2, <1>3, <1>4 DEF HandlersInv, Heard, Carries
<1> QED BY <1>3, <1>4, <1>6, <1>7 DEF HandlersInv, Records, Carries

\* sys_signal() with a handler.
LEMMA SysSignalInv ==
    ASSUME HandlersInv, NEW local \in BOOLEAN, sys_signal(local)
    PROVE  HandlersInv'
<1>1. p \in Process /\ Alive(p) /\ p' = proc_switch_multi_core(Signalled(p), local)
      /\ log' = Count("signals") /\ UNCHANGED <<client, waitq, irq_off>>
    BY DEF HandlersInv, Records, sys_signal, Alive, proc_get
<1>2. Signalled(p) \in Process /\ Alive(Signalled(p))
    BY <1>1, SignalledFacts DEF Alive
<1>3. Carries(Signalled(p), p')
    BY <1>1, <1>2, MultiCoreFacts
<1> QED BY <1>1, <1>3, SignalStep

\* The signal of a father that terminates.
LEMMA SignalOfFatherInv == HandlersInv /\ SignalOfFather => HandlersInv'
<1> SUFFICES ASSUME HandlersInv, SignalOfFather PROVE HandlersInv'
    OBVIOUS
<1> DEFINE t == Signalled(p)
<1>1. p \in Process /\ Alive(p) /\ p' = Ready(t)
      /\ log' = Count("signals") /\ UNCHANGED <<client, waitq, irq_off>>
    BY DEF HandlersInv, Records, SignalOfFather
<1>2. t \in Process
    BY <1>1, SignalledFacts
<1> HIDE DEF t
<1>3. /\ p' \in Process /\ p'.task.state = "READY" /\ p'.queued /\ p'.current = t.current
      /\ p'.regs = t.regs /\ p'.ctx = t.ctx /\ p'.interrupt = t.interrupt
      /\ p'.signal = t.signal /\ p'.ipc = t.ipc
    BY <1>1, <1>2, ReadyFacts
<1>4. Alive(p') /\ Found(p') /\ Alike(t, p') /\ Context(p') = Context(t)
    BY <1>3 DEF Found, Alive, proc_get, Alike, Context
<1>5. Carries(p', p')
    BY <1>3, <1>4 DEF Carries
<1>6. Carries(t, p')
    BY <1>4, <1>5, AlikeCarries
<1> QED BY <1>1, <1>6, SignalStep DEF t

\* A handler ends in t, and p goes on.
LEMMA EndStep ==
    ASSUME HandlersInv, Alive(p), NEW t, t.interrupt = p.interrupt, Carries(t, p'),
           InOrder(p) => Alive(t) /\ InOrder(t) /\ (Unsignalled(p) => Unsignalled(t)),
           client' \in [Clients -> {"run", "retry", "blocked", "served", "dead"}],
           UNCHANGED <<waitq, irq_off, log>>
    PROVE  HandlersInv'
<1>1. Ordered(p', log')
    BY DEF HandlersInv, Ordered, Carries, Alive
<1>2. Heard(irq_off', p', log')
    BY DEF HandlersInv, Heard, Carries
<1> QED BY <1>1, <1>2 DEF HandlersInv, Records, Carries

\* proc_signal_end(): p goes on below the handler.
LEMMA SignalEndInv == HandlersInv /\ proc_signal_end => HandlersInv'
<1> SUFFICES ASSUME HandlersInv, proc_signal_end PROVE HandlersInv'
    OBVIOUS
<1> DEFINE t == SignalEnded(p)
<1>1. /\ p \in Process /\ Alive(p) /\ p.current /\ p.regs = "sig" /\ p' \in schedule(t)
      /\ UNCHANGED <<client, waitq, irq_off, log>>
    BY DEF HandlersInv, Records, proc_signal_end, Runs, SignalEnded
<1>2. /\ t \in Process /\ Found(t) /\ t.interrupt = p.interrupt
      /\ InOrder(p) => Alive(t) /\ InOrder(t) /\ Unsignalled(t)
    BY <1>1, SignalEndedFacts
<1> HIDE DEF t
<1>3. Carries(t, p')
    BY <1>1, <1>2, ScheduleFacts
<1> QED BY <1>1, <1>2, <1>3, EndStep DEF HandlersInv, Records

-----------------------------------------------------------------------------
(* Requests.                                                               *)

\* A client at the end of a queue.
LEMMA AppendFacts ==
    ASSUME NEW q \in Seq(Clients), NEW c \in Clients
    PROVE  Append(q, c) \in Seq(Clients) /\ Append(q, c) # <<>>
<1>1. Append(q, c) \in Seq(Clients) /\ Len(Append(q, c)) = Len(q) + 1 /\ Len(q) \in Nat
    OBVIOUS
<1> QED BY <1>1

\* proc_ipc_do_task(): the first request of a ring q is announced.
LEMMA DoTaskFacts ==
    ASSUME NEW s \in Process, NEW q \in Seq(Clients), q # <<>>, "ipc" \notin Active(s),
           NEW local \in BOOLEAN, local \/ Alive(s)
    PROVE  LET t == Requested(WithRing(s, q)) IN
           /\ proc_ipc_do_task(WithRing(s, q), local) = proc_switch_multi_core(t, local)
           /\ Carries(t, proc_ipc_do_task(WithRing(s, q), local))
           /\ t.task = s.task /\ t.interrupt = s.interrupt
           /\ Alive(s) /\ InOrder(s) => InOrder(t) /\ (Unsignalled(s) => Unsignalled(t))
<1> DEFINE w == WithRing(s, q)
           t == Requested(w)
<1>1. proc_ipc_do_task(w, local) = proc_switch_multi_core(t, local)
    BY DEF proc_ipc_do_task, Requested
<1>2. /\ t \in Process /\ t.task = s.task /\ t.interrupt = s.interrupt
      /\ Alive(s) /\ InOrder(s) => InOrder(t) /\ (Unsignalled(s) => Unsignalled(t))
    BY RequestedFacts
<1> HIDE DEF t
<1>3. Carries(t, proc_switch_multi_core(t, local))
    BY <1>2, MultiCoreFacts DEF Alive
<1> QED BY <1>1, <1>2, <1>3 DEF t

\* proc_ipc_call() that p accepts.
LEMMA CallTakenInv ==
    ASSUME HandlersInv, NEW c \in Clients, NEW local \in BOOLEAN, CallTaken(c, local),
           log' = Count("calls") \/ log' = log
    PROVE  HandlersInv'
<1> DEFINE q == Append(p.ipc.ring, c)
           w == WithRing(p, q)
<1>1. /\ p \in Process /\ Alive(p) /\ p.ipc.ring \in Seq(Clients) /\ UNCHANGED <<waitq, irq_off>>
      /\ client' \in [Clients -> {"run", "retry", "blocked", "served", "dead"}]
      /\ p' = IF p.ipc.ring = <<>> THEN proc_ipc_do_task(w, local) ELSE w
    BY DEF HandlersInv, Records, CallTaken, Process, Ipc, WithRing
<1>2. q \in Seq(Clients) /\ q # <<>>
    BY <1>1, AppendFacts
<1> HIDE DEF q
<1>3. /\ log' \in [interrupts: Nat, signals: Nat, calls: Nat, timeouts: Nat, collided: SUBSET Irqs]
      /\ log'.signals = log.signals /\ log'.timeouts = log.timeouts
      /\ log'.collided = log.collided
    BY CountFacts DEF HandlersInv, Records
<1>4. PICK t : /\ Carries(t, p') /\ t.task = p.task /\ t.interrupt = p.interrupt
               /\ InOrder(p) => InOrder(t) /\ (Unsignalled(p) => Unsignalled(t))
    <2>1. CASE p.ipc.ring = <<>>
        <3>1. "ipc" \notin Active(p)
            BY <2>1 DEF Active
        <3> QED BY <1>1, <1>2, <2>1, <3>1, DoTaskFacts
    <2>2. CASE p.ipc.ring # <<>>
        <3>1. /\ w \in Process /\ w.task = p.task /\ w.queued = p.queued
              /\ w.current = p.current
              /\ w.regs = p.regs /\ w.ctx = p.ctx /\ w.interrupt = p.interrupt
              /\ w.signal = p.signal /\ w.ipc.ring = q /\ w.ipc.saved = p.ipc.saved
              /\ w.ipc.do_switch = p.ipc.do_switch
              /\ w.ipc.restore_pending = p.ipc.restore_pending
            BY <1>1, <1>2, WithRingFacts
        <3>2. p' = w
            BY <1>1, <2>2
        <3> HIDE DEF w
        <3>3. Active(w) = Active(p) /\ Under(w) = Under(p) /\ Context(w) = Context(p)
            BY <1>2, <2>2, <3>1 DEF Active, Under, Context
        <3>4. InOrder(p) => InOrder(w) /\ (Unsignalled(p) => Unsignalled(w))
            BY <1>2, <2>2, <3>1, <3>3 DEF InOrder, Good, Unsignalled
        <3>5. Carries(w, w)
            BY <3>1 DEF Carries, Found, HandlersInv
        <3> QED BY <3>1, <3>2, <3>4, <3>5
    <2> QED BY <2>1, <2>2
<1>5. Alive(t)
    BY <1>1, <1>4 DEF Alive
<1>6. Ordered(p', log')
    <2>1. Ordered(t, log')
        BY <1>1, <1>3, <1>4, <1>5 DEF HandlersInv, Ordered
    <2> QED BY <1>4, <1>5, <2>1, CarriesOrdered
<1>7. Heard(irq_off', p', log')
    BY <1>1, <1>3, <1>4 DEF HandlersInv, Heard, Carries
<1> QED BY <1>1, <1>3, <1>4, <1>6, <1>7 DEF HandlersInv, Records, Carries

\* proc_ipc_call() that p accepts, or that is turned away.
LEMMA IpcCallInv ==
    ASSUME HandlersInv, NEW c \in Clients, proc_ipc_call(c)
    PROVE  HandlersInv'
<1>1. log' = Count("calls") \/ log' = log
    BY DEF proc_ipc_call
<1>2. CASE \E local \in BOOLEAN : CallTaken(c, local)
    BY <1>1, <1>2, CallTakenInv
<1>3. CASE CallRefused(c) \/ CallWaits(c)
    <2>1. /\ log' \in [interrupts: Nat, signals: Nat, calls: Nat, timeouts: Nat, collided: SUBSET Irqs]
          /\ log'.signals = log.signals /\ log'.timeouts = log.timeouts
          /\ log'.collided = log.collided
        BY <1>1, CountFacts DEF HandlersInv, Records
    <2>2. /\ p' = p /\ irq_off' = irq_off /\ waitq' \in Seq(Clients)
          /\ client' \in [Clients -> {"run", "retry", "blocked", "served", "dead"}]
        <3>1. CASE CallRefused(c)
            BY <3>1 DEF CallRefused, HandlersInv, Records
        <3>2. CASE CallWaits(c)
            BY <3>2, AppendFacts DEF CallWaits, HandlersInv, Records
        <3> QED BY <1>3, <3>1, <3>2
    <2> QED BY <2>1, <2>2 DEF HandlersInv, Records, Ordered, Heard
<1> QED BY <1>2, <1>3 DEF proc_ipc_call

\* proc_ipc_end(): p goes on below the handler, or begins the next request.
LEMMA IpcEndInv == HandlersInv /\ proc_ipc_end => HandlersInv'
<1> SUFFICES ASSUME HandlersInv, proc_ipc_end PROVE HandlersInv'
    OBVIOUS
<1> DEFINE q == Tail(p.ipc.ring)
           a == Answered(p, q)
           b == Answered(p, <<>>)
<1>1. /\ p \in Process /\ Alive(p) /\ p.current /\ p.regs = "ipc"
      /\ p.ipc.ring \in Seq(Clients) /\ p.ipc.ring # <<>>
      /\ p' \in IF a.ipc.ring = <<>> THEN schedule(a) ELSE {proc_ipc_do_task(a, TRUE)}
      /\ client' \in [Clients -> {"run", "retry", "blocked", "served", "dead"}]
      /\ UNCHANGED <<waitq, irq_off, log>>
    BY DEF HandlersInv, Records, proc_ipc_end, Runs, Answered, Process, Ipc
<1>2. q \in Seq(Clients) /\ <<>> \in Seq(Clients)
    BY <1>1
<1> HIDE DEF q
<1>3. a \in Process /\ a.ipc.ring = q
    BY <1>1, <1>2, AnsweredFacts
<1>4. /\ b \in Process /\ Found(b) /\ b.interrupt = p.interrupt /\ b.ipc.ring = <<>>
      /\ InOrder(p) => Alive(b) /\ InOrder(b) /\ (Unsignalled(p) => Unsignalled(b))
    BY <1>1, <1>2, AnsweredFacts
<1>5. a = WithRing(b, q)
    BY <1>1, <1>2, AnsweredRing
<1> HIDE DEF a, b
<1>6. CASE q = <<>>
    <2>1. b = a
        BY <1>6 DEF a, b
    <2>2. Carries(b, p')
        BY <1>1, <1>3, <1>4, <1>6, <2>1, ScheduleFacts
    <2> QED BY <1>1, <1>4, <2>2, EndStep
<1>7. CASE q # <<>>
    <2> DEFINE t == Requested(WithRing(b, q))
    <2>1. "ipc" \notin Active(b)
        BY <1>4 DEF Active
    <2>2. p' = proc_ipc_do_task(WithRing(b, q), TRUE)
        BY <1>1, <1>3, <1>5, <1>7
    <2>3. /\ Carries(t, p') /\ t.task = b.task /\ t.interrupt = b.interrupt
          /\ Alive(b) /\ InOrder(b) => InOrder(t) /\ (Unsignalled(b) => Unsignalled(t))
        BY <1>2, <1>4, <1>7, <2>1, <2>2, DoTaskFacts
    <2> HIDE DEF t
    <2>4. InOrder(p) => Alive(t) /\ InOrder(t) /\ (Unsignalled(p) => Unsignalled(t))
        BY <1>4, <2>3 DEF Alive
    <2> QED BY <1>1, <1>4, <2>3, <2>4, EndStep
<1> QED BY <1>6, <1>7

-----------------------------------------------------------------------------
(* Deaths.                                                                 *)

\* proc_terminate(): p is in no queue and handles no interrupt.
LEMMA ExitInv == HandlersInv /\ Exit => HandlersInv'
<1> SUFFICES ASSUME HandlersInv, Exit PROVE HandlersInv'
    OBVIOUS
<1> DEFINE t == [p EXCEPT !.task.state = "ZOMBIE", !.queued = FALSE,
                          !.interrupt.state = "IDLE", !.ipc.ring = <<>>]
<1>1. /\ p \in Process /\ p' = SwitchAway(t) /\ irq_off' = IrqOffAfter
      /\ UNCHANGED log /\ waitq' = <<>>
      /\ client' \in [Clients -> {"run", "retry", "blocked", "served", "dead"}]
    BY DEF HandlersInv, Records, Exit
<1>2. t \in Process /\ t.task.state = "ZOMBIE" /\ t.interrupt.state = "IDLE"
    <2>1. t.task \in Task /\ t.task.state = "ZOMBIE"
        BY <1>1 DEF Process, Task, States
    <2>2. t.interrupt \in Interrupt /\ t.interrupt.state = "IDLE"
        BY <1>1 DEF Process, Interrupt
    <2>3. t.ipc \in Ipc
        <3>1. t.ipc = [p.ipc EXCEPT !.ring = <<>>] /\ p.ipc \in Ipc
            BY <1>1 DEF Process
        <3>2. <<>> \in Seq(Clients)
            OBVIOUS
        <3> HIDE DEF t
        <3> QED BY <3>1, <3>2 DEF Ipc
    <2>4. t = [p EXCEPT !.task = t.task, !.queued = FALSE, !.interrupt = t.interrupt, !.ipc = t.ipc]
        BY <1>1 DEF Process
    <2> HIDE DEF t
    <2> QED BY <1>1, <2>1, <2>2, <2>3, <2>4 DEF Process
<1> HIDE DEF t
<1>3. p' = [t EXCEPT !.current = FALSE]
    BY <1>1, <1>2 DEF SwitchAway, Runs, Alive, proc_get
<1>4. p' \in Process /\ p'.task.state = "ZOMBIE" /\ p'.interrupt.state = "IDLE"
    BY <1>2, <1>3 DEF Process
<1>5. Ordered(p', log') /\ Found(p')
    BY <1>4 DEF Ordered, Found, Alive, proc_get
<1>6. Heard(irq_off', p', log')
    BY <1>1, <1>4 DEF HandlersInv, Heard, IrqOffAfter
<1>7. irq_off' \subseteq Irqs
    BY <1>1 DEF HandlersInv, Records, IrqOffAfter
<1> QED BY <1>1, <1>4, <1>5, <1>6, <1>7 DEF HandlersInv, Records

\* The death of a client does not touch p.
LEMMA ClientExitInv ==
    ASSUME HandlersInv, NEW c \in Clients, ClientExit(c)
    PROVE  HandlersInv'
BY DEF HandlersInv, Records, Ordered, Heard, ClientExit

-----------------------------------------------------------------------------
(* The theorems.                                                           *)

\* Every step of the kernel, of the devices and of the clients keeps HandlersInv.
LEMMA Preserved == HandlersInv /\ [Next]_vars => HandlersInv'
<1> SUFFICES ASSUME HandlersInv, [Next]_vars PROVE HandlersInv'
    OBVIOUS
<1>1. CASE UNCHANGED vars
    BY <1>1 DEF vars, HandlersInv, Records, Ordered, Heard
<1>2. CASE Tick \/ proc_usleep \/ Block_p \/ Wake \/ SleepOver
    BY <1>2, TickInv, UsleepInv, BlockInv, WakeInv, SleepOverInv
<1>3. CASE \E irq \in Interrupts : interrupt_send(irq)
    BY <1>3, InterruptSendInv
<1>4. CASE interrupt_end \/ proc_interrupt_timeout
    BY <1>4, EndAgainInv, EndLastInv, TimeoutInv DEF interrupt_end
<1>5. CASE (\E local \in BOOLEAN : sys_signal(local)) \/ SignalOfFather \/ proc_signal_end
    BY <1>5, SysSignalInv, SignalOfFatherInv, SignalEndInv
<1>6. CASE \E c \in Clients : proc_ipc_call(c) \/ ClientExit(c)
    BY <1>6, IpcCallInv, ClientExitInv
<1>7. CASE proc_ipc_end \/ Exit
    BY <1>7, IpcEndInv, ExitInv
<1> QED BY <1>1, <1>2, <1>3, <1>4, <1>5, <1>6, <1>7 DEF Next

\* The invariant holds always, whatever the clients, the devices and the bounds.
THEOREM HandlersInvariant == Spec => []HandlersInv
<1>1. Init => HandlersInv
    BY InitInv
<1>2. HandlersInv /\ [Next]_vars => HandlersInv'
    BY Preserved
<1> QED BY <1>1, <1>2, PTL DEF Spec

\* Every field of p, of the clients and of the interrupts keeps its type, and the
\* state of p is never overwritten with that of an empty saved_state_t, unless by
\* the watchdog or a second signal.
THEOREM TypeCorrect == Spec => []TypeOK
<1>1. HandlersInv => TypeOK
    BY DEF HandlersInv, Records, Ordered, TypeOK
<1> QED BY <1>1, HandlersInvariant, PTL

\* proc_switch(), schedule() and the three ends of a handler never leave p ready
\* to run where the scheduler does not look for it.
THEOREM SchedulerFinds == Spec => []ReadyIsFound
<1>1. HandlersInv => ReadyIsFound
    BY DEF HandlersInv, Found, ReadyIsFound
<1> QED BY <1>1, HandlersInvariant, PTL

\* interrupt_send_raw() disables a hardware interrupt, interrupt_end(), the
\* watchdog or the death of p enables it again: no device is left disabled but one
\* that interrupted during another interrupt.
THEOREM DevicesHeard == Spec => []IrqHeardAgain
<1>1. HandlersInv => IrqHeardAgain
    BY DEF HandlersInv, Heard, IrqHeardAgain
<1> QED BY <1>1, HandlersInvariant, PTL

\* The contexts below the present one are those of the handlers in progress.
LEMMA HandlersNest == Spec => [](log.signals <= 1 => Unwinds /\ HandlersMatch)
<1>1. HandlersInv => (log.signals <= 1 => Unwinds /\ HandlersMatch)
    <2> SUFFICES ASSUME HandlersInv, log.signals <= 1, Alive(p), log.timeouts = 0
                 PROVE  /\ "main" \in Chain
                        /\ "intr" \in Chain <=> p.interrupt.state = "WORKING"
                        /\ "ipc" \in Chain <=> p.ipc.ring # <<>> /\ ~p.ipc.do_switch
        BY DEF Unwinds, HandlersMatch
    <2> DEFINE A == Active(p)
               u == Under(p)
               c == Context(p)
               d(f) == IF f \in A THEN u[f] ELSE f
    <2>1. Nested(A, u, c) /\ A \in SUBSET Kinds
        BY DEF HandlersInv, Ordered, InOrder, Good, Active
    <2>2. {c, d(c), d(d(c)), d(d(d(c)))} = A \cup {"main"}
        BY <2>1, Descent
    <2>3. \A f \in A \cup {"main"} : Below(f) = d(f)
        BY DEF Below, Under, Active, Kinds
    <2>4. c \in A \cup {"main"} /\ d(c) \in A \cup {"main"} /\ d(d(c)) \in A \cup {"main"}
        BY <2>2
    <2>5. Chain = {c, Below(c), Below(Below(c)), Below(Below(Below(c)))}
        BY DEF Chain
    <2> HIDE DEF d, c
    <2>6. Chain = A \cup {"main"}
        BY <2>2, <2>3, <2>4, <2>5
    <2> QED BY <2>6 DEF Active, Kinds
<1> QED BY <1>1, HandlersInvariant, PTL

\* As long as at most one signal was sent, the contexts that interrupt, signal and
\* ipc handler save lead back to the main context: whatever nests in whatever,
\* interrupt_end(), proc_signal_end() and proc_ipc_task_end() restore it.
THEOREM HandlersUnwind == Spec => [](log.signals <= 1 => Unwinds)
BY HandlersNest, PTL

\* As long as at most one signal was sent, the context of a handler is on the way
\* down exactly while the kernel thinks that the handler is in progress.
THEOREM HandlersAreMatched == Spec => [](log.signals <= 1 => HandlersMatch)
BY HandlersNest, PTL

=============================================================================
