-------------------------- MODULE ProcLifeProofs --------------------------
(***************************************************************************)
(* Proofs about ProcLife, for any number of cores, of slots of the task    *)
(* table and of blocks of memory: the task table, the reference counts of  *)
(* the address spaces, what the cores run, and who waits for whom.         *)
(***************************************************************************)
EXTENDS ProcLife, FiniteSetTheorems, WellFoundedInduction, TLAPS

\* A non-empty set of naturals has a least element.
LEMMA Least ==
    ASSUME NEW T \in SUBSET Nat, T # {}
    PROVE  \E x \in T : \A y \in T : x <= y
<1> DEFINE R == {q \in Nat \X Nat : q[1] < q[2]}
<1>1. IsWellFoundedOn(R, Nat)
    BY NatLessThanWellFounded DEF OpToRel
<1>2. PICK x \in T : \A y \in T : ~ (<<y, x>> \in R)
    <2> HIDE DEF R
    <2> QED BY <1>1, WFMin
<1>3. \A y \in T : ~(y < x)
    BY <1>2
<1> QED BY <1>3

\* Pids are numbers, none of them NoPid or the pid of the idle tasks.
LEMMA PidFacts ==
    /\ Pids \subseteq Nat \ {0} /\ NoPid \notin Pids /\ IdlePid \notin Pids
    /\ \A n \in Pids : n <= MAX_TASK_NUM
    /\ MAX_TASK_NUM \in Nat \ {0}
BY ProcLifeAssumption DEF Pids, NoPid, IdlePid

-----------------------------------------------------------------------------
(* The free slot proc_create() takes.                                      *)

\* The search of proc_create() ends in a free slot when there is one.
LEMMA SlotFacts ==
    ASSUME NEW m \in Memory, FreeSlots(m) # {}
    PROVE  /\ Slot(m) \in Pids /\ m.table[Slot(m)] = Nil
           /\ Slot(m) + 1 \in 1 .. MAX_TASK_NUM + 1
<1> DEFINE D == {Distance(m, n) : n \in FreeSlots(m)}
<1>1. \A n \in FreeSlots(m) : Distance(m, n) \in Nat
    <2> SUFFICES ASSUME NEW n \in FreeSlots(m)
                 PROVE  Distance(m, n) \in Nat
        OBVIOUS
    <2>1. n \in Nat /\ n >= 1 /\ m.last \in Nat /\ m.last <= MAX_TASK_NUM + 1
        BY PidFacts DEF Memory, FreeSlots, Pids
    <2>2. n + MAX_TASK_NUM + 1 - m.last \in Nat
        BY <2>1, PidFacts
    <2> QED BY <2>2, PidFacts DEF Distance
<1>2. D \in SUBSET Nat /\ D # {}
    BY <1>1
<1>3. \E x \in D : \A y \in D : x <= y
    <2> HIDE DEF D
    <2> QED BY <1>2, Least
<1>4. \E n \in FreeSlots(m) : \A x \in FreeSlots(m) : Distance(m, n) <= Distance(m, x)
    BY <1>3
<1>5. Slot(m) \in FreeSlots(m)
    BY <1>4 DEF Slot
<1> QED BY <1>5, PidFacts DEF FreeSlots, Pids

-----------------------------------------------------------------------------
(* Kernel memory.                                                          *)

\* The table holds a task under its own pid.
Tabled(m) ==
    \A n \in Pids : m.table[n] # Nil =>
        m.proc[m.table[n]].pid = n /\ m.proc[m.table[n]].state # "FREE"

\* A task that may be scheduled is in the table.
Listed(m) ==
    \A o \in Objs : m.proc[o].state # "FREE" =>
        m.proc[o].pid \in Pids /\ (m.proc[o].state # "ZOMBIE" => m.table[m.proc[o].pid] = o)

\* A task has an address space, a process its own.
Housed(m) ==
    \A o \in Objs : m.proc[o].state # "FREE" =>
        /\ m.proc[o].space \in Objs /\ m.space[m.proc[o].space].used
        /\ m.proc[o].type = "PROC" => m.proc[o].space = o

\* An address space has its process.
Owned(m) ==
    \A s \in Objs : m.space[s].used => m.proc[s].state # "FREE" /\ m.proc[s].type = "PROC"

Threads(m, s) ==
    {o \in Objs : m.proc[o].state # "FREE" /\ m.proc[o].type = "THREAD" /\ m.proc[o].space = s}

\* Its count is that of its threads.
Counted(m) ==
    \A s \in Objs : m.space[s].used => m.space[s].refs = Cardinality(Threads(m, s))

MemOK(m) == m \in Memory /\ Tabled(m) /\ Listed(m) /\ Housed(m) /\ Owned(m) /\ Counted(m)

\* Changes of m that only concern the states of tasks: none is born or freed, and
\* only a task of the table is revived.
StatesOnly(m, f) ==
    /\ f \in [Objs -> Procs]
    /\ \A o \in Objs : /\ f[o].pid = m.proc[o].pid /\ f[o].type = m.proc[o].type
                       /\ f[o].space = m.proc[o].space /\ f[o].core = m.proc[o].core
                       /\ f[o].state = "FREE" <=> m.proc[o].state = "FREE"
                       /\ f[o].state # "ZOMBIE" =>
                             m.proc[o].state # "ZOMBIE" \/ o \in InTable(m)

\* Such changes keep kernel memory in order.
LEMMA StatesOnlyOK ==
    ASSUME NEW m, MemOK(m), NEW f, StatesOnly(m, f)
    PROVE  MemOK([m EXCEPT !.proc = f])
<1> DEFINE n == [m EXCEPT !.proc = f]
<1>1. n \in Memory /\ n.proc = f /\ n.table = m.table /\ n.space = m.space
    BY DEF MemOK, Memory, StatesOnly
<1> HIDE DEF n
<1>2. Tabled(n)
    BY <1>1 DEF MemOK, Memory, StatesOnly, Tabled
<1>3. Listed(n)
    BY <1>1 DEF MemOK, StatesOnly, Listed, InTable
<1>4. Housed(n)
    BY <1>1 DEF MemOK, StatesOnly, Housed
<1>5. Owned(n)
    BY <1>1 DEF MemOK, StatesOnly, Owned
<1>6. Counted(n)
    <2>1. \A s : Threads(n, s) = Threads(m, s)
        BY <1>1 DEF StatesOnly, Threads
    <2> QED BY <1>1, <2>1 DEF MemOK, Counted
<1> QED BY <1>1, <1>2, <1>3, <1>4, <1>5, <1>6 DEF MemOK, n

\* Tasks that are looked up.
Alive(m) == {o \in Objs : m.proc[o].state \notin {"FREE", "ZOMBIE"}}

\* A task that lives is in the table and has its address space.
LEMMA AliveFacts ==
    ASSUME NEW m, MemOK(m), NEW o \in Alive(m)
    PROVE  /\ o \in InTable(m) /\ m.proc[o].pid \in Pids /\ m.table[m.proc[o].pid] = o
           /\ o \notin Zombies(m) /\ m.proc[o].space \in Objs
           /\ m.space[m.proc[o].space].used
BY PidFacts DEF MemOK, Listed, Housed, Alive, InTable, Zombies

\* A slot of the table holds a task that was not freed.
LEMMA InTableFacts ==
    ASSUME NEW m, MemOK(m), NEW o \in InTable(m)
    PROVE  o \in Objs /\ m.proc[o].state # "FREE" /\ m.proc[o].pid \in Pids
           /\ m.table[m.proc[o].pid] = o
<1>1. o \in Objs /\ m.proc[o].pid \in Pids /\ m.table[m.proc[o].pid] = o
    BY DEF MemOK, Memory, InTable, Procs
<1> QED BY <1>1, ProcLifeAssumption DEF MemOK, Tabled

\* proc_get() returns the task of the slot, when it lives.
LEMMA GetFacts ==
    ASSUME NEW m, MemOK(m), NEW pid \in Pids \cup {NoPid}
    PROVE  /\ proc_get(m, pid) \in Alive(m) \cup {Nil}
           /\ proc_get(m, pid) # Nil => pid \in Pids /\ m.table[pid] = proc_get(m, pid)
<1>1. CASE pid = NoPid
    BY <1>1 DEF proc_get
<1>2. CASE pid \in Pids
    BY <1>2, PidFacts DEF proc_get, MemOK, Memory, Tabled, Alive
<1> QED BY <1>1, <1>2

\* The mark of proc_terminate() on a task that is there.
LEMMA MarkedOK ==
    ASSUME NEW m, MemOK(m), NEW o \in Objs, m.proc[o].state # "FREE"
    PROVE  /\ MemOK(Marked(m, o))
           /\ Marked(m, o).table = m.table /\ Marked(m, o).space = m.space
           /\ StatesOnly(m, Marked(m, o).proc)
           /\ Marked(m, o).proc = [m.proc EXCEPT ![o] = [m.proc[o] EXCEPT !.state = "ZOMBIE"]]
<1> DEFINE f == [m.proc EXCEPT ![o] = [m.proc[o] EXCEPT !.state = "ZOMBIE"]]
<1>1. Marked(m, o) = [m EXCEPT !.proc = f]
    BY DEF Marked, MemOK, Memory
<1>2. StatesOnly(m, f)
    <2>1. m.proc \in [Objs -> Procs]
        BY DEF MemOK, Memory
    <2>2. f \in [Objs -> Procs]
        BY <2>1 DEF Procs
    <2> QED BY <2>1, <2>2 DEF StatesOnly, Procs
<1>3. MemOK([m EXCEPT !.proc = f])
    BY <1>2, StatesOnlyOK
<1> HIDE DEF f
<1> QED BY <1>1, <1>2, <1>3 DEF MemOK, Memory, f

\* The rest of proc_terminate(), of a task with any pid and type: threads die,
\* children are signalled, waiters are woken.
LEMMA BereavedOK ==
    ASSUME NEW m, MemOK(m), NEW pid, NEW type
    PROVE  /\ MemOK(Bereaved(m, pid, type))
           /\ Bereaved(m, pid, type).table = m.table
           /\ StatesOnly(m, Bereaved(m, pid, type).proc)
<1> DEFINE threads == TerminatedWith(m, pid, type)
           signalled == Signalled(m, pid, type)
           mourned == Mourned(m, pid, type)
           woken == {c \in InTable(m) : m.proc[c].state = "WAIT" /\ m.proc[c].wait_for \in mourned}
           f == [c \in Objs |->
                  IF c \in threads
                  THEN [m.proc[c] EXCEPT !.state = "ZOMBIE", !.father_pid = NoPid, !.wait_for = NoPid]
                  ELSE IF c \in signalled \cup woken
                  THEN [m.proc[c] EXCEPT !.state = "READY", !.wait_for = NoPid]
                  ELSE IF type = "THREAD" /\ m.table[pid] = c
                  THEN [m.proc[c] EXCEPT !.father_pid = NoPid]
                  ELSE m.proc[c]]
<1>1. Bereaved(m, pid, type) = [m EXCEPT !.proc = f]
    BY DEF Bereaved, MemOK, Memory
<1>2. threads \subseteq InTable(m) /\ signalled \cup woken \subseteq InTable(m)
    BY DEF TerminatedWith, Signalled, Children
<1>3. \A o \in InTable(m) : m.proc[o].state # "FREE"
    BY InTableFacts
<1> HIDE DEF threads, signalled, woken
<1>4. StatesOnly(m, f)
    <2>1. m.proc \in [Objs -> Procs]
        BY DEF MemOK, Memory
    <2>2. f \in [Objs -> Procs]
        <3> SUFFICES ASSUME NEW o \in Objs
                     PROVE  f[o] \in Procs
            OBVIOUS
        <3>1. m.proc[o] \in Procs
            BY <2>1
        <3> QED BY <3>1 DEF Procs
    <2>3. ASSUME NEW o \in Objs
          PROVE  /\ f[o].pid = m.proc[o].pid /\ f[o].type = m.proc[o].type
                 /\ f[o].space = m.proc[o].space /\ f[o].core = m.proc[o].core
                 /\ f[o].state = "FREE" <=> m.proc[o].state = "FREE"
                 /\ f[o].state # "ZOMBIE" => m.proc[o].state # "ZOMBIE" \/ o \in InTable(m)
        BY <1>2, <1>3, <2>1 DEF Procs
    <2> QED BY <2>2, <2>3 DEF StatesOnly
<1>5. MemOK([m EXCEPT !.proc = f])
    BY <1>4, StatesOnlyOK
<1> HIDE DEF f
<1> QED BY <1>1, <1>4, <1>5 DEF MemOK, Memory

-----------------------------------------------------------------------------
(* Burial.                                                                 *)

\* Zombies that can be buried together: a process only with its last threads.
Buriable(m, B) ==
    /\ B \subseteq Zombies(m)
    /\ \A o \in B : m.proc[o].type = "PROC" => Left(m, B, o) = 0

\* An address space has finitely many threads.
LEMMA ThreadsFinite ==
    ASSUME NEW m, NEW s
    PROVE  IsFiniteSet(Threads(m, s)) /\ Cardinality(Threads(m, s)) \in Nat
<1>1. Threads(m, s) \in SUBSET Objs
    BY DEF Threads
<1> QED BY <1>1, FS_Subset, FS_CardinalityType, ProcLifeAssumption

\* What is left of the count is the number of the threads that are left.
LEMMA LeftFacts ==
    ASSUME NEW m, MemOK(m), NEW B \in SUBSET Zombies(m), NEW s \in Objs
    PROVE  /\ Left(m, B, s) \in 0 .. MAX_TASK_PER_PROC
           /\ m.space[s].used => Left(m, B, s) = Cardinality(Threads(m, s) \ B)
<1>1. {o \in B : m.proc[o].type = "THREAD" /\ m.proc[o].space = s} = Threads(m, s) \cap B
    BY DEF Zombies, InTable, Threads
<1>2. Left(m, B, s) = m.space[s].refs - Cardinality(Threads(m, s) \cap B)
    BY <1>1 DEF Left
<1>3. m.space[s].refs \in 0 .. MAX_TASK_PER_PROC /\ MAX_TASK_PER_PROC \in Nat
    BY ProcLifeAssumption DEF MemOK, Memory, Spaces
<1>4. CASE m.space[s].used
    <2>1. m.space[s].refs = Cardinality(Threads(m, s))
        BY <1>4 DEF MemOK, Counted
    <2>2. Cardinality(Threads(m, s) \ B)
             = Cardinality(Threads(m, s)) - Cardinality(Threads(m, s) \cap B)
        BY ThreadsFinite, FS_Difference
    <2>3. Cardinality(Threads(m, s) \ B) \in Nat /\ Cardinality(Threads(m, s) \cap B) \in Nat
          /\ Cardinality(Threads(m, s)) \in Nat
        BY ThreadsFinite, FS_Difference, FS_Intersection, FS_CardinalityType
    <2> QED BY <1>2, <1>3, <2>1, <2>2, <2>3
<1>5. CASE ~m.space[s].used
    <2>1. Threads(m, s) \cap B = {}
        BY <1>5 DEF Threads, MemOK, Housed
    <2>2. Cardinality(Threads(m, s) \cap B) = 0
        BY <2>1, FS_EmptySet
    <2> QED BY <1>2, <1>3, <1>5, <2>2
<1> QED BY <1>4, <1>5

\* A process that is buried leaves no thread behind.
LEMMA NoOrphan ==
    ASSUME NEW m, MemOK(m), NEW B, Buriable(m, B), NEW s \in B, m.proc[s].type = "PROC"
    PROVE  Threads(m, s) \subseteq B
<1>1. s \in Objs /\ m.proc[s].state # "FREE" /\ B \in SUBSET Zombies(m)
    BY DEF Buriable, Zombies, InTable
<1>2. m.space[s].used
    BY <1>1 DEF MemOK, Housed
<1>3. Cardinality(Threads(m, s) \ B) = 0
    BY <1>1, <1>2, LeftFacts DEF Buriable
<1>4. IsFiniteSet(Threads(m, s) \ B)
    BY ThreadsFinite, FS_Difference
<1>5. Threads(m, s) \ B = {}
    BY <1>3, <1>4, FS_EmptySet
<1> QED BY <1>5

\* proc_funeral(): the table, the counts and the spaces stay in agreement; nothing
\* else is touched.
LEMMA FuneralOK ==
    ASSUME NEW m, MemOK(m), NEW B, Buriable(m, B), NEW k
    PROVE  LET n == proc_funeral(m, k, B) IN
           /\ MemOK(n)
           /\ \A i \in Pids : n.table[i] = IF m.table[i] \in B THEN Nil ELSE m.table[i]
           /\ \A o \in Objs : n.proc[o] = m.proc[o] \/ (o \in B /\ n.proc[o] = NoProc)
           /\ n.last = m.last
<1> DEFINE n == proc_funeral(m, k, B)
           procs == {o \in B : m.proc[o].type = "PROC"}
           T == [i \in Pids |-> IF m.table[i] \in B THEN Nil ELSE m.table[i]]
           P == [o \in Objs |-> IF o \in B THEN NoProc ELSE m.proc[o]]
           S == [s \in Objs |-> IF s \in procs THEN NoSpace
                                ELSE [m.space[s] EXCEPT !.refs = Left(m, B, s)]]
<1>0. B \in SUBSET Zombies(m) /\ B \subseteq Objs
      /\ \A o \in B : m.proc[o].state = "ZOMBIE"
    BY DEF Buriable, Zombies, InTable
<1>m. m \in Memory /\ m.proc \in [Objs -> Procs] /\ m.table \in [Pids -> Objs \cup {Nil}]
      /\ m.space \in [Objs -> Spaces]
    BY DEF MemOK, Memory
<1>1. T \in [Pids -> Objs \cup {Nil}]
    BY <1>m
<1>2. CASE get_current_proc(m, k) = Nil
    <2>1. n = [m EXCEPT !.table = T]
        BY <1>2, <1>m DEF proc_funeral, Memory
    <2>2. n \in Memory /\ n.proc = m.proc /\ n.table = T /\ n.space = m.space /\ n.last = m.last
        BY <1>1, <1>m, <2>1 DEF Memory
    <2> HIDE DEF n
    <2>3. Tabled(n)
        BY <2>2 DEF MemOK, Tabled
    <2>4. Listed(n)
        BY <1>0, <2>2 DEF MemOK, Listed
    <2>5. Housed(n) /\ Owned(n)
        BY <2>2 DEF MemOK, Housed, Owned
    <2>6. Counted(n)
        <3>1. \A s : Threads(n, s) = Threads(m, s)
            BY <2>2 DEF Threads
        <3> QED BY <2>2, <3>1 DEF MemOK, Counted
    <2> QED BY <2>2, <2>3, <2>4, <2>5, <2>6 DEF MemOK, n
<1>3. CASE get_current_proc(m, k) # Nil
    <2>1. n = [m EXCEPT !.table = T, !.proc = P, !.space = S]
        BY <1>3, <1>m DEF proc_funeral, Memory
    <2>2. P \in [Objs -> Procs]
        <3>1. NoProc \in Procs
            BY ProcLifeAssumption DEF NoProc, Procs
        <3> QED BY <1>m, <3>1
    <2>3. S \in [Objs -> Spaces]
        <3>1. NoSpace \in Spaces
            BY ProcLifeAssumption DEF NoSpace, Spaces
        <3>2. \A s \in Objs : Left(m, B, s) \in 0 .. MAX_TASK_PER_PROC
            BY <1>0, LeftFacts
        <3> QED BY <1>m, <3>1, <3>2 DEF Spaces
    <2>4. /\ \A o \in Objs : P[o] = IF o \in B THEN NoProc ELSE m.proc[o]
          /\ \A s \in procs : S[s] = NoSpace
          /\ \A s \in Objs \ procs : S[s].used = m.space[s].used /\ S[s].refs = Left(m, B, s)
          /\ procs \subseteq B
        BY <1>0, <1>m DEF Spaces
    <2> HIDE DEF P, S, T
    <2>5. n \in Memory /\ n.proc = P /\ n.table = T /\ n.space = S /\ n.last = m.last
        BY <1>1, <1>m, <2>1, <2>2, <2>3 DEF Memory
    <2> HIDE DEF n
    <2>6. Tabled(n)
        <3>1. \A i \in Pids : T[i] # Nil => T[i] = m.table[i] /\ m.table[i] \notin B
            BY DEF T
        <3>2. \A i \in Pids : T[i] # Nil => T[i] \in Objs
            BY <1>1 DEF T
        <3> QED BY <2>4, <2>5, <3>1, <3>2 DEF MemOK, Tabled
    <2>7. Listed(n)
        <3>1. \A i \in Pids : m.table[i] \notin B => T[i] = m.table[i]
            BY DEF T
        <3> QED BY <1>0, <2>4, <2>5, <3>1 DEF MemOK, Listed, NoProc
    <2>8. Housed(n)
        <3> SUFFICES ASSUME NEW o \in Objs, n.proc[o].state # "FREE"
                     PROVE  /\ n.proc[o].space \in Objs /\ n.space[n.proc[o].space].used
                            /\ n.proc[o].type = "PROC" => n.proc[o].space = o
            BY DEF Housed
        <3>1. o \notin B /\ n.proc[o] = m.proc[o] /\ m.proc[o].state # "FREE"
            BY <2>4, <2>5 DEF NoProc
        <3>2. /\ m.proc[o].space \in Objs /\ m.space[m.proc[o].space].used
              /\ m.proc[o].type = "PROC" => m.proc[o].space = o
            BY <3>1 DEF MemOK, Housed
        <3>3. m.proc[o].space \notin procs
            <4>1. CASE m.proc[o].type = "PROC"
                BY <2>4, <3>1, <3>2, <4>1
            <4>2. CASE m.proc[o].type = "THREAD"
                BY <3>1, <4>2, NoOrphan DEF Threads
            <4> QED BY <1>m, <4>1, <4>2 DEF Procs
        <3> QED BY <2>4, <2>5, <3>1, <3>2, <3>3
    <2>9. Owned(n)
        <3> SUFFICES ASSUME NEW s \in Objs, n.space[s].used
                     PROVE  n.proc[s].state # "FREE" /\ n.proc[s].type = "PROC"
            BY DEF Owned
        <3>1. s \notin procs /\ m.space[s].used
            BY <2>4, <2>5 DEF NoSpace
        <3>2. m.proc[s].state # "FREE" /\ m.proc[s].type = "PROC"
            BY <3>1 DEF MemOK, Owned
        <3>3. s \notin B
            BY <3>1, <3>2
        <3> QED BY <2>4, <2>5, <3>2, <3>3
    <2>10. Counted(n)
        <3> SUFFICES ASSUME NEW s \in Objs, n.space[s].used
                     PROVE  n.space[s].refs = Cardinality(Threads(n, s))
            BY DEF Counted
        <3>1. s \notin procs /\ m.space[s].used /\ n.space[s].refs = Left(m, B, s)
            BY <2>4, <2>5 DEF NoSpace
        <3>2. Threads(n, s) = Threads(m, s) \ B
            BY <2>4, <2>5 DEF Threads, NoProc
        <3> QED BY <1>0, <3>1, <3>2, LeftFacts
    <2> QED BY <2>4, <2>5, <2>6, <2>7, <2>8, <2>9, <2>10 DEF MemOK, n, T
<1> QED BY <1>2, <1>3

\* The zombies proc_zombie_funeral() takes can be buried.
LEMMA ReapedBuriable ==
    ASSUME NEW m, MemOK(m), NEW k, NEW force, NEW expired
    PROVE  Buriable(m, Reaped(m, k, force, expired))
<1> DEFINE B == Reaped(m, k, force, expired)
           threads == {o \in Zombies(m) : m.proc[o].type = "THREAD"}
           buried == IF get_current_proc(m, k) = Nil THEN {} ELSE threads
<1>1. /\ B \subseteq Zombies(m) /\ threads \subseteq B
      /\ \A o \in B : m.proc[o].type = "THREAD" => o \in threads
      /\ \A o \in B : m.proc[o].type = "PROC" => Left(m, buried, m.proc[o].space) = 0
    BY DEF Reaped
<1> HIDE DEF B
<1>2. ASSUME NEW o \in B, m.proc[o].type = "PROC"
      PROVE  Left(m, B, o) = 0
    <2>1. o \in Objs /\ m.proc[o].state # "FREE"
        BY <1>1 DEF Zombies, InTable
    <2>2. m.proc[o].space = o /\ m.space[o].used
        BY <1>2, <2>1 DEF MemOK, Housed
    <2>3. Left(m, buried, o) = 0
        BY <1>1, <1>2, <2>2
    <2>4. CASE get_current_proc(m, k) # Nil
        <3>1. {x \in B : m.proc[x].type = "THREAD" /\ m.proc[x].space = o}
                 = {x \in threads : m.proc[x].type = "THREAD" /\ m.proc[x].space = o}
            BY <1>1
        <3> QED BY <2>3, <2>4, <3>1 DEF Left
    <2>5. CASE get_current_proc(m, k) = Nil
        <3>1. Cardinality(Threads(m, o) \ {}) = 0
            BY <2>1, <2>2, <2>3, <2>5, LeftFacts
        <3>2. Threads(m, o) \ {} = {}
            BY <3>1, ThreadsFinite, FS_EmptySet
        <3>3. Threads(m, o) \ B = {}
            BY <3>2
        <3>4. Left(m, B, o) = Cardinality(Threads(m, o) \ B)
            BY <1>1, <2>1, <2>2, LeftFacts
        <3> QED BY <3>3, <3>4, FS_EmptySet
    <2> QED BY <2>4, <2>5
<1>3. Buriable(m, B)
    BY <1>1, <1>2 DEF Buriable
<1> QED BY <1>3 DEF B

\* proc_waitpid() buries one zombie: a thread, or a process without threads.
LEMMA OneBuriable ==
    ASSUME NEW m, MemOK(m), NEW o \in Zombies(m),
           m.proc[o].type = "PROC" => m.space[m.proc[o].space].refs = 0
    PROVE  Buriable(m, {o})
<1>1. o \in Objs /\ m.proc[o].state # "FREE"
    BY DEF Zombies, InTable
<1>2. ASSUME m.proc[o].type = "PROC"
      PROVE  Left(m, {o}, o) = 0
    <2>1. m.proc[o].space = o /\ m.space[o].refs = 0
        BY <1>1, <1>2 DEF MemOK, Housed
    <2>2. {x \in {o} : m.proc[x].type = "THREAD" /\ m.proc[x].space = o} = {}
        BY <1>2
    <2> QED BY <2>1, <2>2, FS_EmptySet DEF Left
<1> QED BY <1>2 DEF Buriable

\* A timer tick without a burial buries nothing.
LEMMA NothingBuriable == \A m : Buriable(m, {})
BY DEF Buriable

-----------------------------------------------------------------------------
(* Birth.                                                                  *)

\* A creation that fails.
LEMMA FailedOK ==
    ASSUME NEW m, MemOK(m)
    PROVE  /\ MemOK(Failed(m))
           /\ Failed(m).proc = m.proc /\ Failed(m).table = m.table /\ Failed(m).space = m.space
<1> DEFINE n == Failed(m)
<1>1. m \in Memory
    BY DEF MemOK
<1>2. n \in Memory /\ n.proc = m.proc /\ n.table = m.table /\ n.space = m.space
    <2>1. CASE FreeSlots(m) = {}
        BY <1>1, <2>1 DEF Failed
    <2>2. CASE FreeSlots(m) # {}
        <3>1. n = [m EXCEPT !.last = Slot(m) + 1] /\ Slot(m) + 1 \in 1 .. MAX_TASK_NUM + 1
            BY <1>1, <2>2, SlotFacts DEF Failed
        <3> HIDE DEF n
        <3> QED BY <1>1, <3>1 DEF Memory
    <2> QED BY <2>1, <2>2
<1> HIDE DEF n
<1>3. Tabled(n) /\ Listed(n) /\ Housed(n) /\ Owned(n)
    BY <1>2 DEF MemOK, Tabled, Listed, Housed, Owned
<1>4. Counted(n)
    <2>1. \A s : Threads(n, s) = Threads(m, s)
        BY <1>2 DEF Threads
    <2> QED BY <1>2, <2>1 DEF MemOK, Counted
<1> QED BY <1>2, <1>3, <1>4 DEF MemOK, n

\* proc_create(): a process gets a new address space, a thread that of its creator,
\* which counts it.
LEMMA CreatedOK ==
    ASSUME NEW m, MemOK(m), FreeSlots(m) # {}, NEW type \in {"PROC", "THREAD"},
           NEW c \in Objs, m.proc[c].state # "FREE", Room(m, type, c),
           NEW o \in Objs, m.proc[o].state = "FREE", NEW core \in Cores
    PROVE  LET n == Created(m, type, c, o, core) IN
           /\ MemOK(n)
           /\ \A x \in Objs \ {o} : n.proc[x] = m.proc[x]
           /\ \A i \in Pids : m.table[i] # Nil => n.table[i] = m.table[i]
           /\ n.proc[o].state = "READY" /\ n.proc[o].type = type
<1> DEFINE s == IF type = "PROC" THEN o ELSE m.proc[c].space
           r == [pid |-> Slot(m), type |-> type, state |-> "READY", wait_for |-> NoPid,
                 father_pid |-> m.proc[c].pid, core |-> core, space |-> s]
           a == IF type = "PROC" THEN [NoSpace EXCEPT !.used = TRUE]
                ELSE [m.space[s] EXCEPT !.refs = m.space[s].refs + 1]
           n == Created(m, type, c, o, core)
<1>m. m \in Memory /\ m.proc \in [Objs -> Procs] /\ m.table \in [Pids -> Objs \cup {Nil}]
      /\ m.space \in [Objs -> Spaces] /\ c \in Objs /\ c # o
    BY DEF MemOK, Memory
<1>0. Slot(m) \in Pids /\ m.table[Slot(m)] = Nil /\ Slot(m) + 1 \in 1 .. MAX_TASK_NUM + 1
    BY <1>m, SlotFacts
<1>1. s \in Objs /\ m.proc[c].pid \in Pids /\ (type = "PROC" => s = o)
      /\ (type = "THREAD" => s = m.proc[c].space /\ m.space[s].used)
    BY DEF MemOK, Listed, Housed
<1>2. r \in Procs /\ r.pid = Slot(m) /\ r.state = "READY" /\ r.type = type /\ r.space = s
    BY <1>0, <1>1 DEF Procs
<1>3. a \in Spaces /\ a.used /\ (type = "PROC" => a.refs = 0)
      /\ (type = "THREAD" => a.refs = m.space[s].refs + 1)
    <2>1. CASE type = "PROC"
        <3>1. a = [used |-> TRUE, refs |-> 0, entry |-> FALSE]
            BY <2>1 DEF NoSpace
        <3>2. 0 \in 0 .. MAX_TASK_PER_PROC
            BY ProcLifeAssumption
        <3> HIDE DEF a
        <3> QED BY <2>1, <3>1, <3>2 DEF Spaces
    <2>2. CASE type = "THREAD"
        <3>1. m.space[s] \in Spaces /\ m.space[s].used
            BY <1>m, <1>1, <2>2
        <3>2. m.space[s].refs < MAX_TASK_PER_PROC
            BY <1>1, <2>2 DEF Room
        <3>3. m.space[s].refs + 1 \in 0 .. MAX_TASK_PER_PROC
            BY <3>1, <3>2, ProcLifeAssumption DEF Spaces
        <3> QED BY <2>2, <3>1, <3>3 DEF Spaces
    <2> QED BY <2>1, <2>2
<1>4. n = [m EXCEPT !.table[Slot(m)] = o, !.last = Slot(m) + 1, !.proc[o] = r, !.space[s] = a]
    BY <1>m DEF Created, Memory
<1> HIDE DEF s, r, a, n
<1>5. /\ n \in Memory /\ n.proc = [m.proc EXCEPT ![o] = r]
      /\ n.table = [m.table EXCEPT ![Slot(m)] = o] /\ n.space = [m.space EXCEPT ![s] = a]
    BY <1>m, <1>0, <1>1, <1>2, <1>3, <1>4 DEF Memory
<1>6. /\ \A x \in Objs \ {o} : n.proc[x] = m.proc[x]
      /\ n.proc[o] = r
      /\ \A i \in Pids \ {Slot(m)} : n.table[i] = m.table[i]
      /\ n.table[Slot(m)] = o
      /\ \A x \in Objs \ {s} : n.space[x] = m.space[x]
      /\ n.space[s] = a
    BY <1>m, <1>0, <1>1, <1>5
<1>7. ~m.space[o].used /\ Threads(m, o) = {}
    <2>1. ~m.space[o].used
        BY DEF MemOK, Owned
    <2> QED BY <2>1 DEF MemOK, Housed, Threads
<1>8. \A i \in Pids : m.table[i] # o
    BY <1>m, ProcLifeAssumption DEF MemOK, Tabled
<1>9. Tabled(n)
    <2> SUFFICES ASSUME NEW i \in Pids, n.table[i] # Nil
                 PROVE  n.proc[n.table[i]].pid = i /\ n.proc[n.table[i]].state # "FREE"
        BY DEF Tabled
    <2>1. CASE i = Slot(m)
        BY <1>2, <1>6, <2>1
    <2>2. CASE i # Slot(m)
        BY <1>m, <1>6, <1>8, <2>2 DEF MemOK, Tabled
    <2> QED BY <2>1, <2>2
<1>10. Listed(n)
    BY <1>0, <1>2, <1>6, ProcLifeAssumption DEF MemOK, Listed
<1>11. Housed(n)
    <2> SUFFICES ASSUME NEW x \in Objs, n.proc[x].state # "FREE"
                 PROVE  /\ n.proc[x].space \in Objs /\ n.space[n.proc[x].space].used
                        /\ n.proc[x].type = "PROC" => n.proc[x].space = x
        BY DEF Housed
    <2>1. CASE x = o
        BY <1>1, <1>2, <1>3, <1>6, <2>1
    <2>2. CASE x # o
        BY <1>3, <1>6, <2>2 DEF MemOK, Housed
    <2> QED BY <2>1, <2>2
<1>12. Owned(n)
    <2> SUFFICES ASSUME NEW x \in Objs, n.space[x].used
                 PROVE  n.proc[x].state # "FREE" /\ n.proc[x].type = "PROC"
        BY DEF Owned
    <2>1. CASE x # s
        <3>1. m.space[x].used
            BY <1>6, <2>1
        <3> QED BY <1>6, <1>7, <3>1 DEF MemOK, Owned
    <2>2. CASE x = s /\ type = "PROC"
        BY <1>1, <1>2, <1>6, <2>2
    <2>3. CASE x = s /\ type = "THREAD"
        <3>1. m.space[x].used
            BY <1>1, <2>3
        <3> QED BY <1>6, <1>7, <3>1 DEF MemOK, Owned
    <2> QED BY <2>1, <2>2, <2>3
<1>13. Counted(n)
    <2> SUFFICES ASSUME NEW x \in Objs, n.space[x].used
                 PROVE  n.space[x].refs = Cardinality(Threads(n, x))
        BY DEF Counted
    <2>1. CASE type = "THREAD" /\ x = s
        <3>1. Threads(n, x) = Threads(m, x) \cup {o} /\ o \notin Threads(m, x)
            BY <1>2, <1>6, <2>1 DEF Threads
        <3>2. Cardinality(Threads(n, x)) = Cardinality(Threads(m, x)) + 1
            BY <3>1, ThreadsFinite, FS_AddElement
        <3>3. m.space[x].refs = Cardinality(Threads(m, x))
            BY <1>1, <2>1 DEF MemOK, Counted
        <3> QED BY <1>3, <1>6, <2>1, <3>2, <3>3
    <2>2. CASE type = "PROC" /\ x = s
        <3>1. Threads(n, x) = Threads(m, x)
            BY <1>2, <1>6, <2>2 DEF Threads
        <3> QED BY <1>1, <1>3, <1>6, <1>7, <2>2, <3>1, FS_EmptySet
    <2>3. CASE x # s
        <3>1. Threads(n, x) = Threads(m, x)
            BY <1>2, <1>6, <2>3 DEF Threads
        <3> QED BY <1>6, <2>3, <3>1 DEF MemOK, Counted
    <2> QED BY <2>1, <2>2, <2>3
<1> QED BY <1>0, <1>2, <1>5, <1>6, <1>9, <1>10, <1>11, <1>12, <1>13 DEF MemOK, n

-----------------------------------------------------------------------------
(* proc_get_proc(): the chain of fathers.                                  *)

\* A function can be iterated n times.
LEMMA Iterate ==
    ASSUME NEW A \in SUBSET (Objs \cup {Nil}), NEW step \in [A -> A], NEW o \in A, NEW n \in Nat
    PROVE  \E f \in [0 .. n -> A] : f[0] = o /\ \A i \in 1 .. n : f[i] = step[f[i - 1]]
<1> DEFINE P(j) == \E f \in [0 .. j -> A] : f[0] = o /\ \A i \in 1 .. j : f[i] = step[f[i - 1]]
           T == {j \in Nat : ~P(j)}
<1> SUFFICES ASSUME T # {}
             PROVE  FALSE
    BY DEF P
<1>1. PICK j \in T : \A y \in T : j <= y
    <2>1. T \in SUBSET Nat
        OBVIOUS
    <2> HIDE DEF T
    <2> QED BY <2>1, Least
<1>2. P(0)
    <2> DEFINE f == [i \in 0 .. 0 |-> o]
    <2>1. f \in [0 .. 0 -> A] /\ f[0] = o /\ 1 .. 0 = {}
        OBVIOUS
    <2> HIDE DEF f
    <2> QED BY <2>1
<1>3. j \in Nat /\ j # 0 /\ ~P(j)
    <2> HIDE DEF P
    <2> QED BY <1>2
<1>4. j - 1 \in Nat /\ ~(j <= j - 1)
    BY <1>3
<1>5. P(j - 1)
    <2> HIDE DEF P
    <2> QED BY <1>1, <1>4
<1>6. PICK f \in [0 .. j - 1 -> A] : f[0] = o /\ \A i \in 1 .. j - 1 : f[i] = step[f[i - 1]]
    BY <1>5
<1> DEFINE g == [i \in 0 .. j |-> IF i = j THEN step[f[j - 1]] ELSE f[i]]
<1>7. g \in [0 .. j -> A] /\ g[0] = o
    BY <1>3, <1>6
<1>8. ASSUME NEW i \in 1 .. j
      PROVE  g[i] = step[g[i - 1]]
    <2>1. CASE i = j
        BY <1>3, <2>1
    <2>2. CASE i # j
        BY <1>3, <1>6, <2>2
    <2> QED BY <2>1, <2>2
<1> HIDE DEF g
<1>9. P(j)
    BY <1>7, <1>8
<1> QED BY <1>3, <1>9

\* proc_get_proc() returns a task that lives, or NULL.
LEMMA GetProcFacts ==
    ASSUME NEW m, MemOK(m), NEW o \in Alive(m)
    PROVE  proc_get_proc(m, o) \in Alive(m) \cup {Nil}
<1> DEFINE A == Alive(m) \cup {Nil}
           N == MAX_TASK_NUM
           Up1(x) == IF x = Nil \/ m.proc[x].type = "PROC" THEN x
                     ELSE proc_get(m, m.proc[x].father_pid)
           step == [x \in A |-> Up1(x)]
           E(f) == [n \in 0 .. N |-> IF n = 0 THEN o ELSE Up1(f[n - 1])]
           chain == CHOOSE f : f = E(f)
<1>1. \A x \in A : Up1(x) \in A
    <2> SUFFICES ASSUME NEW x \in Alive(m)
                 PROVE  Up1(x) \in A
        OBVIOUS
    <2>1. m.proc[x].father_pid \in Pids \cup {NoPid}
        BY DEF MemOK, Memory, Procs, Alive
    <2> QED BY <2>1, GetFacts
<1>2. step \in [A -> A] /\ o \in A /\ N \in Nat
    BY <1>1, ProcLifeAssumption
<1>3. PICK f \in [0 .. N -> A] : f[0] = o /\ \A i \in 1 .. N : f[i] = step[f[i - 1]]
    <2>1. A \in SUBSET (Objs \cup {Nil})
        BY DEF Alive
    <2> HIDE DEF A, step, N
    <2> QED BY <1>2, <2>1, Iterate, ZenonT(30)
<1>4. f = E(f)
    <2> HIDE DEF A, Up1
    <2>1. \A n \in 0 .. N : f[n] = IF n = 0 THEN o ELSE Up1(f[n - 1])
        <3> SUFFICES ASSUME NEW n \in 0 .. N, n # 0
                     PROVE  f[n] = Up1(f[n - 1])
            BY <1>3
        <3>1. n \in 1 .. N /\ n - 1 \in 0 .. N
            BY <1>2
        <3>2. f[n - 1] \in A
            BY <1>3, <3>1
        <3> QED BY <1>3, <3>1, <3>2
    <2> QED BY <1>3, <2>1
<1>5. chain = E(chain)
    <2> HIDE DEF E
    <2> QED BY <1>4
<1>6. \A n \in 0 .. N : chain[n] = IF n = 0 THEN o ELSE Up1(chain[n - 1])
    <2> HIDE DEF chain, Up1
    <2> QED BY <1>5
<1>7. \A n \in 0 .. N : chain[n] \in A
    <2> HIDE DEF chain, Up1, A
    <2> DEFINE T == {n \in 0 .. N : chain[n] \notin A}
    <2> SUFFICES ASSUME T # {}
                 PROVE  FALSE
        OBVIOUS
    <2>1. T \in SUBSET Nat
        BY <1>2
    <2>2. PICK n \in T : \A y \in T : n <= y
        <3> HIDE DEF T
        <3> QED BY <2>1, Least
    <2>3. n \in Nat /\ n # 0
        BY <1>2, <1>6, <2>1
    <2>4. n - 1 \in 0 .. N /\ ~(n <= n - 1)
        BY <1>2, <2>3
    <2>5. chain[n - 1] \in A
        BY <2>2, <2>4
    <2>6. chain[n] = Up1(chain[n - 1])
        BY <1>6, <2>3
    <2> QED BY <1>1, <2>5, <2>6
<1>8. chain[N] \in A
    <2> HIDE DEF chain, A
    <2> QED BY <1>2, <1>7
<1>9. proc_get_proc(m, o) = IF chain[N] # Nil /\ m.proc[chain[N]].type = "PROC" THEN chain[N] ELSE Nil
    BY DEF proc_get_proc
<1> HIDE DEF chain
<1> QED BY <1>8, <1>9

-----------------------------------------------------------------------------
(* The cores.                                                              *)

\* A core idles, or executes the task of the table it takes for its current one,
\* which is a task of that core.
OnCore(m) ==
    \A k \in Cores :
        \/ current[k] = IdlePid /\ exec[k] = Idle
        \/ /\ current[k] \in Pids /\ exec[k] \in Objs
           /\ m.table[current[k]] = exec[k] /\ m.proc[exec[k]].core = k

Dying == {dying[k] : k \in Cores} \ {Nil}

\* What an abort handler tears down is in the table.
TornDown(m, D) == \A v \in D : v \in InTable(m)

\* A task that waits for another waits for one that lives, or is torn down.
Waits(m, D) ==
    \A o \in Objs : m.proc[o].state = "WAIT" =>
        /\ m.proc[o].wait_for \in Pids
        /\ \/ proc_get(m, m.proc[o].wait_for) # Nil
           \/ m.table[m.proc[o].wait_for] \in D

RunOK(m) == OnCore(m) /\ TornDown(m, Dying) /\ Waits(m, Dying)

CoreTypes ==
    /\ current \in [Cores -> Pids \cup {IdlePid}]
    /\ exec \in [Cores -> Objs \cup {Idle}]
    /\ ttbr \in [Cores -> Objs \cup {Idle}]
    /\ dying \in [Cores -> Objs \cup {Nil}]

\* A dead thread stays dead between m and n.
Stays(m, n) ==
    \A o \in Objs : m.proc[o].type = "THREAD" /\ m.proc[o].state = "ZOMBIE" =>
        n.proc[o].state = "FREE" \/ (n.proc[o].type = "THREAD" /\ n.proc[o].state = "ZOMBIE")

\* So does one other than c.
OthersStay(c, m, n) ==
    \A o \in Objs \ {c} : m.proc[o].type = "THREAD" /\ m.proc[o].state = "ZOMBIE" =>
        n.proc[o].state = "FREE" \/ (n.proc[o].type = "THREAD" /\ n.proc[o].state = "ZOMBIE")

\* Between m and n only states changed, and nobody began to wait or died.
Quiet(m, n) ==
    /\ n.table = m.table /\ StatesOnly(m, n.proc)
    /\ \A o \in Objs :
          /\ n.proc[o].state = "WAIT" => m.proc[o].state = "WAIT" /\ n.proc[o].wait_for = m.proc[o].wait_for
          /\ n.proc[o].state = "ZOMBIE" <=> m.proc[o].state = "ZOMBIE"

\* What the current task of a core may be.
LEMMA CurrentFacts ==
    ASSUME NEW m, MemOK(m), CoreTypes, NEW k \in Cores
    PROVE  /\ get_current_proc(m, k) \in Alive(m) \cup {Nil, Idle}
           /\ OnCore(m) => get_current_proc(m, k) \in {exec[k], Nil}
           /\ OnCore(m) /\ exec[k] # Idle => get_current_proc(m, k) # Idle
           /\ get_current_proc(m, k) \in Objs =>
                 current[k] = m.proc[get_current_proc(m, k)].pid /\ current[k] \in Pids
<1> DEFINE c == get_current_proc(m, k)
<1>1. CASE current[k] = IdlePid
    <2>1. c = Idle /\ Idle \notin Objs
        BY <1>1, ProcLifeAssumption DEF get_current_proc
    <2> QED BY <1>1, <2>1, PidFacts DEF OnCore
<1>2. CASE current[k] \in Pids
    <2>1. c = proc_get(m, current[k])
        BY <1>2, PidFacts DEF get_current_proc
    <2>2. /\ c \in Alive(m) \cup {Nil}
          /\ c # Nil => m.table[current[k]] = c
        BY <1>2, <2>1, GetFacts
    <2>3. Idle \notin Alive(m) \cup {Nil} /\ Nil \notin Objs
        BY ProcLifeAssumption DEF Alive
    <2>4. c \in Objs => m.proc[c].pid = current[k]
        BY <1>2, <2>2, <2>3 DEF MemOK, Tabled
    <2>5. OnCore(m) => c \in {exec[k], Nil}
        BY <1>2, <2>2, PidFacts DEF OnCore
    <2> HIDE DEF c
    <2> QED BY <1>2, <2>2, <2>3, <2>4, <2>5 DEF c
<1> QED BY <1>1, <1>2 DEF CoreTypes

\* The tasks schedule() chooses from.
LEMMA NextFacts ==
    ASSUME NEW m, MemOK(m), CoreTypes, NEW k \in Cores, NEW n \in proc_get_next_ready(m, k)
    PROVE  \/ n = Idle
           \/ n \in Alive(m) /\ m.proc[n].state = "READY" /\ m.proc[n].core = k
           \/ n \in Alive(m) /\ m.proc[n].state = "RUNNING" /\ n = get_current_proc(m, k)
<1>1. ASSUME NEW o \in Ready(m, k)
      PROVE  o \in Alive(m) /\ m.proc[o].state = "READY" /\ m.proc[o].core = k
    BY DEF Ready, InTable, Alive
<1>2. CASE Ready(m, k) # {}
    BY <1>1, <1>2 DEF proc_get_next_ready
<1>3. CASE Ready(m, k) = {}
    BY <1>3 DEF proc_get_next_ready, Alive
<1> QED BY <1>2, <1>3

\* schedule(): the kernel's memory keeps its order, only states change.
LEMMA ScheduleMem ==
    ASSUME NEW m, MemOK(m), CoreTypes, NEW k \in Cores, schedule(m, k)
    PROVE  /\ MemOK(mem') /\ Quiet(m, mem')
           /\ exec' \in [Cores -> Objs \cup {Idle}]
           /\ ttbr' \in [Cores -> Objs \cup {Idle}]
           /\ current' \in [Cores -> Pids \cup {IdlePid}]
<1> DEFINE c == get_current_proc(m, k)
<1>0. m.proc \in [Objs -> Procs] /\ m \in Memory
    BY DEF MemOK, Memory
<1>1. PICK n \in proc_get_next_ready(m, k) :
        /\ mem' = [m EXCEPT !.proc = [o \in Objs |->
               IF o = n THEN [m.proc[o] EXCEPT !.state = "RUNNING"]
               ELSE IF o = c /\ m.proc[o].state = "RUNNING" THEN [m.proc[o] EXCEPT !.state = "READY"]
               ELSE m.proc[o]]]
        /\ exec' = [exec EXCEPT ![k] = IF n = c THEN exec[k] ELSE n]
        /\ ttbr' = [ttbr EXCEPT ![k] =
               IF c # Nil /\ SpaceOf(m, c) = SpaceOf(m, n) THEN ttbr[k] ELSE SpaceOf(m, n)]
        /\ current' = [current EXCEPT ![k] = set_current_proc(m, k, n)]
    BY <1>0 DEF schedule, Memory, CoreTypes
<1> DEFINE f == [o \in Objs |->
               IF o = n THEN [m.proc[o] EXCEPT !.state = "RUNNING"]
               ELSE IF o = c /\ m.proc[o].state = "RUNNING" THEN [m.proc[o] EXCEPT !.state = "READY"]
               ELSE m.proc[o]]
<1>2. n = Idle \/ (n \in Alive(m) /\ m.proc[n].state \in {"READY", "RUNNING"})
    BY NextFacts
<1>3. f \in [Objs -> Procs]
    <2> SUFFICES ASSUME NEW o \in Objs
                 PROVE  f[o] \in Procs
        OBVIOUS
    <2>1. m.proc[o] \in Procs
        BY <1>0
    <2> QED BY <2>1 DEF Procs
<1>4. \A o \in Objs : /\ f[o].pid = m.proc[o].pid /\ f[o].type = m.proc[o].type
                      /\ f[o].space = m.proc[o].space /\ f[o].core = m.proc[o].core
                      /\ f[o].wait_for = m.proc[o].wait_for
                      /\ \/ f[o].state = m.proc[o].state
                         \/ {f[o].state, m.proc[o].state} \subseteq {"READY", "RUNNING"}
    <2> SUFFICES ASSUME NEW o \in Objs
                 PROVE  /\ f[o].pid = m.proc[o].pid /\ f[o].type = m.proc[o].type
                        /\ f[o].space = m.proc[o].space /\ f[o].core = m.proc[o].core
                        /\ f[o].wait_for = m.proc[o].wait_for
                        /\ \/ f[o].state = m.proc[o].state
                           \/ {f[o].state, m.proc[o].state} \subseteq {"READY", "RUNNING"}
        OBVIOUS
    <2>1. m.proc[o] \in Procs /\ Idle \notin Objs
        BY <1>0, ProcLifeAssumption
    <2> QED BY <1>2, <2>1 DEF Procs
<1> HIDE DEF f
<1>5. mem' = [m EXCEPT !.proc = f]
    BY <1>1 DEF f
<1>6. mem'.proc = f /\ mem'.table = m.table
    BY <1>0, <1>5 DEF Memory
<1>7. StatesOnly(m, f)
    BY <1>3, <1>4 DEF StatesOnly
<1>8. MemOK(mem')
    BY <1>5, <1>7, StatesOnlyOK
<1>9. Quiet(m, mem')
    BY <1>4, <1>6, <1>7 DEF Quiet
<1>10. SpaceOf(m, n) \in Objs \cup {Idle}
    BY <1>2, AliveFacts DEF SpaceOf
<1>11. set_current_proc(m, k, n) \in Pids \cup {IdlePid}
    BY <1>2, AliveFacts DEF set_current_proc, CoreTypes
<1>12. n \in Objs \cup {Idle}
    BY <1>2 DEF Alive
<1> QED BY <1>1, <1>8, <1>9, <1>10, <1>11, <1>12 DEF CoreTypes

\* schedule(): the core executes what it takes for its current task.
LEMMA ScheduleCores ==
    ASSUME NEW m, MemOK(m), CoreTypes, NEW k \in Cores, schedule(m, k), OnCore(m)
    PROVE  OnCore(mem)'
<1> DEFINE c == get_current_proc(m, k)
<1>0. m.proc \in [Objs -> Procs] /\ m \in Memory
    BY DEF MemOK, Memory
<1>1. PICK n \in proc_get_next_ready(m, k) :
        /\ exec' = [exec EXCEPT ![k] = IF n = c THEN exec[k] ELSE n]
        /\ current' = [current EXCEPT ![k] = set_current_proc(m, k, n)]
    BY <1>0 DEF schedule, CoreTypes
<1>2. /\ mem'.table = m.table
      /\ \A o \in Objs : mem'.proc[o].core = m.proc[o].core
    BY ScheduleMem DEF Quiet, StatesOnly
<1>3. ASSUME NEW j \in Cores, j # k
      PROVE  exec'[j] = exec[j] /\ current'[j] = current[j]
    BY <1>1, <1>3 DEF CoreTypes
<1>4. exec'[k] = (IF n = c THEN exec[k] ELSE n) /\ current'[k] = set_current_proc(m, k, n)
    BY <1>1 DEF CoreTypes
<1>5. \/ current'[k] = IdlePid /\ exec'[k] = Idle
      \/ /\ current'[k] \in Pids /\ exec'[k] \in Objs
         /\ m.table[current'[k]] = exec'[k] /\ m.proc[exec'[k]].core = k
    <2>1. CASE n = Idle
        BY <1>4, <2>1, CurrentFacts, ProcLifeAssumption DEF set_current_proc
    <2>2. CASE n # Idle /\ n = c
        BY <1>4, <2>2 DEF set_current_proc, OnCore
    <2>3. CASE n # Idle /\ n # c
        <3>1. n \in Alive(m) /\ m.proc[n].core = k
            BY <2>3, NextFacts
        <3>2. current'[k] = m.proc[n].pid /\ exec'[k] = n
            BY <1>4, <2>3 DEF set_current_proc
        <3> QED BY <3>1, <3>2, AliveFacts DEF Alive
    <2> QED BY <2>1, <2>2, <2>3
<1> QED BY <1>2, <1>3, <1>5 DEF OnCore

\* Changes of states alone leave the tasks of the table there.
LEMMA StatesOnlyRun ==
    ASSUME NEW m, NEW n, MemOK(m), n.table = m.table, StatesOnly(m, n.proc)
    PROVE  /\ InTable(n) = InTable(m)
           /\ \A D : TornDown(m, D) => TornDown(n, D)
           /\ OnCore(m) => OnCore(n)
<1>1. InTable(n) = InTable(m)
    BY DEF InTable, StatesOnly
<1>2. OnCore(m) => OnCore(n)
    BY DEF OnCore, StatesOnly
<1> QED BY <1>1, <1>2 DEF TornDown

\* Nor is any waiter forgotten when nobody dies or begins to wait.
LEMMA QuietRun ==
    ASSUME NEW m, NEW n, MemOK(m), Quiet(m, n)
    PROVE  /\ \A D : Waits(m, D) => Waits(n, D)
           /\ \A D : TornDown(m, D) => TornDown(n, D)
           /\ OnCore(m) => OnCore(n)
           /\ \A x : Stays(x, m) => Stays(x, n)
           /\ \A x, c : OthersStay(c, x, m) => OthersStay(c, x, n)
<1>1. \A D : TornDown(m, D) => TornDown(n, D)
    BY StatesOnlyRun DEF Quiet
<1>2. OnCore(m) => OnCore(n)
    BY StatesOnlyRun DEF Quiet
<1>3. \A pid \in Pids : proc_get(m, pid) # Nil => proc_get(n, pid) # Nil
    <2>1. \A pid \in Pids : m.table[pid] \in Objs \cup {Nil}
        BY DEF MemOK, Memory
    <2> QED BY <2>1 DEF proc_get, Quiet
<1>4. \A D : Waits(m, D) => Waits(n, D)
    BY <1>3 DEF Waits, Quiet
<1>5. \A x : Stays(x, m) => Stays(x, n)
    BY DEF Stays, Quiet, StatesOnly
<1>6. \A x, c : OthersStay(c, x, m) => OthersStay(c, x, n)
    BY DEF OthersStay, Quiet, StatesOnly
<1> QED BY <1>1, <1>2, <1>4, <1>5, <1>6

\* The mark of proc_terminate(): waiters of the task wait for its teardown.
LEMMA MarkedRun ==
    ASSUME NEW m, MemOK(m), NEW o \in InTable(m), NEW D, Waits(m, D)
    PROVE  Waits(Marked(m, o), D \cup {o}) /\ Stays(m, Marked(m, o))
<1> DEFINE n == Marked(m, o)
<1>1. o \in Objs /\ m.proc[o].state # "FREE"
    BY InTableFacts
<1>2. /\ n.table = m.table
      /\ n.proc = [m.proc EXCEPT ![o] = [m.proc[o] EXCEPT !.state = "ZOMBIE"]]
    BY <1>1, MarkedOK
<1> HIDE DEF n
<1>3. m.proc \in [Objs -> Procs] /\ m.table \in [Pids -> Objs \cup {Nil}]
    BY DEF MemOK, Memory
<1>4. /\ n.proc[o].state = "ZOMBIE" /\ n.proc[o].type = m.proc[o].type
      /\ \A x \in Objs \ {o} : n.proc[x] = m.proc[x]
    BY <1>1, <1>2, <1>3 DEF Procs
<1>5. ASSUME NEW x \in Objs, n.proc[x].state = "WAIT"
      PROVE  /\ n.proc[x].wait_for \in Pids
             /\ \/ proc_get(n, n.proc[x].wait_for) # Nil
                \/ n.table[n.proc[x].wait_for] \in D \cup {o}
    <2>1. x # o /\ n.proc[x] = m.proc[x]
        BY <1>4, <1>5
    <2> DEFINE w == m.proc[x].wait_for
    <2>2. w \in Pids /\ (proc_get(m, w) # Nil \/ m.table[w] \in D)
        BY <1>5, <2>1 DEF Waits
    <2>3. ASSUME proc_get(m, w) # Nil, m.table[w] # o
          PROVE  proc_get(n, w) # Nil
        <3>1. /\ w # NoPid /\ m.table[w] # Nil /\ m.proc[m.table[w]].state # "ZOMBIE"
              /\ m.table[w] \in Objs \ {o}
            BY <1>3, <2>2, <2>3 DEF proc_get
        <3>2. n.table[w] = m.table[w] /\ n.proc[m.table[w]] = m.proc[m.table[w]]
            BY <1>2, <1>4, <3>1
        <3> HIDE DEF w
        <3> QED BY <3>1, <3>2 DEF proc_get
    <2> QED BY <1>2, <2>1, <2>2, <2>3
<1>6. Stays(m, n)
    BY <1>1, <1>4 DEF Stays
<1> QED BY <1>5, <1>6 DEF Waits, n

\* The rest of proc_terminate() wakes the waiters of the task and of the threads
\* that die with it.
LEMMA BereavedRun ==
    ASSUME NEW m, MemOK(m), NEW v \in InTable(m), NEW D, Waits(m, D)
    PROVE  LET n == Bereaved(m, m.proc[v].pid, m.proc[v].type) IN
           Waits(n, D \ {v}) /\ Stays(m, n)
<1> DEFINE pid == m.proc[v].pid
           type == m.proc[v].type
           threads == TerminatedWith(m, pid, type)
           signalled == Signalled(m, pid, type)
           mourned == Mourned(m, pid, type)
           woken == {c \in InTable(m) : m.proc[c].state = "WAIT" /\ m.proc[c].wait_for \in mourned}
           f == [c \in Objs |->
                  IF c \in threads
                  THEN [m.proc[c] EXCEPT !.state = "ZOMBIE", !.father_pid = NoPid, !.wait_for = NoPid]
                  ELSE IF c \in signalled \cup woken
                  THEN [m.proc[c] EXCEPT !.state = "READY", !.wait_for = NoPid]
                  ELSE IF type = "THREAD" /\ m.table[pid] = c
                  THEN [m.proc[c] EXCEPT !.father_pid = NoPid]
                  ELSE m.proc[c]]
           n == Bereaved(m, pid, type)
<1>0. /\ m.proc \in [Objs -> Procs] /\ m.table \in [Pids -> Objs \cup {Nil}]
      /\ v \in Objs /\ pid \in Pids /\ m.table[pid] = v
    BY InTableFacts DEF MemOK, Memory
<1>1. n.proc = f /\ n.table = m.table
    <2>1. n = [m EXCEPT !.proc = f]
        BY DEF Bereaved, MemOK, Memory
    <2> HIDE DEF f, n
    <2> QED BY <2>1 DEF MemOK, Memory
<1>2. /\ \A c \in threads : m.proc[c].type = "THREAD" /\ m.proc[c].pid \in mourned
      /\ \A c \in signalled : m.proc[c].type = "PROC"
      /\ pid \in mourned
    BY DEF TerminatedWith, Signalled, Mourned
<1>3. \A c \in woken : m.proc[c].state = "WAIT"
    OBVIOUS
<1>4. \A c \in Objs : m.proc[c].state = "WAIT" /\ m.proc[c].wait_for \in mourned => c \in woken
    <2>1. \A c \in Objs : m.proc[c].state = "WAIT" => c \in InTable(m)
        BY AliveFacts DEF Alive
    <2> QED BY <2>1
<1> HIDE DEF threads, signalled, mourned, woken
<1>5. \A c \in Objs :
         /\ c \in threads => f[c].state = "ZOMBIE" /\ f[c].type = m.proc[c].type
         /\ c \notin threads /\ c \in signalled \cup woken => f[c].state = "READY"
         /\ c \notin threads /\ c \notin signalled \cup woken =>
               /\ f[c].state = m.proc[c].state /\ f[c].type = m.proc[c].type
               /\ f[c].wait_for = m.proc[c].wait_for
    <2> SUFFICES ASSUME NEW c \in Objs
                 PROVE  /\ c \in threads => f[c].state = "ZOMBIE" /\ f[c].type = m.proc[c].type
                        /\ c \notin threads /\ c \in signalled \cup woken => f[c].state = "READY"
                        /\ c \notin threads /\ c \notin signalled \cup woken =>
                             /\ f[c].state = m.proc[c].state /\ f[c].type = m.proc[c].type
                             /\ f[c].wait_for = m.proc[c].wait_for
        OBVIOUS
    <2>1. m.proc[c] \in Procs
        BY <1>0
    <2> QED BY <2>1 DEF Procs
<1> HIDE DEF f, n
<1>6. Stays(m, n)
    BY <1>1, <1>2, <1>3, <1>5 DEF Stays
<1>7. ASSUME NEW x \in Objs, n.proc[x].state = "WAIT"
      PROVE  /\ n.proc[x].wait_for \in Pids
             /\ \/ proc_get(n, n.proc[x].wait_for) # Nil
                \/ n.table[n.proc[x].wait_for] \in D \ {v}
    <2> DEFINE w == m.proc[x].wait_for
    <2>1. m.proc[x].state = "WAIT" /\ n.proc[x].wait_for = w /\ w \notin mourned
        BY <1>1, <1>4, <1>5, <1>7
    <2>2. w \in Pids /\ (proc_get(m, w) # Nil \/ m.table[w] \in D)
        BY <2>1 DEF Waits
    <2>3. m.table[w] # v
        BY <1>0, <1>2, <2>1, <2>2, ProcLifeAssumption DEF MemOK, Tabled
    <2>4. ASSUME proc_get(m, w) # Nil
          PROVE  proc_get(n, w) # Nil
        <3>1. m.table[w] \in Objs /\ m.table[w] # Nil /\ m.proc[m.table[w]].state # "ZOMBIE"
            BY <1>0, <2>2, <2>4 DEF proc_get
        <3>2. m.proc[m.table[w]].pid = w
            BY <2>2, <3>1 DEF MemOK, Tabled
        <3>3. m.table[w] \notin threads
            BY <1>2, <2>1, <3>2
        <3>4. n.proc[m.table[w]].state # "ZOMBIE"
            BY <1>1, <1>5, <3>1, <3>3
        <3> QED BY <1>1, <2>2, <3>1, <3>4, PidFacts DEF proc_get
    <2> QED BY <1>1, <2>1, <2>2, <2>3, <2>4
<1> QED BY <1>6, <1>7 DEF Waits, n

\* proc_terminate() of a task that is in the table.
LEMMA TerminateRun ==
    ASSUME NEW m, MemOK(m), NEW o \in InTable(m)
    PROVE  LET n == proc_terminate(m, o) IN
           /\ MemOK(n) /\ n.table = m.table
           /\ \A D : Waits(m, D) => Waits(n, D)
           /\ \A D : TornDown(m, D) => TornDown(n, D)
           /\ OnCore(m) => OnCore(n)
           /\ (\E D : Waits(m, D)) => Stays(m, n)
<1> DEFINE a == Marked(m, o)
           n == proc_terminate(m, o)
<1>1. o \in Objs /\ m.proc[o].state # "FREE"
    BY InTableFacts
<1>2. MemOK(a) /\ a.table = m.table /\ StatesOnly(m, a.proc)
    BY <1>1, MarkedOK
<1>3. a.proc[o].pid = m.proc[o].pid /\ a.proc[o].type = m.proc[o].type
    BY <1>1, <1>2 DEF StatesOnly
<1>4. InTable(a) = InTable(m)
    BY <1>2, StatesOnlyRun
<1>5. n = Bereaved(a, a.proc[o].pid, a.proc[o].type)
    BY <1>3 DEF proc_terminate
<1>m. \A D : Waits(m, D) => Waits(a, D \cup {o}) /\ Stays(m, a)
    BY MarkedRun
<1> HIDE DEF a, n
<1>6. MemOK(n) /\ n.table = a.table /\ StatesOnly(a, n.proc)
    BY <1>2, <1>5, BereavedOK
<1>7. /\ \A D : TornDown(m, D) => TornDown(n, D)
      /\ OnCore(m) => OnCore(n)
    BY <1>2, <1>6, StatesOnlyRun
<1>8. ASSUME NEW D, Waits(m, D)
      PROVE  Waits(n, D) /\ Stays(m, n)
    <2>1. Waits(a, D \cup {o}) /\ Stays(m, a)
        BY <1>8, <1>m
    <2>2. Waits(n, (D \cup {o}) \ {o}) /\ Stays(a, n)
        BY <1>2, <1>4, <1>5, <2>1, BereavedRun
    <2>3. Waits(n, D)
        BY <2>2 DEF Waits
    <2> QED BY <1>6, <2>1, <2>2, <2>3 DEF Stays, StatesOnly
<1> QED BY <1>2, <1>6, <1>7, <1>8 DEF n

\* Burial of tasks that no core runs or tears down.
LEMMA FuneralRun ==
    ASSUME NEW m, MemOK(m), NEW B, Buriable(m, B), NEW k
    PROVE  LET n == proc_funeral(m, k, B) IN
           /\ Stays(m, n)
           /\ RunOK(m) /\ B \cap InUse = {} => RunOK(n)
<1> DEFINE n == proc_funeral(m, k, B)
<1>1. /\ \A i \in Pids : n.table[i] = IF m.table[i] \in B THEN Nil ELSE m.table[i]
      /\ \A o \in Objs : n.proc[o] = m.proc[o] \/ (o \in B /\ n.proc[o] = NoProc)
    BY FuneralOK
<1> HIDE DEF n
<1>2. NoProc.state = "FREE"
    BY DEF NoProc
<1>3. Stays(m, n)
    BY <1>1, <1>2 DEF Stays
<1>4. ASSUME RunOK(m), B \cap InUse = {}
      PROVE  RunOK(n)
    <2>1. OnCore(n)
        <3>1. \A j \in Cores : exec[j] \notin B
            BY <1>4 DEF InUse
        <3> QED BY <1>1, <1>4, <3>1 DEF RunOK, OnCore
    <2>2. \A v \in Dying : v \notin B
        BY <1>4 DEF InUse, Dying
    <2>3. TornDown(n, Dying)
        <3> SUFFICES ASSUME NEW v \in Dying
                     PROVE  v \in InTable(n)
            BY DEF TornDown
        <3>1. v \in InTable(m)
            BY <1>4 DEF RunOK, TornDown
        <3>2. v \in Objs /\ m.proc[v].pid \in Pids /\ m.table[m.proc[v].pid] = v
            BY <3>1, InTableFacts
        <3>3. n.proc[v] = m.proc[v]
            BY <1>1, <2>2, <3>2
        <3>4. n.table[m.proc[v].pid] = v
            BY <1>1, <2>2, <3>2
        <3> QED BY <3>2, <3>3, <3>4, PidFacts DEF InTable
    <2>4. Waits(n, Dying)
        <3> SUFFICES ASSUME NEW o \in Objs, n.proc[o].state = "WAIT"
                     PROVE  /\ n.proc[o].wait_for \in Pids
                            /\ \/ proc_get(n, n.proc[o].wait_for) # Nil
                               \/ n.table[n.proc[o].wait_for] \in Dying
            BY DEF Waits
        <3> DEFINE w == m.proc[o].wait_for
        <3>1. n.proc[o] = m.proc[o]
            BY <1>1, <1>2
        <3>2. w \in Pids /\ (proc_get(m, w) # Nil \/ m.table[w] \in Dying)
            BY <1>4, <3>1 DEF RunOK, Waits
        <3>3. CASE m.table[w] \in Dying
            BY <1>1, <2>2, <3>1, <3>2, <3>3
        <3>4. CASE proc_get(m, w) # Nil
            <4>1. m.table[w] # Nil /\ m.table[w] \in Objs /\ m.proc[m.table[w]].state # "ZOMBIE"
                BY <3>2, <3>4 DEF proc_get, MemOK, Memory
            <4>2. m.table[w] \notin B
                BY <4>1 DEF Buriable, Zombies
            <4>3. n.table[w] = m.table[w] /\ n.proc[m.table[w]] = m.proc[m.table[w]]
                BY <1>1, <3>2, <4>1, <4>2
            <4> QED BY <3>1, <3>2, <4>1, <4>3, PidFacts DEF proc_get
        <3> QED BY <3>2, <3>3, <3>4
    <2> QED BY <2>1, <2>3, <2>4 DEF RunOK
<1> QED BY <1>3, <1>4 DEF n

\* The system call in progress: its core tears nothing down, and its caller, dead
\* or alive, keeps its slot until the call has no more use for it.
CallOK ==
    /\ call.step # "none" => dying[call.core] = Nil
    /\ call.step \in {"called", "forked"} => call.proc \in InTable(mem)
    /\ call.step = "called" => current[call.core] = mem.proc[call.proc].pid
    /\ call.step \in {"parked", "take"} => call.pid \in Pids

\* The invariant: kernel memory is in order, and, unless a task left the table too
\* early, so are the cores, the teardowns, the waiters and the system call.
LifeInv == TypeOK /\ MemOK(mem) /\ (~hasty => RunOK(mem) /\ CallOK)

\* The caller of the system call in progress has not been terminated.
CallerAlive == call.step \in {"called", "forked"} => call.proc \in Alive(mem)

\* A step revives no dead thread but the caller, whose own call parks it.
ButCaller ==
    \/ Stays(mem, mem')
    \/ call.step \in {"called", "forked"} /\ OthersStay(call.proc, mem, mem')

\* What holds when a kernel that is up enters a handler.
LEMMA Enter ==
    ASSUME LifeInv, Up
    PROVE  CoreTypes /\ MemOK(mem) /\ RunOK(mem) /\ CallOK /\ Stays(mem, mem)
           /\ ~hasty /\ call \in SvcCalls /\ halted \in BOOLEAN /\ births \in 0 .. MaxBirths
BY DEF LifeInv, TypeOK, Up, CoreTypes, Stays

\* A step after which no system call holds kernel_lock.
LEMMA Released ==
    ASSUME call' = NoCall \/ (call \in SvcCalls /\ Unlocked /\ call' = call)
    PROVE  call' \in SvcCalls /\ CallOK' /\ CallerAlive'
<1>1. NoCall \in SvcCalls /\ NoCall.step = "none"
    BY ProcLifeAssumption DEF NoCall, SvcCalls
<1>2. call' \in SvcCalls /\ call'.step = "none"
    BY <1>1 DEF Unlocked
<1> QED BY <1>2 DEF CallOK, CallerAlive

\* A step that ends in schedule(), from memory m.
LEMMA ScheduleOK ==
    ASSUME LifeInv, Up, NEW k \in Cores, NEW m, MemOK(m),
           ~hasty' => RunOK(m), schedule(m, k), dying' = dying,
           call' \in SvcCalls, ~hasty' => CallOK',
           halted' \in BOOLEAN, hasty' \in BOOLEAN, births' \in 0 .. MaxBirths
    PROVE  /\ LifeInv' /\ (Stays(mem, m) => Stays(mem, mem'))
           /\ \A c : OthersStay(c, mem, m) => OthersStay(c, mem, mem')
<1>1. CoreTypes
    BY Enter
<1>2. /\ MemOK(mem') /\ Quiet(m, mem')
      /\ exec' \in [Cores -> Objs \cup {Idle}] /\ ttbr' \in [Cores -> Objs \cup {Idle}]
      /\ current' \in [Cores -> Pids \cup {IdlePid}]
    BY <1>1, ScheduleMem
<1>3. /\ Stays(mem, m) => Stays(mem, mem')
      /\ \A c : OthersStay(c, mem, m) => OthersStay(c, mem, mem')
    BY <1>2, QuietRun
<1>4. Dying' = Dying
    BY DEF Dying
<1>5. ASSUME ~hasty'
      PROVE  RunOK(mem)'
    <2>1. RunOK(m)
        BY <1>5
    <2>2. OnCore(mem)'
        BY <1>1, <2>1, ScheduleCores DEF RunOK
    <2>3. TornDown(mem', Dying) /\ Waits(mem', Dying)
        BY <1>2, <2>1, QuietRun DEF RunOK
    <2> QED BY <1>4, <2>2, <2>3 DEF RunOK
<1>6. TypeOK'
    BY <1>1, <1>2 DEF TypeOK, CoreTypes, MemOK
<1>7. MemOK(mem)'
    BY <1>2
<1> QED BY <1>3, <1>5, <1>6, <1>7 DEF LifeInv

\* A step that does not schedule, to memory m.
LEMMA PlainOK ==
    ASSUME LifeInv, Up, MemOK(mem'), ~hasty' => RunOK(mem'),
           UNCHANGED <<current, exec, ttbr, dying>>,
           call' \in SvcCalls, ~hasty' => CallOK',
           halted' \in BOOLEAN, hasty' \in BOOLEAN, births' \in 0 .. MaxBirths
    PROVE  LifeInv'
<1>1. CoreTypes
    BY Enter
<1>2. TypeOK'
    BY <1>1 DEF TypeOK, CoreTypes, MemOK
<1>3. RunOK(mem') => RunOK(mem)'
    BY DEF RunOK, OnCore, Dying
<1>4. MemOK(mem)'
    OBVIOUS
<1> QED BY <1>2, <1>3, <1>4 DEF LifeInv

-----------------------------------------------------------------------------
(* One lemma per action.                                                   *)

\* The first process, alone on the boot core, satisfies the invariant.
LEMMA InitOK == Init => LifeInv /\ CallerAlive
<1> SUFFICES ASSUME Init
             PROVE  LifeInv /\ CallerAlive
    OBVIOUS
<1>1. PICK o \in Objs :
        /\ mem = [proc  |-> [x \in Objs |->
                      IF x = o THEN [NoProc EXCEPT !.pid = 1, !.state = "RUNNING",
                                                   !.space = o]
                      ELSE NoProc],
                  table |-> [n \in Pids |-> IF n = 1 THEN o ELSE Nil],
                  space |-> [x \in Objs |->
                      IF x = o THEN [used |-> TRUE, refs |-> 0, entry |-> TRUE]
                      ELSE NoSpace],
                  last  |-> 2]
        /\ current = [k \in Cores |-> IF k = Core0 THEN 1 ELSE IdlePid]
        /\ exec = [k \in Cores |-> IF k = Core0 THEN o ELSE Idle]
        /\ ttbr = exec
        /\ dying = [k \in Cores |-> Nil] /\ call = NoCall
        /\ halted = FALSE /\ hasty = FALSE /\ births = 0
    BY DEF Init
<1> DEFINE first == [NoProc EXCEPT !.pid = 1, !.state = "RUNNING", !.space = o]
<1>2. 1 \in Pids /\ 2 \in 1 .. MAX_TASK_NUM + 1 /\ 0 \in 0 .. MAX_TASK_PER_PROC
      /\ 0 \in 0 .. MaxBirths
    BY ProcLifeAssumption DEF Pids
<1>3. NoProc \in Procs /\ NoProc.state = "FREE" /\ NoSpace \in Spaces /\ ~NoSpace.used
    BY <1>2, ProcLifeAssumption DEF NoProc, Procs, NoSpace, Spaces
<1>5. first \in Procs
    BY <1>2, <1>3 DEF Procs
<1>6. /\ first.pid = 1 /\ first.type = "PROC" /\ first.state = "RUNNING" /\ first.core = Core0
      /\ first.space = o
    BY <1>3 DEF NoProc
<1>7. [used |-> TRUE, refs |-> 0, entry |-> TRUE] \in Spaces
    BY <1>2 DEF Spaces
<1>8. /\ mem.proc = [x \in Objs |-> IF x = o THEN first ELSE NoProc]
      /\ mem.table = [n \in Pids |-> IF n = 1 THEN o ELSE Nil]
      /\ mem.space = [x \in Objs |-> IF x = o THEN [used |-> TRUE, refs |-> 0, entry |-> TRUE]
                                     ELSE NoSpace]
      /\ mem \in Memory
    BY <1>1, <1>2, <1>3, <1>5, <1>7 DEF Memory
<1> HIDE DEF first
<1>9. /\ mem.proc[o] = first /\ \A x \in Objs \ {o} : mem.proc[x] = NoProc
      /\ mem.table[1] = o /\ \A n \in Pids \ {1} : mem.table[n] = Nil
      /\ mem.space[o].used /\ mem.space[o].refs = 0
      /\ \A x \in Objs \ {o} : ~mem.space[x].used
    BY <1>2, <1>3, <1>8
<1>10. MemOK(mem)
    <2>1. Tabled(mem) /\ Listed(mem) /\ Housed(mem) /\ Owned(mem)
        BY <1>2, <1>3, <1>6, <1>9 DEF Tabled, Listed, Housed, Owned
    <2>2. Threads(mem, o) = {}
        BY <1>3, <1>6, <1>9 DEF Threads
    <2>3. Counted(mem)
        BY <1>9, <2>2, FS_EmptySet DEF Counted
    <2> QED BY <1>8, <2>1, <2>3 DEF MemOK
<1>c. call \in SvcCalls /\ call.step = "none"
    BY <1>1, ProcLifeAssumption DEF NoCall, SvcCalls
<1>11. TypeOK
    BY <1>1, <1>2, <1>8, <1>c DEF TypeOK
<1>12. RunOK(mem)
    <2>1. OnCore(mem)
        BY <1>1, <1>2, <1>6, <1>9 DEF OnCore
    <2>2. Dying = {}
        BY <1>1 DEF Dying
    <2>3. Waits(mem, Dying)
        BY <1>3, <1>6, <1>9 DEF Waits
    <2> QED BY <2>1, <2>2, <2>3 DEF RunOK, TornDown
<1> QED BY <1>10, <1>11, <1>12, <1>c DEF LifeInv, CallOK, CallerAlive

\* The caller of a system call is in the table; when it is dead its core has no
\* current task.
LEMMA CallerFacts ==
    ASSUME LifeInv, NEW k \in Cores, NEW op, NEW c, Caller(k, op, c)
    PROVE  /\ Up /\ call.core = k /\ call.step = "called" /\ call.proc = c
           /\ c \in InTable(mem) /\ c \in Objs /\ mem.proc[c].state # "FREE"
           /\ c \in Alive(mem) \/ (c \in Zombies(mem) /\ get_current_proc(mem, k) = Nil)
           /\ get_current_proc(mem, k) # Nil => c \in Alive(mem)
           /\ CallerAlive => c \in Alive(mem)
<1>1. Up /\ call.core = k /\ call.step = "called" /\ call.proc = c
    BY DEF Caller, InStep
<1>2. MemOK(mem) /\ CallOK
    BY <1>1, Enter
<1>3. c \in InTable(mem) /\ current[k] = mem.proc[c].pid
    BY <1>1, <1>2 DEF CallOK
<1>4. c \in Objs /\ mem.proc[c].state # "FREE" /\ current[k] \in Pids /\ mem.table[current[k]] = c
    BY <1>2, <1>3, InTableFacts
<1>5. mem.proc[c].state = "ZOMBIE" => c \in Zombies(mem) /\ get_current_proc(mem, k) = Nil
    BY <1>3, <1>4, PidFacts, ProcLifeAssumption DEF Zombies, get_current_proc, proc_get
<1> QED BY <1>1, <1>3, <1>4, <1>5 DEF Alive, CallerAlive

\* Nothing is buried that lives, in a burial on the way to a new task.
LEMMA ForkMemoryOK ==
    ASSUME LifeInv, NEW k \in Cores, NEW op, NEW type, NEW c, Caller(k, op, c)
    PROVE  LET m == ForkMemory(k, type, c) IN
           /\ MemOK(m) /\ Stays(mem, m)
           /\ c \in Objs /\ m.proc[c].state # "FREE" /\ (c \in Alive(mem) => c \in Alive(m))
           /\ \A o \in Objs : mem.proc[o].state = "FREE" => m.proc[o].state = "FREE"
           /\ m = mem => RunOK(m)
           /\ ~Hasty(Reap(mem, k)) => RunOK(m)
<1> DEFINE m == ForkMemory(k, type, c)
           a == Failed(mem)
           B == Reap(mem, k)
<1>c. /\ Up /\ c \in Objs /\ mem.proc[c].state # "FREE"
      /\ c \in Alive(mem) \/ (c \in Zombies(mem) /\ get_current_proc(mem, k) = Nil)
    BY CallerFacts
<1>0. MemOK(mem) /\ RunOK(mem) /\ Stays(mem, mem) /\ ~hasty
    BY <1>c, Enter
<1>1. CASE FreeSlots(mem) # {} /\ Room(mem, type, c)
    <2>1. m = mem
        BY <1>1 DEF ForkMemory
    <2> QED BY <1>0, <1>c, <2>1
<1>2. CASE ~(FreeSlots(mem) # {} /\ Room(mem, type, c))
    <2>1. m = proc_funeral(a, k, B)
        BY <1>2 DEF ForkMemory
    <2>2. MemOK(a) /\ a.proc = mem.proc /\ a.table = mem.table /\ a.space = mem.space
        BY <1>0, FailedOK
    <2>3. Buriable(mem, B)
        BY <1>0, ReapedBuriable DEF Reap
    <2> HIDE DEF a, B, m
    <2>4. Buriable(a, B)
        BY <2>2, <2>3 DEF Buriable, Zombies, InTable, Left
    <2>5. RunOK(a) /\ Stays(mem, a)
        <3>1. InTable(a) = InTable(mem) /\ \A n : proc_get(a, n) = proc_get(mem, n)
            BY <2>2 DEF InTable, proc_get
        <3>2. OnCore(a)
            BY <1>0, <2>2 DEF RunOK, OnCore
        <3>3. TornDown(a, Dying)
            BY <1>0, <3>1 DEF RunOK, TornDown
        <3>4. Waits(a, Dying)
            BY <1>0, <2>2, <3>1 DEF RunOK, Waits
        <3>5. Stays(mem, a)
            BY <1>0, <2>2 DEF Stays
        <3> QED BY <3>2, <3>3, <3>4, <3>5 DEF RunOK
    <2>6. /\ MemOK(m)
          /\ \A o \in Objs : m.proc[o] = a.proc[o] \/ (o \in B /\ m.proc[o] = NoProc)
        BY <2>1, <2>2, <2>4, FuneralOK
    <2>7. Stays(a, m) /\ (B \cap InUse = {} => RunOK(m))
        BY <2>1, <2>2, <2>4, <2>5, FuneralRun
    <2>8. Stays(mem, m)
        BY <2>2, <2>7 DEF Stays
    <2>9. m.proc[c] = mem.proc[c]
        <3>1. CASE c \in Alive(mem)
            <4>1. c \notin B
                BY <2>3, <3>1 DEF Buriable, Zombies, Alive
            <4> QED BY <1>c, <2>2, <2>6, <4>1
        <3>2. CASE get_current_proc(mem, k) = Nil
            <4>1. get_current_proc(a, k) = Nil
                BY <2>2, <3>2 DEF get_current_proc, proc_get
            <4>2. a \in Memory
                BY <2>2 DEF MemOK
            <4>3. m.proc = a.proc
                BY <2>1, <4>1, <4>2 DEF proc_funeral, Memory
            <4> QED BY <2>2, <4>3
        <3> QED BY <1>c, <3>1, <3>2
    <2>10. m.proc[c].state # "FREE" /\ (c \in Alive(mem) => c \in Alive(m))
        BY <1>c, <2>9 DEF Alive
    <2>11. \A o \in Objs : mem.proc[o].state = "FREE" => m.proc[o].state = "FREE"
        BY <2>2, <2>6 DEF NoProc
    <2>12. ~Hasty(B) => B \cap InUse = {}
        BY DEF Hasty
    <2> QED BY <1>0, <1>c, <2>6, <2>7, <2>8, <2>10, <2>11, <2>12 DEF B, m
<1> QED BY <1>1, <1>2

\* A task that is created disturbs nobody.
LEMMA CreatedRun ==
    ASSUME NEW m, MemOK(m), FreeSlots(m) # {}, NEW type \in {"PROC", "THREAD"},
           NEW c \in Objs, m.proc[c].state # "FREE", Room(m, type, c),
           NEW o \in Objs, m.proc[o].state = "FREE", NEW core \in Cores
    PROVE  LET n == Created(m, type, c, o, core) IN
           /\ MemOK(n) /\ (c \in Alive(m) => c \in Alive(n)) /\ o \in Alive(n) /\ Stays(m, n)
           /\ RunOK(m) => RunOK(n)
<1> DEFINE n == Created(m, type, c, o, core)
<1>1. /\ MemOK(n)
      /\ \A x \in Objs \ {o} : n.proc[x] = m.proc[x]
      /\ \A i \in Pids : m.table[i] # Nil => n.table[i] = m.table[i]
      /\ n.proc[o].state = "READY"
    BY CreatedOK
<1> HIDE DEF n
<1>2. (c \in Alive(m) => c \in Alive(n)) /\ o \in Alive(n) /\ Stays(m, n)
    BY <1>1 DEF Alive, Stays
<1>3. \A x \in InTable(m) : x # o
    BY InTableFacts
<1>4. \A i \in Pids : m.table[i] # Nil => m.table[i] # o /\ m.table[i] \in Objs
    BY DEF MemOK, Memory, Tabled
<1>5. ASSUME RunOK(m)
      PROVE  RunOK(n)
    <2>1. OnCore(n)
        BY <1>1, <1>4, <1>5, ProcLifeAssumption DEF RunOK, OnCore
    <2>2. TornDown(n, Dying)
        <3> SUFFICES ASSUME NEW v \in Dying
                     PROVE  v \in InTable(n)
            BY DEF TornDown
        <3>1. v \in InTable(m)
            BY <1>5 DEF RunOK, TornDown
        <3>2. v \in Objs \ {o} /\ m.proc[v].pid \in Pids /\ m.table[m.proc[v].pid] = v
            BY <1>3, <3>1, InTableFacts
        <3>3. n.proc[v] = m.proc[v] /\ n.table[m.proc[v].pid] = v
            BY <1>1, <3>2, ProcLifeAssumption
        <3> QED BY <3>2, <3>3, PidFacts DEF InTable
    <2>3. Waits(n, Dying)
        <3> SUFFICES ASSUME NEW x \in Objs, n.proc[x].state = "WAIT"
                     PROVE  /\ n.proc[x].wait_for \in Pids
                            /\ \/ proc_get(n, n.proc[x].wait_for) # Nil
                               \/ n.table[n.proc[x].wait_for] \in Dying
            BY DEF Waits
        <3> DEFINE w == m.proc[x].wait_for
        <3>1. n.proc[x] = m.proc[x]
            BY <1>1
        <3>2. w \in Pids /\ (proc_get(m, w) # Nil \/ m.table[w] \in Dying)
            BY <1>5, <3>1 DEF RunOK, Waits
        <3>3. CASE m.table[w] \in Dying
            BY <1>1, <3>1, <3>2, <3>3 DEF Dying
        <3>4. CASE proc_get(m, w) # Nil
            <4>1. m.table[w] # Nil /\ m.proc[m.table[w]].state # "ZOMBIE"
                BY <3>2, <3>4 DEF proc_get
            <4>2. n.table[w] = m.table[w] /\ n.proc[m.table[w]] = m.proc[m.table[w]]
                BY <1>1, <1>4, <3>2, <4>1
            <4> QED BY <3>1, <3>2, <4>1, <4>2, PidFacts DEF proc_get
        <3> QED BY <3>2, <3>3, <3>4
    <2> QED BY <2>1, <2>2, <2>3 DEF RunOK
<1> QED BY <1>1, <1>2, <1>5 DEF n

\* The state of one task is set to one in which it neither waits nor is dead.
LEMMA SetState ==
    ASSUME NEW m, MemOK(m), NEW o \in Alive(m), NEW s \in {"READY", "RUNNING", "BLOCK"}
    PROVE  LET n == [m EXCEPT !.proc[o].state = s] IN
           /\ MemOK(n) /\ Quiet(m, n) /\ Alive(n) = Alive(m)
<1> DEFINE f == [m.proc EXCEPT ![o] = [m.proc[o] EXCEPT !.state = s]]
           n == [m EXCEPT !.proc[o].state = s]
<1>0. m \in Memory /\ m.proc \in [Objs -> Procs] /\ o \in Objs
      /\ m.proc[o].state \notin {"FREE", "ZOMBIE"}
    BY DEF MemOK, Memory, Alive
<1>1. n = [m EXCEPT !.proc = f]
    BY <1>0 DEF Memory
<1>2. f \in [Objs -> Procs]
    BY <1>0 DEF Procs
<1>3. /\ f[o].state = s /\ f[o].pid = m.proc[o].pid /\ f[o].type = m.proc[o].type
      /\ f[o].space = m.proc[o].space /\ f[o].core = m.proc[o].core
      /\ \A x \in Objs \ {o} : f[x] = m.proc[x]
    BY <1>0 DEF Procs
<1> HIDE DEF f, n
<1>4. StatesOnly(m, f)
    BY <1>0, <1>2, <1>3 DEF StatesOnly
<1>5. MemOK(n)
    BY <1>1, <1>4, StatesOnlyOK
<1>6. n.proc = f /\ n.table = m.table
    BY <1>0, <1>1 DEF Memory
<1>7. Quiet(m, n)
    BY <1>0, <1>3, <1>4, <1>6 DEF Quiet
<1>8. Alive(n) = Alive(m)
    BY <1>0, <1>3, <1>6 DEF Alive
<1> QED BY <1>5, <1>7, <1>8 DEF n

\* The same for the cores, teardowns and waiters together.
LEMMA QuietRunOK ==
    ASSUME NEW m, NEW n, MemOK(m), Quiet(m, n), RunOK(m)
    PROVE  RunOK(n)
BY QuietRun DEF RunOK

\* The history of early burials is a Boolean.
LEMMA HastyType == hasty \in BOOLEAN => \A B : Hasty(B) \in BOOLEAN
BY DEF Hasty

\* What a step that changes neither births nor the two flags leaves to prove.
LEMMA FlagTypes ==
    ASSUME LifeInv
    PROVE  halted \in BOOLEAN /\ hasty \in BOOLEAN /\ births \in 0 .. MaxBirths
BY DEF LifeInv, TypeOK

\* kfork(): a creation that fails even after the burial of all zombies.
LEMMA KforkFailsOK ==
    ASSUME LifeInv, NEW k \in Cores, NEW op, NEW type, NEW c, Caller(k, op, c),
           kfork_fails(k, type, c)
    PROVE  LifeInv' /\ Stays(mem, mem')
<1> DEFINE m == ForkMemory(k, type, c)
<1>1. /\ MemOK(m) /\ Stays(mem, m) /\ (~Hasty(Reap(mem, k)) => RunOK(m)) /\ Up
    BY ForkMemoryOK, CallerFacts
<1>2. /\ mem' = Failed(m) /\ halted' = TRUE /\ hasty' = Hasty(Reap(mem, k)) /\ call' = NoCall
      /\ UNCHANGED <<current, exec, ttbr, dying, births>>
    BY DEF kfork_fails
<1> HIDE DEF m
<1>3. /\ MemOK(mem')
      /\ mem'.proc = m.proc /\ mem'.table = m.table /\ mem'.space = m.space
    BY <1>1, <1>2, FailedOK
<1>4. Stays(mem, mem')
    BY <1>1, <1>3 DEF Stays
<1>5. RunOK(m) => RunOK(mem')
    BY <1>3 DEF RunOK, OnCore, TornDown, InTable, Waits, proc_get
<1>6. births' \in 0 .. MaxBirths /\ hasty \in BOOLEAN
    BY <1>2 DEF LifeInv, TypeOK
<1>7. hasty' \in BOOLEAN /\ halted' \in BOOLEAN
    BY <1>2, <1>6, HastyType
<1> QED BY <1>1, <1>2, <1>3, <1>4, <1>5, <1>6, <1>7, PlainOK, Released

\* SYS_THREAD keeps the invariant.
LEMMA ThreadOK ==
    ASSUME LifeInv, NEW k \in Cores, NEW c, sys_thread(k, c)
    PROVE  LifeInv' /\ Stays(mem, mem')
<1> DEFINE m == ForkMemory(k, "THREAD", c)
<1>1. Caller(k, "thread", c) /\ Up
    BY CallerFacts DEF sys_thread
<1>2. CASE kfork_fails(k, "THREAD", c)
    BY <1>1, <1>2, KforkFailsOK
<1>3. CASE ~kfork_fails(k, "THREAD", c)
    <2>1. PICK o \in Unused, core \in Cores :
            /\ FreeSlots(m) # {} /\ Room(m, "THREAD", c)
            /\ mem' = Created(m, "THREAD", c, o, core)
            /\ hasty' = IF m = mem THEN hasty ELSE Hasty(Reap(mem, k))
            /\ births < MaxBirths /\ births' = births + 1 /\ call' = NoCall
            /\ UNCHANGED <<current, exec, ttbr, dying, halted>>
        BY <1>3 DEF sys_thread
    <2>2. /\ MemOK(m) /\ Stays(mem, m) /\ c \in Objs /\ m.proc[c].state # "FREE"
          /\ \A x \in Objs : mem.proc[x].state = "FREE" => m.proc[x].state = "FREE"
          /\ ~hasty' => RunOK(m)
        BY <1>1, <2>1, ForkMemoryOK
    <2> HIDE DEF m
    <2>3. o \in Objs /\ mem.proc[o].state = "FREE" /\ m.proc[o].state = "FREE"
        BY <2>2 DEF Unused
    <2>4. MemOK(mem') /\ Stays(m, mem') /\ (RunOK(m) => RunOK(mem'))
        BY <2>1, <2>2, <2>3, CreatedRun
    <2>5. \A x \in Objs \ {o} : mem'.proc[x] = m.proc[x]
        BY <2>1, <2>2, <2>3, CreatedOK
    <2>6. Stays(mem, mem')
        BY <2>2, <2>3, <2>5 DEF Stays
    <2>7. births' \in 0 .. MaxBirths /\ hasty \in BOOLEAN /\ halted' \in BOOLEAN
        BY <1>1, <2>1, Enter, ProcLifeAssumption DEF LifeInv, TypeOK
    <2>8. hasty' \in BOOLEAN
        BY <2>1, <2>7, HastyType
    <2> QED BY <1>1, <2>1, <2>2, <2>4, <2>6, <2>7, <2>8, PlainOK, Released
<1> QED BY <1>2, <1>3

\* The first half of SYS_FORK keeps the invariant; its caller lives when it goes on.
LEMMA ForkOK ==
    ASSUME LifeInv, NEW k \in Cores, NEW c, sys_fork(k, c)
    PROVE  LifeInv' /\ Stays(mem, mem') /\ CallerAlive'
<1> DEFINE m == ForkMemory(k, "PROC", c)
<1>1. /\ Caller(k, "fork", c) /\ Up /\ call.core = k /\ call.step = "called" /\ call.proc = c
      /\ get_current_proc(mem, k) # Nil => c \in Alive(mem)
    BY CallerFacts DEF sys_fork
<1>2. CASE kfork_fails(k, "PROC", c)
    <2>1. CallerAlive'
        BY <1>2, Released DEF kfork_fails
    <2> QED BY <1>1, <1>2, <2>1, KforkFailsOK
<1>3. CASE ~kfork_fails(k, "PROC", c)
    <2>1. PICK o \in Unused, core \in Cores :
            /\ FreeSlots(m) # {} /\ Room(m, "PROC", c)
            /\ mem' = [Created(m, "PROC", c, o, core) EXCEPT !.proc[o].state = "BLOCK"]
            /\ hasty' = IF m = mem THEN hasty ELSE Hasty(Reap(mem, k))
            /\ births < MaxBirths /\ births' = births + 1
            /\ halted' = (get_current_proc(mem, k) = Nil)
            /\ call' = IF halted' THEN NoCall ELSE [call EXCEPT !.step = "forked"]
            /\ UNCHANGED <<current, exec, ttbr, dying>>
        BY <1>3 DEF sys_fork
    <2>2. /\ MemOK(m) /\ Stays(mem, m) /\ c \in Objs /\ m.proc[c].state # "FREE"
          /\ c \in Alive(mem) => c \in Alive(m)
          /\ \A x \in Objs : mem.proc[x].state = "FREE" => m.proc[x].state = "FREE"
          /\ ~hasty' => RunOK(m)
        BY <1>1, <2>1, ForkMemoryOK
    <2> HIDE DEF m
    <2>3. o \in Objs /\ mem.proc[o].state = "FREE" /\ m.proc[o].state = "FREE"
        BY <2>2 DEF Unused
    <2> DEFINE a == Created(m, "PROC", c, o, core)
    <2>4. /\ MemOK(a) /\ o \in Alive(a) /\ (RunOK(m) => RunOK(a))
          /\ c \in Alive(m) => c \in Alive(a)
        BY <2>1, <2>2, <2>3, CreatedRun
    <2>5. \A x \in Objs \ {o} : a.proc[x] = m.proc[x]
        BY <2>1, <2>2, <2>3, CreatedOK
    <2>6. mem' = [a EXCEPT !.proc[o].state = "BLOCK"]
        BY <2>1
    <2> HIDE DEF a
    <2>7. MemOK(mem') /\ Quiet(a, mem') /\ Alive(mem') = Alive(a)
        BY <2>4, <2>6, SetState
    <2>8. Stays(mem, a)
        BY <2>2, <2>3, <2>5 DEF Stays
    <2>9. Stays(mem, mem')
        BY <2>4, <2>7, <2>8, QuietRun
    <2>10. ~hasty' => RunOK(mem')
        BY <2>2, <2>4, <2>7, QuietRunOK
    <2>b. halted' \in BOOLEAN
        BY <2>1
    <2>e. births \in 0 .. MaxBirths /\ hasty \in BOOLEAN /\ CallOK /\ call \in SvcCalls
        BY <1>1, Enter, FlagTypes
    <2>11. /\ births' \in 0 .. MaxBirths /\ hasty \in BOOLEAN /\ halted' \in BOOLEAN
           /\ CallOK /\ call \in SvcCalls
        BY <2>1, <2>b, <2>e, ProcLifeAssumption
    <2>12. hasty' \in BOOLEAN
        BY <2>1, <2>11, HastyType
    <2>13. call' \in SvcCalls /\ CallOK' /\ CallerAlive'
        <3>1. CASE halted'
            BY <2>1, <3>1, Released
        <3>2. CASE ~halted'
            <4>1. c \in Alive(mem')
                BY <1>1, <2>1, <2>2, <2>4, <2>7, <3>2
            <4>2. c \in InTable(mem')
                BY <2>7, <4>1, AliveFacts
            <4>3. call' = [call EXCEPT !.step = "forked"]
                BY <2>1, <3>2
            <4>4. call' \in SvcCalls /\ call'.step = "forked" /\ call'.proc = c /\ call'.core = k
                BY <1>1, <2>11, <4>3 DEF SvcCalls
            <4>5. dying'[k] = Nil
                BY <1>1, <2>1, <2>11 DEF CallOK
            <4> QED BY <4>1, <4>2, <4>4, <4>5 DEF CallOK, CallerAlive
        <3> QED BY <3>1, <3>2
    <2> QED BY <1>1, <2>1, <2>7, <2>9, <2>10, <2>11, <2>12, <2>13, PlainOK
<1> QED BY <1>2, <1>3

\* The caller of a system call is made to sleep, dead or alive.
LEMMA SetCaller ==
    ASSUME NEW m, MemOK(m), RunOK(m), NEW c \in InTable(m), NEW r \in Procs,
           r.pid = m.proc[c].pid, r.type = m.proc[c].type, r.space = m.proc[c].space,
           r.core = m.proc[c].core, r.state \in {"BLOCK", "WAIT"},
           r.state = "WAIT" => r.wait_for \in Pids /\ proc_get(m, r.wait_for) # Nil
    PROVE  LET n == [m EXCEPT !.proc = [m.proc EXCEPT ![c] = r]] IN
           MemOK(n) /\ RunOK(n) /\ OthersStay(c, m, n)
<1> DEFINE f == [m.proc EXCEPT ![c] = r]
           n == [m EXCEPT !.proc = f]
<1>1. m \in Memory /\ m.proc \in [Objs -> Procs] /\ m.table \in [Pids -> Objs \cup {Nil}]
      /\ c \in Objs /\ m.proc[c].state # "FREE"
    BY InTableFacts DEF MemOK, Memory
<1>2. f \in [Objs -> Procs] /\ f[c] = r /\ \A x \in Objs \ {c} : f[x] = m.proc[x]
    BY <1>1
<1> HIDE DEF f
<1>3. StatesOnly(m, f)
    BY <1>1, <1>2 DEF StatesOnly
<1>4. MemOK(n) /\ n.proc = f /\ n.table = m.table
    BY <1>1, <1>3, StatesOnlyOK DEF Memory
<1> HIDE DEF n
<1>5. OnCore(n) /\ TornDown(n, Dying)
    BY <1>3, <1>4, StatesOnlyRun DEF RunOK
<1>6. \A x \in Objs : f[x].state = "ZOMBIE" => m.proc[x].state = "ZOMBIE"
    BY <1>2
<1>7. \A w \in Pids : proc_get(m, w) # Nil => proc_get(n, w) # Nil
    BY <1>1, <1>4, <1>6 DEF proc_get
<1>8. Waits(n, Dying)
    BY <1>2, <1>4, <1>7 DEF RunOK, Waits
<1>9. OthersStay(c, m, n)
    BY <1>2, <1>4 DEF OthersStay
<1> QED BY <1>4, <1>5, <1>8, <1>9 DEF RunOK, n, f

\* So does the wake of a parked task by the core daemon.
LEMMA DaemonWakeOK ==
    ASSUME LifeInv, NEW o \in Objs, DaemonWake(o)
    PROVE  LifeInv' /\ Stays(mem, mem')
<1>1. /\ Up /\ Unlocked /\ o \in Alive(mem) /\ mem' = [mem EXCEPT !.proc[o].state = "READY"]
      /\ UNCHANGED <<current, exec, ttbr, dying, call, halted, births, hasty>>
    BY DEF DaemonWake, Alive
<1>2. MemOK(mem) /\ RunOK(mem) /\ Stays(mem, mem) /\ call \in SvcCalls
    BY <1>1, Enter
<1>3. MemOK(mem') /\ Quiet(mem, mem')
    BY <1>1, <1>2, SetState
<1>4. RunOK(mem') /\ Stays(mem, mem')
    BY <1>2, <1>3, QuietRun, QuietRunOK
<1> QED BY <1>1, <1>2, <1>3, <1>4, PlainOK, FlagTypes, Released

\* SYS_EXIT: proc_terminate() of the caller, then schedule().
LEMMA ExitOK ==
    ASSUME LifeInv, NEW k \in Cores, NEW c, sys_exit(k, c)
    PROVE  LifeInv' /\ Stays(mem, mem')
<1> DEFINE m == IF c \in Zombies(mem) THEN mem ELSE proc_terminate(mem, c)
<1>1. /\ Up /\ c \in InTable(mem) /\ schedule(m, k) /\ call' = NoCall
      /\ UNCHANGED <<dying, halted, births, hasty>>
    BY CallerFacts DEF sys_exit
<1>2. MemOK(mem) /\ RunOK(mem) /\ Stays(mem, mem)
    BY <1>1, Enter
<1>3. /\ MemOK(proc_terminate(mem, c)) /\ Stays(mem, proc_terminate(mem, c))
      /\ RunOK(proc_terminate(mem, c))
    BY <1>1, <1>2, TerminateRun DEF RunOK
<1>4. MemOK(m) /\ Stays(mem, m) /\ RunOK(m)
    BY <1>2, <1>3
<1> HIDE DEF m
<1> QED BY <1>1, <1>4, ScheduleOK, FlagTypes, Released

\* SYS_SIGNAL with KILL or STOP: proc_terminate() of another task.
LEMMA SignalOK ==
    ASSUME LifeInv, NEW k \in Cores, NEW c, NEW pid \in Pids, sys_signal(k, c, pid)
    PROVE  LifeInv' /\ Stays(mem, mem')
<1> DEFINE o == proc_get(mem, pid)
<1>1. /\ Up /\ o # Nil /\ schedule(proc_terminate(mem, o), k) /\ call' = NoCall
      /\ UNCHANGED <<dying, halted, births, hasty>>
    BY CallerFacts DEF sys_signal
<1>2. MemOK(mem) /\ RunOK(mem) /\ o \in InTable(mem)
    BY <1>1, Enter, GetFacts, AliveFacts
<1> HIDE DEF o
<1>3. /\ MemOK(proc_terminate(mem, o)) /\ Stays(mem, proc_terminate(mem, o))
      /\ RunOK(proc_terminate(mem, o))
    BY <1>2, TerminateRun DEF RunOK
<1> QED BY <1>1, <1>3, ScheduleOK, FlagTypes, Released

\* SYS_PROC_DETACH changes the father alone.
LEMMA DetachOK ==
    ASSUME LifeInv, NEW k \in Cores, NEW c, sys_detach(k, c)
    PROVE  LifeInv' /\ Stays(mem, mem')
<1> DEFINE f == [mem.proc EXCEPT ![c] = [mem.proc[c] EXCEPT !.father_pid = NoPid]]
<1>1. /\ Up /\ c \in Objs /\ mem' = [mem EXCEPT !.proc[c].father_pid = NoPid] /\ call' = NoCall
      /\ UNCHANGED <<current, exec, ttbr, dying, halted, births, hasty>>
    BY CallerFacts DEF sys_detach
<1>2. MemOK(mem) /\ RunOK(mem) /\ Stays(mem, mem)
    BY <1>1, Enter
<1>3. mem \in Memory /\ mem.proc \in [Objs -> Procs]
    BY <1>2 DEF MemOK, Memory
<1>4. mem' = [mem EXCEPT !.proc = f]
    BY <1>1, <1>3 DEF Memory
<1>5. f \in [Objs -> Procs]
    BY <1>1, <1>3 DEF Procs
<1>6. \A x \in Objs : /\ f[x].state = mem.proc[x].state /\ f[x].pid = mem.proc[x].pid
                      /\ f[x].type = mem.proc[x].type /\ f[x].space = mem.proc[x].space
                      /\ f[x].core = mem.proc[x].core /\ f[x].wait_for = mem.proc[x].wait_for
    BY <1>1, <1>3 DEF Procs
<1> HIDE DEF f
<1>7. StatesOnly(mem, f)
    BY <1>5, <1>6 DEF StatesOnly
<1>8. mem'.proc = f /\ mem'.table = mem.table
    BY <1>3, <1>4 DEF Memory
<1>9. Quiet(mem, mem')
    BY <1>6, <1>7, <1>8 DEF Quiet
<1>10. MemOK(mem')
    BY <1>2, <1>4, <1>7, StatesOnlyOK
<1>11. RunOK(mem') /\ Stays(mem, mem')
    BY <1>2, <1>9, QuietRun, QuietRunOK
<1> QED BY <1>1, <1>10, <1>11, PlainOK, FlagTypes, Released

\* SYS_SIGNAL_SETUP changes the signal entry of the address space alone.
LEMMA SetupOK ==
    ASSUME LifeInv, NEW k \in Cores, NEW c, proc_signal_setup(k, c)
    PROVE  LifeInv' /\ Stays(mem, mem')
<1> DEFINE s == mem.proc[c].space
           S == [mem.space EXCEPT ![s] = [mem.space[s] EXCEPT !.entry = TRUE]]
<1>1. /\ Up /\ c \in Objs /\ mem.proc[c].state # "FREE"
      /\ mem' = [mem EXCEPT !.space[mem.proc[c].space].entry = TRUE] /\ call' = NoCall
      /\ UNCHANGED <<current, exec, ttbr, dying, halted, births, hasty>>
    BY CallerFacts DEF proc_signal_setup
<1>2. MemOK(mem) /\ RunOK(mem) /\ Stays(mem, mem) /\ s \in Objs
    BY <1>1, Enter DEF MemOK, Housed
<1>3. mem \in Memory /\ mem.space \in [Objs -> Spaces]
    BY <1>2 DEF MemOK, Memory
<1> HIDE DEF s
<1>4. mem' = [mem EXCEPT !.space = S]
    BY <1>1, <1>3 DEF Memory, s
<1>5. /\ S \in [Objs -> Spaces]
      /\ \A x \in Objs : S[x].used = mem.space[x].used /\ S[x].refs = mem.space[x].refs
    BY <1>2, <1>3 DEF Spaces
<1> HIDE DEF S
<1>6. mem' \in Memory /\ mem'.proc = mem.proc /\ mem'.table = mem.table /\ mem'.space = S
    BY <1>3, <1>4, <1>5 DEF Memory
<1>7. MemOK(mem')
    <2>1. Tabled(mem') /\ Listed(mem') /\ Housed(mem') /\ Owned(mem')
        BY <1>2, <1>5, <1>6 DEF MemOK, Tabled, Listed, Housed, Owned
    <2>2. \A x : Threads(mem', x) = Threads(mem, x)
        BY <1>6 DEF Threads
    <2>3. Counted(mem')
        BY <1>2, <1>5, <1>6, <2>2 DEF MemOK, Counted
    <2> QED BY <1>6, <2>1, <2>3 DEF MemOK
<1>8. Stays(mem, mem')
    BY <1>2, <1>6 DEF Stays
<1>9. RunOK(mem')
    BY <1>2, <1>6 DEF RunOK, OnCore, TornDown, InTable, Waits, proc_get
<1> QED BY <1>1, <1>7, <1>8, <1>9, PlainOK, FlagTypes, Released

\* The second half of SYS_FORK: the caller is parked.
LEMMA ForkParkOK ==
    ASSUME LifeInv, NEW k \in Cores, sys_fork_park(k)
    PROVE  LifeInv' /\ ButCaller
<1> DEFINE c == call.proc
           r == [mem.proc[c] EXCEPT !.state = "BLOCK"]
           n == [mem EXCEPT !.proc = [mem.proc EXCEPT ![c] = r]]
<1>1. /\ Up /\ call.step = "forked" /\ call' = NoCall
      /\ schedule([mem EXCEPT !.proc[c].state = "BLOCK"], k)
      /\ UNCHANGED <<dying, halted, births, hasty>>
    BY DEF sys_fork_park, InStep
<1>2. MemOK(mem) /\ RunOK(mem) /\ CallOK
    BY <1>1, Enter
<1>3. c \in InTable(mem) /\ c \in Objs
    BY <1>1, <1>2, InTableFacts DEF CallOK
<1>4. mem \in Memory /\ mem.proc \in [Objs -> Procs] /\ mem.proc[c] \in Procs
    BY <1>2, <1>3 DEF MemOK, Memory
<1>5. [mem EXCEPT !.proc[c].state = "BLOCK"] = n
    BY <1>3, <1>4 DEF Memory
<1>6. /\ r \in Procs /\ r.state = "BLOCK" /\ r.pid = mem.proc[c].pid
      /\ r.type = mem.proc[c].type /\ r.space = mem.proc[c].space /\ r.core = mem.proc[c].core
    BY <1>4 DEF Procs
<1> HIDE DEF r
<1>7. MemOK(n) /\ RunOK(n) /\ OthersStay(c, mem, n)
    BY <1>2, <1>3, <1>6, SetCaller
<1>8. schedule(n, k)
    BY <1>1, <1>5
<1> HIDE DEF n
<1>9. LifeInv' /\ OthersStay(c, mem, mem')
    BY <1>1, <1>7, <1>8, ScheduleOK, FlagTypes, Released
<1> QED BY <1>1, <1>9 DEF ButCaller

\* SYS_WAIT_PID: a zombie is found, or the caller begins to wait for a task that lives.
LEMMA WaitpidOK ==
    ASSUME LifeInv, NEW k \in Cores, NEW c, NEW pid \in Pids, proc_waitpid(k, c, pid)
    PROVE  LifeInv' /\ ButCaller /\ CallerAlive'
<1> DEFINE o == mem.table[pid]
<1>1. /\ Up /\ c \in InTable(mem) /\ c \in Objs /\ o # Nil /\ call.core = k /\ call.step = "called"
      /\ UNCHANGED <<current, exec, ttbr, dying, halted, births, hasty>>
      /\ call.proc = c
    BY CallerFacts DEF proc_waitpid
<1>2. MemOK(mem) /\ RunOK(mem) /\ Stays(mem, mem) /\ CallOK /\ call \in SvcCalls
    BY <1>1, Enter
<1>3. PICK s \in {"parked", "take"} : call' = [call EXCEPT !.step = s, !.pid = pid]
    BY DEF proc_waitpid
<1>4. call' \in SvcCalls /\ call'.step \in {"parked", "take"} /\ call'.core = k /\ call'.pid = pid
    BY <1>1, <1>2, <1>3 DEF SvcCalls
<1>5. dying'[k] = Nil
    BY <1>1, <1>2 DEF CallOK
<1>6. CallOK' /\ CallerAlive'
    BY <1>4, <1>5 DEF CallOK, CallerAlive
<1>7. CASE o \in Zombies(mem)
    <2>1. mem' = mem
        BY <1>7 DEF proc_waitpid
    <2>2. LifeInv'
        BY <1>1, <1>2, <1>4, <1>6, <2>1, PlainOK, FlagTypes
    <2> QED BY <1>2, <1>6, <2>1, <2>2 DEF ButCaller
<1>8. CASE o \notin Zombies(mem)
    <2> DEFINE r == [mem.proc[c] EXCEPT !.state = "WAIT", !.wait_for = pid]
               n == [mem EXCEPT !.proc = [mem.proc EXCEPT ![c] = r]]
    <2>0. mem \in Memory /\ mem.proc \in [Objs -> Procs] /\ mem.table \in [Pids -> Objs \cup {Nil}]
          /\ mem.proc[c] \in Procs
        BY <1>1, <1>2 DEF MemOK, Memory
    <2>1. mem' = n
        <3>1. mem' = [mem EXCEPT !.proc[c].state = "WAIT", !.proc[c].wait_for = pid]
            BY <1>8 DEF proc_waitpid
        <3> QED BY <1>1, <2>0, <3>1 DEF Memory
    <2>2. r \in Procs
        BY <2>0, ZenonT(30) DEF Procs
    <2>3. /\ r.state = "WAIT" /\ r.wait_for = pid /\ r.pid = mem.proc[c].pid
          /\ r.type = mem.proc[c].type /\ r.space = mem.proc[c].space /\ r.core = mem.proc[c].core
        BY <2>0 DEF Procs
    <2>4. proc_get(mem, pid) # Nil
        <3>1. o \in Objs /\ mem.proc[o].pid = pid
            BY <1>1, <1>2, <2>0 DEF MemOK, Tabled
        <3>2. mem.proc[o].state # "ZOMBIE"
            BY <1>8, <3>1, PidFacts DEF Zombies, InTable
        <3> QED BY <1>1, <3>2, PidFacts DEF proc_get
    <2> HIDE DEF r
    <2>5. MemOK(n) /\ RunOK(n) /\ OthersStay(c, mem, n)
        BY <1>1, <1>2, <2>2, <2>3, <2>4, SetCaller
    <2> HIDE DEF n
    <2>6. LifeInv'
        BY <1>1, <1>4, <1>6, <2>1, <2>5, PlainOK, FlagTypes
    <2> QED BY <1>1, <1>6, <2>1, <2>5, <2>6 DEF ButCaller
<1> QED BY <1>7, <1>8

\* SYS_WAIT_PID: the caller is scheduled away.
LEMMA WaitpidScheduleOK ==
    ASSUME LifeInv, NEW k \in Cores, waitpid_schedule(k)
    PROVE  LifeInv' /\ Stays(mem, mem') /\ CallerAlive'
<1>1. /\ Up /\ call.step = "parked" /\ call.core = k /\ schedule(mem, k)
      /\ call' = [call EXCEPT !.step = "take"] /\ UNCHANGED <<dying, halted, births, hasty>>
    BY DEF waitpid_schedule, InStep
<1>2. MemOK(mem) /\ RunOK(mem) /\ Stays(mem, mem) /\ CallOK /\ call \in SvcCalls
    BY <1>1, Enter
<1>3. /\ call' \in SvcCalls /\ call'.step = "take" /\ call'.core = call.core
      /\ call'.pid = call.pid
    BY <1>1, <1>2 DEF SvcCalls
<1>4. CallOK' /\ CallerAlive'
    BY <1>1, <1>2, <1>3 DEF CallOK, CallerAlive
<1> QED BY <1>1, <1>2, <1>3, <1>4, ScheduleOK, FlagTypes

\* SYS_WAIT_PID: the burial of the zombie.
LEMMA WaitpidTakeOK ==
    ASSUME LifeInv, NEW k \in Cores, waitpid_take(k)
    PROVE  LifeInv' /\ Stays(mem, mem')
<1> DEFINE o == mem.table[call.pid]
           B == IF o \in Zombies(mem) /\ (mem.proc[o].type = "PROC" => mem.space[mem.proc[o].space].refs = 0)
                THEN {o} ELSE {}
<1>1. /\ Up /\ mem' = proc_funeral(mem, k, B) /\ hasty' = Hasty(B) /\ call' = NoCall
      /\ UNCHANGED <<current, exec, ttbr, dying, halted, births>>
    BY DEF waitpid_take, InStep
<1>2. MemOK(mem) /\ RunOK(mem) /\ ~hasty
    BY <1>1, Enter
<1>3. Buriable(mem, B)
    BY <1>2, OneBuriable, NothingBuriable
<1> HIDE DEF B
<1>4. MemOK(mem')
    BY <1>1, <1>2, <1>3, FuneralOK
<1>5. Stays(mem, mem') /\ (B \cap InUse = {} => RunOK(mem'))
    BY <1>1, <1>2, <1>3, FuneralRun
<1>6. ~hasty' => RunOK(mem')
    BY <1>1, <1>5 DEF Hasty
<1>7. hasty' \in BOOLEAN
    BY <1>1, HastyType, FlagTypes
<1> QED BY <1>1, <1>4, <1>5, <1>6, <1>7, PlainOK, FlagTypes, Released

\* svc_handler() lets a caller in that lives.
LEMMA SvcHandlerOK ==
    ASSUME LifeInv, NEW k \in Cores, svc_handler(k)
    PROVE  LifeInv' /\ Stays(mem, mem') /\ CallerAlive'
<1> DEFINE c == get_current_proc(mem, k)
<1>1. /\ Up /\ dying[k] = Nil /\ c \in Objs
      /\ call' = [core |-> k, proc |-> c, step |-> "called", pid |-> NoPid]
      /\ UNCHANGED <<mem, current, exec, ttbr, dying, halted, births, hasty>>
    BY DEF svc_handler, UserMode
<1>2. MemOK(mem) /\ RunOK(mem) /\ Stays(mem, mem) /\ CoreTypes
    BY <1>1, Enter
<1>3. c \in Alive(mem) /\ current[k] = mem.proc[c].pid
    BY <1>1, <1>2, CurrentFacts, ProcLifeAssumption
<1>4. c \in InTable(mem)
    BY <1>2, <1>3, AliveFacts
<1> HIDE DEF c
<1>5. /\ call' \in SvcCalls /\ call'.step = "called" /\ call'.core = k /\ call'.proc = c
    BY <1>1 DEF SvcCalls
<1>6. InTable(mem') = InTable(mem) /\ Alive(mem') = Alive(mem) /\ RunOK(mem')
    BY <1>1, <1>2
<1>7. CallOK' /\ CallerAlive'
    BY <1>1, <1>3, <1>4, <1>5, <1>6 DEF CallOK, CallerAlive
<1> QED BY <1>1, <1>2, <1>5, <1>6, <1>7, PlainOK, FlagTypes

\* A system call that returns at once, or that faults on a caller that is gone.
LEMMA SvcReturnOK ==
    ASSUME LifeInv, NEW k \in Cores, svc_return(k) \/ CallerGone(k)
    PROVE  LifeInv' /\ Stays(mem, mem')
<1>1. /\ Up /\ call' = NoCall /\ halted' \in BOOLEAN
      /\ UNCHANGED <<mem, current, exec, ttbr, dying, births, hasty>>
    BY FlagTypes DEF svc_return, CallerGone, InStep
<1>2. MemOK(mem) /\ RunOK(mem) /\ Stays(mem, mem)
    BY <1>1, Enter
<1> QED BY <1>1, <1>2, PlainOK, FlagTypes, Released

\* The kernel entry of a task that was terminated, and the ipi.
LEMMA DeadOK ==
    ASSUME LifeInv, NEW k \in Cores, svc_handler_dead(k) \/ Ipi(k)
    PROVE  LifeInv' /\ Stays(mem, mem')
<1>1. Up /\ Unlocked /\ schedule(mem, k) /\ UNCHANGED <<dying, call, halted, births, hasty>>
    BY DEF svc_handler_dead, Ipi, UserMode
<1> QED BY <1>1, Enter, ScheduleOK, FlagTypes, Released

\* The timer of the boot core, with its burials.
LEMMA TimerOK ==
    ASSUME LifeInv, NEW second, NEW expired, irq_do_timer0(second, expired)
    PROVE  LifeInv' /\ Stays(mem, mem')
<1> DEFINE B == IF second THEN Reaped(mem, Core0, FALSE, expired) ELSE {}
           n == proc_funeral(mem, Core0, B)
<1>1. /\ Up /\ Unlocked /\ schedule(n, Core0) /\ hasty' = Hasty(B)
      /\ UNCHANGED <<dying, call, halted, births>>
    BY DEF irq_do_timer0
<1>2. MemOK(mem) /\ RunOK(mem) /\ call \in SvcCalls
    BY <1>1, Enter
<1>3. Buriable(mem, B)
    BY <1>2, ReapedBuriable, NothingBuriable
<1> HIDE DEF B
<1>4. MemOK(n) /\ Stays(mem, n) /\ (B \cap InUse = {} => RunOK(n))
    BY <1>2, <1>3, FuneralOK, FuneralRun
<1> HIDE DEF n
<1>5. ~hasty' => RunOK(n)
    BY <1>1, <1>4 DEF Hasty
<1>6. hasty' \in BOOLEAN /\ Core0 \in Cores
    BY <1>1, HastyType, FlagTypes, ProcLifeAssumption
<1> QED BY <1>1, <1>2, <1>4, <1>5, <1>6, ScheduleOK, FlagTypes, Released

\* The first half of proc_exit() in an abort handler: the mark.
LEMMA FaultBeginOK ==
    ASSUME LifeInv, NEW k \in Cores, FaultBegin(k)
    PROVE  LifeInv' /\ Stays(mem, mem')
<1> DEFINE c == get_current_proc(mem, k)
           v == IF proc_get_proc(mem, c) # Nil THEN proc_get_proc(mem, c) ELSE c
<1>1. /\ Up /\ dying[k] = Nil /\ exec[k] # Idle /\ (call.step # "none" => call.core # k)
      /\ UNCHANGED <<current, exec, ttbr, call, births, hasty>>
    BY DEF FaultBegin, UserMode, Unlocked
<1>2. MemOK(mem) /\ RunOK(mem) /\ CallOK /\ Stays(mem, mem) /\ CoreTypes /\ call \in SvcCalls
    BY <1>1, Enter
<1>3. CASE c = Nil
    <2>1. halted' = TRUE /\ UNCHANGED <<mem, dying>>
        BY <1>3 DEF FaultBegin
    <2>2. CallOK'
        BY <1>1, <1>2, <2>1 DEF CallOK, InTable
    <2> QED BY <1>1, <1>2, <2>1, <2>2, PlainOK, FlagTypes
<1>4. CASE c # Nil
    <2>1. mem' = Marked(mem, v) /\ dying' = [dying EXCEPT ![k] = v] /\ halted' = halted
        BY <1>4 DEF FaultBegin
    <2>2. c \in Alive(mem)
        BY <1>1, <1>2, <1>4, CurrentFacts DEF RunOK
    <2>3. v \in Alive(mem)
        BY <1>2, <2>2, GetProcFacts
    <2> HIDE DEF c, v
    <2>4. v \in InTable(mem) /\ v \in Objs /\ mem.proc[v].state # "FREE"
        BY <1>2, <2>3, AliveFacts DEF Alive
    <2>5. MemOK(mem') /\ mem'.table = mem.table /\ StatesOnly(mem, mem'.proc)
        BY <1>2, <2>1, <2>4, MarkedOK
    <2>6. OnCore(mem') /\ InTable(mem') = InTable(mem)
        BY <1>2, <2>5, StatesOnlyRun DEF RunOK
    <2>7. Waits(mem', Dying \cup {v}) /\ Stays(mem, mem')
        BY <1>2, <2>1, <2>4, MarkedRun DEF RunOK
    <2>8. Dying' = Dying \cup {v}
        BY <1>1, <1>2, <2>1, <2>4, ProcLifeAssumption DEF Dying, CoreTypes
    <2>9. TornDown(mem', Dying')
        BY <1>2, <2>4, <2>6, <2>8 DEF RunOK, TornDown
    <2>10. OnCore(mem)'
        BY <1>1, <2>6 DEF OnCore
    <2>11. RunOK(mem)'
        BY <2>7, <2>8, <2>9, <2>10 DEF RunOK
    <2>12. TypeOK'
        BY <1>1, <1>2, <2>1, <2>4, <2>5, FlagTypes DEF TypeOK, CoreTypes, MemOK
    <2>13. MemOK(mem)'
        BY <2>5
    <2>14. CallOK'
        <3>1. call.step \in {"called", "forked"} => call.proc \in Objs
            BY <1>2, InTableFacts DEF CallOK
        <3>2. call.step # "none" => dying'[call.core] = dying[call.core]
            BY <1>1, <1>2, <2>1 DEF CoreTypes, SvcCalls
        <3> QED BY <1>1, <1>2, <2>5, <2>6, <3>1, <3>2 DEF CallOK, StatesOnly
    <2> QED BY <2>7, <2>11, <2>12, <2>13, <2>14 DEF LifeInv
<1> QED BY <1>3, <1>4

\* The second half: the rest of proc_terminate(), and schedule().
LEMMA FaultEndOK ==
    ASSUME LifeInv, NEW k \in Cores, FaultEnd(k)
    PROVE  LifeInv' /\ Stays(mem, mem')
<1> DEFINE v == dying[k]
           m == Bereaved(mem, mem.proc[v].pid, mem.proc[v].type)
<1>1. /\ Up /\ v # Nil /\ schedule(m, k) /\ dying' = [dying EXCEPT ![k] = Nil]
      /\ UNCHANGED <<call, halted, births, hasty>>
    BY DEF FaultEnd
<1>2. MemOK(mem) /\ RunOK(mem) /\ CallOK /\ Stays(mem, mem) /\ CoreTypes /\ call \in SvcCalls
    BY <1>1, Enter
<1>3. v \in Dying /\ v \in InTable(mem)
    BY <1>1, <1>2 DEF RunOK, TornDown, Dying
<1>4. MemOK(m) /\ m.table = mem.table /\ StatesOnly(mem, m.proc)
    BY <1>2, BereavedOK
<1>5. Waits(m, Dying \ {v}) /\ Stays(mem, m)
    BY <1>2, <1>3, BereavedRun DEF RunOK
<1> HIDE DEF m
<1>6. OnCore(m) /\ TornDown(m, Dying)
    BY <1>2, <1>4, StatesOnlyRun DEF RunOK
<1>7. /\ MemOK(mem') /\ Quiet(m, mem')
      /\ exec' \in [Cores -> Objs \cup {Idle}] /\ ttbr' \in [Cores -> Objs \cup {Idle}]
      /\ current' \in [Cores -> Pids \cup {IdlePid}]
    BY <1>1, <1>2, <1>4, ScheduleMem
<1>8. OnCore(mem)'
    BY <1>1, <1>2, <1>4, <1>6, ScheduleCores
<1>9. Waits(mem', Dying \ {v}) /\ TornDown(mem', Dying) /\ Stays(mem, mem')
    BY <1>4, <1>5, <1>6, <1>7, QuietRun
<1>10. Dying' \subseteq Dying /\ Dying \ {v} \subseteq Dying'
    BY <1>1, <1>2 DEF Dying, CoreTypes
<1>11. RunOK(mem)'
    BY <1>8, <1>9, <1>10 DEF RunOK, Waits, TornDown
<1>12. TypeOK'
    BY <1>1, <1>2, <1>7, FlagTypes DEF TypeOK, CoreTypes, MemOK
<1>13. MemOK(mem)'
    BY <1>7
<1>14. CallOK'
    <2>1. call.step \in {"called", "forked"} => call.proc \in Objs
        BY <1>2, InTableFacts DEF CallOK
    <2>2. InTable(mem') = InTable(mem) /\ \A o \in Objs : mem'.proc[o].pid = mem.proc[o].pid
        BY <1>2, <1>4, <1>7, StatesOnlyRun DEF Quiet, StatesOnly
    <2>3. call.step # "none" => call.core # k /\ call.core \in Cores
        BY <1>1, <1>2 DEF CallOK, SvcCalls
    <2>4. \A j \in Cores \ {k} : current'[j] = current[j] /\ dying'[j] = dying[j]
        BY <1>1, <1>2 DEF schedule, CoreTypes
    <2> QED BY <1>1, <1>2, <2>1, <2>2, <2>3, <2>4 DEF CallOK
<1> QED BY <1>9, <1>11, <1>12, <1>13, <1>14 DEF LifeInv

\* Every step keeps the invariant, and revives no thread but the caller of the
\* system call in progress.
LEMMA Preserved ==
    ASSUME LifeInv, [Next]_vars
    PROVE  LifeInv' /\ ButCaller
<1>1. CASE UNCHANGED vars
    <2>1. LifeInv'
        BY <1>1 DEF vars, LifeInv, TypeOK, RunOK, OnCore, Dying, CallOK
    <2> QED BY <1>1, <2>1 DEF vars, Stays, ButCaller
<1>2. CASE Next
    <2>1. ASSUME NEW o \in Objs, DaemonWake(o)
          PROVE  LifeInv' /\ Stays(mem, mem')
        BY <2>1, DaemonWakeOK
    <2>2. ASSUME NEW k \in Cores, NEW c,
                 \/ sys_fork(k, c) \/ sys_thread(k, c) \/ sys_exit(k, c)
                 \/ sys_detach(k, c) \/ proc_signal_setup(k, c)
          PROVE  LifeInv' /\ Stays(mem, mem')
        BY <2>2, ForkOK, ThreadOK, ExitOK, DetachOK, SetupOK
    <2>3. ASSUME NEW k \in Cores, NEW c, NEW pid \in Pids,
                 sys_signal(k, c, pid) \/ proc_waitpid(k, c, pid)
          PROVE  LifeInv' /\ ButCaller
        BY <2>3, SignalOK, WaitpidOK DEF ButCaller
    <2>4. ASSUME NEW k \in Cores,
                 \/ svc_handler(k) \/ svc_return(k) \/ CallerGone(k)
                 \/ sys_fork_park(k) \/ waitpid_schedule(k) \/ waitpid_take(k)
          PROVE  LifeInv' /\ ButCaller
        BY <2>4, SvcHandlerOK, SvcReturnOK, ForkParkOK, WaitpidScheduleOK, WaitpidTakeOK
           DEF ButCaller
    <2>5. ASSUME NEW k \in Cores,
                 svc_handler_dead(k) \/ Ipi(k) \/ FaultBegin(k) \/ FaultEnd(k)
          PROVE  LifeInv' /\ Stays(mem, mem')
        BY <2>5, DeadOK, FaultBeginOK, FaultEndOK
    <2>6. ASSUME NEW second, NEW expired, irq_do_timer0(second, expired)
          PROVE  LifeInv' /\ Stays(mem, mem')
        BY <2>6, TimerOK
    <2> QED BY <1>2, <2>1, <2>2, <2>3, <2>4, <2>5, <2>6 DEF Next, ButCaller
<1> QED BY <1>1, <1>2

\* When no user code faults, or there is one core only, nothing terminates the
\* caller of a system call in progress.
Undisturbed == Faulty = {} \/ Cores = {Core0}
NoFault == Faulty = {} => \A k \in Cores : dying[k] = Nil

LEMMA CallerLives ==
    ASSUME Undisturbed, LifeInv, CallerAlive, NoFault, [Next]_vars
    PROVE  CallerAlive' /\ NoFault'
<1>1. CASE UNCHANGED vars
    BY <1>1 DEF vars, CallerAlive, Alive, NoFault
<1>2. CASE Next
    <2>1. ASSUME NEW k \in Cores, FaultBegin(k)
          PROVE  CallerAlive' /\ NoFault'
        <3>1. Faulty # {} /\ UserMode(k) /\ call' = call
            BY <2>1 DEF FaultBegin
        <3>2. Unlocked
            BY <3>1, ProcLifeAssumption DEF Undisturbed, UserMode, LifeInv, TypeOK, SvcCalls
        <3> QED BY <3>1, <3>2, Released DEF NoFault, LifeInv, TypeOK
    <2>2. ASSUME NEW k \in Cores, FaultEnd(k)
          PROVE  CallerAlive' /\ NoFault'
        <3>1. Up /\ dying[k] # Nil /\ call' = call
            BY <2>2 DEF FaultEnd
        <3>2. Faulty # {} /\ CallOK /\ call \in SvcCalls
            BY <3>1, Enter DEF NoFault
        <3>3. Unlocked
            BY <3>1, <3>2, ProcLifeAssumption DEF Undisturbed, Unlocked, CallOK, SvcCalls
        <3> QED BY <3>1, <3>2, <3>3, Released DEF NoFault
    <2>3. ASSUME NEW k \in Cores, NEW c, sys_fork(k, c)
          PROVE  CallerAlive' /\ dying' = dying
        BY <2>3, ForkOK DEF sys_fork, kfork_fails
    <2>4. ASSUME NEW k \in Cores, NEW c, NEW pid \in Pids, proc_waitpid(k, c, pid)
          PROVE  CallerAlive' /\ dying' = dying
        BY <2>4, WaitpidOK DEF proc_waitpid
    <2>5. ASSUME NEW k \in Cores, svc_handler(k) \/ waitpid_schedule(k)
          PROVE  CallerAlive' /\ dying' = dying
        BY <2>5, SvcHandlerOK, WaitpidScheduleOK DEF svc_handler, waitpid_schedule
    <2>6. ASSUME NEW k \in Cores, NEW c, NEW pid,
                 \/ sys_thread(k, c) \/ sys_exit(k, c) \/ sys_detach(k, c)
                 \/ proc_signal_setup(k, c) \/ sys_signal(k, c, pid)
                 \/ svc_return(k) \/ CallerGone(k) \/ sys_fork_park(k) \/ waitpid_take(k)
          PROVE  CallerAlive' /\ dying' = dying
        <3>1. call' = NoCall /\ dying' = dying
            BY <2>6 DEF sys_thread, kfork_fails, sys_exit, sys_detach, proc_signal_setup,
                        sys_signal, svc_return, CallerGone, sys_fork_park, waitpid_take
        <3> QED BY <3>1, Released
    <2>7. ASSUME NEW k, NEW o, NEW second, NEW expired,
                 \/ svc_handler_dead(k) \/ Ipi(k) \/ DaemonWake(o)
                 \/ irq_do_timer0(second, expired)
          PROVE  CallerAlive' /\ dying' = dying
        <3>1. Unlocked /\ call' = call /\ dying' = dying
            BY <2>7 DEF svc_handler_dead, Ipi, DaemonWake, irq_do_timer0
        <3> QED BY <3>1, Released DEF LifeInv, TypeOK
    <2> QED BY <1>2, <2>1, <2>2, <2>3, <2>4, <2>5, <2>6, <2>7 DEF Next, NoFault
<1> QED BY <1>1, <1>2

-----------------------------------------------------------------------------
(* Theorems.                                                               *)

\* Every system call, interrupt and fault keeps kernel memory, the cores, the
\* teardowns and the waiters in order.
THEOREM LifeInvariant == Spec => []LifeInv
<1>1. LifeInv /\ [Next]_vars => LifeInv'
    BY Preserved
<1> QED BY InitOK, <1>1, PTL DEF Spec

\* The variables keep their types; in particular the reference count of an address
\* space never exceeds the number of its thread stacks, nor falls below zero.
THEOREM TypeCorrect == Spec => []TypeOK
<1>1. LifeInv => TypeOK
    BY DEF LifeInv
<1> QED BY <1>1, LifeInvariant, PTL

\* proc_create(), proc_terminate() and proc_funeral() count the threads of every
\* address space exactly, those included that left the table and were not freed.
THEOREM RefsAreExact == Spec => []RefsExact
<1>1. LifeInv => RefsExact
    <2> SUFFICES ASSUME LifeInv, NEW s \in Objs, mem.space[s].used
                 PROVE  mem.space[s].refs =
                          Cardinality({o \in Allocated : mem.proc[o].type = "THREAD"
                                                         /\ mem.proc[o].space = s})
        BY DEF RefsExact
    <2>1. {o \in Allocated : mem.proc[o].type = "THREAD" /\ mem.proc[o].space = s} = Threads(mem, s)
        BY DEF Allocated, Threads
    <2> QED BY <2>1 DEF LifeInv, MemOK, Counted
<1> QED BY <1>1, LifeInvariant, PTL

\* proc_funeral() frees neither the address space nor the slot of a task that may
\* still be scheduled.
THEOREM SpacesAreKept == Spec => []SpaceKept
<1>1. LifeInv => SpaceKept
    BY DEF LifeInv, SpaceKept, Allocated, MemOK, Housed, Listed
<1> QED BY <1>1, LifeInvariant, PTL

\* proc_terminate() leaves nobody in waitpid() for a task that is dead.
THEOREM WaitersAttended == Spec => []WaiterAttended
<1>1. LifeInv => WaiterAttended
    <2> SUFFICES ASSUME LifeInv, ~hasty, NEW o \in Allocated, mem.proc[o].state = "WAIT"
                 PROVE  \/ proc_get(mem, mem.proc[o].wait_for) # Nil
                        \/ \E k \in Cores : dying[k] # Nil /\ dying[k] = mem.table[mem.proc[o].wait_for]
        BY DEF WaiterAttended
    <2>1. \/ proc_get(mem, mem.proc[o].wait_for) # Nil
          \/ mem.table[mem.proc[o].wait_for] \in Dying
        BY DEF LifeInv, RunOK, Waits, Allocated
    <2> QED BY <2>1 DEF Dying
<1> QED BY <1>1, LifeInvariant, PTL

\* schedule() on any core: no two cores execute the same task, and each executes
\* the one it takes for its current task.
THEOREM TasksAreOwn == Spec => []OwnTask
<1>1. LifeInv => OwnTask
    <2> SUFFICES ASSUME LifeInv, ~hasty, NEW k \in Cores
                 PROVE  /\ get_current_proc(mem, k) \in {exec[k], Nil}
                        /\ \A j \in Cores \ {k} : exec[j] = exec[k] => exec[k] = Idle
        BY DEF OwnTask
    <2>1. OnCore(mem) /\ MemOK(mem) /\ CoreTypes
        BY DEF LifeInv, RunOK, TypeOK, CoreTypes
    <2>2. get_current_proc(mem, k) \in {exec[k], Nil}
        BY <2>1, CurrentFacts
    <2> QED BY <2>1, <2>2 DEF OnCore
<1> QED BY <1>1, LifeInvariant, PTL

\* No step, a signal to the children of a dying process included, makes a
\* terminated thread run again, but for the call that the thread itself is in.
THEOREM DeadThreadsStay == Spec => DeadThreadStays
<1>1. LifeInv /\ [Next]_vars =>
        [\A o \in Objs :
           /\ mem.proc[o].type = "THREAD" /\ mem.proc[o].state = "ZOMBIE"
           /\ call.step \in {"called", "forked"} => call.proc # o
           => mem'.proc[o].state \in {"ZOMBIE", "FREE"}]_vars
    BY Preserved DEF ButCaller, Stays, OthersStay
<1> QED BY <1>1, LifeInvariant, PTL DEF Spec, DeadThreadStays

\* Where no abort handler of another core can tear down the caller of a system
\* call, on one core or without faults, that call revives nobody either: no
\* terminated thread is ever resumed.
THEOREM ThreadsNeverResumed ==
    ASSUME Faulty = {} \/ Cores = {Core0}
    PROVE  Spec => ThreadNeverResumed
<1> DEFINE Inv == LifeInv /\ CallerAlive /\ NoFault
<1>1. Init => Inv
    BY InitOK DEF Init, NoFault
<1>2. Inv /\ [Next]_vars => Inv'
    BY Preserved, CallerLives DEF Undisturbed
<1>3. Inv /\ [Next]_vars =>
        [\A o \in Objs : mem.proc[o].type = "THREAD" /\ mem.proc[o].state = "ZOMBIE"
                         => mem'.proc[o].state \in {"ZOMBIE", "FREE"}]_vars
    BY Preserved DEF ButCaller, Stays, OthersStay, CallerAlive, Alive
<1> QED BY <1>1, <1>2, <1>3, PTL DEF Spec, ThreadNeverResumed

=============================================================================
