----------------------------- MODULE MCProcLife -----------------------------
(***************************************************************************)
(* Instances of ProcLife: two cores, k0 with the timer.  The proc_t blocks  *)
(* are interchangeable.                                                     *)
(***************************************************************************)
EXTENDS ProcLife, TLC

CONSTANTS k0, k1, o1, o2, o3, o4

Symmetry == Permutations(Objs)

\* Each core makes most calls, one of the other two.
LifeCalls ==
    [k \in Cores |-> {"fork", "thread", "exit", "kill", "waitpid"}
                     \cup (IF k = k0 THEN {"setup"} ELSE {"detach"})]

ResumedCalls == [k \in Cores |-> {"fork", "exit", "setup"}]
=============================================================================
