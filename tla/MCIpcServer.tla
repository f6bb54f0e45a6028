---------------------------- MODULE MCIpcServer ----------------------------
(***************************************************************************)
(* Instances of IpcServer: the clients c1, c2 and c3, the server s1, and    *)
(* the server s2 that other servers call.                                   *)
(***************************************************************************)
EXTENDS IpcServer, TLC

CONSTANTS c1, c2, c3, s1, s2

Clients == {c1, c2, c3}

\* One core, or c2 (and s2) on the second one.
OneCore == [p \in Procs |-> 0]
TwoCores == [p \in Procs |-> IF p \in {c2, s2} THEN 1 ELSE 0]
\* The server away from the core that takes the timer interrupts.
ServerOnCore1 == [p \in Procs |-> IF p = s1 THEN 1 ELSE 0]

\* The clients of core 0 are interchangeable.
Symmetry == Permutations({c1, c3})

\* Who calls whom: the clients call s1; s1 calls s2 in its handler or in its main.
ClientsCallS1 == [p \in Procs |-> IF p \in Clients THEN {s1} ELSE {}]
MainOfS1CallsS2 == [p \in Procs |-> IF p \in Clients THEN {s1} ELSE IF p = s1 THEN {s2} ELSE {}]
NoNestedCalls == [p \in Servers |-> {}]
HandlerOfS1CallsS2 == [p \in Servers |-> IF p = s1 THEN {s2} ELSE {}]
=============================================================================
