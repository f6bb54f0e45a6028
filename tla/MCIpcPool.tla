----------------------------- MODULE MCIpcPool -----------------------------
(* Instances of IpcPool for TLC.                                            *)
EXTENDS IpcPool

CONSTANTS c1, c2, c3, w1, w2

TwoCores == [c \in Clients |-> IF c = c1 THEN 0 ELSE 1]

\* Worker pids are interchangeable.
PidSymmetry == Permutations(Pids)
=============================================================================
