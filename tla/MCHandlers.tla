----------------------------- MODULE MCHandlers -----------------------------
(* Instances of Handlers for TLC.                                           *)
EXTENDS Handlers, TLC

CONSTANTS c1, c2, irq1, irq2

\* Clients, and hardware interrupts, are interchangeable.
Symmetry == Permutations(Clients) \cup Permutations(Irqs)
=============================================================================
