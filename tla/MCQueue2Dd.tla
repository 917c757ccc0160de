----------------------------- MODULE MCQueue2Dd -----------------------------
(***************************************************************************)
(* Instances of the 2D queue for TLC: model values for the threads and the *)
(* symmetries between them.                                                *)
(***************************************************************************)
EXTENDS Queue2Dd, TLC

CONSTANTS t1, t2, t3

\* Threads with the same role are interchangeable.
Symmetry == Permutations(Producers \cap Consumers)
=============================================================================
