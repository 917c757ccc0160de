----------------------------- MODULE MCStack2Dc -----------------------------
(***************************************************************************)
(* Instances of the coupled 2D stack for TLC.                              *)
(***************************************************************************)
EXTENDS Stack2Dc, TLC

CONSTANTS t1, t2, t3, PushOps, PopOps

\* Threads with the same role are interchangeable.
Symmetry == Permutations(Pushers \cap Poppers) \cup Permutations(Poppers \ Pushers)

\* Operations of each thread: PushOps for those that push, PopOps for the rest.
Operations == [t \in Threads |-> IF t \in Pushers THEN PushOps ELSE PopOps]
=============================================================================
