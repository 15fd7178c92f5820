--------------------------- MODULE MCEnqueueCalls ---------------------------
(***************************************************************************)
(* EnqueueCalls for TLC: one producer, with a key or without.              *)
(***************************************************************************)
EXTENDS EnqueueCalls, TLC

CONSTANTS p1, q1, k1

Keyed == p1 :> [queue |-> q1, key |-> k1]
Unkeyed == p1 :> [queue |-> q1, key |-> NoKey]

\* IDs are random.
Symmetry == Permutations(Job)
=============================================================================
