----------------------------- MODULE MCJobStore -----------------------------
(***************************************************************************)
(* JobStore for TLC, with the delays that Backoff computes.  Job IDs and   *)
(* queues are interchangeable.                                             *)
(***************************************************************************)
EXTENDS RetryBackoff, TLC

Symmetry == Permutations(Job) \cup Permutations(Queue)
=============================================================================
