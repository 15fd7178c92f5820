------------------------------ MODULE MCWorker ------------------------------
(***************************************************************************)
(* Worker for TLC, with the fleets its runs use.  Jobs are interchangeable,*)
(* which is used for safety only.                                          *)
(***************************************************************************)
EXTENDS Worker, TLC

Symmetry == Permutations(Job)

AllGo == [p \in Process |-> "go"]
GoAndNode == [p \in Process |-> IF p = "w1" THEN "go" ELSE "node"]
GoAndPython == [p \in Process |-> IF p = "w1" THEN "go" ELSE "python"]
=============================================================================
