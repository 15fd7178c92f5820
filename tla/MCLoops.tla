------------------------------ MODULE MCLoops ------------------------------
(***************************************************************************)
(* Loops for TLC.  Jobs and queues keep their identity: liveness is        *)
(* checked, and a broken queue is not like the others.                     *)
(***************************************************************************)
EXTENDS Loops
=============================================================================
