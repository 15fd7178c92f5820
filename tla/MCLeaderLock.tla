---------------------------- MODULE MCLeaderLock ----------------------------
(***************************************************************************)
(* LeaderLock for TLC.  Replicas keep their identity: liveness is checked. *)
(***************************************************************************)
EXTENDS LeaderLock
=============================================================================
