-------------------------- MODULE MCCronScheduler --------------------------
(***************************************************************************)
(* CronScheduler for TLC.  Expressions are named by what they match.       *)
(* Schedule IDs and replicas are interchangeable, which is used for safety *)
(* only.                                                                   *)
(***************************************************************************)
EXTENDS CronScheduler, TLC

Symmetry == Permutations(Sched) \cup Permutations(Replica)

Periods == [c \in Cron |-> CASE c = "every1" -> 1 [] c = "every2" -> 2 [] c = "never" -> 0]
=============================================================================
