---------------------------- MODULE JobLifecycle ----------------------------
(***************************************************************************)
(* What Cogs promises about a job, with no Redis in it: the state diagram  *)
(* of the README.  A job is accepted, leased, and then acked, retried,     *)
(* requeued or dead-lettered; a failed attempt is counted exactly once;    *)
(* acked and dead are final.  Several jobs may move in one step because a  *)
(* claim, an ack and a drain are batches.  JobStore implements this.       *)
(***************************************************************************)
EXTENDS Naturals

CONSTANTS Job, MaxRetries

VARIABLES
  stage,  \* where each job is
  tries   \* failed attempts counted so far; forgotten once acked

Stage == {"new", "pending", "leased", "retry", "dead", "acked"}

LTypeOK ==
  /\ stage \in [Job -> Stage]
  /\ tries \in [Job -> Nat]

LInit ==
  /\ stage = [j \in Job |-> "new"]
  /\ tries = [j \in Job |-> 0]

\* The jobs in S, all at stage a, move to stage b.
Move(S, a, b) ==
  /\ S # {}
  /\ \A j \in S : stage[j] = a
  /\ stage' = [j \in Job |-> IF j \in S THEN b ELSE stage[j]]

\* The leased jobs in S use up an attempt; the ones with none left are
\* dead-lettered and the others go to stage b.
UseAttempt(S, b) ==
  /\ S # {}
  /\ \A j \in S : stage[j] = "leased"
  /\ tries' = [j \in Job |-> IF j \in S THEN tries[j] + 1 ELSE tries[j]]
  /\ stage' = [j \in Job |-> IF j \notin S THEN stage[j]
                             ELSE IF tries[j] + 1 > MaxRetries THEN "dead"
                             ELSE b]

Accept(j) == Move({j}, "new", "pending") /\ UNCHANGED tries

Lease(S) == Move(S, "pending", "leased") /\ UNCHANGED tries

Finish(S) ==
  /\ Move(S, "leased", "acked")
  /\ tries' = [j \in Job |-> IF j \in S THEN 0 ELSE tries[j]]

Resume(S) == Move(S, "retry", "pending") /\ UNCHANGED tries

LNext ==
  \/ \E j \in Job : Accept(j)
  \/ \E S \in SUBSET Job : Lease(S) \/ Finish(S) \/ Resume(S)
  \/ \E j \in Job : UseAttempt({j}, "retry")
  \/ \E S \in SUBSET Job : UseAttempt(S, "pending")

LSpec == LInit /\ [][LNext]_<<stage, tries>>
=============================================================================
