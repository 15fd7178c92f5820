------------------------------- MODULE Loops -------------------------------
(***************************************************************************)
(* internal/cogs/loops.go and KnownQueues of store.go: how a background    *)
(* loop goes through the queues.  A tick of the leader begins a pass; the  *)
(* pass looks for queues with three SCANs, each of which takes a while, and*)
(* then runs the drain script on one queue after another, in the order of  *)
(* a Go map.  The first error ends it.  Jobs move all the time.            *)
(*                                                                         *)
(* One loop of one server is followed: its reaper or its retry drainer.    *)
(* Its other loop, the loops of other servers that lead or think so, and   *)
(* the API's handlers take their steps at any time.  Jobs are those of     *)
(* JobLifecycle, which JobStore implements; due says whose score the clock *)
(* has passed.                                                             *)
(***************************************************************************)
EXTENDS JobLifecycle, Sequences, FiniteSets

CONSTANTS
  Queue,       \* valid queue names
  DrainLimit,  \* cfg.DrainLimit
  MaxCuts      \* bound: passes that end in a failed SCAN or a crash

ASSUME LoopsAssumption ==
  /\ Queue # {}
  /\ MaxRetries \in Nat
  /\ DrainLimit \in Nat \ {0}
  /\ MaxCuts \in Nat

VARIABLES
  home,    \* the queue of each job
  due,     \* jobs whose lease deadline or next attempt time is past
  broken,  \* queues on which the drain script always fails
  loop,    \* which loop is followed
  leader,  \* IsLeader() of the server followed
  pass,    \* what its pass is doing
  cuts,    \* passes cut off so far
  owed     \* history: the jobs that have been due since the pass began

store == <<stage, tries, due>>
fixed == <<home, broken, loop>>
vars == <<store, fixed, leader, pass, cuts, owed>>

-----------------------------------------------------------------------------
\* The sorted set a loop drains.
Source(l) == IF l = "reaper" THEN "leased" ELSE "retry"

\* Bug: what KnownQueues' comment says, "scanning for pending lists".
PatternsPendingOnly == <<"pending">>

\* The keys KnownQueues scans for, in this order.
Patterns == <<"pending", "leased", "retry">>

\* Redis has a key for a structure that is not empty.
KeyExists(q, structure) == \E j \in Job : home[j] = q /\ stage[j] = structure

\* A pass: scanning for the pattern-th kind of key, or draining; todo are the
\* queues it has yet to come to, seen those it has found.
Idle == [step |-> "idle", pattern |-> 1, todo |-> {}, seen |-> {}]

TypeOK ==
  /\ LTypeOK
  /\ home \in [Job -> Queue]
  /\ due \subseteq {j \in Job : stage[j] \in {"leased", "retry"}}
  /\ broken \subseteq Queue
  /\ loop \in {"reaper", "retry"}
  /\ leader \in BOOLEAN
  /\ pass \in [step : {"idle", "scan", "drain"}, pattern : DOMAIN Patterns,
               todo : SUBSET Queue, seen : SUBSET Queue]
  /\ pass.step # "idle" <=> pass.todo # {}
  /\ cuts \in 0..MaxCuts
  /\ owed \subseteq due

Init ==
  /\ LInit
  /\ home \in [Job -> Queue]
  /\ due = {}
  /\ broken \in SUBSET Queue
  /\ loop \in {"reaper", "retry"}
  /\ leader = FALSE
  /\ pass = Idle
  /\ cuts = 0
  /\ owed = {}

-----------------------------------------------------------------------------
\* What a range read of queue q with LIMIT may return: all that is due, or as
\* much as the limit allows.  Which comes first is JobStore's business.
Batches(q, l) ==
  LET all == {j \in due : home[j] = q /\ stage[j] = Source(l)}
  IN IF Cardinality(all) <= DrainLimit THEN {all}
     ELSE {S \in SUBSET all : Cardinality(S) = DrainLimit}

\* The jobs in S go back to pending; a lease that expired costs an attempt.
Requeue(l, S) ==
  \/ S = {} /\ UNCHANGED <<stage, tries>>
  \/ IF l = "reaper" THEN UseAttempt(S, "pending") ELSE Resume(S)

\* Bug: the drained entries stay in the sorted set.
DrainedWithoutZRem(q, l, S) ==
  S \in Batches(q, l) /\ Requeue(l, S) /\ UNCHANGED due

\* The drain script on queue q takes S.
Drained(q, l, S) ==
  S \in Batches(q, l) /\ Requeue(l, S) /\ due' = due \ S

\* drainDue: a tick while this server leads.
Begin ==
  /\ leader /\ pass.step = "idle"
  /\ pass' = [Idle EXCEPT !.step = "scan", !.todo = Queue]
  /\ owed' = {j \in due : stage[j] = Source(loop)}
  /\ UNCHANGED <<store, fixed, leader, cuts>>

\* The pass after one pattern's SCAN: the next pattern, for which the queues
\* already found need no second look, or the drains, or nothing to drain.
Scanned(seen) ==
  IF pass.pattern < Len(Patterns) /\ seen # Queue
  THEN [pass EXCEPT !.pattern = @ + 1, !.todo = Queue \ seen, !.seen = seen]
  ELSE IF seen = {} THEN Idle
  ELSE [Idle EXCEPT !.step = "drain", !.todo = seen]

\* SCAN comes past the place of queue q's key and reports it if it is there: a
\* key that exists throughout is found, one that comes or goes may be.
Visit(q) ==
  LET seen == IF KeyExists(q, Patterns[pass.pattern]) THEN pass.seen \cup {q} ELSE pass.seen
      todo == pass.todo \ {q}
  IN /\ pass.step = "scan" /\ q \in pass.todo
     /\ pass' = IF todo = {} THEN Scanned(seen)
                ELSE [pass EXCEPT !.todo = todo, !.seen = seen]
     /\ UNCHANGED <<store, fixed, leader, cuts, owed>>

\* Bug: the queues are drained in sorted order.
NextQueuesSorted == {CHOOSE q \in pass.todo : TRUE}

\* The queues that may come next: ranging over a map is random.
NextQueues == pass.todo

\* The next queue is drained.  A full batch may leave some of it for later.
Drain(q) ==
  /\ pass.step = "drain" /\ q \in NextQueues
  /\ q \notin broken
  /\ \E S \in SUBSET due :
       /\ Drained(q, loop, S)
       /\ owed' = {j \in owed \ S : home[j] = q => Cardinality(S) < DrainLimit}
  /\ pass' = IF pass.todo = {q} THEN Idle ELSE [pass EXCEPT !.todo = @ \ {q}]
  /\ UNCHANGED <<fixed, leader, cuts>>

\* The drain of the next queue fails, executed or not, and the pass returns.
DrainFails(q) ==
  /\ pass.step = "drain" /\ q \in NextQueues
  /\ \/ q \notin broken /\ \E S \in SUBSET due : Drained(q, loop, S)
     \/ UNCHANGED store
  /\ pass' = Idle /\ owed' = {}
  /\ UNCHANGED <<fixed, leader, cuts>>

\* A SCAN fails.
ScanFails ==
  /\ pass.step = "scan"
  /\ cuts < MaxCuts
  /\ cuts' = cuts + 1
  /\ pass' = Idle /\ owed' = {}
  /\ UNCHANGED <<store, fixed, leader>>

\* The server dies in the middle of a pass and comes back.
Crash ==
  /\ pass.step # "idle"
  /\ cuts < MaxCuts
  /\ cuts' = cuts + 1
  /\ pass' = Idle /\ owed' = {} /\ leader' = FALSE
  /\ UNCHANGED <<store, fixed>>

\* Leadership comes and goes.  A pass under way does not look.
Lead == ~leader /\ leader' = TRUE /\ UNCHANGED <<store, fixed, pass, cuts, owed>>
StepDown == leader /\ leader' = FALSE /\ UNCHANGED <<store, fixed, pass, cuts, owed>>

-----------------------------------------------------------------------------
(***************************************************************************)
(* Everyone else.                                                          *)
(***************************************************************************)
\* Clients, and the clock that passes the score of a leased or retried job.
Client ==
  \/ \E j \in Job : Accept(j) /\ UNCHANGED due
  \/ \E S \in SUBSET Job : Lease(S) /\ UNCHANGED due
  \/ \E j \in Job : stage[j] = "leased" /\ due' = due \ {j} /\ UNCHANGED <<stage, tries>>
  \/ \E j \in Job : Finish({j}) /\ due' = due \ {j}
  \/ \E j \in Job : UseAttempt({j}, "retry") /\ due' = due \ {j}

FallDue(j) ==
  /\ stage[j] \in {"leased", "retry"}
  /\ due' = due \cup {j}
  /\ UNCHANGED <<stage, tries>>

\* The other loop, and every loop of another server.
DrainElsewhere == \E q \in Queue \ broken, l \in {"reaper", "retry"}, S \in SUBSET due :
                    Drained(q, l, S)

Environment ==
  /\ Client \/ (\E j \in Job : FallDue(j)) \/ DrainElsewhere
  /\ owed' = owed \cap due'
  /\ UNCHANGED <<fixed, leader, pass, cuts>>

Next ==
  \/ Begin
  \/ \E q \in Queue : Visit(q)
  \/ \E q \in Queue : Drain(q)
  \/ \E q \in Queue : DrainFails(q)
  \/ ScanFails
  \/ Crash
  \/ Lead
  \/ StepDown
  \/ Environment

Spec == Init /\ [][Next]_vars

\* The server followed leads again and again (LeadershipRecovers of LeaderLock:
\* some server does) and its ticker fires, a pass goes on, and a queue that is
\* tried again and again is drained some time: errors end, and the order of a
\* map is random, so the queue comes first now and then.
Fairness ==
  /\ WF_vars(Lead)
  /\ SF_vars(Begin)
  /\ WF_vars(\E q \in Queue : Visit(q))
  /\ WF_vars(\E q \in Queue : Drain(q) \/ DrainFails(q))
  /\ \A q \in Queue : SF_vars(Drain(q))

FairSpec == Spec /\ Fairness

-----------------------------------------------------------------------------
(***************************************************************************)
(* Properties.                                                             *)
(***************************************************************************)
\* A pass that returns nil has left nothing behind: a lease that was expired,
\* or a retry whose time had come, when the pass began has been taken up by the
\* time it ends, unless its queue filled DrainLimit.  KnownQueues reads three
\* kinds of keys at three times while jobs move between them, and must not
\* miss a queue because of it.
PassLeavesNothingBehind == pass.step = "idle" => owed = {}

\* Every expired lease is reaped and every elapsed retry resumed, or the job
\* moves on by itself, though passes are cut off and fail half way, leadership
\* comes and goes, and the drain of some other queue fails for ever.
DueJobsAreTakenUp ==
  \A j \in Job :
    (j \in due /\ stage[j] = Source(loop) /\ home[j] \notin broken) ~> (j \notin due)
=============================================================================
