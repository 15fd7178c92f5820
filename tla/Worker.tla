------------------------------- MODULE Worker -------------------------------
(***************************************************************************)
(* The worker loops of the three SDKs and the API handlers they call:      *)
(* claim, wait for a slot, run the handler with a heartbeat beside it, ack *)
(* or fail.  The store behind the API is JobLifecycle, which JobStore      *)
(* implements; a lease's remaining time is added to it.                    *)
(*                                                                         *)
(* A claim returns the job's attempts field, and no two leases of a job    *)
(* begin with the same value (AttemptsCountEndedLeases of JobStore), so    *)
(* run[j][a] is the one delivery of job j with attempts a.  The server     *)
(* does not use it so: renew, ack and fail carry the ID only, and act on   *)
(* whichever lease the job has when they are executed.                     *)
(*                                                                         *)
(* Which pending jobs a claim gets, and when a backoff ends, is left open. *)
(* Time is relative, so nothing bounds the clock.                          *)
(***************************************************************************)
EXTENDS JobLifecycle, FiniteSets

CONSTANTS
  Process,           \* worker processes
  Sdk,               \* the SDK each one uses: "go", "python" or "node"
  Batch,             \* the worker's batch
  Slots,             \* the worker's concurrency
  LeaseTTL,          \* cfg.LeaseTTL, in clock units
  HeartbeatDivisor,  \* cfg.HeartbeatDivisor
  DefaultBeat,       \* the SDKs' heartbeat when the server's is zero
  Nobody,            \* who has a delivery that was not made
  Timely,            \* whether due steps of workers come before time passes
  MaxMissed,         \* bound: consecutive renewals of a delivery that fail
  MaxStray,          \* bound: abandoned calls the server may still execute
  MaxStops           \* bound: how often worker processes end

ASSUME WorkerAssumption ==
  /\ MaxRetries \in Nat
  /\ Sdk \in [Process -> {"go", "python", "node"}]
  /\ {Batch, Slots, LeaseTTL, HeartbeatDivisor, DefaultBeat} \subseteq Nat \ {0}
  /\ Nobody \notin Process
  /\ Timely \in BOOLEAN
  /\ {MaxMissed, MaxStray, MaxStops} \subseteq Nat

VARIABLES
  left,    \* remaining time of each job's lease
  loop,    \* each worker's loop: "claiming", "draining" or "ended"
  run,     \* each delivery, as its worker sees it
  stray,   \* calls given up on that the server may still execute
  stops    \* how many workers have ended or been told to

store == <<stage, tries, left>>
vars == <<store, loop, run, stray, stops>>

-----------------------------------------------------------------------------
Attempt == 0..MaxRetries

\* What a worker knows of a delivery: it waits for a slot; its handler runs;
\* it runs on after a refused renewal; it returned nil or an error; it is over,
\* after a handler that succeeded ("done") or not ("over").
RunState == {"none", "waiting", "running", "refused", "ok", "err", "done", "over"}

NoRun == [at |-> Nobody, state |-> "none", beats |-> FALSE, beat |-> 0, missed |-> 0]

\* Bug: the divisor is not applied.
HeartbeatUndivided == LeaseTTL

\* heartbeat_every_ms as the server computes it and an SDK applies it.
Heartbeat ==
  IF LeaseTTL \div HeartbeatDivisor > 0 THEN LeaseTTL \div HeartbeatDivisor ELSE DefaultBeat

RunRec ==
  [at : Process \cup {Nobody}, state : RunState, beats : BOOLEAN, beat : 0..Heartbeat,
   missed : 0..MaxMissed]

TypeOK ==
  /\ LTypeOK
  /\ left \in [Job -> 0..LeaseTTL]
  /\ loop \in [Process -> {"claiming", "draining", "ended"}]
  /\ run \in [Job -> [Attempt -> RunRec]]
  /\ stray \subseteq {"renew", "ack", "fail"} \X Job
  /\ stops \in 0..MaxStops

Init ==
  /\ LInit
  /\ left = [j \in Job |-> 0]
  /\ loop = [p \in Process |-> "claiming"]
  /\ run = [j \in Job |-> [a \in Attempt |-> NoRun]]
  /\ stray = {}
  /\ stops = 0

\* The deliveries of p that are in one of the given states.
RunsOf(p, states) ==
  {d \in Job \X Attempt : run[d[1]][d[2]].at = p /\ run[d[1]][d[2]].state \in states}

\* A handler occupies a slot until its result has been reported.
Busy(p) == RunsOf(p, {"running", "refused", "ok", "err"})

-----------------------------------------------------------------------------
(***************************************************************************)
(* The API handlers, as far as they change the store.                      *)
(***************************************************************************)
HandleEnqueue(j) ==
  /\ Accept(j)
  /\ UNCHANGED <<left, loop, run, stray, stops>>

HandleClaim(S) ==
  /\ Lease(S)
  /\ left' = [j \in Job |-> IF j \in S THEN LeaseTTL ELSE left[j]]

\* Bug: the new deadline is computed and not written.
HandleRenewForgotten(j) == UNCHANGED store

\* Any lease of the job is extended; without one the answer is 409.
HandleRenew(j) ==
  /\ left' = IF stage[j] = "leased" THEN [left EXCEPT ![j] = LeaseTTL] ELSE left
  /\ UNCHANGED <<stage, tries>>

\* Any lease of the job is ended; without one nothing happens.
HandleAck(j) ==
  /\ IF stage[j] = "leased" THEN Finish({j}) ELSE UNCHANGED <<stage, tries>>
  /\ UNCHANGED left

HandleFail(j) ==
  /\ IF stage[j] = "leased" THEN UseAttempt({j}, "retry") ELSE UNCHANGED <<stage, tries>>
  /\ UNCHANGED left

Handle(call) ==
  CASE call[1] = "renew" -> HandleRenew(call[2])
    [] call[1] = "ack" -> HandleAck(call[2])
    [] call[1] = "fail" -> HandleFail(call[2])

\* The caller sees an error.  The call was executed all the same, or will be
\* executed later, or never reached the server.
Unanswered(call) ==
  \/ Handle(call) /\ UNCHANGED stray
  \/ /\ stray' = stray \cup {call}
     /\ Cardinality(stray') <= MaxStray
     /\ UNCHANGED store
  \/ UNCHANGED <<store, stray>>

\* The server executes a call nobody waits for any more.
ExecuteStray(call) ==
  /\ call \in stray
  /\ stray' = stray \ {call}
  /\ Handle(call)
  /\ UNCHANGED <<loop, run, stops>>

\* Bug: a lease that expires costs no attempt.
ReapUncounted(S) ==
  /\ \A j \in S : left[j] = 0
  /\ Move(S, "leased", "pending")
  /\ UNCHANGED <<tries, left, loop, run, stray, stops>>

\* The leader's loops: leases past their deadline, and failed jobs whose
\* backoff has elapsed, in batches.
Reap(S) ==
  /\ \A j \in S : left[j] = 0
  /\ UseAttempt(S, "pending")
  /\ UNCHANGED <<left, loop, run, stray, stops>>

DrainRetry(S) ==
  /\ Resume(S)
  /\ UNCHANGED <<left, loop, run, stray, stops>>

-----------------------------------------------------------------------------
(***************************************************************************)
(* The loop of a worker.                                                   *)
(***************************************************************************)
\* Go claims while its slots are full, and then waits for a slot for every job
\* of the batch before it claims again.
GoMayClaim(p) == RunsOf(p, {"waiting"}) = {}

\* Python hands every batch to the pool, whose queue is unbounded.
PythonMayClaim(p) == TRUE

\* Node claims once a slot is free, and starts the whole batch.
NodeMayClaim(p) == Cardinality(Busy(p)) < Slots

MayClaim(p) ==
  CASE Sdk[p] = "go" -> GoMayClaim(p)
    [] Sdk[p] = "python" -> PythonMayClaim(p)
    [] Sdk[p] = "node" -> NodeMayClaim(p)

\* The deliveries of the jobs in S become r.
Deliver(S, r) ==
  run' = [j \in Job |-> IF j \in S THEN [run[j] EXCEPT ![tries[j]] = r] ELSE run[j]]

\* Bug: the ticker's period is lease_ttl_ms.
StartedWithLease(p) ==
  [at |-> p, state |-> "running", beats |-> TRUE, beat |-> LeaseTTL, missed |-> 0]

\* A handler begins, and its heartbeat's timer with it.
Started(p) ==
  [at |-> p, state |-> "running", beats |-> TRUE, beat |-> Heartbeat, missed |-> 0]

Claim(p, S) ==
  /\ loop[p] = "claiming" /\ MayClaim(p)
  /\ Cardinality(S) <= Batch
  /\ HandleClaim(S)
  /\ Deliver(S, IF Sdk[p] = "node" THEN Started(p)
                ELSE [NoRun EXCEPT !.at = p, !.state = "waiting"])
  /\ UNCHANGED <<loop, stray, stops>>

\* The jobs are leased and no worker hears of it: the answer is lost, the
\* request is executed after its worker gave up or ended, or the claim of a
\* later queue of the same request failed.
ClaimUnanswered(S) ==
  /\ Cardinality(S) <= Batch
  /\ HandleClaim(S)
  /\ Deliver(S, [NoRun EXCEPT !.state = "over"])
  /\ UNCHANGED <<loop, stray, stops>>

\* A claim fails below HTTP.  Go and Node try again; in Python URLError is no
\* ApiError and ends run(), after the pool has drained.
ClaimBreaksLoop(p) ==
  /\ Sdk[p] = "python"
  /\ loop[p] = "claiming" /\ stops < MaxStops
  /\ loop' = [loop EXCEPT ![p] = "draining"]
  /\ stops' = stops + 1
  /\ UNCHANGED <<store, run, stray>>

\* SIGTERM: no more claims.
Stop(p) ==
  /\ loop[p] = "claiming" /\ stops < MaxStops
  /\ loop' = [loop EXCEPT ![p] = "draining"]
  /\ stops' = stops + 1
  /\ UNCHANGED <<store, run, stray>>

\* What is in flight has been waited for, what waited for a slot included.
Exit(p) ==
  /\ loop[p] = "draining"
  /\ Busy(p) \cup RunsOf(p, {"waiting"}) = {}
  /\ loop' = [loop EXCEPT ![p] = "ended"]
  /\ UNCHANGED <<store, run, stray, stops>>

\* SIGKILL: the worker takes its deliveries with it.
Crash(p) ==
  /\ loop[p] # "ended" /\ stops < MaxStops
  /\ loop' = [loop EXCEPT ![p] = "ended"]
  /\ stops' = stops + 1
  /\ run' = [j \in Job |-> [a \in Attempt |->
               IF <<j, a>> \in Busy(p) \cup RunsOf(p, {"waiting"})
               THEN [NoRun EXCEPT !.at = p, !.state = "over"] ELSE run[j][a]]]
  /\ UNCHANGED <<store, stray>>

Restart(p) ==
  /\ loop[p] = "ended"
  /\ loop' = [loop EXCEPT ![p] = "claiming"]
  /\ UNCHANGED <<store, run, stray, stops>>

-----------------------------------------------------------------------------
(***************************************************************************)
(* process, of the delivery of j with attempts a.                          *)
(***************************************************************************)
MayStart(j, a) ==
  run[j][a].state = "waiting" /\ Cardinality(Busy(run[j][a].at)) < Slots

Start(j, a) ==
  /\ MayStart(j, a)
  /\ run' = [run EXCEPT ![j][a] = Started(run[j][a].at)]
  /\ UNCHANGED <<store, loop, stray, stops>>

BeatDue(j, a) == run[j][a].state = "running" /\ run[j][a].beats /\ run[j][a].beat = 0

\* The heartbeat: a refusal cancels the handler and ends the heartbeat.
Renew(j, a) ==
  /\ BeatDue(j, a)
  /\ HandleRenew(j)
  /\ run' = [run EXCEPT ![j][a] =
               IF stage[j] = "leased" THEN [@ EXCEPT !.beat = Heartbeat, !.missed = 0]
               ELSE [@ EXCEPT !.state = "refused", !.beats = FALSE, !.beat = 0, !.missed = 0]]
  /\ UNCHANGED <<loop, stray, stops>>

\* Whether the heartbeat goes on after an error other than a refusal.  In
\* Python an error below HTTP ends its thread, an HTTP error does not.
BeatsAfterError(p) == IF Sdk[p] = "python" THEN BOOLEAN ELSE {TRUE}

RenewUnanswered(j, a) ==
  /\ BeatDue(j, a)
  /\ run[j][a].missed < MaxMissed
  /\ Unanswered(<<"renew", j>>)
  /\ \E goesOn \in BeatsAfterError(run[j][a].at) :
       run' = [run EXCEPT ![j][a].beat = Heartbeat, ![j][a].missed = @ + 1,
                          ![j][a].beats = goesOn]
  /\ UNCHANGED <<loop, stops>>

\* The handler returns and the heartbeat stops.  After a refusal that is all.
\* A handler throws LeaseLostError only after one: Python and Node would take it
\* for a success otherwise.
Return(j, a, result) ==
  /\ run[j][a].state \in {"running", "refused"}
  /\ run' = [run EXCEPT ![j][a] =
               [NoRun EXCEPT !.at = run[j][a].at,
                             !.state = IF run[j][a].state = "refused" THEN "over"
                                       ELSE result]]
  /\ UNCHANGED <<store, loop, stray, stops>>

\* Bug: a handler's error is reported as success.
ReportCallAlwaysAck(j, a) == <<"ack", j>>

\* What is reported.
ReportCall(j, a) == <<IF run[j][a].state = "ok" THEN "ack" ELSE "fail", j>>

\* The result is reported once, whatever the answer.
Reported(j, a) ==
  /\ run[j][a].state \in {"ok", "err"}
  /\ run' = [run EXCEPT ![j][a].state = IF @ = "ok" THEN "done" ELSE "over"]
  /\ UNCHANGED <<loop, stops>>

Report(j, a) ==
  /\ Reported(j, a)
  /\ Handle(ReportCall(j, a))
  /\ UNCHANGED stray

ReportUnanswered(j, a) ==
  /\ Reported(j, a)
  /\ Unanswered(ReportCall(j, a))

-----------------------------------------------------------------------------
\* No step of a worker is due.
Prompt ==
  \A j \in Job, a \in Attempt :
    ~MayStart(j, a) /\ ~BeatDue(j, a) /\ run[j][a].state \notin {"ok", "err"}

Less(n) == IF n = 0 THEN 0 ELSE n - 1

Tick ==
  /\ Timely => Prompt
  /\ left' = [j \in Job |-> Less(left[j])]
  /\ run' = [j \in Job |-> [a \in Attempt |-> [run[j][a] EXCEPT !.beat = Less(@)]]]
  /\ UNCHANGED <<stage, tries, loop, stray, stops>>

Next ==
  \/ \E j \in Job : HandleEnqueue(j)
  \/ \E S \in SUBSET Job : Reap(S) \/ DrainRetry(S) \/ ClaimUnanswered(S)
  \/ \E p \in Process, S \in SUBSET Job : Claim(p, S)
  \/ \E p \in Process : ClaimBreaksLoop(p) \/ Stop(p) \/ Exit(p) \/ Crash(p) \/ Restart(p)
  \/ \E j \in Job, a \in Attempt :
       \/ Start(j, a) \/ Renew(j, a) \/ RenewUnanswered(j, a)
       \/ \E result \in {"ok", "err"} : Return(j, a, result)
       \/ Report(j, a) \/ ReportUnanswered(j, a)
  \/ \E call \in stray : ExecuteStray(call)
  \/ Tick

Spec == Init /\ [][Next]_vars

\* Some replica leads and its loops tick (LeadershipRecovers of LeaderLock),
\* handlers return, and workers that end are started again.
Fairness ==
  /\ WF_vars(Tick)
  /\ WF_vars(\E S \in SUBSET Job : Reap(S))
  /\ WF_vars(\E S \in SUBSET Job : DrainRetry(S))
  /\ WF_vars(\E p \in Process, S \in SUBSET Job : Claim(p, S))
  /\ \A p \in Process : WF_vars(Exit(p)) /\ WF_vars(Restart(p))
  /\ \A j \in Job, a \in Attempt :
       /\ WF_vars(Start(j, a))
       /\ WF_vars(\E result \in {"ok", "err"} : Return(j, a, result))
       /\ WF_vars(Report(j, a) \/ ReportUnanswered(j, a))

FairSpec == Spec /\ Fairness

-----------------------------------------------------------------------------
(***************************************************************************)
(* Properties.                                                             *)
(***************************************************************************)
\* "Let in-flight jobs finish (their heartbeats keep them alive)": a job that
\* a living worker holds keeps its lease, as long as workers are prompt and a
\* delivery misses at most MaxMissed renewals in a row.
HeldLeaseStaysAlive ==
  \A j \in Job :
    (stage[j] = "leased" /\ run[j][tries[j]].state \in {"waiting", "running"})
      => left[j] > 0

\* Under the same conditions no job has two handlers at work, although workers
\* crash, claims go unanswered and reports are lost.
OneHandlerPerJob ==
  \A j \in Job : \A a, b \in Attempt :
    ({run[j][a].state, run[j][b].state} \subseteq {"running", "refused"}) => a = b

\* A job that is gone from the store was handled: some delivery's handler
\* returned without an error, whatever stale workers and late calls did.
AckedWasHandled ==
  \A j \in Job : stage[j] = "acked" => \E a \in Attempt : run[j][a].state \in {"ok", "done"}

\* Every accepted job is acked or dead-lettered in the end, although workers
\* stall, crash and are stopped, and any call may be lost or executed late.
EveryJobSettles ==
  \A j \in Job : stage[j] # "new" ~> stage[j] \in {"acked", "dead"}
=============================================================================
