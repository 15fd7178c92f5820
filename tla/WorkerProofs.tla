---------------------------- MODULE WorkerProofs ----------------------------
(***************************************************************************)
(* Proofs about Worker.  The first part holds for every fleet, however     *)
(* late its steps and however many calls are lost or executed late.  The   *)
(* second is about fleets that keep up with their leases (Attended).  The  *)
(* third is that jobs move as JobLifecycle says.                           *)
(***************************************************************************)
EXTENDS Worker, FiniteSetTheorems, TLAPS

\* No delivery of j with attempts a has been made.
Free(j, a) ==
  \/ stage[j] \in {"new", "pending", "retry"} /\ a >= tries[j]
  \/ stage[j] = "leased" /\ a > tries[j]

\* A delivery to come finds its place empty, so that no result is overwritten.
SlotsAhead == \A j \in Job, a \in Attempt : Free(j, a) => run[j][a].state = "none"

\* Whoever acked, or whose ack is still on its way, has a handler that succeeded.
AcksAreEarned ==
  \A j \in Job : (stage[j] = "acked" \/ <<"ack", j>> \in stray)
                   => \E a \in Attempt : run[j][a].state = "done"

WorkInv ==
  /\ TypeOK
  /\ SlotsAhead
  /\ AcksAreEarned

\* What a fleet needs to keep its leases: steps are taken when they are due, no
\* call is executed after its caller gave up, a heartbeat may fail as often as
\* the lease allows, no heartbeat ends by itself (Python's may), and a job that
\* was claimed starts at once (Node) or finds a slot (Go).
Attended ==
  /\ Timely
  /\ MaxStray = 0
  /\ (MaxMissed + 1) * Heartbeat < LeaseTTL
  /\ IsFiniteSet(Job)
  /\ \A p \in Process : Sdk[p] = "node" \/ (Sdk[p] = "go" /\ Cardinality(Job) <= Slots)

\* A delivery that its worker still means to run or to report.
Held(j, a) == run[j][a].state \in {"waiting", "running", "ok", "err"}

\* How much of its lease is left, at least.
Margin(j, a) ==
  /\ run[j][a].state = "waiting" => left[j] = LeaseTTL /\ Sdk[run[j][a].at] = "go"
  /\ run[j][a].state = "running" =>
       run[j][a].beats /\ left[j] + (run[j][a].missed + 1) * Heartbeat >= LeaseTTL + run[j][a].beat
  /\ run[j][a].state \in {"ok", "err"} => left[j] > 0

\* A held delivery is the one that has the job's lease.
Good(j, a) ==
  /\ run[j][a].state # "refused"
  /\ Held(j, a) => /\ stage[j] = "leased" /\ tries[j] = a
                   /\ run[j][a].at \in Process
                   /\ Margin(j, a)

HeldInv ==
  /\ stray = {}
  /\ \A j \in Job, a \in Attempt : Good(j, a)

-----------------------------------------------------------------------------
(***************************************************************************)
(* Every fleet.                                                            *)
(***************************************************************************)
\* The heartbeat interval is positive whatever the divisor.
LEMMA HeartbeatView == Heartbeat \in Nat \ {0}
<1>1. LeaseTTL \in Nat /\ HeartbeatDivisor \in Nat \ {0} /\ DefaultBeat \in Nat \ {0}
  BY WorkerAssumption
<1>2. LeaseTTL \div HeartbeatDivisor \in Int
  BY <1>1
<1> QED
  BY <1>1, <1>2 DEF Heartbeat

\* A delivery without a heartbeat.
Bare(p, s) == [at |-> p, state |-> s, beats |-> FALSE, beat |-> 0, missed |-> 0]

\* The model's way to write one.
LEMMA BareView ==
  ASSUME NEW p, NEW s
  PROVE  [NoRun EXCEPT !.at = p, !.state = s] = Bare(p, s)
<1>1. PICK r : r = [NoRun EXCEPT !.at = p, !.state = s]
  OBVIOUS
<1>2. r = [at |-> p, state |-> s, beats |-> FALSE, beat |-> 0, missed |-> 0]
  BY <1>1 DEF NoRun
<1> QED
  BY <1>1, <1>2 DEF Bare

\* The records deliveries begin and end with.
LEMMA RunRecs ==
  ASSUME NEW p \in Process \cup {Nobody}
  PROVE  /\ NoRun \in RunRec /\ Started(p) \in RunRec
         /\ \A s \in RunState : Bare(p, s) \in RunRec
<1>1. 0 \in 0..Heartbeat /\ Heartbeat \in 0..Heartbeat /\ 0 \in 0..MaxMissed
  BY HeartbeatView, WorkerAssumption
<1>2. "none" \in RunState /\ "running" \in RunState
  BY DEF RunState
<1> QED
  BY <1>1, <1>2 DEF NoRun, Started, Bare, RunRec

\* What a step may do to the store: nothing becomes free again, and only an ack
\* acks.
StoreStep(acks) ==
  /\ LTypeOK'
  /\ left' \in [Job -> 0..LeaseTTL]
  /\ \A j \in Job, a \in Attempt : Free(j, a)' => Free(j, a)
  /\ \A j \in Job \ acks : stage'[j] = "acked" => stage[j] = "acked"

\* What a step other than a claim may do to the deliveries: what was not made is
\* not made, and what is done is done.
RunStep ==
  /\ run' \in [Job -> [Attempt -> RunRec]]
  /\ \A j \in Job, a \in Attempt :
       /\ run[j][a].state = "none" => run'[j][a].state = "none"
       /\ run[j][a].state = "done" => run'[j][a].state = "done"

\* Such steps keep the invariant, if they leave no ack without evidence.
LEMMA OrdinaryStep ==
  ASSUME WorkInv, NEW acks, StoreStep(acks), RunStep,
         loop' \in [Process -> {"claiming", "draining", "ended"}],
         stray' \subseteq {"renew", "ack", "fail"} \X Job,
         stops' \in 0..MaxStops,
         \A j \in Job : (j \in acks \/ <<"ack", j>> \in stray') =>
            (<<"ack", j>> \in stray \/ \E a \in Attempt : run'[j][a].state = "done")
  PROVE  WorkInv'
<1>1. TypeOK'
  BY DEF StoreStep, RunStep, TypeOK
<1>2. SlotsAhead'
  <2> SUFFICES ASSUME NEW j \in Job, NEW a \in Attempt, Free(j, a)'
               PROVE  run'[j][a].state = "none"
    BY DEF SlotsAhead
  <2>1. Free(j, a)
    BY DEF StoreStep
  <2>2. run[j][a].state = "none"
    BY <2>1 DEF WorkInv, SlotsAhead
  <2> QED
    BY <2>2 DEF RunStep
<1>3. ASSUME NEW j \in Job, stage'[j] = "acked" \/ <<"ack", j>> \in stray'
      PROVE  \E a \in Attempt : run'[j][a].state = "done"
  <2>1. stage[j] = "acked" \/ j \in acks \/ <<"ack", j>> \in stray'
    BY <1>3 DEF StoreStep
  <2>2. CASE stage[j] = "acked" \/ <<"ack", j>> \in stray
    <3>1. PICK a \in Attempt : run[j][a].state = "done"
      BY <2>2 DEF WorkInv, AcksAreEarned
    <3> QED
      BY <3>1 DEF RunStep
  <2>3. CASE \E a \in Attempt : run'[j][a].state = "done"
    BY <2>3
  <2> QED
    BY <2>1, <2>2, <2>3
<1> QED
  BY <1>1, <1>2, <1>3 DEF WorkInv, AcksAreEarned

\* Attempts are numbers.
LEMMA Numbers ==
  ASSUME TypeOK
  PROVE  /\ Attempt \subseteq Nat /\ MaxRetries \in Nat
         /\ \A j \in Job : tries[j] \in Nat /\ left[j] \in 0..LeaseTTL
         /\ LeaseTTL \in Nat \ {0} /\ MaxMissed \in Nat /\ MaxStops \in Nat
BY WorkerAssumption DEF TypeOK, LTypeOK, Attempt

\* A step that leaves the store alone.
LEMMA SameStore ==
  ASSUME TypeOK, UNCHANGED store
  PROVE  StoreStep({})
<1>1. UNCHANGED <<stage, tries, left>>
  BY DEF store
<1> QED
  BY <1>1 DEF TypeOK, LTypeOK, StoreStep, Free

\* Ending leases with an attempt counted frees nothing.
LEMMA UseAttemptStep ==
  ASSUME TypeOK, NEW S \in SUBSET Job, NEW b \in {"pending", "retry"}, UseAttempt(S, b),
         UNCHANGED left
  PROVE  StoreStep({})
<1>1. LTypeOK'
  BY DEF TypeOK, LTypeOK, UseAttempt, Stage
<1>2. /\ \A j \in S : stage[j] = "leased" /\ tries'[j] = tries[j] + 1
                      /\ stage'[j] \in {"dead", b}
      /\ \A j \in Job \ S : stage'[j] = stage[j] /\ tries'[j] = tries[j]
  BY DEF TypeOK, LTypeOK, UseAttempt
<1>3. ASSUME NEW j \in Job, NEW a \in Attempt, Free(j, a)' PROVE Free(j, a)
  <2>1. CASE j \in S
    <3>1. a >= tries[j] + 1
      BY <1>2, <1>3, <2>1 DEF Free
    <3>2. a > tries[j]
      BY <3>1, Numbers
    <3> QED
      BY <1>2, <2>1, <3>2 DEF Free
  <2>2. CASE j \notin S
    BY <1>2, <1>3, <2>2 DEF Free
  <2> QED
    BY <2>1, <2>2
<1> QED
  BY <1>1, <1>2, <1>3 DEF StoreStep, TypeOK

\* A job that moves without its attempts frees nothing, but a lease would.
LEMMA MoveStep ==
  ASSUME TypeOK, NEW S \in SUBSET Job, NEW c, NEW b,
         Move(S, c, b), UNCHANGED tries, left' \in [Job -> 0..LeaseTTL],
         c \in {"new", "pending", "retry"}, b \in {"pending", "leased"}
  PROVE  StoreStep({})
<1>1. LTypeOK'
  BY DEF TypeOK, LTypeOK, Move, Stage
<1>2. /\ \A j \in S : stage[j] = c /\ stage'[j] = b
      /\ \A j \in Job \ S : stage'[j] = stage[j]
      /\ \A j \in Job : tries'[j] = tries[j]
  BY DEF TypeOK, LTypeOK, Move
<1>3. ASSUME NEW j \in Job, NEW a \in Attempt, Free(j, a)' PROVE Free(j, a)
  <2>1. a \in Nat /\ tries[j] \in Nat
    BY Numbers
  <2>2. CASE j \in S
    <3>1. a >= tries[j]
      BY <1>2, <1>3, <2>1, <2>2 DEF Free
    <3> QED
      BY <1>2, <2>2, <3>1 DEF Free
  <2>3. CASE j \notin S
    BY <1>2, <1>3, <2>3 DEF Free
  <2> QED
    BY <2>2, <2>3
<1> QED
  BY <1>1, <1>2, <1>3 DEF StoreStep

\* An API call executed.  Only an ack acks.
LEMMA HandleStep ==
  ASSUME TypeOK, NEW call \in {"renew", "ack", "fail"} \X Job, Handle(call)
  PROVE  StoreStep(IF call[1] = "ack" THEN {call[2]} ELSE {})
<1>1. PICK j \in Job : call[2] = j /\ call[1] \in {"renew", "ack", "fail"}
  OBVIOUS
<1>2. CASE call[1] = "renew"
  <2>1. HandleRenew(j)
    BY <1>1, <1>2 DEF Handle
  <2>2. left' \in [Job -> 0..LeaseTTL] /\ UNCHANGED <<stage, tries>>
    BY <2>1, Numbers DEF HandleRenew, TypeOK
  <2>3. StoreStep({})
    BY <2>2 DEF StoreStep, TypeOK, LTypeOK, Free
  <2> QED
    BY <1>2, <2>3
<1>3. CASE call[1] = "ack"
  <2>1. HandleAck(j)
    BY <1>1, <1>3 DEF Handle
  <2>2. /\ LTypeOK' /\ left' = left
        /\ \A i \in Job \ {j} : stage'[i] = stage[i] /\ tries'[i] = tries[i]
        /\ stage'[j] = "acked" \/ (stage'[j] = stage[j] /\ tries'[j] = tries[j])
    <3>1. CASE stage[j] = "leased"
      <4>1. Finish({j}) /\ left' = left
        BY <2>1, <3>1 DEF HandleAck
      <4> QED
        BY <4>1 DEF Finish, Move, TypeOK, LTypeOK, Stage
    <3>2. CASE stage[j] # "leased"
      BY <2>1, <3>2 DEF HandleAck, TypeOK, LTypeOK
    <3> QED
      BY <3>1, <3>2
  <2>3. \A i \in Job, a \in Attempt : Free(i, a)' => Free(i, a)
    BY <2>2 DEF Free
  <2>4. StoreStep({j})
    BY <2>2, <2>3 DEF StoreStep, TypeOK
  <2> QED
    BY <1>1, <1>3, <2>4
<1>4. CASE call[1] = "fail"
  <2>1. HandleFail(j)
    BY <1>1, <1>4 DEF Handle
  <2>2. CASE stage[j] = "leased"
    <3>1. UseAttempt({j}, "retry") /\ UNCHANGED left
      BY <2>1, <2>2 DEF HandleFail
    <3>2. StoreStep({})
      BY <3>1, UseAttemptStep
    <3> QED
      BY <1>4, <3>2
  <2>3. CASE stage[j] # "leased"
    <3>1. UNCHANGED store
      BY <2>1, <2>3 DEF HandleFail, store
    <3>2. StoreStep({})
      BY <3>1, SameStore
    <3> QED
      BY <1>4, <3>2
  <2> QED
    BY <2>2, <2>3
<1> QED
  BY <1>1, <1>2, <1>3, <1>4

\* One delivery changes.
LEMMA OneRun ==
  ASSUME TypeOK, NEW j \in Job, NEW a \in Attempt, NEW r \in RunRec,
         run' = [run EXCEPT ![j][a] = r]
  PROVE  /\ run' \in [Job -> [Attempt -> RunRec]]
         /\ run'[j][a] = r
         /\ \A i \in Job, b \in Attempt : (i # j \/ b # a) => run'[i][b] = run[i][b]
BY DEF TypeOK

\* A delivery that was made and is not done may change.
LEMMA OneRunStep ==
  ASSUME TypeOK, NEW j \in Job, NEW a \in Attempt, NEW r \in RunRec,
         run' = [run EXCEPT ![j][a] = r], run[j][a].state \notin {"none", "done"}
  PROVE  RunStep /\ run'[j][a] = r
<1>1. /\ run' \in [Job -> [Attempt -> RunRec]]
      /\ run'[j][a] = r
      /\ \A i \in Job, b \in Attempt : (i # j \/ b # a) => run'[i][b] = run[i][b]
  BY DEF TypeOK
<1> QED
  BY <1>1 DEF RunStep

\* The deliveries stay as they are.
LEMMA SameRuns ==
  ASSUME TypeOK, UNCHANGED run
  PROVE  RunStep
BY DEF TypeOK, RunStep

\* A handler begins.
LEMMA StartView ==
  ASSUME TypeOK, NEW j \in Job, NEW a \in Attempt, Start(j, a)
  PROVE  LET r == Started(run[j][a].at)
         IN r \in RunRec /\ run' = [run EXCEPT ![j][a] = r] /\ run[j][a].state = "waiting"
<1>1. run[j][a] \in RunRec
  BY DEF TypeOK
<1>2. run[j][a].at \in Process \cup {Nobody}
  BY <1>1 DEF RunRec
<1> QED
  BY <1>2, RunRecs DEF Start, MayStart

\* A renewal that is answered.
LEMMA RenewView ==
  ASSUME TypeOK, NEW j \in Job, NEW a \in Attempt, Renew(j, a)
  PROVE  \E r \in RunRec :
           /\ run' = [run EXCEPT ![j][a] = r]
           /\ r.at = run[j][a].at
           /\ stage[j] = "leased" =>
                /\ r.state = "running" /\ r.beats = run[j][a].beats
                /\ r.beat = Heartbeat /\ r.missed = 0
           /\ r.state \in {"running", "refused"}
<1>1. run[j][a] \in RunRec /\ run[j][a].state = "running"
  BY DEF TypeOK, Renew, BeatDue
<1>2. 0 \in 0..Heartbeat /\ Heartbeat \in 0..Heartbeat /\ 0 \in 0..MaxMissed
  BY HeartbeatView, WorkerAssumption
<1>3. CASE stage[j] = "leased"
  <2>1. run' = [run EXCEPT ![j][a] = [run[j][a] EXCEPT !.beat = Heartbeat, !.missed = 0]]
    BY <1>3 DEF Renew
  <2>2. PICK r : r = [run[j][a] EXCEPT !.beat = Heartbeat, !.missed = 0]
    OBVIOUS
  <2>3. /\ r \in RunRec /\ r.at = run[j][a].at /\ r.beat = Heartbeat /\ r.missed = 0
        /\ r.state = "running" /\ r.beats = run[j][a].beats
    BY <1>1, <1>2, <2>2 DEF RunRec
  <2> QED
    BY <2>1, <2>2, <2>3
<1>4. CASE stage[j] # "leased"
  <2>1. run' = [run EXCEPT ![j][a] = [run[j][a] EXCEPT !.state = "refused", !.beats = FALSE,
                                                      !.beat = 0, !.missed = 0]]
    BY <1>4 DEF Renew
  <2>2. PICK r : r = [run[j][a] EXCEPT !.state = "refused", !.beats = FALSE,
                                       !.beat = 0, !.missed = 0]
    OBVIOUS
  <2>3. r \in RunRec /\ r.at = run[j][a].at /\ r.state = "refused"
    BY <1>1, <1>2, <2>2 DEF RunRec, RunState
  <2> QED
    BY <1>4, <2>1, <2>2, <2>3
<1> QED
  BY <1>3, <1>4

\* A renewal that is not.
LEMMA RenewUnansweredView ==
  ASSUME TypeOK, NEW j \in Job, NEW a \in Attempt, RenewUnanswered(j, a)
  PROVE  \E r \in RunRec :
           /\ run' = [run EXCEPT ![j][a] = r]
           /\ r.at = run[j][a].at /\ r.state = "running" /\ r.beats \in BeatsAfterError(r.at)
           /\ r.beat = Heartbeat /\ r.missed = run[j][a].missed + 1
<1>1. run[j][a] \in RunRec /\ run[j][a].state = "running" /\ run[j][a].missed < MaxMissed
  BY DEF TypeOK, RenewUnanswered, BeatDue
<1>2. Heartbeat \in 0..Heartbeat /\ run[j][a].missed + 1 \in 0..MaxMissed
  BY <1>1, HeartbeatView, WorkerAssumption DEF RunRec
<1>3. PICK goesOn \in BeatsAfterError(run[j][a].at) :
        run' = [run EXCEPT ![j][a].beat = Heartbeat, ![j][a].missed = @ + 1,
                           ![j][a].beats = goesOn]
  BY DEF RenewUnanswered
<1>4. goesOn \in BOOLEAN
  BY <1>3, Zenon DEF BeatsAfterError
<1>5. PICK r : r = [run[j][a] EXCEPT !.beat = Heartbeat, !.missed = @ + 1, !.beats = goesOn]
  OBVIOUS
<1>6. /\ r.at = run[j][a].at /\ r.state = "running" /\ r.beats = goesOn
      /\ r.beat = Heartbeat /\ r.missed = run[j][a].missed + 1 /\ r \in RunRec
  BY <1>1, <1>2, <1>4, <1>5 DEF RunRec
<1>7. run' = [run EXCEPT ![j][a] = r]
  BY <1>1, <1>3, <1>5 DEF TypeOK, RunRec
<1> QED
  BY <1>3, <1>6, <1>7

\* A handler returns.
LEMMA ReturnView ==
  ASSUME TypeOK, NEW j \in Job, NEW a \in Attempt, NEW result \in {"ok", "err"},
         Return(j, a, result)
  PROVE  LET r == Bare(run[j][a].at, IF run[j][a].state = "refused" THEN "over" ELSE result)
         IN /\ r \in RunRec /\ run' = [run EXCEPT ![j][a] = r]
            /\ run[j][a].state \in {"running", "refused"}
<1>1. run[j][a].at \in Process \cup {Nobody}
  BY DEF TypeOK, RunRec
<1>2. PICK s \in RunState : s = IF run[j][a].state = "refused" THEN "over" ELSE result
  BY DEF RunState
<1>3. PICK p \in Process \cup {Nobody} : p = run[j][a].at
  BY <1>1
<1>4. run' = [run EXCEPT ![j][a] = [NoRun EXCEPT !.at = p, !.state = s]]
  BY <1>2, <1>3 DEF Return
<1>5. run' = [run EXCEPT ![j][a] = Bare(p, s)] /\ Bare(p, s) \in RunRec
  BY <1>4, BareView, RunRecs
<1> QED
  BY <1>2, <1>3, <1>5 DEF Return

\* A result is reported.
LEMMA ReportedView ==
  ASSUME TypeOK, NEW j \in Job, NEW a \in Attempt, Reported(j, a)
  PROVE  \E r \in RunRec :
           /\ run' = [run EXCEPT ![j][a] = r]
           /\ \/ run[j][a].state = "ok" /\ r.state = "done" /\ ReportCall(j, a) = <<"ack", j>>
              \/ run[j][a].state = "err" /\ r.state = "over" /\ ReportCall(j, a) = <<"fail", j>>
<1>1. run[j][a] \in RunRec /\ run[j][a].state \in {"ok", "err"}
  BY DEF TypeOK, Reported
<1>2. PICK r : r = [run[j][a] EXCEPT !.state = IF @ = "ok" THEN "done" ELSE "over"]
  OBVIOUS
<1>3. r \in RunRec /\ r.state = IF run[j][a].state = "ok" THEN "done" ELSE "over"
  BY <1>1, <1>2 DEF RunRec, RunState
<1>4. run' = [run EXCEPT ![j][a].state = IF @ = "ok" THEN "done" ELSE "over"]
  BY DEF Reported
<1>5. run' = [run EXCEPT ![j][a] = r]
  BY <1>2, <1>4 DEF TypeOK
<1> QED
  BY <1>1, <1>3, <1>5 DEF ReportCall

\* A step that acks nothing may be counted among those that ack.
LEMMA StoreStepMore ==
  ASSUME NEW acks, StoreStep({})
  PROVE  StoreStep(acks)
BY DEF StoreStep

\* A call whose caller sees an error.
LEMMA UnansweredStep ==
  ASSUME TypeOK, NEW call \in {"renew", "ack", "fail"} \X Job, Unanswered(call)
  PROVE  /\ StoreStep(IF call[1] = "ack" THEN {call[2]} ELSE {})
         /\ stray' \subseteq stray \cup {call}
<1>1. CASE Handle(call) /\ UNCHANGED stray
  BY <1>1, HandleStep
<1>2. CASE UNCHANGED store /\ stray' \subseteq stray \cup {call}
  BY <1>2, SameStore, StoreStepMore
<1> QED
  BY <1>1, <1>2 DEF Unanswered

\* The deliveries of the jobs in S, one of each, are r; the others are as they were.
Delivered(S, r) ==
  /\ run' \in [Job -> [Attempt -> RunRec]]
  /\ \A j \in Job, a \in Attempt :
       run'[j][a] = IF j \in S /\ a = tries[j] THEN r ELSE run[j][a]

\* What a claim's answer does to the deliveries.
LEMMA DeliverView ==
  ASSUME TypeOK, NEW S \in SUBSET Job, NEW r \in RunRec, Deliver(S, r)
  PROVE  Delivered(S, r)
<1>1. \A j \in Job : /\ run'[j] = IF j \in S THEN [run[j] EXCEPT ![tries[j]] = r] ELSE run[j]
                     /\ run[j] \in [Attempt -> RunRec]
  BY DEF Deliver, TypeOK
<1>2. \A j \in Job : run'[j] \in [Attempt -> RunRec]
  BY <1>1
<1>3. run' = [j \in Job |-> run'[j]]
  BY DEF Deliver
<1>4. \A j \in Job, a \in Attempt :
        run'[j][a] = IF j \in S /\ a = tries[j] THEN r ELSE run[j][a]
  BY <1>1
<1> QED
  BY <1>2, <1>3, <1>4 DEF Delivered

\* What a claim does to the store.
LEMMA HandleClaimStep ==
  ASSUME TypeOK, NEW S \in SUBSET Job, HandleClaim(S)
  PROVE  /\ StoreStep({}) /\ tries' = tries
         /\ \A j \in S : stage[j] = "pending" /\ stage'[j] = "leased" /\ left'[j] = LeaseTTL
         /\ \A j \in Job \ S : stage'[j] = stage[j] /\ left'[j] = left[j]
<1>1. Move(S, "pending", "leased") /\ tries' = tries
  BY DEF HandleClaim, Lease
<1>2. /\ left' \in [Job -> 0..LeaseTTL]
      /\ \A j \in Job : left'[j] = IF j \in S THEN LeaseTTL ELSE left[j]
  BY Numbers DEF HandleClaim, TypeOK
<1>3. StoreStep({})
  BY <1>1, <1>2, MoveStep
<1> QED
  BY <1>1, <1>2, <1>3 DEF Move

\* A claim keeps the invariant: the delivery it makes is the first one of that
\* number of attempts, so it overwrites nothing.
LEMMA ClaimKeeps ==
  ASSUME WorkInv, NEW S \in SUBSET Job, NEW r \in RunRec, HandleClaim(S), Deliver(S, r),
         UNCHANGED <<loop, stray, stops>>
  PROVE  WorkInv'
<1>1. TypeOK /\ SlotsAhead /\ AcksAreEarned
  BY DEF WorkInv
<1>2. /\ StoreStep({}) /\ tries' = tries
      /\ \A j \in S : stage[j] = "pending" /\ stage'[j] = "leased"
  BY <1>1, HandleClaimStep
<1>3. /\ run' \in [Job -> [Attempt -> RunRec]]
      /\ \A j \in Job, a \in Attempt :
           run'[j][a] = IF j \in S /\ a = tries[j] THEN r ELSE run[j][a]
  <2>1. Delivered(S, r)
    BY <1>1, DeliverView
  <2> QED
    BY <2>1 DEF Delivered
<1>4. TypeOK'
  BY <1>1, <1>2, <1>3 DEF StoreStep, TypeOK
<1>5. SlotsAhead'
  <2> SUFFICES ASSUME NEW j \in Job, NEW a \in Attempt, Free(j, a)'
               PROVE  run'[j][a].state = "none"
    BY DEF SlotsAhead
  <2>1. run[j][a].state = "none"
    BY <1>1, <1>2 DEF StoreStep, SlotsAhead
  <2>2. a \in Nat /\ tries[j] \in Nat
    BY <1>1, Numbers
  <2>3. ~(j \in S /\ a = tries[j])
    BY <1>2, <2>2 DEF Free
  <2> QED
    BY <1>3, <2>1, <2>3
<1>6. AcksAreEarned'
  <2> SUFFICES ASSUME NEW j \in Job, stage'[j] = "acked" \/ <<"ack", j>> \in stray'
               PROVE  \E a \in Attempt : run'[j][a].state = "done"
    BY DEF AcksAreEarned
  <2>1. stage[j] = "acked" \/ <<"ack", j>> \in stray
    BY <1>2 DEF StoreStep
  <2>2. PICK a \in Attempt : run[j][a].state = "done"
    BY <1>1, <2>1 DEF AcksAreEarned
  <2>3. a \in Nat /\ tries[j] \in Nat
    BY <1>1, Numbers
  <2>4. ~(j \in S /\ a = tries[j])
    BY <1>1, <1>2, <2>2, <2>3 DEF SlotsAhead, Free
  <2> QED
    BY <1>3, <2>2, <2>4
<1> QED
  BY <1>4, <1>5, <1>6 DEF WorkInv

\* A worker's claim, answered or not, makes a delivery of one of three kinds.
LEMMA ClaimView ==
  ASSUME NEW p \in Process, NEW S \in SUBSET Job, Claim(p, S)
  PROVE  /\ HandleClaim(S) /\ UNCHANGED <<loop, stray, stops>>
         /\ \/ Sdk[p] = "node" /\ Deliver(S, Started(p))
            \/ Sdk[p] # "node" /\ Deliver(S, Bare(p, "waiting"))
         /\ Started(p) \in RunRec /\ Bare(p, "waiting") \in RunRec
<1>1. Deliver(S, IF Sdk[p] = "node" THEN Started(p)
                 ELSE [NoRun EXCEPT !.at = p, !.state = "waiting"])
  BY DEF Claim
<1>2. [NoRun EXCEPT !.at = p, !.state = "waiting"] = Bare(p, "waiting")
  BY BareView
<1>3. Started(p) \in RunRec /\ Bare(p, "waiting") \in RunRec
  BY RunRecs DEF RunState
<1>4. CASE Sdk[p] = "node"
  BY <1>1, <1>3, <1>4 DEF Claim
<1>5. CASE Sdk[p] # "node"
  <2>1. Deliver(S, Bare(p, "waiting"))
    BY <1>1, <1>2, <1>5
  <2> QED
    BY <1>3, <1>5, <2>1 DEF Claim
<1> QED
  BY <1>4, <1>5

\* A claim nobody hears of.
LEMMA ClaimUnansweredView ==
  ASSUME NEW S \in SUBSET Job, ClaimUnanswered(S)
  PROVE  /\ HandleClaim(S) /\ UNCHANGED <<loop, stray, stops>>
         /\ Deliver(S, Bare(Nobody, "over")) /\ Bare(Nobody, "over") \in RunRec
<1>1. [NoRun EXCEPT !.state = "over"] = Bare(Nobody, "over")
  <2>1. PICK r : r = [NoRun EXCEPT !.state = "over"]
    OBVIOUS
  <2>2. r = [at |-> Nobody, state |-> "over", beats |-> FALSE, beat |-> 0, missed |-> 0]
    BY <2>1 DEF NoRun
  <2> QED
    BY <2>1, <2>2 DEF Bare
<1>2. Bare(Nobody, "over") \in RunRec
  BY RunRecs DEF RunState
<1> QED
  BY <1>1, <1>2 DEF ClaimUnanswered

\* What a crash does to the deliveries.
LEMMA CrashView ==
  ASSUME TypeOK, NEW p \in Process, Crash(p)
  PROVE  /\ run' \in [Job -> [Attempt -> RunRec]]
         /\ \A j \in Job, a \in Attempt :
              \/ run'[j][a] = run[j][a]
              \/ run'[j][a].state = "over" /\ run[j][a].state \notin {"none", "done"}
<1>1. [NoRun EXCEPT !.at = p, !.state = "over"] = Bare(p, "over")
  BY BareView
<1>2. Bare(p, "over") \in RunRec /\ Bare(p, "over").state = "over"
  BY RunRecs DEF RunState, Bare
<1>3. run' = [j \in Job |-> [a \in Attempt |->
               IF <<j, a>> \in Busy(p) \cup RunsOf(p, {"waiting"})
               THEN Bare(p, "over") ELSE run[j][a]]]
  BY <1>1, Zenon DEF Crash
<1>4. \A j \in Job, a \in Attempt :
        /\ run[j][a] \in RunRec
        /\ run'[j][a] = IF <<j, a>> \in Busy(p) \cup RunsOf(p, {"waiting"})
                        THEN Bare(p, "over") ELSE run[j][a]
  BY <1>3 DEF TypeOK
<1>5. \A j \in Job, a \in Attempt :
        <<j, a>> \in Busy(p) \cup RunsOf(p, {"waiting"}) => run[j][a].state \notin {"none", "done"}
  BY DEF Busy, RunsOf
<1>6. run' \in [Job -> [Attempt -> RunRec]]
  BY <1>2, <1>3, <1>4
<1> QED
  BY <1>2, <1>4, <1>5, <1>6

\* What the clock does.
LEMMA TickView ==
  ASSUME TypeOK, Tick
  PROVE  /\ run' \in [Job -> [Attempt -> RunRec]]
         /\ left' \in [Job -> 0..LeaseTTL]
         /\ \A j \in Job : left'[j] = IF left[j] = 0 THEN 0 ELSE left[j] - 1
         /\ \A j \in Job, a \in Attempt :
              /\ run'[j][a].beat = IF run[j][a].beat = 0 THEN 0 ELSE run[j][a].beat - 1
              /\ run'[j][a].at = run[j][a].at /\ run'[j][a].state = run[j][a].state
              /\ run'[j][a].beats = run[j][a].beats /\ run'[j][a].missed = run[j][a].missed
<1>1. /\ left' = [j \in Job |-> Less(left[j])]
      /\ run' = [j \in Job |-> [a \in Attempt |-> [run[j][a] EXCEPT !.beat = Less(@)]]]
  BY DEF Tick
<1>2. \A j \in Job : left'[j] \in 0..LeaseTTL /\ left'[j] = IF left[j] = 0 THEN 0 ELSE left[j] - 1
  BY <1>1, Numbers DEF Less, TypeOK
<1>3. ASSUME NEW j \in Job, NEW a \in Attempt
      PROVE  /\ run'[j][a] \in RunRec
             /\ run'[j][a].beat = IF run[j][a].beat = 0 THEN 0 ELSE run[j][a].beat - 1
             /\ run'[j][a].at = run[j][a].at /\ run'[j][a].state = run[j][a].state
             /\ run'[j][a].beats = run[j][a].beats /\ run'[j][a].missed = run[j][a].missed
  <2>1. run[j][a] \in RunRec
    BY DEF TypeOK
  <2>2. Less(run[j][a].beat) \in 0..Heartbeat
    BY <2>1, HeartbeatView DEF RunRec, Less
  <2>3. run'[j][a] = [run[j][a] EXCEPT !.beat = Less(run[j][a].beat)]
    BY <1>1
  <2>4. /\ run'[j][a] \in RunRec /\ run'[j][a].beat = Less(run[j][a].beat)
        /\ run'[j][a].at = run[j][a].at /\ run'[j][a].state = run[j][a].state
        /\ run'[j][a].beats = run[j][a].beats /\ run'[j][a].missed = run[j][a].missed
    BY <2>1, <2>2, <2>3 DEF RunRec
  <2> QED
    BY <2>4 DEF Less
<1>4. run' = [j \in Job |-> [a \in Attempt |-> run'[j][a]]] /\ left' = [j \in Job |-> left'[j]]
  BY <1>1
<1>5. run' \in [Job -> [Attempt -> RunRec]] /\ left' \in [Job -> 0..LeaseTTL]
  BY <1>2, <1>3, <1>4
<1> QED
  BY <1>2, <1>3, <1>5

\* Every step keeps the invariant.
LEMMA NextKeepsWork ==
  ASSUME WorkInv, [Next]_vars
  PROVE  WorkInv'
<1>1. TypeOK /\ SlotsAhead /\ AcksAreEarned
  BY DEF WorkInv
<1>2. /\ loop \in [Process -> {"claiming", "draining", "ended"}]
      /\ stray \subseteq {"renew", "ack", "fail"} \X Job
      /\ stops \in 0..MaxStops /\ MaxStops \in Nat
  BY <1>1, Numbers DEF TypeOK
<1>3. ASSUME StoreStep({}), RunStep, UNCHANGED <<loop, stray, stops>> PROVE WorkInv'
  BY <1>2, <1>3, OrdinaryStep
<1>4. ASSUME NEW j \in Job, HandleEnqueue(j) PROVE WorkInv'
  <2>1. StoreStep({})
    BY <1>1, <1>4, MoveStep DEF HandleEnqueue, Accept, TypeOK
  <2> QED
    BY <1>1, <1>3, <1>4, <2>1, SameRuns DEF HandleEnqueue
<1>5. ASSUME NEW S \in SUBSET Job, Reap(S) PROVE WorkInv'
  BY <1>1, <1>3, <1>5, UseAttemptStep, SameRuns DEF Reap
<1>6. ASSUME NEW S \in SUBSET Job, DrainRetry(S) PROVE WorkInv'
  <2>1. StoreStep({})
    BY <1>1, <1>6, MoveStep DEF DrainRetry, Resume, TypeOK
  <2> QED
    BY <1>1, <1>3, <1>6, <2>1, SameRuns DEF DrainRetry
<1>7. ASSUME NEW S \in SUBSET Job, ClaimUnanswered(S) PROVE WorkInv'
  BY <1>7, ClaimUnansweredView, ClaimKeeps
<1>8. ASSUME NEW p \in Process, NEW S \in SUBSET Job, Claim(p, S) PROVE WorkInv'
  BY <1>8, ClaimView, ClaimKeeps
<1>9. ASSUME NEW p \in Process, ClaimBreaksLoop(p) \/ Stop(p) \/ Exit(p) \/ Restart(p)
      PROVE  WorkInv'
  <2>1. /\ UNCHANGED <<store, run, stray>>
        /\ \E s \in {"claiming", "draining", "ended"} : loop' = [loop EXCEPT ![p] = s]
        /\ stops' = stops \/ (stops < MaxStops /\ stops' = stops + 1)
    BY <1>9 DEF ClaimBreaksLoop, Stop, Exit, Restart
  <2>2. loop' \in [Process -> {"claiming", "draining", "ended"}] /\ stops' \in 0..MaxStops
    BY <1>2, <2>1
  <2> QED
    BY <1>1, <1>2, <2>1, <2>2, SameStore, SameRuns, OrdinaryStep
<1>10. ASSUME NEW p \in Process, Crash(p) PROVE WorkInv'
  <2>1. /\ UNCHANGED <<store, stray>> /\ loop' = [loop EXCEPT ![p] = "ended"]
        /\ stops < MaxStops /\ stops' = stops + 1
    BY <1>10 DEF Crash
  <2>2. loop' \in [Process -> {"claiming", "draining", "ended"}] /\ stops' \in 0..MaxStops
    BY <1>2, <2>1
  <2>3. RunStep
    BY <1>1, <1>10, CrashView DEF RunStep
  <2> QED
    BY <1>1, <1>2, <2>1, <2>2, <2>3, SameStore, OrdinaryStep
<1>11. ASSUME NEW j \in Job, NEW a \in Attempt, Start(j, a) PROVE WorkInv'
  <2>1. RunStep
    BY <1>1, <1>11, StartView, OneRunStep
  <2> QED
    BY <1>1, <1>3, <1>11, <2>1, SameStore DEF Start
<1>12. ASSUME NEW j \in Job, NEW a \in Attempt, Renew(j, a) PROVE WorkInv'
  <2>1. RunStep
    <3>1. PICK r \in RunRec : run' = [run EXCEPT ![j][a] = r]
      BY <1>1, <1>12, RenewView
    <3>2. run[j][a].state = "running"
      BY <1>12 DEF Renew, BeatDue
    <3> QED
      BY <1>1, <3>1, <3>2, OneRunStep
  <2>2. StoreStep({})
    <3>1. <<"renew", j>> \in {"renew", "ack", "fail"} \X Job /\ Handle(<<"renew", j>>)
      BY <1>12 DEF Renew, Handle
    <3> QED
      BY <1>1, <3>1, HandleStep
  <2> QED
    BY <1>3, <1>12, <2>1, <2>2 DEF Renew
<1>13. ASSUME NEW j \in Job, NEW a \in Attempt, RenewUnanswered(j, a) PROVE WorkInv'
  <2>1. RunStep
    <3>1. PICK r \in RunRec : run' = [run EXCEPT ![j][a] = r]
      BY <1>1, <1>13, RenewUnansweredView
    <3>2. run[j][a].state = "running"
      BY <1>13 DEF RenewUnanswered, BeatDue
    <3> QED
      BY <1>1, <3>1, <3>2, OneRunStep
  <2>2. StoreStep({}) /\ stray' \subseteq stray \cup {<<"renew", j>>}
    <3>1. <<"renew", j>> \in {"renew", "ack", "fail"} \X Job /\ Unanswered(<<"renew", j>>)
      BY <1>13 DEF RenewUnanswered
    <3> QED
      BY <1>1, <3>1, UnansweredStep
  <2>3. /\ stray' \subseteq {"renew", "ack", "fail"} \X Job
        /\ \A i \in Job : <<"ack", i>> \in stray' => <<"ack", i>> \in stray
    BY <1>2, <2>2
  <2> QED
    BY <1>2, <1>13, <2>1, <2>2, <2>3, OrdinaryStep DEF RenewUnanswered
<1>14. ASSUME NEW j \in Job, NEW a \in Attempt, NEW result \in {"ok", "err"}, Return(j, a, result)
       PROVE  WorkInv'
  <2>1. RunStep
    BY <1>1, <1>14, ReturnView, OneRunStep
  <2> QED
    BY <1>1, <1>3, <1>14, <2>1, SameStore DEF Return
<1>15. ASSUME NEW j \in Job, NEW a \in Attempt, Report(j, a) \/ ReportUnanswered(j, a)
       PROVE  WorkInv'
  <2>1. Reported(j, a) /\ UNCHANGED <<loop, stops>>
    BY <1>15 DEF Report, ReportUnanswered, Reported
  <2>2. PICK r \in RunRec :
          /\ run' = [run EXCEPT ![j][a] = r]
          /\ \/ run[j][a].state = "ok" /\ r.state = "done" /\ ReportCall(j, a) = <<"ack", j>>
             \/ run[j][a].state = "err" /\ r.state = "over" /\ ReportCall(j, a) = <<"fail", j>>
    BY <1>1, <2>1, ReportedView
  <2>3. RunStep /\ run'[j][a] = r
    BY <1>1, <2>2, OneRunStep
  <2>4. PICK call \in {"renew", "ack", "fail"} \X Job : call = ReportCall(j, a)
    BY <2>2
  <2>5. Unanswered(call)
    BY <1>15, <2>4 DEF Report, ReportUnanswered, Unanswered
  <2>6. /\ StoreStep(IF call[1] = "ack" THEN {call[2]} ELSE {})
        /\ stray' \subseteq stray \cup {call}
    BY <1>1, <2>5, UnansweredStep
  <2>7. CASE call = <<"ack", j>>
    <3>1. StoreStep({j}) /\ stray' \subseteq {"renew", "ack", "fail"} \X Job
      BY <1>2, <2>6, <2>7
    <3>2. run'[j][a].state = "done"
      BY <2>2, <2>3, <2>4, <2>7
    <3>3. \A i \in Job : (i \in {j} \/ <<"ack", i>> \in stray') =>
            (<<"ack", i>> \in stray \/ \E b \in Attempt : run'[i][b].state = "done")
      BY <2>6, <2>7, <3>2
    <3> QED
      BY <1>2, <2>1, <2>3, <3>1, <3>3, OrdinaryStep
  <2>8. CASE call = <<"fail", j>>
    <3>1. StoreStep({}) /\ stray' \subseteq {"renew", "ack", "fail"} \X Job
      BY <1>2, <2>6, <2>8
    <3>2. \A i \in Job : <<"ack", i>> \in stray' => <<"ack", i>> \in stray
      BY <2>6, <2>8
    <3> QED
      BY <1>2, <2>1, <2>3, <3>1, <3>2, OrdinaryStep
  <2> QED
    BY <2>2, <2>4, <2>7, <2>8
<1>16. ASSUME NEW call \in stray, ExecuteStray(call) PROVE WorkInv'
  <2>1. /\ call \in {"renew", "ack", "fail"} \X Job /\ Handle(call)
        /\ stray' = stray \ {call} /\ UNCHANGED <<loop, run, stops>>
    BY <1>2, <1>16 DEF ExecuteStray
  <2>2. PICK acks : acks = IF call[1] = "ack" THEN {call[2]} ELSE {}
    OBVIOUS
  <2>3. StoreStep(acks) /\ RunStep
    BY <1>1, <2>1, <2>2, HandleStep, SameRuns
  <2>4. \A i \in Job : i \in acks => <<"ack", i>> \in stray
    BY <2>1, <2>2
  <2>5. /\ stray' \subseteq {"renew", "ack", "fail"} \X Job
        /\ \A i \in Job : (i \in acks \/ <<"ack", i>> \in stray') => <<"ack", i>> \in stray
    BY <1>2, <2>1, <2>4
  <2> QED
    BY <1>2, <2>1, <2>3, <2>5, OrdinaryStep
<1>17. ASSUME Tick PROVE WorkInv'
  <2>1. /\ RunStep /\ left' \in [Job -> 0..LeaseTTL]
    BY <1>1, <1>17, TickView DEF RunStep
  <2>2. UNCHANGED <<stage, tries, loop, stray, stops>>
    BY <1>17 DEF Tick
  <2>3. StoreStep({})
    BY <1>1, <2>1, <2>2 DEF StoreStep, TypeOK, LTypeOK, Free
  <2> QED
    BY <1>3, <2>1, <2>2, <2>3
<1>18. ASSUME UNCHANGED vars PROVE WorkInv'
  BY <1>1, <1>3, <1>18, SameStore, SameRuns DEF vars
<1> QED
  BY <1>4, <1>5, <1>6, <1>7, <1>8, <1>9, <1>10, <1>11, <1>12, <1>13, <1>14, <1>15, <1>16,
     <1>17, <1>18 DEF Next

\* Nothing has been delivered.
LEMMA InitWork ==
  ASSUME Init
  PROVE  WorkInv
<1>1. LTypeOK
  BY DEF Init, LInit, LTypeOK, Stage
<1>2. 0 \in 0..LeaseTTL /\ 0 \in 0..MaxStops
  BY WorkerAssumption
<1>3. NoRun \in RunRec /\ NoRun.state = "none"
  BY RunRecs DEF NoRun
<1>4. \A j \in Job, a \in Attempt : run[j][a] = NoRun
  BY DEF Init
<1>5. TypeOK
  BY <1>1, <1>2, <1>3 DEF Init, TypeOK
<1>6. \A j \in Job : stage[j] # "acked"
  BY DEF Init, LInit
<1> QED
  BY <1>3, <1>4, <1>5, <1>6 DEF Init, WorkInv, SlotsAhead, AcksAreEarned

\* The invariant holds throughout, in every fleet.
THEOREM WorkInvAlways == Spec => []WorkInv
<1>1. Init => WorkInv
  BY InitWork
<1>2. WorkInv /\ [Next]_vars => WorkInv'
  BY NextKeepsWork
<1> QED
  BY <1>1, <1>2, PTL DEF Spec

\* Type correctness: heartbeat timers and missed renewals stay in their bounds,
\* whatever the SDKs and the network do.
THEOREM WorkerTypeCorrect == Spec => []TypeOK
<1>1. WorkInv => TypeOK
  BY DEF WorkInv
<1> QED
  BY <1>1, WorkInvAlways, PTL

\* A job leaves the store as a success only if some handler succeeded, although
\* an ack names the job alone and may be executed late, for a lease that another
\* worker has by then.
THEOREM AckedJobsWereHandled == Spec => []AckedWasHandled
<1>1. WorkInv => AckedWasHandled
  BY DEF WorkInv, AcksAreEarned, AckedWasHandled
<1> QED
  BY <1>1, WorkInvAlways, PTL

-----------------------------------------------------------------------------
(***************************************************************************)
(* Fleets that keep up with their leases.                                  *)
(***************************************************************************)
\* The renewals that may be missed fit into the lease.
LEMMA MissedFit ==
  ASSUME Attended, NEW m \in 0..MaxMissed
  PROVE  (m + 1) * Heartbeat \in Nat /\ (m + 1) * Heartbeat < LeaseTTL
<1>1. Heartbeat \in Nat /\ MaxMissed \in Nat /\ LeaseTTL \in Nat
  BY HeartbeatView, WorkerAssumption
<1>2. (MaxMissed + 1) * Heartbeat < LeaseTTL
  BY DEF Attended
<1>3. PICK h \in Nat : h = Heartbeat
  BY <1>1
<1>4. PICK k \in Nat : k = MaxMissed - m
  BY <1>1
<1>5. m \in Nat /\ MaxMissed + 1 = (m + 1) + k
  BY <1>1, <1>4
<1>6. ((m + 1) + k) * h = (m + 1) * h + k * h
  BY <1>5
<1>7. (m + 1) * h \in Nat /\ k * h \in Nat
  BY <1>5
<1> QED
  BY <1>1, <1>2, <1>3, <1>5, <1>6, <1>7

\* One more missed renewal costs one more interval.
LEMMA MissedOneMore ==
  ASSUME NEW m \in Nat
  PROVE  ((m + 1) + 1) * Heartbeat = (m + 1) * Heartbeat + Heartbeat
<1>1. PICK h \in Nat : h = Heartbeat
  BY HeartbeatView
<1>2. ((m + 1) + 1) * h = (m + 1) * h + h
  OBVIOUS
<1> QED
  BY <1>1, <1>2

\* A delivery that is held has time left on its lease.
LEMMA HeldAlive ==
  ASSUME Attended, TypeOK, NEW j \in Job, NEW a \in Attempt, Good(j, a), Held(j, a)
  PROVE  left[j] > 0
<1>1. run[j][a] \in RunRec /\ left[j] \in 0..LeaseTTL /\ LeaseTTL \in Nat \ {0}
  BY Numbers DEF TypeOK
<1>2. run[j][a].missed \in 0..MaxMissed /\ run[j][a].beat \in 0..Heartbeat
  BY <1>1 DEF RunRec
<1>3. CASE run[j][a].state = "running"
  <2>1. PICK n : n = (run[j][a].missed + 1) * Heartbeat
    OBVIOUS
  <2>2. n \in Nat /\ n < LeaseTTL
    BY <1>2, <2>1, MissedFit
  <2>3. left[j] + n >= LeaseTTL + run[j][a].beat
    BY <1>3, <2>1 DEF Good, Margin
  <2>4. run[j][a].beat \in Nat
    BY <1>2, HeartbeatView
  <2> QED
    BY <1>1, <2>2, <2>3, <2>4
<1>4. CASE run[j][a].state \in {"waiting", "ok", "err"}
  BY <1>1, <1>4 DEF Good, Margin
<1> QED
  BY <1>3, <1>4 DEF Held

\* A delivery stays good if its job's lease is left alone while it is held.
LEMMA SameGood ==
  ASSUME NEW j \in Job, NEW a \in Attempt, Good(j, a), run'[j][a] = run[j][a],
         Held(j, a) => stage'[j] = stage[j] /\ tries'[j] = tries[j] /\ left'[j] = left[j]
  PROVE  Good(j, a)'
BY DEF Good, Held, Margin

\* One that is over is good, whatever becomes of its job.
LEMMA EndedGood ==
  ASSUME NEW j \in Job, NEW a \in Attempt, run'[j][a].state \in {"none", "done", "over"}
  PROVE  Good(j, a)'
BY DEF Good, Held

\* Jobs that nobody holds may move.
LEMMA UnheldMoveKeeps ==
  ASSUME HeldInv, NEW S \in SUBSET Job,
         \A j \in S, a \in Attempt : ~Held(j, a),
         \A j \in Job \ S : stage'[j] = stage[j] /\ tries'[j] = tries[j] /\ left'[j] = left[j],
         UNCHANGED <<run, stray>>
  PROVE  HeldInv'
<1>1. ASSUME NEW j \in Job, NEW a \in Attempt PROVE Good(j, a)'
  <2>1. Held(j, a) => j \in Job \ S
    OBVIOUS
  <2> QED
    BY <2>1, SameGood DEF HeldInv
<1> QED
  BY <1>1 DEF HeldInv

\* A claim leases jobs that nobody holds, and the one who gets them has the
\* whole lease before him.
LEMMA ClaimKeepsHeld ==
  ASSUME TypeOK, HeldInv, NEW S \in SUBSET Job, NEW r \in RunRec, HandleClaim(S),
         Deliver(S, r), UNCHANGED stray,
         \/ r.state = "over"
         \/ /\ r.at \in Process /\ r.state = "running" /\ r.beats
            /\ r.beat = Heartbeat /\ r.missed = 0
         \/ r.at \in Process /\ r.state = "waiting" /\ Sdk[r.at] = "go"
  PROVE  HeldInv'
<1>1. /\ tries' = tries
      /\ \A j \in S : stage[j] = "pending" /\ stage'[j] = "leased" /\ left'[j] = LeaseTTL
      /\ \A j \in Job \ S : stage'[j] = stage[j] /\ left'[j] = left[j]
  BY HandleClaimStep
<1>2. \A j \in Job, a \in Attempt :
        run'[j][a] = IF j \in S /\ a = tries[j] THEN r ELSE run[j][a]
  BY DeliverView DEF Delivered
<1>3. ASSUME NEW j \in Job, NEW a \in Attempt PROVE Good(j, a)'
  <2>1. CASE j \in S /\ a = tries[j]
    <3>1. run'[j][a] = r /\ stage'[j] = "leased" /\ tries'[j] = a /\ left'[j] = LeaseTTL
      BY <1>1, <1>2, <2>1
    <3>2. r.state = "running" => LeaseTTL + (0 + 1) * Heartbeat >= LeaseTTL + Heartbeat
      BY HeartbeatView, Numbers
    <3> QED
      BY <3>1, <3>2 DEF Good, Held, Margin
  <2>2. CASE ~(j \in S /\ a = tries[j])
    <3>1. run'[j][a] = run[j][a]
      BY <1>2, <2>2
    <3>2. Good(j, a) /\ (Held(j, a) => j \notin S)
      BY <1>1 DEF HeldInv, Good
    <3> QED
      BY <1>1, <3>1, <3>2, SameGood
  <2> QED
    BY <2>1, <2>2
<1> QED
  BY <1>3 DEF HeldInv

\* One held delivery changes.  No other delivery of its job is held, so only its
\* own lease may change with it.
LEMMA OneHeldChanges ==
  ASSUME TypeOK, HeldInv, NEW j \in Job, NEW a \in Attempt, NEW r \in RunRec,
         run' = [run EXCEPT ![j][a] = r], Held(j, a),
         \A i \in Job \ {j} : stage'[i] = stage[i] /\ tries'[i] = tries[i] /\ left'[i] = left[i],
         stray' = {}, Good(j, a)'
  PROVE  HeldInv'
<1>1. ASSUME NEW i \in Job, NEW b \in Attempt, i # j \/ b # a PROVE Good(i, b)'
  <2>1. run'[i][b] = run[i][b]
    BY <1>1, OneRun
  <2>2. Good(i, b) /\ Good(j, a)
    BY DEF HeldInv
  <2>3. Held(i, b) => i # j
    BY <1>1, <2>2 DEF Good
  <2> QED
    BY <2>1, <2>2, <2>3, SameGood
<1> QED
  BY <1>1 DEF HeldInv

\* With no call executed late, an error means that the call was executed at once
\* or never.
LEMMA NoStray ==
  ASSUME Attended, HeldInv, NEW call, Unanswered(call)
  PROVE  stray' = {} /\ (Handle(call) \/ UNCHANGED store)
<1>1. stray = {} /\ MaxStray = 0
  BY DEF HeldInv, Attended
<1>2. ASSUME stray' = stray \cup {call}, Cardinality(stray') <= MaxStray PROVE FALSE
  <2>1. stray' = {call}
    BY <1>1, <1>2
  <2>2. Cardinality({call}) = 1
    BY FS_Singleton
  <2> QED
    BY <1>1, <1>2, <2>1, <2>2
<1> QED
  BY <1>1, <1>2 DEF Unanswered

\* What a call does to other jobs: nothing.
LEMMA HandleOne ==
  ASSUME TypeOK, NEW kind \in {"renew", "ack", "fail"}, NEW j \in Job, Handle(<<kind, j>>)
  PROVE  /\ \A i \in Job \ {j} :
              stage'[i] = stage[i] /\ tries'[i] = tries[i] /\ left'[i] = left[i]
         /\ kind = "renew" =>
              /\ stage' = stage /\ tries' = tries
              /\ stage[j] = "leased" => left'[j] = LeaseTTL
<1>1. CASE kind = "renew"
  <2>1. HandleRenew(j)
    BY <1>1 DEF Handle
  <2> QED
    BY <2>1 DEF HandleRenew, TypeOK
<1>2. CASE kind = "ack"
  <2>1. HandleAck(j)
    BY <1>2 DEF Handle
  <2>2. (Finish({j}) \/ UNCHANGED <<stage, tries>>) /\ left' = left
    BY <2>1 DEF HandleAck
  <2> QED
    BY <1>2, <2>2 DEF Finish, Move
<1>3. CASE kind = "fail"
  <2>1. HandleFail(j)
    BY <1>3 DEF Handle
  <2>2. (UseAttempt({j}, "retry") \/ UNCHANGED <<stage, tries>>) /\ left' = left
    BY <2>1 DEF HandleFail
  <2> QED
    BY <1>3, <2>2 DEF UseAttempt
<1> QED
  BY <1>1, <1>2, <1>3

\* A handler that begins has had no time taken from its lease.
LEMMA StartKeepsHeld ==
  ASSUME TypeOK, HeldInv, NEW j \in Job, NEW a \in Attempt, Start(j, a)
  PROVE  HeldInv'
<1>1. PICK r \in RunRec : /\ r = Started(run[j][a].at) /\ run' = [run EXCEPT ![j][a] = r]
                          /\ run[j][a].state = "waiting"
  BY StartView
<1>2. UNCHANGED <<stage, tries, left, stray>>
  BY DEF Start, store
<1>3. Good(j, a) /\ Held(j, a)
  BY <1>1 DEF HeldInv, Held
<1>4. run'[j][a] = r
  BY <1>1 DEF TypeOK
<1>5. r.at = run[j][a].at /\ r.state = "running" /\ r.beats /\ r.beat = Heartbeat /\ r.missed = 0
  BY <1>1 DEF Started
<1>6. left[j] = LeaseTTL /\ LeaseTTL + (0 + 1) * Heartbeat >= LeaseTTL + Heartbeat
  BY <1>1, <1>3, HeartbeatView, Numbers DEF Good, Margin
<1>7. Good(j, a)'
  BY <1>2, <1>3, <1>4, <1>5, <1>6 DEF Good, Held, Margin
<1> QED
  BY <1>1, <1>2, <1>3, <1>7, OneHeldChanges DEF HeldInv

\* A renewal is never refused, and gives the whole lease.
LEMMA RenewKeepsHeld ==
  ASSUME TypeOK, HeldInv, NEW j \in Job, NEW a \in Attempt, Renew(j, a)
  PROVE  HeldInv'
<1>1. run[j][a].state = "running"
  BY DEF Renew, BeatDue
<1>2. Good(j, a) /\ Held(j, a) /\ stage[j] = "leased"
  BY <1>1 DEF HeldInv, Held, Good
<1>3. PICK r \in RunRec :
        /\ run' = [run EXCEPT ![j][a] = r]
        /\ r.at = run[j][a].at
        /\ r.state = "running" /\ r.beats = run[j][a].beats /\ r.beat = Heartbeat /\ r.missed = 0
  BY <1>2, RenewView
<1>4. /\ stage' = stage /\ tries' = tries /\ left'[j] = LeaseTTL /\ stray' = {}
      /\ \A i \in Job \ {j} : left'[i] = left[i]
  BY <1>2 DEF Renew, HandleRenew, TypeOK, HeldInv
<1>5. run'[j][a] = r
  BY <1>3 DEF TypeOK
<1>6. LeaseTTL + (0 + 1) * Heartbeat >= LeaseTTL + Heartbeat
  BY HeartbeatView, Numbers
<1>7. Good(j, a)'
  BY <1>1, <1>2, <1>3, <1>4, <1>5, <1>6 DEF Good, Held, Margin
<1> QED
  BY <1>2, <1>3, <1>4, <1>7, OneHeldChanges

\* A renewal that fails uses up an interval of what the lease has to spare.
LEMMA RenewUnansweredKeepsHeld ==
  ASSUME Attended, TypeOK, HeldInv, NEW j \in Job, NEW a \in Attempt, RenewUnanswered(j, a)
  PROVE  HeldInv'
<1>1. run[j][a].state = "running" /\ run[j][a].beat = 0
  BY DEF RenewUnanswered, BeatDue
<1>2. Good(j, a) /\ Held(j, a) /\ stage[j] = "leased" /\ tries[j] = a /\ run[j][a].at \in Process
  BY <1>1 DEF HeldInv, Held, Good
<1>3. PICK r \in RunRec :
        /\ run' = [run EXCEPT ![j][a] = r]
        /\ r.at = run[j][a].at /\ r.state = "running" /\ r.beats \in BeatsAfterError(r.at)
        /\ r.beat = Heartbeat /\ r.missed = run[j][a].missed + 1
  BY RenewUnansweredView
<1>4. r.beats = TRUE
  <2>1. Sdk[r.at] # "python"
    BY <1>2, <1>3 DEF Attended
  <2> QED
    BY <1>3, <2>1 DEF BeatsAfterError
<1>5. stray' = {} /\ (Handle(<<"renew", j>>) \/ UNCHANGED store)
  BY NoStray DEF RenewUnanswered
<1>6. /\ \A i \in Job \ {j} : stage'[i] = stage[i] /\ tries'[i] = tries[i] /\ left'[i] = left[i]
      /\ stage'[j] = stage[j] /\ tries'[j] = tries[j]
      /\ left'[j] = LeaseTTL \/ left'[j] = left[j]
  <2>1. CASE Handle(<<"renew", j>>)
    BY <1>2, <2>1, HandleOne
  <2>2. CASE UNCHANGED store
    BY <2>2 DEF store
  <2> QED
    BY <1>5, <2>1, <2>2
<1>7. run'[j][a] = r
  BY <1>3 DEF TypeOK
<1>8. left'[j] + (r.missed + 1) * Heartbeat >= LeaseTTL + r.beat
  <2>1. run[j][a].missed \in Nat /\ left[j] \in 0..LeaseTTL /\ LeaseTTL \in Nat /\ Heartbeat \in Nat
    <3>1. run[j][a].missed \in 0..MaxMissed
      BY DEF TypeOK, RunRec
    <3> QED
      BY <3>1, Numbers, HeartbeatView
  <2>2. PICK n \in Nat : n = (run[j][a].missed + 1) * Heartbeat
    <3>1. PICK m \in Nat, h \in Nat : m = run[j][a].missed /\ h = Heartbeat
      BY <2>1
    <3>2. (m + 1) * h \in Nat
      OBVIOUS
    <3> QED
      BY <3>1, <3>2
  <2>3. left[j] + n >= LeaseTTL
    BY <1>1, <1>2, <2>1, <2>2 DEF Good, Margin
  <2>4. (r.missed + 1) * Heartbeat = n + Heartbeat
    BY <1>3, <2>1, <2>2, MissedOneMore
  <2>5. left'[j] \in Nat /\ left'[j] + (n + Heartbeat) >= LeaseTTL + Heartbeat
    BY <1>6, <2>1, <2>3
  <2> QED
    BY <1>3, <2>4, <2>5
<1>9. Good(j, a)'
  BY <1>2, <1>3, <1>4, <1>6, <1>7, <1>8 DEF Good, Held, Margin
<1> QED
  BY <1>2, <1>3, <1>5, <1>6, <1>9, OneHeldChanges

\* A handler returns while its lease is alive.
LEMMA ReturnKeepsHeld ==
  ASSUME Attended, TypeOK, HeldInv, NEW j \in Job, NEW a \in Attempt,
         NEW result \in {"ok", "err"}, Return(j, a, result)
  PROVE  HeldInv'
<1>1. /\ run[j][a].state \in {"running", "refused"}
      /\ \E r \in RunRec :
           /\ r = Bare(run[j][a].at, IF run[j][a].state = "refused" THEN "over" ELSE result)
           /\ run' = [run EXCEPT ![j][a] = r]
  BY ReturnView
<1>2. Good(j, a) /\ run[j][a].state = "running" /\ Held(j, a)
  BY <1>1 DEF HeldInv, Good, Held
<1>3. PICK r \in RunRec : r = Bare(run[j][a].at, result) /\ run' = [run EXCEPT ![j][a] = r]
  BY <1>1, <1>2
<1>4. r.at = run[j][a].at /\ r.state = result
  BY <1>3 DEF Bare
<1>5. UNCHANGED <<stage, tries, left, stray>> /\ left[j] > 0
  BY <1>2, HeldAlive DEF Return, store
<1>6. run'[j][a] = r
  BY <1>3 DEF TypeOK
<1>7. Good(j, a)'
  BY <1>2, <1>4, <1>5, <1>6 DEF Good, Held, Margin
<1> QED
  BY <1>2, <1>3, <1>5, <1>7, OneHeldChanges DEF HeldInv

\* A report ends the delivery, whatever becomes of the job.
LEMMA ReportKeepsHeld ==
  ASSUME Attended, TypeOK, HeldInv, NEW j \in Job, NEW a \in Attempt,
         Report(j, a) \/ ReportUnanswered(j, a)
  PROVE  HeldInv'
<1>1. Reported(j, a)
  BY DEF Report, ReportUnanswered
<1>2. PICK r \in RunRec :
        /\ run' = [run EXCEPT ![j][a] = r]
        /\ \/ run[j][a].state = "ok" /\ r.state = "done" /\ ReportCall(j, a) = <<"ack", j>>
           \/ run[j][a].state = "err" /\ r.state = "over" /\ ReportCall(j, a) = <<"fail", j>>
  BY <1>1, ReportedView
<1>3. PICK kind \in {"renew", "ack", "fail"} : ReportCall(j, a) = <<kind, j>>
  BY <1>2
<1>4. Unanswered(<<kind, j>>)
  BY <1>3 DEF Report, ReportUnanswered, Unanswered
<1>5. stray' = {} /\ (Handle(<<kind, j>>) \/ UNCHANGED store)
  BY <1>4, NoStray
<1>6. \A i \in Job \ {j} : stage'[i] = stage[i] /\ tries'[i] = tries[i] /\ left'[i] = left[i]
  <2>1. CASE Handle(<<kind, j>>)
    BY <2>1, HandleOne
  <2>2. CASE UNCHANGED store
    BY <2>2 DEF store
  <2> QED
    BY <1>5, <2>1, <2>2
<1>7. run'[j][a] = r
  BY <1>2 DEF TypeOK
<1>8. Good(j, a)' /\ Held(j, a)
  BY <1>2, <1>7, EndedGood DEF Held
<1> QED
  BY <1>2, <1>5, <1>6, <1>8, OneHeldChanges

\* A claimed job finds a slot: the handlers of its worker are of other jobs, and
\* of each of those there is one.
LEMMA WaitingMayStart ==
  ASSUME Attended, TypeOK, HeldInv, NEW j \in Job, NEW a \in Attempt,
         run[j][a].state = "waiting"
  PROVE  MayStart(j, a)
<1>1. /\ Held(j, a) /\ run[j][a].at \in Process /\ Sdk[run[j][a].at] = "go" /\ tries[j] = a
      /\ \A i \in Job, b \in Attempt : Good(i, b)
  BY DEF HeldInv, Good, Held, Margin
<1>2. PICK p \in Process : p = run[j][a].at
  BY <1>1
<1>3. IsFiniteSet(Job) /\ Cardinality(Job) <= Slots /\ Slots \in Nat
  BY <1>1, <1>2, WorkerAssumption DEF Attended
<1>4. PICK B : B = Busy(p)
  OBVIOUS
<1>5. B \subseteq Job \X Attempt
  BY <1>4 DEF Busy, RunsOf
<1>6. \A d \in B : d[1] \in Job /\ d[2] = tries[d[1]] /\ d[1] # j /\ d = <<d[1], d[2]>>
  <2> SUFFICES ASSUME NEW d \in B
               PROVE  d[1] \in Job /\ d[2] = tries[d[1]] /\ d[1] # j /\ d = <<d[1], d[2]>>
    OBVIOUS
  <2>1. d[1] \in Job /\ d[2] \in Attempt /\ d = <<d[1], d[2]>>
    BY <1>5
  <2>2. run[d[1]][d[2]].state \in {"running", "refused", "ok", "err"}
    BY <1>4 DEF Busy, RunsOf
  <2>3. Good(d[1], d[2])
    BY <1>1, <2>1
  <2>4. d[2] = tries[d[1]]
    BY <2>2, <2>3 DEF Good, Held
  <2>5. d[1] # j
    BY <1>1, <2>2, <2>4
  <2> QED
    BY <2>1, <2>4, <2>5
<1>7. PICK f : f = [d \in B |-> d[1]]
  OBVIOUS
<1>8. f \in Injection(B, Job \ {j})
  <2>1. f \in [B -> Job \ {j}]
    BY <1>6, <1>7
  <2>2. \A d, e \in B : f[d] = f[e] => d = e
    BY <1>6, <1>7
  <2> QED
    BY <2>1, <2>2 DEF Injection, IsInjective
<1>9. /\ IsFiniteSet(Job \ {j}) /\ Cardinality(Job \ {j}) = Cardinality(Job) - 1
      /\ Cardinality(Job) \in Nat
  BY <1>3, FS_RemoveElement, FS_CardinalityType
<1>10. IsFiniteSet(B) /\ Cardinality(B) <= Cardinality(Job \ {j})
  BY <1>8, <1>9, FS_Injection
<1>11. Cardinality(B) \in Nat
  BY <1>10, FS_CardinalityType
<1>12. Cardinality(B) < Slots
  BY <1>3, <1>9, <1>10, <1>11
<1> QED
  BY <1>2, <1>4, <1>12 DEF MayStart

\* Time passes only while no step is due, so a lease and the heartbeat's timer
\* lose the same.
LEMMA TickKeepsHeld ==
  ASSUME Attended, TypeOK, HeldInv, Tick
  PROVE  HeldInv'
<1>1. Prompt /\ UNCHANGED <<stage, tries, stray>>
  BY DEF Attended, Tick
<1>2. ASSUME NEW j \in Job, NEW a \in Attempt PROVE Good(j, a)'
  <2>1. /\ left'[j] = IF left[j] = 0 THEN 0 ELSE left[j] - 1
        /\ run'[j][a].beat = IF run[j][a].beat = 0 THEN 0 ELSE run[j][a].beat - 1
        /\ run'[j][a].at = run[j][a].at /\ run'[j][a].state = run[j][a].state
        /\ run'[j][a].beats = run[j][a].beats /\ run'[j][a].missed = run[j][a].missed
    BY TickView
  <2>2. Good(j, a)
    BY DEF HeldInv
  <2>3. run[j][a].state \notin {"waiting", "ok", "err"}
    BY <1>1, WaitingMayStart DEF Prompt
  <2>4. CASE run[j][a].state # "running"
    BY <2>1, <2>2, <2>3, <2>4 DEF Good, Held
  <2>5. CASE run[j][a].state = "running"
    <3>1. Held(j, a)
      BY <2>5 DEF Held
    <3>2. /\ stage[j] = "leased" /\ tries[j] = a /\ run[j][a].at \in Process /\ run[j][a].beats
          /\ left[j] + (run[j][a].missed + 1) * Heartbeat >= LeaseTTL + run[j][a].beat
      BY <2>2, <2>5, <3>1 DEF Good, Margin
    <3>3. left[j] > 0
      BY <2>2, <3>1, HeldAlive
    <3>4. run[j][a].beat # 0
      BY <1>1, <2>5, <3>2 DEF Prompt, BeatDue
    <3>5. /\ run[j][a].missed \in 0..MaxMissed /\ run[j][a].beat \in 0..Heartbeat
          /\ left[j] \in 0..LeaseTTL /\ LeaseTTL \in Nat /\ Heartbeat \in Nat
      BY Numbers, HeartbeatView DEF TypeOK, RunRec
    <3>6. PICK n : n = (run[j][a].missed + 1) * Heartbeat
      OBVIOUS
    <3>7. n \in Nat
      BY <3>5, <3>6, MissedFit
    <3>8. left'[j] + n >= LeaseTTL + run'[j][a].beat
      BY <2>1, <3>2, <3>3, <3>4, <3>5, <3>6, <3>7
    <3> QED
      BY <1>1, <2>1, <2>5, <3>2, <3>6, <3>8 DEF Good, Held, Margin
  <2> QED
    BY <2>4, <2>5
<1> QED
  BY <1>1, <1>2 DEF HeldInv

\* Every step of an attended fleet keeps the leases that are held.
LEMMA NextKeepsHeld ==
  ASSUME Attended, TypeOK, HeldInv, [Next]_vars
  PROVE  HeldInv'
<1>1. ASSUME UNCHANGED <<store, run, stray>> PROVE HeldInv'
  <2>1. \A j \in Job : stage'[j] = stage[j] /\ tries'[j] = tries[j] /\ left'[j] = left[j]
    BY <1>1 DEF store
  <2>2. PICK S \in SUBSET Job : S = {}
    OBVIOUS
  <2>3. /\ \A i \in S, a \in Attempt : ~Held(i, a)
        /\ \A i \in Job \ S : stage'[i] = stage[i] /\ tries'[i] = tries[i] /\ left'[i] = left[i]
    BY <2>1, <2>2
  <2> QED
    BY <1>1, <2>3, UnheldMoveKeeps
<1>2. \A j \in Job, a \in Attempt : Held(j, a) => stage[j] = "leased" /\ left[j] > 0
  BY HeldAlive DEF HeldInv, Good
<1>3. ASSUME NEW j \in Job, HandleEnqueue(j) PROVE HeldInv'
  <2>1. stage[j] = "new" /\ UNCHANGED <<tries, left, run, stray>>
    BY <1>3 DEF HandleEnqueue, Accept, Move
  <2>2. \A i \in Job \ {j} : stage'[i] = stage[i]
    BY <1>3 DEF HandleEnqueue, Accept, Move
  <2>3. PICK S \in SUBSET Job : S = {j}
    OBVIOUS
  <2>4. /\ \A i \in S, a \in Attempt : ~Held(i, a)
        /\ \A i \in Job \ S : stage'[i] = stage[i] /\ tries'[i] = tries[i] /\ left'[i] = left[i]
    BY <1>2, <2>1, <2>2, <2>3
  <2> QED
    BY <2>1, <2>4, UnheldMoveKeeps
<1>4. ASSUME NEW S \in SUBSET Job, Reap(S) PROVE HeldInv'
  <2>1. /\ \A j \in S : left[j] = 0
        /\ \A i \in Job \ S : stage'[i] = stage[i] /\ tries'[i] = tries[i] /\ left'[i] = left[i]
        /\ UNCHANGED <<run, stray>>
    <3>1. UseAttempt(S, "pending") /\ (\A j \in S : left[j] = 0) /\ UNCHANGED <<left, run, stray>>
      BY <1>4 DEF Reap
    <3>2. \A i \in Job \ S : stage'[i] = stage[i] /\ tries'[i] = tries[i]
      BY <3>1 DEF UseAttempt
    <3> QED
      BY <3>1, <3>2
  <2>2. \A i \in S, a \in Attempt : ~Held(i, a)
    BY <1>2, <2>1
  <2> QED
    BY <2>1, <2>2, UnheldMoveKeeps
<1>5. ASSUME NEW S \in SUBSET Job, DrainRetry(S) PROVE HeldInv'
  <2>1. /\ \A j \in S : stage[j] = "retry"
        /\ \A i \in Job \ S : stage'[i] = stage[i] /\ tries'[i] = tries[i] /\ left'[i] = left[i]
        /\ UNCHANGED <<run, stray>>
    <3>1. Move(S, "retry", "pending") /\ UNCHANGED <<tries, left, run, stray>>
      BY <1>5 DEF DrainRetry, Resume
    <3>2. (\A j \in S : stage[j] = "retry") /\ \A i \in Job \ S : stage'[i] = stage[i]
      BY <3>1 DEF Move
    <3> QED
      BY <3>1, <3>2
  <2>2. \A i \in S, a \in Attempt : ~Held(i, a)
    BY <1>2, <2>1
  <2> QED
    BY <2>1, <2>2, UnheldMoveKeeps
<1>6. ASSUME NEW S \in SUBSET Job, ClaimUnanswered(S) PROVE HeldInv'
  <2>1. PICK r \in RunRec : r = Bare(Nobody, "over") /\ HandleClaim(S) /\ Deliver(S, r)
                            /\ UNCHANGED stray
    BY <1>6, ClaimUnansweredView
  <2>2. r.state = "over"
    BY <2>1 DEF Bare
  <2> QED
    BY <2>1, <2>2, ClaimKeepsHeld
<1>7. ASSUME NEW p \in Process, NEW S \in SUBSET Job, Claim(p, S) PROVE HeldInv'
  <2>1. HandleClaim(S) /\ UNCHANGED stray
    BY <1>7, ClaimView
  <2>2. CASE Sdk[p] = "node"
    <3>1. PICK r \in RunRec : r = Started(p) /\ Deliver(S, r)
      BY <1>7, <2>2, ClaimView
    <3>2. r.at \in Process /\ r.state = "running" /\ r.beats /\ r.beat = Heartbeat /\ r.missed = 0
      BY <3>1 DEF Started
    <3> QED
      BY <2>1, <3>1, <3>2, ClaimKeepsHeld
  <2>3. CASE Sdk[p] # "node"
    <3>1. PICK r \in RunRec : r = Bare(p, "waiting") /\ Deliver(S, r)
      BY <1>7, <2>3, ClaimView
    <3>2. r.at \in Process /\ r.state = "waiting" /\ Sdk[r.at] = "go"
      BY <2>3, <3>1 DEF Bare, Attended
    <3> QED
      BY <2>1, <3>1, <3>2, ClaimKeepsHeld
  <2> QED
    BY <2>2, <2>3
<1>8. ASSUME NEW p \in Process, ClaimBreaksLoop(p) \/ Stop(p) \/ Exit(p) \/ Restart(p)
      PROVE  HeldInv'
  BY <1>1, <1>8 DEF ClaimBreaksLoop, Stop, Exit, Restart
<1>9. ASSUME NEW p \in Process, Crash(p) PROVE HeldInv'
  <2>1. UNCHANGED <<stage, tries, left, stray>>
    BY <1>9 DEF Crash, store
  <2>2. \A j \in Job, a \in Attempt : run'[j][a] = run[j][a] \/ run'[j][a].state = "over"
    BY <1>9, CrashView
  <2>3. ASSUME NEW j \in Job, NEW a \in Attempt PROVE Good(j, a)'
    BY <2>1, <2>2, SameGood, EndedGood DEF HeldInv
  <2> QED
    BY <2>1, <2>3 DEF HeldInv
<1>10. ASSUME NEW call \in stray PROVE FALSE
  BY DEF HeldInv
<1>11. ASSUME UNCHANGED vars PROVE HeldInv'
  BY <1>1, <1>11 DEF vars
<1> QED
  BY <1>3, <1>4, <1>5, <1>6, <1>7, <1>8, <1>9, <1>10, <1>11, StartKeepsHeld, RenewKeepsHeld,
     RenewUnansweredKeepsHeld, ReturnKeepsHeld, ReportKeepsHeld, TickKeepsHeld DEF Next

\* An attended fleet always holds the leases of its deliveries.
THEOREM HeldInvAlways == ASSUME Attended PROVE Spec => []HeldInv
<1>1. Init => HeldInv
  <2> SUFFICES ASSUME Init PROVE HeldInv
    OBVIOUS
  <2>1. NoRun.state = "none" /\ \A j \in Job, a \in Attempt : run[j][a] = NoRun
    BY DEF Init, NoRun
  <2> QED
    BY <2>1 DEF Init, HeldInv, Good, Held
<1>2. TypeOK /\ HeldInv /\ [Next]_vars => HeldInv'
  BY NextKeepsHeld
<1> QED
  BY <1>1, <1>2, WorkerTypeCorrect, PTL DEF Spec

\* A job that is neither acked nor dead has an attempt left.
AttemptsLeft == \A j \in Job : stage[j] \in {"acked", "dead"} \/ tries[j] <= MaxRetries

\* A lease that ends without an ack uses an attempt, and the last one is the end.
LEMMA UseAttemptKeepsAttempts ==
  ASSUME TypeOK, AttemptsLeft, NEW S \in SUBSET Job, NEW b, UseAttempt(S, b)
  PROVE  AttemptsLeft'
<1>1. \A j \in Job : tries[j] \in Nat /\ MaxRetries \in Nat
  BY Numbers
<1>2. ASSUME NEW j \in Job PROVE stage'[j] \in {"acked", "dead"} \/ tries'[j] <= MaxRetries
  <2>1. CASE j \in S
    <3>1. /\ tries'[j] = tries[j] + 1
          /\ stage'[j] = IF tries[j] + 1 > MaxRetries THEN "dead" ELSE b
      BY <2>1 DEF UseAttempt
    <3> QED
      BY <1>1, <3>1
  <2>2. CASE j \notin S
    BY <2>2 DEF UseAttempt, AttemptsLeft
  <2> QED
    BY <2>1, <2>2
<1> QED
  BY <1>2 DEF AttemptsLeft

\* A call that is executed moves a job along its life cycle.
LEMMA HandleKeepsAttempts ==
  ASSUME TypeOK, AttemptsLeft, NEW call \in {"renew", "ack", "fail"} \X Job, Handle(call)
  PROVE  AttemptsLeft'
<1>1. PICK kind \in {"renew", "ack", "fail"}, j \in Job : call = <<kind, j>>
  OBVIOUS
<1>2. \A i \in Job : tries[i] \in Nat
  BY Numbers
<1>3. CASE kind = "renew"
  BY <1>1, <1>3 DEF Handle, HandleRenew, AttemptsLeft
<1>4. CASE kind = "ack"
  <2>1. HandleAck(j)
    BY <1>1, <1>4 DEF Handle
  <2>2. CASE stage[j] = "leased"
    BY <2>1, <2>2 DEF HandleAck, Finish, Move, AttemptsLeft
  <2>3. CASE stage[j] # "leased"
    BY <2>1, <2>3 DEF HandleAck, AttemptsLeft
  <2> QED
    BY <2>2, <2>3
<1>5. CASE kind = "fail"
  <2>1. HandleFail(j)
    BY <1>1, <1>5 DEF Handle
  <2>2. CASE stage[j] = "leased"
    BY <2>1, <2>2, UseAttemptKeepsAttempts DEF HandleFail
  <2>3. CASE stage[j] # "leased"
    BY <2>1, <2>3 DEF HandleFail, AttemptsLeft
  <2> QED
    BY <2>2, <2>3
<1> QED
  BY <1>1, <1>3, <1>4, <1>5

\* A job is dead-lettered with its last attempt, so one that is handed out has a
\* delivery of its own.
LEMMA NextKeepsAttempts ==
  ASSUME TypeOK, AttemptsLeft, [Next]_vars
  PROVE  AttemptsLeft'
<1>1. ASSUME UNCHANGED <<stage, tries>> PROVE AttemptsLeft'
  BY <1>1 DEF AttemptsLeft
<1>2. ASSUME NEW S \in SUBSET Job, NEW c \in {"new", "pending", "retry"}, NEW b,
             Move(S, c, b), UNCHANGED tries
      PROVE  AttemptsLeft'
  BY <1>2 DEF Move, AttemptsLeft
<1>3. ASSUME NEW j \in Job, HandleEnqueue(j) PROVE AttemptsLeft'
  BY <1>2, <1>3 DEF HandleEnqueue, Accept
<1>4. ASSUME NEW S \in SUBSET Job, Reap(S) \/ DrainRetry(S) \/ ClaimUnanswered(S)
      PROVE  AttemptsLeft'
  <2>1. CASE Reap(S)
    BY <2>1, UseAttemptKeepsAttempts DEF Reap
  <2>2. CASE DrainRetry(S)
    BY <1>2, <2>2 DEF DrainRetry, Resume
  <2>3. CASE ClaimUnanswered(S)
    BY <1>2, <2>3 DEF ClaimUnanswered, HandleClaim, Lease
  <2> QED
    BY <1>4, <2>1, <2>2, <2>3
<1>5. ASSUME NEW p \in Process, NEW S \in SUBSET Job, Claim(p, S) PROVE AttemptsLeft'
  BY <1>2, <1>5 DEF Claim, HandleClaim, Lease
<1>6. ASSUME NEW p \in Process,
             ClaimBreaksLoop(p) \/ Stop(p) \/ Exit(p) \/ Crash(p) \/ Restart(p)
      PROVE  AttemptsLeft'
  BY <1>1, <1>6 DEF ClaimBreaksLoop, Stop, Exit, Crash, Restart, store
<1>7. ASSUME NEW call \in {"renew", "ack", "fail"} \X Job, Handle(call) \/ Unanswered(call)
      PROVE  AttemptsLeft'
  BY <1>1, <1>7, HandleKeepsAttempts DEF Unanswered, store
<1>8. ASSUME NEW j \in Job, NEW a \in Attempt,
             \/ Start(j, a) \/ Renew(j, a) \/ RenewUnanswered(j, a)
             \/ \E result \in {"ok", "err"} : Return(j, a, result)
             \/ Report(j, a) \/ ReportUnanswered(j, a)
      PROVE  AttemptsLeft'
  <2>1. CASE Start(j, a) \/ \E result \in {"ok", "err"} : Return(j, a, result)
    BY <1>1, <2>1 DEF Start, Return, store
  <2>2. CASE Renew(j, a)
    BY <1>1, <2>2 DEF Renew, HandleRenew
  <2>3. CASE RenewUnanswered(j, a)
    BY <1>7, <2>3 DEF RenewUnanswered
  <2>4. CASE Report(j, a) \/ ReportUnanswered(j, a)
    <3>1. ReportCall(j, a) \in {"renew", "ack", "fail"} \X Job
      BY DEF ReportCall
    <3> QED
      BY <1>7, <2>4, <3>1 DEF Report, ReportUnanswered
  <2> QED
    BY <1>8, <2>1, <2>2, <2>3, <2>4
<1>9. ASSUME NEW call \in stray, ExecuteStray(call) PROVE AttemptsLeft'
  BY <1>7, <1>9 DEF ExecuteStray, TypeOK
<1>10. ASSUME Tick \/ UNCHANGED vars PROVE AttemptsLeft'
  BY <1>1, <1>10 DEF Tick, vars, store
<1> QED
  BY <1>3, <1>4, <1>5, <1>6, <1>8, <1>9, <1>10 DEF Next

\* Every delivery that is made has its place in run.
LEMMA AttemptsLeftAlways == Spec => []AttemptsLeft
<1>1. Init => AttemptsLeft
  <2>1. MaxRetries \in Nat /\ 0 <= MaxRetries
    BY WorkerAssumption
  <2> SUFFICES ASSUME tries = [j \in Job |-> 0], NEW j \in Job PROVE tries[j] <= MaxRetries
    BY DEF Init, LInit, AttemptsLeft
  <2> QED
    BY <2>1
<1>2. TypeOK /\ AttemptsLeft /\ [Next]_vars => AttemptsLeft'
  BY NextKeepsAttempts
<1> QED
  BY <1>1, <1>2, WorkerTypeCorrect, PTL DEF Spec

\* In an attended fleet a job that a living worker holds keeps its lease,
\* whatever crashes, lost claims and lost reports there are.
THEOREM HeldLeasesStayAlive == ASSUME Attended PROVE Spec => []HeldLeaseStaysAlive
<1>1. TypeOK /\ HeldInv /\ AttemptsLeft => HeldLeaseStaysAlive
  <2> SUFFICES ASSUME TypeOK, HeldInv, AttemptsLeft, NEW j \in Job, stage[j] = "leased",
                      run[j][tries[j]].state \in {"waiting", "running"}
               PROVE  left[j] > 0
    BY DEF HeldLeaseStaysAlive
  <2>1. tries[j] \in Nat /\ MaxRetries \in Nat /\ tries[j] <= MaxRetries
    BY Numbers DEF AttemptsLeft
  <2>2. tries[j] \in Attempt
    BY <2>1 DEF Attempt
  <2>3. Good(j, tries[j]) /\ Held(j, tries[j])
    BY <2>2 DEF HeldInv, Held
  <2> QED
    BY <2>2, <2>3, HeldAlive
<1> QED
  BY <1>1, HeldInvAlways, AttemptsLeftAlways, WorkerTypeCorrect, PTL

\* In an attended fleet no job has two handlers at work.
THEOREM HandlersAreAlone == ASSUME Attended PROVE Spec => []OneHandlerPerJob
<1>1. HeldInv => OneHandlerPerJob
  BY DEF HeldInv, Good, Held, OneHandlerPerJob
<1> QED
  BY <1>1, HeldInvAlways, PTL

-----------------------------------------------------------------------------
(***************************************************************************)
(* The life cycle.  The handlers are guarded and a call may be executed    *)
(* late, twice or never, but the store only sees steps of JobLifecycle.    *)
(***************************************************************************)
\* A call, executed now or left behind, is a step of the lifecycle or moves nothing.
LEMMA CallFollowsLifecycle ==
  ASSUME NEW call \in {"renew", "ack", "fail"} \X Job, Handle(call) \/ Unanswered(call)
  PROVE  LNext \/ UNCHANGED <<stage, tries>>
<1>1. PICK j \in Job : call[2] = j
  OBVIOUS
<1>2. ASSUME HandleAck(j) PROVE LNext \/ UNCHANGED <<stage, tries>>
  <2>1. {j} \in SUBSET Job
    OBVIOUS
  <2> QED
    BY <1>2, <2>1 DEF HandleAck, LNext
<1>3. ASSUME HandleFail(j) PROVE LNext \/ UNCHANGED <<stage, tries>>
  BY <1>3 DEF HandleFail, LNext
<1>4. ASSUME HandleRenew(j) PROVE UNCHANGED <<stage, tries>>
  BY <1>4 DEF HandleRenew
<1>5. ASSUME Handle(call) PROVE LNext \/ UNCHANGED <<stage, tries>>
  BY <1>1, <1>2, <1>3, <1>4, <1>5 DEF Handle
<1> QED
  BY <1>5 DEF Unanswered, store

\* So is every step of the fleet.
LEMMA NextFollowsLifecycle ==
  ASSUME TypeOK, [Next]_vars
  PROVE  [LNext]_<<stage, tries>>
<1>1. ASSUME NEW j \in Job, HandleEnqueue(j) PROVE LNext
  BY <1>1 DEF HandleEnqueue, LNext
<1>2. ASSUME NEW S \in SUBSET Job, Reap(S) \/ DrainRetry(S) \/ ClaimUnanswered(S)
      PROVE  LNext
  BY <1>2 DEF Reap, DrainRetry, ClaimUnanswered, HandleClaim, LNext
<1>3. ASSUME NEW p \in Process, NEW S \in SUBSET Job, Claim(p, S) PROVE LNext
  BY <1>3 DEF Claim, HandleClaim, LNext
<1>4. ASSUME NEW p \in Process,
             ClaimBreaksLoop(p) \/ Stop(p) \/ Exit(p) \/ Crash(p) \/ Restart(p)
      PROVE  UNCHANGED <<stage, tries>>
  BY <1>4 DEF ClaimBreaksLoop, Stop, Exit, Crash, Restart, store
<1>5. ASSUME NEW j \in Job, NEW a \in Attempt,
             \/ Start(j, a) \/ Renew(j, a) \/ RenewUnanswered(j, a)
             \/ \E result \in {"ok", "err"} : Return(j, a, result)
             \/ Report(j, a) \/ ReportUnanswered(j, a)
      PROVE  LNext \/ UNCHANGED <<stage, tries>>
  <2>1. CASE Start(j, a) \/ \E result \in {"ok", "err"} : Return(j, a, result)
    BY <2>1 DEF Start, Return, store
  <2>2. CASE Renew(j, a)
    BY <2>2 DEF Renew, HandleRenew
  <2>3. CASE RenewUnanswered(j, a)
    BY <2>3, CallFollowsLifecycle DEF RenewUnanswered
  <2>4. CASE Report(j, a) \/ ReportUnanswered(j, a)
    <3>1. ReportCall(j, a) \in {"renew", "ack", "fail"} \X Job
      BY DEF ReportCall
    <3> QED
      BY <2>4, <3>1, CallFollowsLifecycle DEF Report, ReportUnanswered
  <2> QED
    BY <1>5, <2>1, <2>2, <2>3, <2>4
<1>6. ASSUME NEW call \in stray, ExecuteStray(call)
      PROVE  LNext \/ UNCHANGED <<stage, tries>>
  BY <1>6, CallFollowsLifecycle DEF ExecuteStray, TypeOK
<1>7. ASSUME Tick \/ UNCHANGED vars PROVE UNCHANGED <<stage, tries>>
  BY <1>7 DEF Tick, vars, store
<1> QED
  BY <1>1, <1>2, <1>3, <1>4, <1>5, <1>6, <1>7 DEF Next

\* Whatever workers and their late, lost and repeated calls do, a job moves along
\* the README's state diagram: the fleet asks nothing of the store that JobStore,
\* which implements the diagram too, could not do.
THEOREM WorkersFollowLifecycle == Spec => LSpec
<1>1. Init => LInit
  BY DEF Init
<1>2. TypeOK /\ [Next]_vars => [LNext]_<<stage, tries>>
  BY NextFollowsLifecycle
<1> QED
  BY <1>1, <1>2, WorkerTypeCorrect, PTL DEF Spec, LSpec
=============================================================================
