---------------------------- MODULE LoopsProofs ----------------------------
(***************************************************************************)
(* Proofs about Loops: a pass of a background loop that ends well has come *)
(* to every queue that had something to drain when it began, and no pass   *)
(* moves a job other than as JobLifecycle says.                            *)
(***************************************************************************)
EXTENDS Loops, TLAPS

\* When KnownQueues scans for the keys of the set this loop drains.
SourcePattern == IF loop = "reaper" THEN 2 ELSE 3

\* A job the pass owes something to has not moved since.
OwedStage == \A j \in owed : stage[j] = Source(loop)

\* The pass has its queue before it: the queue was found, or the SCAN that finds
\* it for certain has yet to come to it, or it is among those to be drained.
OwedAhead ==
  \A j \in owed :
    /\ pass.step # "idle"
    /\ pass.step = "scan" =>
         \/ home[j] \in pass.seen
         \/ pass.pattern < SourcePattern
         \/ /\ pass.pattern = SourcePattern
            /\ home[j] \in pass.todo
    /\ pass.step = "drain" => home[j] \in pass.todo

LoopInv ==
  /\ TypeOK
  /\ OwedStage
  /\ OwedAhead

-----------------------------------------------------------------------------
\* What the jobs do in a step, whoever takes it: their types hold, and a job
\* that is due before and after it is where it was.
StoreStep ==
  /\ LTypeOK'
  /\ due' \subseteq {j \in Job : stage'[j] \in {"leased", "retry"}}
  /\ \A j \in due \cap due' : stage'[j] = stage[j]

\* Moving jobs keeps them typed.
LEMMA MoveTyped ==
  ASSUME LTypeOK, NEW S, NEW a, NEW b \in Stage, Move(S, a, b), tries' = tries
  PROVE  LTypeOK' /\ \A j \in Job : stage'[j] = IF j \in S THEN b ELSE stage[j]
BY DEF LTypeOK, Move

\* So does counting an attempt, and no other job moves.
LEMMA UseAttemptTyped ==
  ASSUME LTypeOK, NEW S, NEW b \in Stage, UseAttempt(S, b)
  PROVE  LTypeOK' /\ \A j \in Job \ S : stage'[j] = stage[j]
<1>1. "dead" \in Stage
  BY DEF Stage
<1> QED
  BY <1>1 DEF LTypeOK, UseAttempt

\* A drain takes due jobs of its queue and of its stage, and the jobs it takes
\* are due no longer.
LEMMA DrainedIsStoreStep ==
  ASSUME LoopInv, NEW q \in Queue, NEW l \in {"reaper", "retry"}, NEW S \in SUBSET due,
         Drained(q, l, S)
  PROVE  StoreStep /\ due' = due \ S
<1>1. /\ LTypeOK /\ due \subseteq Job
      /\ \A j \in due : stage[j] \in {"leased", "retry"}
  BY DEF LoopInv, TypeOK
<1>2. due' = due \ S /\ Requeue(l, S)
  BY DEF Drained
<1>3. LTypeOK' /\ \A j \in Job \ S : stage'[j] = stage[j]
  <2>1. CASE UNCHANGED <<stage, tries>>
    BY <1>1, <2>1 DEF LTypeOK
  <2>2. CASE UseAttempt(S, "pending")
    BY <1>1, <2>2, UseAttemptTyped DEF Stage
  <2>3. CASE Resume(S)
    BY <1>1, <2>3, MoveTyped DEF Resume, Stage
  <2> QED
    BY <1>2, <2>1, <2>2, <2>3 DEF Requeue
<1> QED
  BY <1>1, <1>2, <1>3 DEF StoreStep

\* Clients, the clock and other servers move jobs like that too.
LEMMA EnvironmentIsStoreStep ==
  ASSUME LoopInv, Environment
  PROVE  StoreStep
<1>1. /\ LTypeOK /\ due \subseteq Job
      /\ \A j \in due : stage[j] \in {"leased", "retry"}
      /\ {"pending", "leased", "acked", "retry"} \subseteq Stage
  BY DEF LoopInv, TypeOK, Stage
<1>2. ASSUME NEW j \in Job, Accept(j), UNCHANGED due PROVE StoreStep
  <2>1. stage[j] = "new"
    BY <1>2 DEF Accept, Move
  <2>2. LTypeOK' /\ \A i \in Job : stage'[i] = IF i \in {j} THEN "pending" ELSE stage[i]
    BY <1>1, <1>2, MoveTyped DEF Accept
  <2> QED
    BY <1>1, <1>2, <2>1, <2>2 DEF StoreStep
<1>3. ASSUME NEW S \in SUBSET Job, Lease(S), UNCHANGED due PROVE StoreStep
  <2>1. \A j \in S : stage[j] = "pending"
    BY <1>3 DEF Lease, Move
  <2>2. LTypeOK' /\ \A i \in Job : stage'[i] = IF i \in S THEN "leased" ELSE stage[i]
    BY <1>1, <1>3, MoveTyped DEF Lease
  <2> QED
    BY <1>1, <1>3, <2>1, <2>2 DEF StoreStep
<1>4. ASSUME NEW j \in Job, due' = due \ {j}, UNCHANGED <<stage, tries>> PROVE StoreStep
  BY <1>1, <1>4 DEF StoreStep, LTypeOK
<1>5. ASSUME NEW j \in Job, Finish({j}), due' = due \ {j} PROVE StoreStep
  <2>1. LTypeOK' /\ \A i \in Job \ {j} : stage'[i] = stage[i]
    BY <1>1, <1>5 DEF Finish, Move, LTypeOK
  <2> QED
    BY <1>1, <1>5, <2>1 DEF StoreStep
<1>6. ASSUME NEW j \in Job, UseAttempt({j}, "retry"), due' = due \ {j} PROVE StoreStep
  <2>1. LTypeOK' /\ \A i \in Job \ {j} : stage'[i] = stage[i]
    BY <1>1, <1>6, UseAttemptTyped
  <2> QED
    BY <1>1, <1>6, <2>1 DEF StoreStep
<1>7. ASSUME NEW j \in Job, FallDue(j) PROVE StoreStep
  BY <1>1, <1>7 DEF FallDue, StoreStep, LTypeOK
<1>8. ASSUME DrainElsewhere PROVE StoreStep
  BY <1>8, DrainedIsStoreStep DEF DrainElsewhere
<1> QED
  BY <1>2, <1>3, <1>4, <1>5, <1>6, <1>7, <1>8 DEF Environment, Client

\* The invariant's claims on the pass survive a step that leaves the pass alone,
\* and owes nothing new.
LEMMA SamePassKeeps ==
  ASSUME LoopInv, StoreStep, owed' \subseteq owed \cap due',
         UNCHANGED <<fixed, pass>>, leader' \in BOOLEAN, cuts' \in 0..MaxCuts
  PROVE  LoopInv'
<1>1. TypeOK'
  BY DEF LoopInv, TypeOK, StoreStep, fixed
<1>2. OwedStage'
  BY DEF LoopInv, TypeOK, OwedStage, StoreStep, fixed, Source
<1>3. OwedAhead'
  BY DEF LoopInv, OwedAhead, SourcePattern, fixed
<1> QED
  BY <1>1, <1>2, <1>3 DEF LoopInv

\* A pass that is cut off or fails owes nothing.
LEMMA CutKeeps ==
  ASSUME LoopInv, StoreStep, pass' = Idle, owed' = {}, UNCHANGED fixed,
         leader' \in BOOLEAN, cuts' \in 0..MaxCuts
  PROVE  LoopInv'
<1>1. Idle \in [step : {"idle", "scan", "drain"}, pattern : DOMAIN Patterns,
                 todo : SUBSET Queue, seen : SUBSET Queue]
  <2>1. 1 \in DOMAIN Patterns
    BY DEF Patterns
  <2> QED
    BY <2>1 DEF Idle
<1>2. Idle.step = "idle" /\ Idle.todo = {}
  BY DEF Idle
<1>3. TypeOK'
  BY <1>1, <1>2 DEF LoopInv, TypeOK, StoreStep, fixed
<1> QED
  BY <1>3 DEF LoopInv, OwedStage, OwedAhead

\* A pass begins with every queue before it.
LEMMA BeginKeeps ==
  ASSUME LoopInv, Begin
  PROVE  LoopInv'
<1>1. /\ pass' = [step |-> "scan", pattern |-> 1, todo |-> Queue, seen |-> {}]
      /\ owed' = {j \in due : stage[j] = Source(loop)}
      /\ UNCHANGED <<store, fixed, leader, cuts>>
  BY DEF Begin, Idle
<1>2. 1 \in DOMAIN Patterns
  BY DEF Patterns
<1>3. TypeOK'
  BY <1>1, <1>2, LoopsAssumption DEF LoopInv, TypeOK, LTypeOK, store, fixed
<1>4. OwedStage'
  BY <1>1 DEF OwedStage, store, fixed, Source
<1>5. pass'.step = "scan" /\ pass'.pattern < SourcePattern'
  BY <1>1 DEF SourcePattern
<1>6. OwedAhead'
  BY <1>5 DEF OwedAhead
<1> QED
  BY <1>3, <1>4, <1>6 DEF LoopInv

\* The three patterns, of which a loop's own is the second or the third.
LEMMA PatternsView ==
  /\ DOMAIN Patterns = 1..3 /\ Len(Patterns) = 3
  /\ SourcePattern \in 2..3
  /\ loop \in {"reaper", "retry"} => Patterns[SourcePattern] = Source(loop)
BY DEF Patterns, SourcePattern, Source

\* A SCAN that comes past a queue: if it scans for the loop's own keys and the
\* pass owes that queue a visit, the key is there and the queue is found.
LEMMA VisitKeeps ==
  ASSUME LoopInv, NEW q \in Queue, Visit(q)
  PROVE  LoopInv'
<1> DEFINE n == pass.pattern
<1>1. PICK found : found = IF KeyExists(q, Patterns[n]) THEN pass.seen \cup {q} ELSE pass.seen
  OBVIOUS
<1>2. PICK todo : todo = pass.todo \ {q}
  OBVIOUS
<1>3. /\ pass.step = "scan" /\ q \in pass.todo
      /\ pass' = IF todo = {} THEN Scanned(found)
                 ELSE [pass EXCEPT !.todo = todo, !.seen = found]
      /\ UNCHANGED <<store, fixed, leader, cuts, owed>>
  BY <1>1, <1>2 DEF Visit
<1>4. /\ n \in 1..3 /\ found \subseteq Queue /\ todo \subseteq Queue
      /\ pass = [step |-> "scan", pattern |-> n, todo |-> pass.todo, seen |-> pass.seen]
      /\ loop \in {"reaper", "retry"} /\ SourcePattern \in 2..3 /\ SourcePattern' = SourcePattern
      /\ owed \subseteq Job /\ \A j \in owed : home[j] \in Queue
  <2>1. pass \in [step : {"idle", "scan", "drain"}, pattern : 1..3,
                  todo : SUBSET Queue, seen : SUBSET Queue]
    BY PatternsView DEF LoopInv, TypeOK
  <2>2. /\ loop \in {"reaper", "retry"} /\ SourcePattern' = SourcePattern
        /\ owed \subseteq Job /\ \A j \in owed : home[j] \in Queue
    BY <1>3 DEF LoopInv, TypeOK, fixed, SourcePattern
  <2> QED
    BY <1>1, <1>2, <1>3, <2>1, <2>2, PatternsView
<1>5. \A j \in owed : home[j] \in found \/ n < SourcePattern
                      \/ (n = SourcePattern /\ home[j] \in todo)
  <2> SUFFICES ASSUME NEW j \in owed, home[j] \notin found, ~(n < SourcePattern)
               PROVE  n = SourcePattern /\ home[j] \in todo
    BY Zenon
  <2>1. n = SourcePattern /\ home[j] \in pass.todo
    BY <1>1, <1>3, <1>4 DEF LoopInv, OwedAhead
  <2>2. ASSUME home[j] = q PROVE FALSE
    <3>1. KeyExists(q, Patterns[n])
      BY <1>4, <2>1, <2>2, PatternsView DEF LoopInv, OwedStage, KeyExists
    <3> QED
      BY <1>1, <2>2, <3>1
  <2> QED
    BY <1>2, <2>1, <2>2
<1> HIDE DEF n
<1>6. CASE todo # {}
  <2>1. pass' = [step |-> "scan", pattern |-> n, todo |-> todo, seen |-> found]
    BY <1>3, <1>4, <1>6 DEF n
  <2>2. TypeOK'
    BY <1>3, <1>4, <1>6, <2>1, PatternsView DEF LoopInv, TypeOK, LTypeOK, store, fixed
  <2>3. OwedAhead'
    BY <1>3, <1>4, <1>5, <2>1 DEF OwedAhead, fixed
  <2> QED
    BY <1>3, <2>2, <2>3 DEF LoopInv, OwedStage, store, fixed, Source
<1>7. CASE todo = {} /\ n < 3 /\ found # Queue
  <2>1. pass' = [step |-> "scan", pattern |-> n + 1, todo |-> Queue \ found, seen |-> found]
    BY <1>3, <1>4, <1>7, PatternsView DEF Scanned, n
  <2>2. n + 1 \in 1..3 /\ Queue \ found # {}
    BY <1>4, <1>7
  <2>3. TypeOK'
    BY <1>3, <1>4, <2>1, <2>2, PatternsView DEF LoopInv, TypeOK, LTypeOK, store, fixed
  <2>4. \A j \in owed : home[j] \in found \/ n + 1 < SourcePattern
                        \/ (n + 1 = SourcePattern /\ home[j] \in Queue \ found)
    BY <1>4, <1>5, <1>7
  <2>5. OwedAhead'
    BY <1>3, <1>4, <2>1, <2>4 DEF OwedAhead, fixed
  <2> QED
    BY <1>3, <2>3, <2>5 DEF LoopInv, OwedStage, store, fixed, Source
<1>8. CASE todo = {} /\ ~(n < 3 /\ found # Queue)
  <2>1. \A j \in owed : home[j] \in found
    BY <1>4, <1>5, <1>8
  <2>2. pass' = IF found = {} THEN Idle
                ELSE [step |-> "drain", pattern |-> 1, todo |-> found, seen |-> {}]
    <3>1. ~(pass.pattern < Len(Patterns) /\ found # Queue)
      BY <1>8, PatternsView DEF n
    <3>2. pass' = IF found = {} THEN Idle ELSE [Idle EXCEPT !.step = "drain", !.todo = found]
      BY <1>3, <1>8, <3>1, Zenon DEF Scanned
    <3>3. ASSUME found # {}
          PROVE  pass' = [step |-> "drain", pattern |-> 1, todo |-> found, seen |-> {}]
      <4>1. pass' = [Idle EXCEPT !.step = "drain", !.todo = found]
        BY <3>2, <3>3
      <4> QED
        BY <4>1 DEF Idle
    <3> QED
      BY <3>2, <3>3
  <2>3. CASE found = {}
    <3>1. owed = {}
      BY <2>1, <2>3
    <3>2. StoreStep
      BY <1>3 DEF LoopInv, TypeOK, LTypeOK, StoreStep, store
    <3>3. leader' \in BOOLEAN /\ cuts' \in 0..MaxCuts /\ UNCHANGED fixed /\ owed' = {}
      BY <1>3, <3>1 DEF LoopInv, TypeOK
    <3> QED
      BY <2>2, <2>3, <3>2, <3>3, CutKeeps
  <2>4. CASE found # {}
    <3>1. TypeOK'
      BY <1>3, <1>4, <2>2, <2>4, PatternsView DEF LoopInv, TypeOK, LTypeOK, store, fixed
    <3>2. OwedAhead'
      BY <1>3, <2>1, <2>2, <2>4 DEF OwedAhead, fixed
    <3> QED
      BY <1>3, <3>1, <3>2 DEF LoopInv, OwedStage, store, fixed, Source
  <2> QED
    BY <2>3, <2>4
<1> QED
  BY <1>6, <1>7, <1>8

\* A drained queue owes nothing: a batch that was not full took all that was due.
LEMMA DrainKeeps ==
  ASSUME LoopInv, NEW q \in Queue, Drain(q)
  PROVE  LoopInv'
<1>1. PICK S \in SUBSET due :
        /\ Drained(q, loop, S)
        /\ owed' = {j \in owed \ S : home[j] = q => Cardinality(S) < DrainLimit}
  BY DEF Drain
<1>2. /\ pass.step = "drain" /\ q \in pass.todo
      /\ pass' = IF pass.todo = {q} THEN Idle ELSE [pass EXCEPT !.todo = pass.todo \ {q}]
      /\ UNCHANGED <<fixed, leader, cuts>>
  BY DEF Drain, NextQueues
<1>3. StoreStep /\ due' = due \ S
  BY <1>1, DrainedIsStoreStep DEF LoopInv, TypeOK
<1>4. \A j \in owed' : j \in owed /\ j \in due' /\ home[j] # q /\ home[j] \in pass.todo
  <2> SUFFICES ASSUME NEW j \in owed' PROVE j \in due' /\ home[j] # q /\ home[j] \in pass.todo
    BY <1>1
  <2>1. j \in owed /\ j \notin S /\ j \in due
    BY <1>1 DEF LoopInv, TypeOK
  <2>2. home[j] \in pass.todo
    BY <1>2, <2>1 DEF LoopInv, OwedAhead
  <2>3. ASSUME home[j] = q PROVE FALSE
    <3> DEFINE all == {i \in due : home[i] = q /\ stage[i] = Source(loop)}
    <3>1. j \in all
      BY <2>1, <2>3 DEF LoopInv, OwedStage
    <3>2. S = all \/ Cardinality(S) = DrainLimit
      BY <1>1 DEF Drained, Batches
    <3>3. Cardinality(S) < DrainLimit
      BY <1>1, <2>3
    <3> QED
      BY <2>1, <3>1, <3>2, <3>3, LoopsAssumption
  <2> QED
    BY <1>3, <2>1, <2>2, <2>3
<1>5. /\ pass = [step |-> "drain", pattern |-> pass.pattern, todo |-> pass.todo, seen |-> pass.seen]
      /\ pass.pattern \in DOMAIN Patterns /\ pass.todo \subseteq Queue /\ pass.seen \subseteq Queue
  BY <1>2 DEF LoopInv, TypeOK
<1>6. CASE pass.todo = {q}
  <2>1. owed' = {}
    BY <1>4, <1>6
  <2>2. leader' \in BOOLEAN /\ cuts' \in 0..MaxCuts /\ UNCHANGED fixed /\ pass' = Idle
    BY <1>2, <1>6 DEF LoopInv, TypeOK
  <2> QED
    BY <1>3, <2>1, <2>2, CutKeeps
<1>7. CASE pass.todo # {q}
  <2>1. /\ pass' = [step |-> "drain", pattern |-> pass.pattern, todo |-> pass.todo \ {q},
                    seen |-> pass.seen]
        /\ pass.todo \ {q} # {}
    BY <1>2, <1>5, <1>7
  <2>2. TypeOK'
    BY <1>2, <1>3, <1>4, <1>5, <2>1 DEF LoopInv, TypeOK, StoreStep, fixed
  <2>3. OwedStage'
    BY <1>2, <1>3, <1>4 DEF LoopInv, TypeOK, OwedStage, StoreStep, fixed, Source
  <2>4. OwedAhead'
    BY <1>2, <1>4, <2>1 DEF OwedAhead, fixed
  <2> QED
    BY <2>2, <2>3, <2>4 DEF LoopInv
<1> QED
  BY <1>6, <1>7

\* A drain that fails, executed or not, ends the pass.
LEMMA DrainFailsKeeps ==
  ASSUME LoopInv, NEW q \in Queue, DrainFails(q)
  PROVE  LoopInv'
<1>1. StoreStep
  <2>1. CASE UNCHANGED store
    BY <2>1 DEF LoopInv, TypeOK, LTypeOK, StoreStep, store
  <2>2. ASSUME NEW S \in SUBSET due, Drained(q, loop, S) PROVE StoreStep
    BY <2>2, DrainedIsStoreStep DEF LoopInv, TypeOK
  <2> QED
    BY <2>1, <2>2 DEF DrainFails
<1>2. /\ pass' = Idle /\ owed' = {} /\ UNCHANGED fixed
      /\ leader' \in BOOLEAN /\ cuts' \in 0..MaxCuts
  BY DEF DrainFails, LoopInv, TypeOK
<1> QED
  BY <1>1, <1>2, CutKeeps

\* Every step keeps the invariant.
LEMMA NextKeepsLoop ==
  ASSUME LoopInv, [Next]_vars
  PROVE  LoopInv'
<1>1. /\ leader \in BOOLEAN /\ cuts \in 0..MaxCuts /\ MaxCuts \in Nat /\ owed \subseteq due
  BY LoopsAssumption DEF LoopInv, TypeOK
<1>2. ASSUME UNCHANGED store PROVE StoreStep /\ due' = due
  BY <1>2 DEF LoopInv, TypeOK, LTypeOK, StoreStep, store
<1>3. CASE ScanFails \/ Crash
  <2>1. /\ UNCHANGED <<store, fixed>> /\ pass' = Idle /\ owed' = {}
        /\ leader' = leader \/ leader' = FALSE
    BY <1>3 DEF ScanFails, Crash
  <2>2. cuts < MaxCuts /\ cuts' = cuts + 1
    BY <1>3 DEF ScanFails, Crash
  <2>3. cuts' \in 0..MaxCuts
    BY <1>1, <2>2
  <2>4. leader' \in BOOLEAN
    BY <1>1, <2>1, Zenon
  <2> QED
    BY <1>2, <2>1, <2>3, <2>4, CutKeeps
<1>4. CASE Lead \/ StepDown \/ UNCHANGED vars
  <2>1. /\ UNCHANGED <<store, fixed, pass, cuts, owed>> /\ leader' \in BOOLEAN
    BY <1>1, <1>4 DEF Lead, StepDown, vars
  <2>2. owed' \subseteq owed \cap due'
    BY <1>1, <1>2, <2>1
  <2> QED
    BY <1>1, <1>2, <2>1, <2>2, SamePassKeeps
<1>5. CASE Environment
  <2>1. owed' = owed \cap due' /\ UNCHANGED <<fixed, leader, pass, cuts>>
    BY <1>5 DEF Environment
  <2> QED
    BY <1>1, <1>5, <2>1, EnvironmentIsStoreStep, SamePassKeeps
<1> QED
  BY <1>3, <1>4, <1>5, BeginKeeps, VisitKeeps, DrainKeeps, DrainFailsKeeps DEF Next

\* Nothing has begun.
LEMMA InitLoop ==
  ASSUME Init
  PROVE  LoopInv
<1>1. LTypeOK
  BY DEF Init, LInit, LTypeOK, Stage
<1>2. pass \in [step : {"idle", "scan", "drain"}, pattern : DOMAIN Patterns,
                todo : SUBSET Queue, seen : SUBSET Queue]
  BY PatternsView DEF Init, Idle
<1>3. cuts \in 0..MaxCuts
  BY LoopsAssumption DEF Init
<1>4. pass.step = "idle" /\ pass.todo = {} /\ leader \in BOOLEAN
  BY DEF Init, Idle
<1>5. TypeOK
  BY <1>1, <1>2, <1>3, <1>4 DEF Init, TypeOK
<1> QED
  BY <1>5 DEF Init, LoopInv, OwedStage, OwedAhead

\* The invariant holds throughout.
THEOREM LoopInvAlways == Spec => []LoopInv
<1>1. Init => LoopInv
  BY InitLoop
<1>2. LoopInv /\ [Next]_vars => LoopInv'
  BY NextKeepsLoop
<1> QED
  BY <1>1, <1>2, PTL DEF Spec

\* Type correctness: in particular a pass is under way exactly while it has
\* queues before it, and only leased and retried jobs are ever due.
THEOREM LoopTypeCorrect == Spec => []TypeOK
<1>1. LoopInv => TypeOK
  BY DEF LoopInv
<1> QED
  BY <1>1, LoopInvAlways, PTL

\* A pass that ends without an error has come to every queue with an expired
\* lease, or an elapsed retry, that was there when it began, although it looks
\* for queues with three SCANs while jobs move between the keys it scans for.
THEOREM PassesMissNothing == Spec => []PassLeavesNothingBehind
<1>1. LoopInv => PassLeavesNothingBehind
  BY DEF LoopInv, OwedAhead, PassLeavesNothingBehind
<1> QED
  BY <1>1, LoopInvAlways, PTL

\* A drain of any loop is a step of the lifecycle, or finds nothing due.
LEMMA DrainedFollowsLifecycle ==
  ASSUME NEW q, NEW l, NEW S \in SUBSET Job, Drained(q, l, S)
  PROVE  LNext \/ UNCHANGED <<stage, tries>>
BY DEF Drained, Requeue, LNext

\* So is every step of the loops and of everyone else.
LEMMA NextFollowsLifecycle ==
  ASSUME TypeOK, [Next]_vars
  PROVE  [LNext]_<<stage, tries>>
<1>1. SUBSET due \subseteq SUBSET Job
  BY DEF TypeOK
<1>2. ASSUME NEW q \in Queue, Drain(q) \/ DrainFails(q)
      PROVE  LNext \/ UNCHANGED <<stage, tries>>
  <2>1. (\E S \in SUBSET due : Drained(q, loop, S)) \/ UNCHANGED store
    BY <1>2 DEF Drain, DrainFails
  <2> QED
    BY <1>1, <2>1, DrainedFollowsLifecycle DEF store
<1>3. ASSUME Client PROVE LNext \/ UNCHANGED <<stage, tries>>
  <2>1. ASSUME NEW j \in Job, Finish({j}) PROVE LNext
    <3>1. {j} \in SUBSET Job
      OBVIOUS
    <3> QED
      BY <2>1, <3>1 DEF LNext
  <2>2. ASSUME NEW j \in Job, Accept(j) \/ UseAttempt({j}, "retry") PROVE LNext
    BY <2>2 DEF LNext
  <2>3. ASSUME NEW S \in SUBSET Job, Lease(S) PROVE LNext
    BY <2>3 DEF LNext
  <2> QED
    BY <1>3, <2>1, <2>2, <2>3 DEF Client
<1>4. ASSUME Environment PROVE LNext \/ UNCHANGED <<stage, tries>>
  <2>1. CASE Client
    BY <1>3, <2>1
  <2>2. CASE \E j \in Job : FallDue(j)
    BY <2>2 DEF FallDue
  <2>3. CASE DrainElsewhere
    BY <1>1, <2>3, DrainedFollowsLifecycle DEF DrainElsewhere
  <2> QED
    BY <1>4, <2>1, <2>2, <2>3 DEF Environment
<1>5. ASSUME \/ Begin \/ (\E q \in Queue : Visit(q)) \/ ScanFails \/ Crash \/ Lead \/ StepDown
             \/ UNCHANGED vars
      PROVE  UNCHANGED <<stage, tries>>
  BY <1>5 DEF Begin, Visit, ScanFails, Crash, Lead, StepDown, vars, store
<1> QED
  BY <1>2, <1>4, <1>5 DEF Next

\* Passes that fail half way, overlap with those of another leader or are repeated
\* move a job only along the README's state diagram.
THEOREM LoopsFollowLifecycle == Spec => LSpec
<1>1. Init => LInit
  BY DEF Init
<1>2. TypeOK /\ [Next]_vars => [LNext]_<<stage, tries>>
  BY NextFollowsLifecycle
<1> QED
  BY <1>1, <1>2, LoopTypeCorrect, PTL DEF Spec, LSpec
=============================================================================
