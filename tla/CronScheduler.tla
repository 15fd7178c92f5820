---------------------------- MODULE CronScheduler ----------------------------
(***************************************************************************)
(* internal/cogs/scheduler.go: recurring jobs.  Create and Delete are Redis*)
(* transactions.  A pass is not: it reads the due schedules, then one hash *)
(* after another, computes the next times with its own clock, and only the *)
(* script at its end is atomic.  Several replicas may be in a pass at once *)
(* (LeaderLock allows two leaders after a stall), a pass may be cut off    *)
(* anywhere, and schedules come and go in between.                         *)
(*                                                                         *)
(* The job a firing pushes is PushNewJob of JobStore; here it is counted.  *)
(***************************************************************************)
EXTENDS Redis

CONSTANTS
  Sched,        \* the schedule IDs NewID may return
  Cron,         \* cron expressions cronParser accepts
  Period,       \* how often each one matches; 0 if it never does (Feb 30)
  Replica,      \* replicas that run passes
  DrainLimit,   \* cfg.DrainLimit
  ReadMayFail,  \* whether an HGETALL may fail
  MaxSkew,      \* how far a replica's clock may be from the true time
  ClockMayStepBack,  \* whether a clock may be set back during a pass
  MaxTime,      \* bound: the clock stops here
  MaxAborts     \* bound: how many passes are cut off

ASSUME CronAssumption ==
  /\ IsFiniteSet(Sched)
  /\ Period \in [Cron -> Nat]
  /\ DrainLimit \in Nat
  /\ ReadMayFail \in BOOLEAN
  /\ MaxSkew \in Nat
  /\ ClockMayStepBack \in BOOLEAN
  /\ MaxTime \in Nat
  /\ MaxAborts \in Nat

VARIABLES
  hash,    \* schedule:{id}: the cron field of the hashes that exist
  index,   \* schedules, scored by next run
  pass,    \* what each replica's pass is doing
  now,     \* the true time
  aborts,  \* passes cut off so far
  used,    \* history: the schedule IDs handed out
  jobs,    \* history: how many jobs each schedule has pushed
  ran      \* history: the scores at which each schedule fired

vars == <<hash, index, pass, now, aborts, used, jobs, ran>>

-----------------------------------------------------------------------------
\* A pass: step is what it does next, clock the nowMS() it began with, read
\* its latest reading of the clock, todo the due schedules not yet looked at,
\* and next the time it would give each schedule it will try to fire.
Idle == [step |-> "idle", clock |-> 0, read |-> 0, todo |-> <<>>, next |-> EmptyZSet]

TypeOK ==
  /\ DOMAIN hash \subseteq Sched
  /\ hash \in [DOMAIN hash -> Cron]
  /\ IsZSet(index, Sched)
  /\ DOMAIN pass = Replica
  /\ \A r \in Replica :
       /\ pass[r].step \in {"idle", "load", "drop"}
       /\ ClockMayStepBack \/ pass[r].clock <= pass[r].read
       /\ pass[r].todo \in Seq(Sched) /\ IsInjective(pass[r].todo)
       /\ IsZSet(pass[r].next, Sched \ Range(pass[r].todo))
       /\ pass[r].step = "drop" => pass[r].todo # <<>>
  /\ now \in Nat
  /\ aborts \in 0..MaxAborts
  /\ used \subseteq Sched
  /\ jobs \in [Sched -> Nat]
  /\ ran \in [Sched -> SUBSET Nat]

\* Time starts after the zero time.Time, which any clock is past.
ZeroTime == 0

Init ==
  /\ hash = [s \in {} |-> CHOOSE c \in Cron : TRUE]
  /\ index = EmptyZSet
  /\ pass = [r \in Replica |-> Idle]
  /\ now = 1
  /\ aborts = 0
  /\ used = {}
  /\ jobs = [s \in Sched |-> 0]
  /\ ran = [s \in Sched |-> {}]

-----------------------------------------------------------------------------
\* What a replica's clock may show.
Reading == {t \in 1..(now + MaxSkew) : now <= t + MaxSkew}

\* sched.Next(t): the first match after t, and the zero time if there is none.
NextRun(c, t) ==
  IF Period[c] = 0 THEN ZeroTime ELSE (t \div Period[c] + 1) * Period[c]

\* Create: the hash and the index entry appear together.
Create(s, c, t) ==
  /\ s \notin used
  /\ used' = used \cup {s}
  /\ hash' = [x \in DOMAIN hash \cup {s} |-> IF x = s THEN c ELSE hash[x]]
  /\ index' = ZAdd(index, NextRun(c, t), {s})
  /\ UNCHANGED <<pass, now, aborts, jobs, ran>>

\* Bug: the index entry goes and the hash stays.
DeleteKeepsHash(s) ==
  /\ s \in DOMAIN hash
  /\ index' = ZRem(index, {s})
  /\ UNCHANGED <<hash, pass, now, aborts, used, jobs, ran>>

\* Delete: they disappear together.
Delete(s) ==
  /\ s \in DOMAIN hash
  /\ hash' = Restrict(hash, DOMAIN hash \ {s})
  /\ index' = ZRem(index, {s})
  /\ UNCHANGED <<pass, now, aborts, used, jobs, ran>>

-----------------------------------------------------------------------------
(***************************************************************************)
(* Pass, of replica r.                                                     *)
(***************************************************************************)
\* The range reads ZRANGEBYSCORE may answer with: no LIMIT if Count is 0.
DueBatches(t) ==
  IF DrainLimit = 0 THEN {DueBy(index, t)} ELSE LowestDue(index, t, DrainLimit)

\* The due schedules are read; a pass that finds none is over.
Begin(r, t) ==
  /\ pass[r].step = "idle"
  /\ \E due \in DueBatches(t) :
       /\ due # {}
       /\ \E s \in ScoreOrders(index, due) :
            pass' = [pass EXCEPT ![r] = [Idle EXCEPT !.step = "load", !.clock = t,
                                                     !.read = t, !.todo = s]]
  /\ UNCHANGED <<hash, index, now, aborts, used, jobs, ran>>

\* Bug: the loop looks at the same schedule again.
LoadStuck(r, t) ==
  LET s == Head(pass[r].todo)
  IN /\ pass[r].step = "load" /\ pass[r].todo # <<>>
     /\ s \in DOMAIN hash
     /\ ~ClockMayStepBack => t >= pass[r].read
     /\ pass' = [pass EXCEPT ![r].read = t, ![r].next = ZAdd(@, NextRun(hash[s], t), {s})]
     /\ UNCHANGED <<hash, index, now, aborts, used, jobs, ran>>

\* The hash of the next one is read, and its next time computed from time.Now,
\* a wall clock: only a clock that is not set back shows no less than before.
Load(r, t) ==
  LET s == Head(pass[r].todo)
  IN /\ pass[r].step = "load" /\ pass[r].todo # <<>>
     /\ s \in DOMAIN hash
     /\ ~ClockMayStepBack => t >= pass[r].read
     /\ pass' = [pass EXCEPT ![r].read = t, ![r].todo = Tail(@),
                             ![r].next = ZAdd(@, NextRun(hash[s], t), {s})]
     /\ UNCHANGED <<hash, index, now, aborts, used, jobs, ran>>

\* Bug: a schedule that is there is taken for an orphan.
GiveUpOnAny(r) ==
  /\ pass[r].step = "load" /\ pass[r].todo # <<>>
  /\ pass' = [pass EXCEPT ![r].step = "drop"]
  /\ UNCHANGED <<hash, index, now, aborts, used, jobs, ran>>

\* The hash is not there, or could not be read.
GiveUp(r) ==
  /\ pass[r].step = "load" /\ pass[r].todo # <<>>
  /\ Head(pass[r].todo) \notin DOMAIN hash \/ ReadMayFail
  /\ pass' = [pass EXCEPT ![r].step = "drop"]
  /\ UNCHANGED <<hash, index, now, aborts, used, jobs, ran>>

\* The entry is removed from the index.  An error of this ZREM goes unnoticed.
Drop(r) ==
  /\ pass[r].step = "drop"
  /\ \/ index' = ZRem(index, {Head(pass[r].todo)})
     \/ ReadMayFail /\ UNCHANGED index
  /\ pass' = [pass EXCEPT ![r].step = "load", ![r].todo = Tail(@)]
  /\ UNCHANGED <<hash, now, aborts, used, jobs, ran>>

\* Bug: due-ness is not checked again.
FiringUnchecked(p) == {s \in DOMAIN p.next : s \in DOMAIN hash}

\* Bug: neither the index entry nor the hash is looked for.
FiringBlindly(p) == DOMAIN p.next

\* The schedules scheduleDrainScript fires: still indexed, due by the pass's
\* clock, and with a queue.
Firing(p) ==
  {s \in DOMAIN p.next :
     s \in DOMAIN index /\ index[s] <= p.clock /\ s \in DOMAIN hash}

\* The script, once every due schedule has been looked at: a job and the next
\* time for each, in one step.
Fire(r) ==
  LET p == pass[r]
      firing == Firing(p)
  IN /\ p.step = "load" /\ p.todo = <<>>
     /\ pass' = [pass EXCEPT ![r] = Idle]
     /\ index' = [s \in DOMAIN index \cup firing |->
                    IF s \in firing THEN p.next[s] ELSE index[s]]
     /\ jobs' = [s \in Sched |-> IF s \in firing THEN jobs[s] + 1 ELSE jobs[s]]
     /\ ran' = [s \in Sched |->
                  IF s \in firing \cap DOMAIN index THEN ran[s] \cup {index[s]} ELSE ran[s]]
     /\ UNCHANGED <<hash, now, aborts, used>>

\* The pass ends early: its process stops, NewID fails, or the script does not
\* reach Redis.
Abort(r) ==
  /\ pass[r].step # "idle"
  /\ aborts < MaxAborts
  /\ aborts' = aborts + 1
  /\ pass' = [pass EXCEPT ![r] = Idle]
  /\ UNCHANGED <<hash, index, now, used, jobs, ran>>

Tick ==
  /\ now < MaxTime
  /\ now' = now + 1
  /\ UNCHANGED <<hash, index, pass, aborts, used, jobs, ran>>

Step(r) == (\E t \in Reading : Load(r, t)) \/ GiveUp(r) \/ Drop(r) \/ Fire(r)

Next ==
  \/ \E s \in Sched, c \in Cron, t \in Reading : Create(s, c, t)
  \/ \E s \in Sched : Delete(s)
  \/ \E r \in Replica, t \in Reading : Begin(r, t)
  \/ \E r \in Replica : Step(r)
  \/ \E r \in Replica : Abort(r)
  \/ Tick

Spec == Init /\ [][Next]_vars

\* Some replica leads and its scheduler loop ticks; a pass under way goes on.
Fairness ==
  /\ WF_vars(\E r \in Replica, t \in Reading : Begin(r, t))
  /\ \A r \in Replica : WF_vars(Step(r))

FairSpec == Spec /\ Fairness

-----------------------------------------------------------------------------
(***************************************************************************)
(* Properties.                                                             *)
(***************************************************************************)
\* One job per occurrence, however many leaders race for it: "the script's
\* ZADD is conditional on the schedule still being due, so two racing leaders
\* cannot both fire it".
OneJobPerOccurrence == \A s \in Sched : jobs[s] = Cardinality(ran[s])

\* A schedule fires only once its time has come, by the fastest clock, and a
\* firing moves it to a later time: missed runs are skipped, not replayed, and
\* a slow pass cannot move it back.
OccurrencesAdvance ==
  [][\A s \in DOMAIN index \cap DOMAIN index' :
       (jobs'[s] # jobs[s] \/ index'[s] # index[s]) =>
         index[s] <= now + MaxSkew /\ index'[s] > index[s]]_vars

\* A deleted schedule stays deleted: a pass that read it before the deletion
\* neither fires it nor puts it back in the index.
DeletedStaysDeleted ==
  [][\A s \in Sched \ DOMAIN hash :
       jobs'[s] = jobs[s] /\ (s \in DOMAIN index' => s \in DOMAIN hash')]_vars

\* What Pass drops is an "orphaned sorted-set entry with no hash behind it":
\* a schedule that was not deleted stays in the index.
LiveScheduleStaysIndexed == DOMAIN hash \subseteq DOMAIN index

\* A due schedule is fired, unless it is deleted first, although passes are cut
\* off and race with each other.
DueScheduleFires ==
  \A s \in Sched :
    (s \in DOMAIN index /\ index[s] <= now)
      ~> (s \notin DOMAIN hash \/ (s \in DOMAIN index /\ index[s] > now))
=============================================================================
