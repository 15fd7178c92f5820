------------------------ MODULE CronSchedulerProofs ------------------------
(***************************************************************************)
(* Proofs about CronScheduler, for any schedules, expressions, replicas    *)
(* and clocks.                                                             *)
(***************************************************************************)
EXTENDS CronScheduler, RedisProofs

-----------------------------------------------------------------------------
(***************************************************************************)
(* The invariant of the index and the passes.  What a pass remembers may   *)
(* be stale, but only in one direction: the IDs it has read were handed    *)
(* out, so none of them can be created again behind its back, and its      *)
(* clock was never further ahead than clocks may be.                       *)
(***************************************************************************)
ZSetOfSched == UNION {[D -> Nat] : D \in SUBSET Sched}

PassRec == [step : {"idle", "load", "drop"}, clock : Nat, read : Nat,
            todo : Seq(Sched), next : ZSetOfSched]

\* A pass p that is possible when h is the hashes, u the IDs handed out, n the time.
GoodPass(p, h, u, n) ==
  /\ p \in PassRec
  /\ ~ClockMayStepBack => p.clock <= p.read
  /\ IsInjective(p.todo)
  /\ IsZSet(p.next, Sched \ Range(p.todo))
  /\ p.step = "drop" => p.todo # <<>>
  /\ p.clock <= n + MaxSkew
  /\ Range(p.todo) \subseteq u
  /\ (p.step = "drop" /\ ~ReadMayFail) => Head(p.todo) \notin DOMAIN h

GoodIndex ==
  /\ DOMAIN hash \subseteq used
  /\ hash \in [DOMAIN hash -> Cron]
  /\ IsZSet(index, Sched)
  /\ DOMAIN index \subseteq DOMAIN hash
  /\ ~ReadMayFail => LiveScheduleStaysIndexed
  /\ now \in Nat
  /\ aborts \in 0..MaxAborts
  /\ used \subseteq Sched
  /\ jobs \in [Sched -> Nat]
  /\ ran \in [Sched -> SUBSET Nat]

CronInv ==
  /\ GoodIndex
  /\ DOMAIN pass = Replica
  /\ \A r \in Replica : GoodPass(pass[r], hash, used, now)

(***************************************************************************)
(* The invariant of the occurrences.  A schedule has fired only at times   *)
(* before the one it is indexed under, and what a pass would index it      *)
(* under is after the clock by which that pass will find it due.           *)
(***************************************************************************)
NextIsLater ==
  \A r \in Replica : \A s \in DOMAIN pass[r].next : pass[r].next[s] > pass[r].clock

RanBefore ==
  /\ \A s \in DOMAIN index : \A t \in ran[s] : t < index[s]
  /\ \A s \in Sched \ used : ran[s] = {}
  /\ \A s \in Sched : IsFiniteSet(ran[s])

OccurrenceInv == NextIsLater /\ RanBefore /\ OneJobPerOccurrence

-----------------------------------------------------------------------------
(***************************************************************************)
(* Lemmas about the operators.                                             *)
(***************************************************************************)
\* A sorted set of schedules is one of those a pass may carry.
LEMMA ZSetMember ==
  ASSUME NEW z, IsZSet(z, Sched)
  PROVE  z \in ZSetOfSched
BY DEF IsZSet, ZSetOfSched

\* sched.Next returns a time, and one after its argument if there is a match.
LEMMA NextRunView ==
  ASSUME NEW c \in Cron, NEW t \in Nat
  PROVE  /\ NextRun(c, t) \in Nat
         /\ Period[c] > 0 => NextRun(c, t) > t
<1> DEFINE P == Period[c]
<1>1. P \in Nat
  BY CronAssumption
<1>2. CASE P = 0
  BY <1>2 DEF NextRun, ZeroTime
<1>3. CASE P # 0
  <2> HIDE DEF P
  <2>1. t \div P \in Nat
    BY <1>1, <1>3, SMT
  <2>2. t < (t \div P) * P + P
    BY <1>1, <1>3, SMT
  <2>3. (t \div P + 1) * P = (t \div P) * P + P /\ (t \div P) * P \in Nat
    BY <1>1, <2>1
  <2>4. (t \div P + 1) * P \in Nat /\ (t \div P + 1) * P > t
    BY <1>1, <2>1, <2>2, <2>3
  <2>5. NextRun(c, t) = (t \div P + 1) * P
    BY <1>3 DEF NextRun, P
  <2> QED
    BY <2>4, <2>5
<1> QED
  BY <1>2, <1>3

\* A pass that has not begun is possible at any time.
LEMMA IdleIsGood ==
  ASSUME NEW h, NEW u, NEW n \in Nat
  PROVE  GoodPass(Idle, h, u, n)
<1>1. /\ Idle.step = "idle" /\ Idle.clock = 0 /\ Idle.read = 0
      /\ Idle.todo = <<>> /\ Idle.next = EmptyZSet
  BY DEF Idle
<1>2. <<>> \in Seq(Sched) /\ IsInjective(<<>>) /\ Range(<<>>) = {}
  BY DEF IsInjective, Range
<1>3. IsZSet(EmptyZSet, Sched)
  BY DEF IsZSet, EmptyZSet
<1>4. Idle \in PassRec
  BY <1>2, <1>3, ZSetMember DEF Idle, PassRec
<1>5. IsZSet(EmptyZSet, Sched \ Range(<<>>))
  BY <1>2, <1>3
<1> QED
  BY <1>1, <1>2, <1>4, <1>5, CronAssumption DEF GoodPass

\* Passes under way stay possible while time passes, IDs are handed out and
\* hashes go, and whatever hashes come under IDs that are new.
LEMMA StaysGood ==
  ASSUME NEW p, NEW h, NEW u, NEW n \in Nat, GoodPass(p, h, u, n),
         NEW h2, NEW u2, NEW n2 \in Nat, n <= n2, u \subseteq u2,
         \A s \in u : s \in DOMAIN h2 => s \in DOMAIN h
  PROVE  GoodPass(p, h2, u2, n2)
<1>1. p.clock \in Nat /\ p.todo \in Seq(Sched)
  BY DEF GoodPass, PassRec
<1>2. p.clock <= n2 + MaxSkew
  BY <1>1, CronAssumption DEF GoodPass
<1>3. (p.step = "drop" /\ ~ReadMayFail) => Head(p.todo) \notin DOMAIN h2
  BY <1>1, TailView DEF GoodPass
<1> QED
  BY <1>2, <1>3 DEF GoodPass

-----------------------------------------------------------------------------
(***************************************************************************)
(* Each action keeps the first invariant.                                  *)
(***************************************************************************)
\* No schedules, and no pass under way.
LEMMA InitCronInv ==
  ASSUME Init
  PROVE  CronInv
<1>1. GoodIndex
  BY CronAssumption DEF Init, GoodIndex, IsZSet, EmptyZSet, LiveScheduleStaysIndexed
<1>2. DOMAIN pass = Replica /\ \A r \in Replica : pass[r] = Idle
  BY DEF Init
<1>3. now \in Nat
  BY DEF Init
<1> QED
  BY <1>1, <1>2, <1>3, IdleIsGood DEF CronInv

\* Clocks show times.
LEMMA ReadingView ==
  ASSUME CronInv, NEW t \in Reading
  PROVE  t \in Nat /\ t <= now + MaxSkew
BY CronAssumption DEF CronInv, GoodIndex, Reading

\* A schedule is created under a new ID, which no pass can have read.
LEMMA CreateKeeps ==
  ASSUME CronInv, NEW s \in Sched, NEW c \in Cron, NEW t \in Reading, Create(s, c, t)
  PROVE  CronInv'
<1>1. GoodIndex /\ DOMAIN pass = Replica /\ \A r \in Replica : GoodPass(pass[r], hash, used, now)
  BY DEF CronInv
<1>2. /\ s \notin used /\ used' = used \cup {s}
      /\ hash' = [x \in DOMAIN hash \cup {s} |-> IF x = s THEN c ELSE hash[x]]
      /\ index' = ZAdd(index, NextRun(c, t), {s})
      /\ UNCHANGED <<pass, now, aborts, jobs, ran>>
  BY DEF Create
<1>3. /\ IsZSet(index', Sched) /\ DOMAIN index' = DOMAIN index \cup {s}
  <2>1. NextRun(c, t) \in Nat
    BY ReadingView, NextRunView
  <2>2. IsZSet(index, Sched) /\ {s} \in SUBSET Sched
    BY <1>1 DEF GoodIndex
  <2> QED
    BY <1>2, <2>1, <2>2, ZAddView
<1>4. GoodIndex'
  <2>1. DOMAIN hash' = DOMAIN hash \cup {s} /\ hash' \in [DOMAIN hash' -> Cron]
    BY <1>1, <1>2 DEF GoodIndex
  <2> QED
    BY <1>1, <1>2, <1>3, <2>1 DEF GoodIndex, LiveScheduleStaysIndexed
<1>5. \A x \in used : x \in DOMAIN hash' => x \in DOMAIN hash
  BY <1>2
<1>6. now \in Nat /\ used \subseteq used'
  BY <1>1, <1>2 DEF GoodIndex
<1>7. ASSUME NEW r \in Replica PROVE GoodPass(pass[r], hash', used', now')
  BY <1>1, <1>2, <1>5, <1>6, StaysGood
<1> QED
  BY <1>1, <1>2, <1>4, <1>7 DEF CronInv

\* A deletion takes the hash and the entry.
LEMMA DeleteKeeps ==
  ASSUME CronInv, NEW s \in Sched, Delete(s)
  PROVE  CronInv'
<1>1. GoodIndex /\ DOMAIN pass = Replica /\ \A r \in Replica : GoodPass(pass[r], hash, used, now)
  BY DEF CronInv
<1>2. /\ hash' = [x \in DOMAIN hash \ {s} |-> hash[x]]
      /\ index' = ZRem(index, {s})
      /\ UNCHANGED <<pass, now, aborts, used, jobs, ran>>
  BY DEF Delete, Restrict
<1>3. IsZSet(index', Sched) /\ DOMAIN index' = DOMAIN index \ {s}
  <2>1. IsZSet(index, Sched) /\ {s} \in SUBSET Sched
    BY <1>1 DEF GoodIndex
  <2> QED
    BY <1>2, <2>1, ZRemView
<1>4. DOMAIN hash' = DOMAIN hash \ {s} /\ hash' \in [DOMAIN hash' -> Cron]
  BY <1>1, <1>2 DEF GoodIndex
<1>5. GoodIndex'
  BY <1>1, <1>2, <1>3, <1>4 DEF GoodIndex, LiveScheduleStaysIndexed
<1>6. now \in Nat
  BY <1>1 DEF GoodIndex
<1>7. ASSUME NEW r \in Replica PROVE GoodPass(pass[r], hash', used', now')
  BY <1>1, <1>2, <1>4, <1>6, StaysGood
<1> QED
  BY <1>1, <1>2, <1>5, <1>7 DEF CronInv

\* A step that changes one pass and neither the index nor what it stands for.
LEMMA OnePassChanges ==
  ASSUME CronInv, NEW r \in Replica, NEW p, GoodPass(p, hash, used, now),
         pass' = [pass EXCEPT ![r] = p],
         UNCHANGED <<hash, index, now, used, jobs, ran>>, aborts' \in 0..MaxAborts
  PROVE  CronInv'
<1>1. GoodIndex'
  BY DEF CronInv, GoodIndex, LiveScheduleStaysIndexed
<1>2. DOMAIN pass' = Replica
  BY DEF CronInv
<1>3. ASSUME NEW x \in Replica PROVE GoodPass(pass'[x], hash', used', now')
  BY DEF CronInv
<1> QED
  BY <1>1, <1>2, <1>3 DEF CronInv

\* What a pass finds due is in the index, so its IDs were handed out.
LEMMA BeginKeeps ==
  ASSUME CronInv, NEW r \in Replica, NEW t \in Reading, Begin(r, t)
  PROVE  CronInv'
<1>1. GoodIndex /\ t \in Nat /\ t <= now + MaxSkew /\ now \in Nat
  BY ReadingView DEF CronInv, GoodIndex
<1>2. PICK due \in DueBatches(t) : \E s \in ScoreOrders(index, due) :
        pass' = [pass EXCEPT ![r] = [Idle EXCEPT !.step = "load", !.clock = t,
                                                 !.read = t, !.todo = s]]
  BY DEF Begin
<1>2a. PICK s \in ScoreOrders(index, due) :
        pass' = [pass EXCEPT ![r] = [Idle EXCEPT !.step = "load", !.clock = t,
                                                 !.read = t, !.todo = s]]
  BY <1>2
<1>3. due \subseteq DOMAIN index
  BY <1>2, LowestDueView DEF DueBatches, DueBy
<1>4. due \subseteq Sched /\ due \subseteq used /\ IsFiniteSet(due)
  BY <1>1, <1>3, CronAssumption, FS_Subset DEF GoodIndex
<1>5. s \in Seq(due) /\ Range(s) = due /\ IsInjective(s)
  BY <1>2a, <1>4, ScoreOrdersView
<1>6. s \in Seq(Sched)
  BY <1>4, <1>5
<1> DEFINE p == [Idle EXCEPT !.step = "load", !.clock = t, !.read = t, !.todo = s]
<1>7. GoodPass(Idle, hash, used, now)
  BY <1>1, IdleIsGood
<1>8. /\ p \in PassRec /\ p.step = "load" /\ p.clock = t /\ p.read = t /\ p.todo = s
      /\ p.next = EmptyZSet
  BY <1>1, <1>6, <1>7 DEF GoodPass, PassRec, Idle
<1>9. IsZSet(EmptyZSet, Sched \ Range(s))
  BY DEF IsZSet, EmptyZSet
<1>10. pass' = [pass EXCEPT ![r] = p]
  BY <1>2a
<1> HIDE DEF p
<1>11. GoodPass(p, hash, used, now)
  BY <1>1, <1>4, <1>5, <1>8, <1>9 DEF GoodPass
<1>12. UNCHANGED <<hash, index, now, used, jobs, ran>> /\ aborts' \in 0..MaxAborts
  BY <1>1 DEF Begin, GoodIndex
<1> QED
  BY <1>10, <1>11, <1>12, OnePassChanges

\* A hash is read, and the next one is up.
LEMMA LoadKeeps ==
  ASSUME CronInv, NEW r \in Replica, NEW t \in Reading, Load(r, t)
  PROVE  CronInv'
<1> DEFINE p == pass[r]
           s == Head(p.todo)
           z == ZAdd(p.next, NextRun(hash[s], t), {s})
           q == [p EXCEPT !.read = t, !.todo = Tail(p.todo), !.next = z]
<1>1. GoodIndex /\ t \in Nat /\ GoodPass(p, hash, used, now)
  BY ReadingView DEF CronInv
<1>2. /\ p.step = "load" /\ p.todo # <<>> /\ s \in DOMAIN hash
      /\ ~ClockMayStepBack => t >= p.read
      /\ UNCHANGED <<hash, index, now, used, jobs, ran>> /\ aborts' \in 0..MaxAborts
  BY <1>1 DEF Load, GoodIndex
<1>3. /\ p \in PassRec /\ p.todo \in Seq(Sched) /\ IsInjective(p.todo)
      /\ IsZSet(p.next, Sched \ Range(p.todo))
      /\ p.clock \in Nat /\ p.read \in Nat
      /\ ~ClockMayStepBack => p.clock <= p.read
      /\ p.clock <= now + MaxSkew /\ Range(p.todo) \subseteq used
  BY <1>1 DEF GoodPass, PassRec
<1>4. /\ Tail(p.todo) \in Seq(Sched) /\ IsInjective(Tail(p.todo)) /\ s \in Sched
      /\ Range(p.todo) = {s} \cup Range(Tail(p.todo)) /\ s \notin Range(Tail(p.todo))
  BY <1>2, <1>3, TailView
<1>5. pass' = [pass EXCEPT ![r] = q]
  BY <1>3 DEF Load, PassRec
<1>6. NextRun(hash[s], t) \in Nat
  BY <1>1, <1>2, NextRunView DEF GoodIndex
<1> HIDE DEF p, s
<1>7. IsZSet(z, Sched \ Range(Tail(p.todo)))
  <2>1. IsZSet(p.next, Sched \ Range(Tail(p.todo))) /\ {s} \in SUBSET (Sched \ Range(Tail(p.todo)))
    BY <1>3, <1>4 DEF IsZSet
  <2> QED
    BY <1>6, <2>1, ZAddView
<1>8. IsZSet(z, Sched)
  BY <1>7 DEF IsZSet
<1>9. z \in ZSetOfSched
  BY <1>8, ZSetMember
<1> HIDE DEF z
<1>10. /\ q \in PassRec /\ q.step = "load" /\ q.clock = p.clock /\ q.read = t
       /\ q.todo = Tail(p.todo) /\ q.next = z
  BY <1>1, <1>2, <1>3, <1>4, <1>9 DEF PassRec
<1> HIDE DEF q
<1>11. GoodPass(q, hash, used, now)
  BY <1>1, <1>2, <1>3, <1>4, <1>7, <1>10 DEF GoodPass
<1> QED
  BY <1>2, <1>5, <1>11, OnePassChanges

\* A schedule is given up on: if reads do not fail, its hash is gone.
LEMMA GiveUpKeeps ==
  ASSUME CronInv, NEW r \in Replica, GiveUp(r)
  PROVE  CronInv'
<1> DEFINE p == pass[r]
           q == [p EXCEPT !.step = "drop"]
<1>1. GoodIndex /\ GoodPass(p, hash, used, now)
  BY DEF CronInv
<1>2. /\ p.todo # <<>> /\ (~ReadMayFail => Head(p.todo) \notin DOMAIN hash)
      /\ UNCHANGED <<hash, index, now, used, jobs, ran>> /\ aborts' \in 0..MaxAborts
      /\ pass' = [pass EXCEPT ![r] = q]
  BY <1>1 DEF GiveUp, GoodIndex
<1>3. /\ q \in PassRec /\ q.clock = p.clock /\ q.read = p.read
      /\ q.todo = p.todo /\ q.next = p.next /\ q.step = "drop"
  BY <1>1 DEF GoodPass, PassRec
<1> HIDE DEF p, q
<1>4. GoodPass(q, hash, used, now)
  BY <1>1, <1>2, <1>3 DEF GoodPass
<1> QED
  BY <1>2, <1>4, OnePassChanges

\* An entry is dropped.
LEMMA DropKeeps ==
  ASSUME CronInv, NEW r \in Replica, Drop(r)
  PROVE  CronInv'
<1> DEFINE p == pass[r]
           s == Head(p.todo)
           q == [p EXCEPT !.step = "load", !.todo = Tail(p.todo)]
<1>1. /\ GoodIndex /\ DOMAIN pass = Replica
      /\ \A x \in Replica : GoodPass(pass[x], hash, used, now)
  BY DEF CronInv
<1>2. /\ p.step = "drop" /\ pass' = [pass EXCEPT ![r] = q]
      /\ index' = ZRem(index, {s}) \/ (ReadMayFail /\ index' = index)
      /\ UNCHANGED <<hash, now, aborts, used, jobs, ran>>
  BY DEF Drop
<1>3. /\ p \in PassRec /\ p.todo \in Seq(Sched) /\ IsInjective(p.todo) /\ p.todo # <<>>
      /\ IsZSet(p.next, Sched \ Range(p.todo))
      /\ ~ClockMayStepBack => p.clock <= p.read
      /\ p.clock <= now + MaxSkew /\ Range(p.todo) \subseteq used
      /\ ~ReadMayFail => s \notin DOMAIN hash
  BY <1>1, <1>2 DEF GoodPass, PassRec
<1>4. /\ Tail(p.todo) \in Seq(Sched) /\ IsInjective(Tail(p.todo))
      /\ Range(Tail(p.todo)) \subseteq Range(p.todo)
  BY <1>3, TailView
<1>5. /\ q \in PassRec /\ q.clock = p.clock /\ q.read = p.read
      /\ q.todo = Tail(p.todo) /\ q.next = p.next /\ q.step = "load"
  BY <1>3, <1>4 DEF PassRec
<1> HIDE DEF p, q, s
<1>6. IsZSet(p.next, Sched \ Range(Tail(p.todo)))
  BY <1>3, <1>4 DEF IsZSet
<1>7. GoodPass(q, hash, used, now)
  BY <1>3, <1>4, <1>5, <1>6 DEF GoodPass
<1>8. GoodIndex'
  <2>1. IsZSet(index, Sched)
    BY <1>1 DEF GoodIndex
  <2>2. CASE index' = ZRem(index, {s})
    <3>1. IsZSet(index', Sched) /\ DOMAIN index' = DOMAIN index \ {s}
      BY <2>1, <2>2, ZRemView
    <3> QED
      BY <1>1, <1>2, <1>3, <3>1 DEF GoodIndex, LiveScheduleStaysIndexed
  <2>3. CASE index' = index
    BY <1>1, <1>2, <2>3 DEF GoodIndex, LiveScheduleStaysIndexed
  <2> QED
    BY <1>2, <2>2, <2>3
<1>9. ASSUME NEW x \in Replica PROVE GoodPass(pass'[x], hash', used', now')
  BY <1>1, <1>2, <1>7
<1> QED
  BY <1>1, <1>2, <1>8, <1>9 DEF CronInv

\* What Fire does to the index: the schedules it fires keep their entry and get
\* the time the pass computed.
LEMMA FireView ==
  ASSUME CronInv, NEW r \in Replica, Fire(r)
  PROVE  LET p == pass[r]
             firing == Firing(p)
         IN /\ firing \subseteq DOMAIN index /\ firing \subseteq DOMAIN hash
            /\ \A s \in firing : s \in DOMAIN p.next /\ index[s] <= p.clock
            /\ \A s \in DOMAIN p.next : p.next[s] \in Nat
            /\ p.clock \in Nat /\ p.clock <= now + MaxSkew
            /\ DOMAIN index' = DOMAIN index
            /\ \A s \in DOMAIN index : index[s] \in Nat /\ s \in Sched
            /\ \A s \in DOMAIN index : index'[s] = IF s \in firing THEN p.next[s] ELSE index[s]
            /\ IsZSet(index', Sched)
            /\ jobs' = [s \in Sched |-> IF s \in firing THEN jobs[s] + 1 ELSE jobs[s]]
            /\ ran' = [s \in Sched |-> IF s \in firing THEN ran[s] \cup {index[s]} ELSE ran[s]]
<1> DEFINE p == pass[r]
           firing == Firing(p)
<1>1. GoodIndex /\ GoodPass(p, hash, used, now)
  BY DEF CronInv
<1>2. /\ firing \subseteq DOMAIN index /\ firing \subseteq DOMAIN hash
      /\ \A s \in firing : s \in DOMAIN p.next /\ index[s] <= p.clock
  BY DEF Firing
<1>3. /\ index' = [s \in DOMAIN index \cup firing |->
                     IF s \in firing THEN p.next[s] ELSE index[s]]
      /\ jobs' = [s \in Sched |-> IF s \in firing THEN jobs[s] + 1 ELSE jobs[s]]
      /\ ran' = [s \in Sched |->
                   IF s \in firing \cap DOMAIN index THEN ran[s] \cup {index[s]} ELSE ran[s]]
  BY DEF Fire
<1>4. /\ p.clock \in Nat /\ p.clock <= now + MaxSkew
      /\ \A s \in DOMAIN p.next : p.next[s] \in Nat
      /\ \A s \in DOMAIN index : index[s] \in Nat /\ s \in Sched
  BY <1>1 DEF GoodPass, PassRec, GoodIndex, IsZSet
<1> HIDE DEF p, firing
<1>5. DOMAIN index \cup firing = DOMAIN index /\ firing \cap DOMAIN index = firing
  BY <1>2
<1>6. /\ DOMAIN index' = DOMAIN index
      /\ \A s \in DOMAIN index : index'[s] = IF s \in firing THEN p.next[s] ELSE index[s]
      /\ index' = [s \in DOMAIN index |-> IF s \in firing THEN p.next[s] ELSE index[s]]
  BY <1>3, <1>5
<1>7. IsZSet(index', Sched)
  BY <1>2, <1>4, <1>6 DEF IsZSet
<1>8. ran' = [s \in Sched |-> IF s \in firing THEN ran[s] \cup {index[s]} ELSE ran[s]]
  BY <1>3, <1>5
<1> QED
  BY <1>2, <1>3, <1>4, <1>6, <1>7, <1>8 DEF p, firing

\* The script keeps the invariant: it adds no entry.
LEMMA FireKeeps ==
  ASSUME CronInv, NEW r \in Replica, Fire(r)
  PROVE  CronInv'
<1> DEFINE firing == Firing(pass[r])
<1>1. /\ GoodIndex /\ DOMAIN pass = Replica
      /\ \A x \in Replica : GoodPass(pass[x], hash, used, now)
  BY DEF CronInv
<1>2. /\ pass' = [pass EXCEPT ![r] = Idle] /\ UNCHANGED <<hash, now, aborts, used>>
      /\ now \in Nat
  BY <1>1 DEF Fire, GoodIndex
<1>3. /\ DOMAIN index' = DOMAIN index /\ IsZSet(index', Sched)
      /\ jobs' = [s \in Sched |-> IF s \in firing THEN jobs[s] + 1 ELSE jobs[s]]
      /\ ran' = [s \in Sched |-> IF s \in firing THEN ran[s] \cup {index[s]} ELSE ran[s]]
      /\ \A s \in firing : index[s] \in Nat
  BY FireView
<1> HIDE DEF firing
<1>4. jobs' \in [Sched -> Nat] /\ ran' \in [Sched -> SUBSET Nat]
  BY <1>1, <1>3 DEF GoodIndex
<1>5. GoodIndex'
  BY <1>1, <1>2, <1>3, <1>4 DEF GoodIndex, LiveScheduleStaysIndexed
<1>6. ASSUME NEW x \in Replica PROVE GoodPass(pass'[x], hash', used', now')
  BY <1>1, <1>2, IdleIsGood
<1> QED
  BY <1>1, <1>2, <1>5, <1>6 DEF CronInv

\* Every step keeps the invariant.
LEMMA NextKeepsCron ==
  ASSUME CronInv, [Next]_vars
  PROVE  CronInv'
<1>1. ASSUME NEW s \in Sched, NEW c \in Cron, NEW t \in Reading, Create(s, c, t) PROVE CronInv'
  BY <1>1, CreateKeeps
<1>2. ASSUME NEW s \in Sched, Delete(s) PROVE CronInv'
  BY <1>2, DeleteKeeps
<1>3. ASSUME NEW r \in Replica, NEW t \in Reading, Begin(r, t) PROVE CronInv'
  BY <1>3, BeginKeeps
<1>4. ASSUME NEW r \in Replica, Step(r) PROVE CronInv'
  BY <1>4, LoadKeeps, GiveUpKeeps, DropKeeps, FireKeeps DEF Step
<1>5. ASSUME NEW r \in Replica, Abort(r) PROVE CronInv'
  <2>1. /\ pass' = [pass EXCEPT ![r] = Idle] /\ UNCHANGED <<hash, index, now, used, jobs, ran>>
        /\ aborts' \in 0..MaxAborts /\ now \in Nat
    BY <1>5, CronAssumption DEF Abort, CronInv, GoodIndex
  <2>2. GoodPass(Idle, hash, used, now)
    BY <2>1, IdleIsGood
  <2> QED
    BY <2>1, <2>2, OnePassChanges
<1>6. CASE Tick
  <2>1. /\ now' = now + 1 /\ now \in Nat /\ now' \in Nat
        /\ UNCHANGED <<hash, index, pass, aborts, used, jobs, ran>>
    BY <1>6 DEF Tick, CronInv, GoodIndex
  <2>2. GoodIndex'
    BY <2>1 DEF CronInv, GoodIndex, LiveScheduleStaysIndexed
  <2>3. ASSUME NEW r \in Replica PROVE GoodPass(pass[r], hash', used', now')
    BY <2>1, StaysGood DEF CronInv
  <2> QED
    BY <2>1, <2>2, <2>3 DEF CronInv
<1>7. CASE UNCHANGED vars
  BY <1>7 DEF vars, CronInv, GoodIndex, LiveScheduleStaysIndexed
<1> QED
  BY <1>1, <1>2, <1>3, <1>4, <1>5, <1>6, <1>7 DEF Next

-----------------------------------------------------------------------------
(***************************************************************************)
(* Each action keeps the invariant of the occurrences, if every expression *)
(* has a next match and clocks are not set back during a pass.  One that   *)
(* has no match is scored with the zero time, is due for ever and fires in *)
(* every pass; a clock set back gives a schedule a next time that is not   *)
(* after the one at which it fires.                                        *)
(***************************************************************************)
EveryCronMatches == \A c \in Cron : Period[c] > 0

\* No schedule has fired.
LEMMA InitOccurrences ==
  ASSUME Init
  PROVE  OccurrenceInv
<1>1. \A r \in Replica : DOMAIN pass[r].next = {}
  BY DEF Init, Idle, EmptyZSet
<1>2. DOMAIN index = {} /\ ran = [s \in Sched |-> {}] /\ jobs = [s \in Sched |-> 0]
  BY DEF Init, EmptyZSet
<1> QED
  BY <1>1, <1>2, FS_EmptySet DEF OccurrenceInv, NextIsLater, RanBefore, OneJobPerOccurrence

\* The time a pass computes is after its latest reading of the clock, which is
\* not before the one it began with.
LEMMA LoadKeepsOccurrences ==
  ASSUME EveryCronMatches, ~ClockMayStepBack, CronInv, OccurrenceInv,
         NEW r \in Replica, NEW t \in Reading, Load(r, t)
  PROVE  NextIsLater'
<1> DEFINE p == pass[r]
           s == Head(p.todo)
           m == NextRun(hash[s], t)
<1>1. /\ t \in Nat /\ p.clock \in Nat /\ p.read \in Nat /\ p.clock <= p.read /\ t >= p.read
      /\ p \in PassRec
  BY ReadingView DEF CronInv, GoodPass, PassRec, Load
<1>2. m \in Nat /\ m > t
  <2>1. hash[s] \in Cron
    BY DEF CronInv, GoodIndex, Load
  <2> QED
    BY <1>1, <2>1, NextRunView DEF EveryCronMatches
<1>3. m > p.clock
  BY <1>1, <1>2
<1>4. /\ pass'[r].clock = p.clock /\ pass'[r].next = ZAdd(p.next, m, {s})
      /\ \A x \in Replica \ {r} : pass'[x] = pass[x]
  BY <1>1 DEF Load, CronInv, PassRec
<1> HIDE DEF p, s, m
<1>5. \A x \in DOMAIN pass'[r].next : pass'[r].next[x] = m \/ (x \in DOMAIN p.next /\ pass'[r].next[x] = p.next[x])
  BY <1>4 DEF ZAdd
<1>6. \A x \in DOMAIN p.next : p.next[x] > p.clock
  BY DEF OccurrenceInv, NextIsLater, p
<1>7. \A x \in DOMAIN pass'[r].next : pass'[r].next[x] > pass'[r].clock
  BY <1>3, <1>4, <1>5, <1>6
<1> QED
  BY <1>4, <1>7 DEF OccurrenceInv, NextIsLater

\* A pass that starts over carries no times.
LEMMA FreshPassIsLater ==
  ASSUME CronInv, NextIsLater, NEW r \in Replica, NEW p, DOMAIN p.next = {},
         pass' = [pass EXCEPT ![r] = p]
  PROVE  NextIsLater'
BY DEF CronInv, NextIsLater

\* A firing is at a time at which the schedule has not fired.
LEMMA FireKeepsOccurrences ==
  ASSUME CronInv, OccurrenceInv, NEW r \in Replica, Fire(r)
  PROVE  OccurrenceInv'
<1> DEFINE p == pass[r]
           firing == Firing(p)
<1>1. /\ NextIsLater /\ RanBefore /\ OneJobPerOccurrence /\ GoodIndex
  BY DEF CronInv, OccurrenceInv
<1>2. /\ firing \subseteq DOMAIN index /\ firing \subseteq DOMAIN hash
      /\ \A s \in firing : s \in DOMAIN p.next /\ index[s] <= p.clock
      /\ \A s \in DOMAIN p.next : p.next[s] \in Nat
      /\ p.clock \in Nat
      /\ DOMAIN index' = DOMAIN index
      /\ \A s \in DOMAIN index : index[s] \in Nat /\ s \in Sched
      /\ \A s \in DOMAIN index : index'[s] = IF s \in firing THEN p.next[s] ELSE index[s]
      /\ jobs' = [s \in Sched |-> IF s \in firing THEN jobs[s] + 1 ELSE jobs[s]]
      /\ ran' = [s \in Sched |-> IF s \in firing THEN ran[s] \cup {index[s]} ELSE ran[s]]
  BY FireView
<1>3. \A s \in firing : p.next[s] > index[s]
  BY <1>1, <1>2 DEF NextIsLater
<1>4. NextIsLater'
  <2>1. pass' = [pass EXCEPT ![r] = Idle] /\ DOMAIN Idle.next = {}
    BY DEF Fire, Idle, EmptyZSet
  <2> QED
    BY <1>1, <2>1, FreshPassIsLater
<1>5. firing \subseteq used /\ used' = used
  BY <1>1, <1>2 DEF GoodIndex, Fire
<1> HIDE DEF p, firing
<1>6. \A s \in Sched : ran[s] \subseteq Nat /\ IsFiniteSet(ran[s]) /\ jobs[s] = Cardinality(ran[s])
  BY <1>1 DEF GoodIndex, RanBefore, OneJobPerOccurrence
<1>7. \A s \in firing : index[s] \notin ran[s]
  BY <1>1, <1>2 DEF RanBefore
<1>8. \A s \in DOMAIN index' : \A t \in ran'[s] : t < index'[s]
  <2> SUFFICES ASSUME NEW s \in DOMAIN index, NEW t \in ran'[s] PROVE t < index'[s]
    BY <1>2
  <2>1. s \in Sched /\ index[s] \in Nat /\ (t \in ran[s] => t \in Nat /\ t < index[s])
    BY <1>1, <1>2, <1>6 DEF RanBefore
  <2>2. CASE s \in firing
    BY <1>2, <1>3, <2>1, <2>2
  <2>3. CASE s \notin firing
    BY <1>2, <2>1, <2>3
  <2> QED
    BY <2>2, <2>3
<1>9. \A s \in Sched : IsFiniteSet(ran'[s]) /\ jobs'[s] = Cardinality(ran'[s])
  <2> SUFFICES ASSUME NEW s \in Sched
               PROVE  IsFiniteSet(ran'[s]) /\ jobs'[s] = Cardinality(ran'[s])
    OBVIOUS
  <2>1. CASE s \in firing
    <3>1. IsFiniteSet(ran[s]) /\ index[s] \notin ran[s]
      BY <1>6, <1>7, <2>1
    <3>2. /\ IsFiniteSet(ran[s] \cup {index[s]})
          /\ Cardinality(ran[s] \cup {index[s]}) = Cardinality(ran[s]) + 1
      BY <3>1, FS_AddElement
    <3> QED
      BY <1>2, <1>6, <2>1, <3>2
  <2>2. CASE s \notin firing
    BY <1>2, <1>6, <2>2
  <2> QED
    BY <2>1, <2>2
<1>10. \A s \in Sched \ used' : ran'[s] = {}
  BY <1>1, <1>2, <1>5 DEF RanBefore
<1> QED
  BY <1>4, <1>8, <1>9, <1>10 DEF OccurrenceInv, RanBefore, OneJobPerOccurrence

\* Every step keeps it.
LEMMA NextKeepsOccurrences ==
  ASSUME EveryCronMatches, ~ClockMayStepBack, CronInv, OccurrenceInv, [Next]_vars
  PROVE  OccurrenceInv'
<1>1. NextIsLater /\ RanBefore /\ OneJobPerOccurrence /\ GoodIndex
  BY DEF CronInv, OccurrenceInv
<1>2. ASSUME NEW s \in Sched, NEW c \in Cron, NEW t \in Reading, Create(s, c, t)
      PROVE  OccurrenceInv'
  <2>1. /\ DOMAIN index' = DOMAIN index \cup {s} /\ ran[s] = {} /\ s \notin used
        /\ \A x \in DOMAIN index \ {s} : index'[x] = index[x]
        /\ used \subseteq used'
    BY <1>1, <1>2 DEF Create, ZAdd, RanBefore
  <2> QED
    BY <1>1, <1>2, <2>1 DEF Create, OccurrenceInv, NextIsLater, RanBefore, OneJobPerOccurrence
<1>3. ASSUME UNCHANGED <<used, jobs, ran>>, NextIsLater',
             DOMAIN index' \subseteq DOMAIN index,
             \A x \in DOMAIN index' : index'[x] = index[x]
      PROVE  OccurrenceInv'
  BY <1>1, <1>3 DEF OccurrenceInv, RanBefore, OneJobPerOccurrence
<1>4. \A s : LET z == ZRem(index, {s})
             IN DOMAIN z \subseteq DOMAIN index /\ \A x \in DOMAIN z : z[x] = index[x]
  BY DEF ZRem
<1>5. ASSUME NEW s \in Sched, Delete(s) PROVE OccurrenceInv'
  <2>1. index' = ZRem(index, {s}) /\ UNCHANGED <<pass, used, jobs, ran>>
    BY <1>5 DEF Delete
  <2>2. NextIsLater'
    BY <1>1, <2>1 DEF NextIsLater
  <2> QED
    BY <1>3, <1>4, <2>1, <2>2
<1>6. ASSUME NEW r \in Replica, NEW t \in Reading, Begin(r, t) PROVE OccurrenceInv'
  <2>1. PICK s : pass' = [pass EXCEPT ![r] = [Idle EXCEPT !.step = "load", !.clock = t,
                                                          !.read = t, !.todo = s]]
    BY <1>6 DEF Begin
  <2> DEFINE p == [Idle EXCEPT !.step = "load", !.clock = t, !.read = t, !.todo = s]
  <2>2. DOMAIN p.next = {}
    BY DEF Idle, EmptyZSet
  <2> HIDE DEF p
  <2>3. NextIsLater'
    BY <1>1, <2>1, <2>2, FreshPassIsLater DEF p
  <2> QED
    BY <1>3, <1>6, <2>3 DEF Begin
<1>7. ASSUME NEW r \in Replica, NEW t \in Reading, Load(r, t) PROVE OccurrenceInv'
  <2>1. NextIsLater'
    BY <1>7, LoadKeepsOccurrences
  <2> QED
    BY <1>3, <1>7, <2>1 DEF Load
<1>8. ASSUME NEW r \in Replica, GiveUp(r) \/ Drop(r) PROVE OccurrenceInv'
  <2>1. pass[r] \in PassRec /\ DOMAIN pass = Replica
    BY DEF CronInv, GoodPass
  <2>2. /\ pass'[r].clock = pass[r].clock /\ pass'[r].next = pass[r].next
        /\ \A x \in Replica \ {r} : pass'[x] = pass[x]
    BY <1>8, <2>1 DEF GiveUp, Drop, PassRec
  <2>3. NextIsLater'
    BY <1>1, <2>2 DEF NextIsLater
  <2>4. UNCHANGED <<used, jobs, ran>> /\ (index' = index \/ index' = ZRem(index, {Head(pass[r].todo)}))
    BY <1>8 DEF GiveUp, Drop
  <2> QED
    BY <1>3, <1>4, <2>3, <2>4
<1>9. ASSUME NEW r \in Replica, Fire(r) PROVE OccurrenceInv'
  BY <1>9, FireKeepsOccurrences
<1>10. ASSUME NEW r \in Replica, Abort(r) PROVE OccurrenceInv'
  <2>1. pass' = [pass EXCEPT ![r] = Idle] /\ DOMAIN Idle.next = {}
    BY <1>10 DEF Abort, Idle, EmptyZSet
  <2>2. NextIsLater'
    BY <1>1, <2>1, FreshPassIsLater
  <2> QED
    BY <1>3, <1>10, <2>2 DEF Abort
<1>11. CASE Tick \/ UNCHANGED vars
  BY <1>1, <1>11 DEF Tick, vars, OccurrenceInv, NextIsLater, RanBefore, OneJobPerOccurrence
<1> QED
  BY <1>2, <1>5, <1>6, <1>7, <1>8, <1>9, <1>10, <1>11 DEF Next, Step

-----------------------------------------------------------------------------
(***************************************************************************)
(* The theorems.                                                           *)
(***************************************************************************)
\* The invariant of the index and the passes holds always.
THEOREM CronInvAlways == Spec => []CronInv
<1>1. Init => CronInv
  BY InitCronInv
<1>2. CronInv /\ [Next]_vars => CronInv'
  BY NextKeepsCron
<1> QED
  BY <1>1, <1>2, PTL DEF Spec

\* Schedules, index and passes stay well-formed.
THEOREM CronTypeCorrect == Spec => []TypeOK
<1>1. CronInv => TypeOK
  BY DEF CronInv, GoodIndex, GoodPass, PassRec, TypeOK
<1> QED
  BY <1>1, CronInvAlways, PTL

\* A pass that read a schedule before it was deleted does not bring it back.
THEOREM DeletedSchedulesStayDeleted == Spec => DeletedStaysDeleted
<1>1. ASSUME CronInv, CronInv', [Next]_vars, NEW s \in Sched \ DOMAIN hash
      PROVE  jobs'[s] = jobs[s] /\ (s \in DOMAIN index' => s \in DOMAIN hash')
  <2>1. DOMAIN index' \subseteq DOMAIN hash'
    BY <1>1 DEF CronInv, GoodIndex
  <2>2. ASSUME NEW r \in Replica, Fire(r) PROVE jobs'[s] = jobs[s]
    BY <1>1, <2>2, FireView
  <2>3. (\A r \in Replica : ~Fire(r)) => jobs' = jobs
    BY <1>1 DEF Next, Create, Delete, Begin, Step, Load, GiveUp, Drop, Abort, Tick, vars
  <2> QED
    BY <2>1, <2>2, <2>3
<1>2. CronInv /\ CronInv' /\ [Next]_vars =>
        [\A s \in Sched \ DOMAIN hash :
           jobs'[s] = jobs[s] /\ (s \in DOMAIN index' => s \in DOMAIN hash')]_vars
  BY <1>1
<1> QED
  BY <1>2, CronInvAlways, PTL DEF Spec, DeletedStaysDeleted

\* If reads do not fail, a schedule that was not deleted stays in the index: a
\* failed read is the only way to lose one.
THEOREM LiveSchedulesStay ==
  ASSUME ~ReadMayFail
  PROVE  Spec => []LiveScheduleStaysIndexed
<1>1. CronInv => LiveScheduleStaysIndexed
  BY DEF CronInv, GoodIndex
<1> QED
  BY <1>1, CronInvAlways, PTL

\* Each occurrence makes one job, however many leaders race for it and however
\* late their scripts run.
THEOREM OccurrencesFireOnce ==
  ASSUME EveryCronMatches, ~ClockMayStepBack
  PROVE  Spec => []OneJobPerOccurrence
<1>1. Init => OccurrenceInv
  BY InitOccurrences
<1>2. CronInv /\ OccurrenceInv /\ [Next]_vars => OccurrenceInv'
  BY NextKeepsOccurrences
<1>3. OccurrenceInv => OneJobPerOccurrence
  BY DEF OccurrenceInv
<1> QED
  BY <1>1, <1>2, <1>3, CronInvAlways, PTL DEF Spec

\* A firing is never early by more than the clocks may differ, and moves its
\* schedule forward.
THEOREM SchedulesAdvance ==
  ASSUME EveryCronMatches, ~ClockMayStepBack
  PROVE  Spec => OccurrencesAdvance
<1>1. ASSUME CronInv, OccurrenceInv, [Next]_vars, NEW s \in DOMAIN index \cap DOMAIN index',
             jobs'[s] # jobs[s] \/ index'[s] # index[s]
      PROVE  index[s] <= now + MaxSkew /\ index'[s] > index[s]
  <2>1. s \in used /\ now \in Nat
    BY <1>1 DEF CronInv, GoodIndex
  <2>2. ASSUME NEW r \in Replica, Fire(r)
        PROVE  index[s] <= now + MaxSkew /\ index'[s] > index[s]
    <3> DEFINE p == pass[r]
               firing == Firing(p)
    <3>1. /\ \A x \in firing : x \in DOMAIN p.next /\ index[x] <= p.clock
          /\ \A x \in DOMAIN p.next : p.next[x] \in Nat
          /\ p.clock \in Nat /\ p.clock <= now + MaxSkew
          /\ \A x \in DOMAIN index : index[x] \in Nat /\ x \in Sched
          /\ \A x \in DOMAIN index : index'[x] = IF x \in firing THEN p.next[x] ELSE index[x]
          /\ jobs' = [x \in Sched |-> IF x \in firing THEN jobs[x] + 1 ELSE jobs[x]]
      BY <1>1, <2>2, FireView
    <3>2. \A x \in DOMAIN p.next : p.next[x] > p.clock
      BY <1>1 DEF OccurrenceInv, NextIsLater
    <3> HIDE DEF p, firing
    <3>3. s \in firing
      BY <1>1, <3>1
    <3> QED
      BY <1>1, <2>1, <3>1, <3>2, <3>3, CronAssumption
  <2>3. ASSUME NEW x \in Sched, NEW c \in Cron, NEW t \in Reading, Create(x, c, t) PROVE FALSE
    BY <1>1, <2>1, <2>3 DEF Create, ZAdd
  <2>4. (\A r \in Replica : ~Fire(r)) =>
          \/ \E x \in Sched, c \in Cron, t \in Reading : Create(x, c, t)
          \/ jobs'[s] = jobs[s] /\ index'[s] = index[s]
    BY <1>1 DEF Next, Delete, Begin, Step, Load, GiveUp, Drop, Abort, Tick, vars, ZRem
  <2> QED
    BY <1>1, <2>2, <2>3, <2>4
<1>2. CronInv /\ OccurrenceInv /\ [Next]_vars =>
        [\A s \in DOMAIN index \cap DOMAIN index' :
           (jobs'[s] # jobs[s] \/ index'[s] # index[s]) =>
             index[s] <= now + MaxSkew /\ index'[s] > index[s]]_vars
  BY <1>1
<1>3. Init => OccurrenceInv
  BY InitOccurrences
<1>4. CronInv /\ OccurrenceInv /\ [Next]_vars => OccurrenceInv'
  BY NextKeepsOccurrences
<1> QED
  BY <1>2, <1>3, <1>4, CronInvAlways, PTL DEF Spec, OccurrencesAdvance
=============================================================================
