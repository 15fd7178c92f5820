-------------------------- MODULE LifecycleProofs --------------------------
(***************************************************************************)
(* Proofs that JobStore implements JobLifecycle, that its queues are FIFO  *)
(* for jobs that were never leased, and that Backoff gives it delays in    *)
(* the band that its comment promises.                                     *)
(***************************************************************************)
EXTENDS JobStoreProofs, RetryBackoff

-----------------------------------------------------------------------------
(***************************************************************************)
(* The refinement mapping.  By OnePlace and NoJobLost a job's stage says   *)
(* exactly where it is, so a step is described by the jobs it moves: the   *)
(* others keep their places, and their stages with them.                   *)
(***************************************************************************)
\* Where a job is decides its stage.
Staged ==
  /\ \A q \in Queue, j \in Job :
       /\ j \in Range(pending[q]) => StageOf(j) = "pending"
       /\ j \in DOMAIN leased[q] => StageOf(j) = "leased"
       /\ j \in DOMAIN retry[q] => StageOf(j) = "retry"
       /\ j \in Range(dead[q]) => StageOf(j) = "dead"
       /\ InSomePlace(q, j) => TriesOf(j) = hash[j].attempts
  /\ \A j \in Job \ DOMAIN birth : StageOf(j) = "new" /\ TriesOf(j) = 0
  /\ \A j \in acked : StageOf(j) = "acked" /\ TriesOf(j) = 0

\* The invariant makes the mapping a function of the places.
LEMMA StagesFollow == IInv => Staged
<1> SUFFICES ASSUME IInv PROVE Staged
  OBVIOUS
<1>1. ASSUME NEW q \in Queue, NEW j \in Job, InSomePlace(q, j)
      PROVE  /\ j \in DOMAIN hash /\ hash[j].queue = q
             /\ j \in Range(pending[q]) => StageOf(j) = "pending"
             /\ j \in DOMAIN leased[q] => StageOf(j) = "leased"
             /\ j \in DOMAIN retry[q] => StageOf(j) = "retry"
             /\ j \in Range(dead[q]) => StageOf(j) = "dead"
             /\ TriesOf(j) = hash[j].attempts
  <2>1. j \in DOMAIN hash /\ hash[j].queue = q
    BY <1>1 DEF IInv, HashBehindEveryID
  <2>2. /\ Range(pending[q]) \cap DOMAIN leased[q] = {}
        /\ Range(pending[q]) \cap DOMAIN retry[q] = {}
        /\ Range(pending[q]) \cap Range(dead[q]) = {}
        /\ DOMAIN leased[q] \cap DOMAIN retry[q] = {}
        /\ DOMAIN leased[q] \cap Range(dead[q]) = {}
        /\ DOMAIN retry[q] \cap Range(dead[q]) = {}
    BY DEF IInv, OnePlace
  <2> QED
    BY <2>1, <2>2 DEF StageOf, TriesOf
<1>2. ASSUME NEW j \in Job \ DOMAIN birth PROVE StageOf(j) = "new" /\ TriesOf(j) = 0
  BY <1>2 DEF IInv, NoJobLost, StageOf, TriesOf
<1>3. ASSUME NEW j \in acked PROVE StageOf(j) = "acked" /\ TriesOf(j) = 0
  BY <1>3 DEF IInv, NoJobLost, StageOf, TriesOf
<1> QED
  BY <1>1, <1>2, <1>3 DEF Staged, InSomePlace

\* So it does after a step.
LEMMA StagesFollowNext == IInv' => Staged'
<1>1. IInv => Staged
  BY StagesFollow
<1> QED
  BY <1>1, PTL

\* A job that no structure gains or loses keeps its stage.
Unmoved(j) ==
  /\ j \in DOMAIN hash' <=> j \in DOMAIN hash
  /\ j \in DOMAIN hash => hash'[j] = hash[j]
  /\ j \in acked' <=> j \in acked
  /\ \A q \in Queue :
       /\ j \in Range(pending'[q]) <=> j \in Range(pending[q])
       /\ j \in DOMAIN leased'[q] <=> j \in DOMAIN leased[q]
       /\ j \in DOMAIN retry'[q] <=> j \in DOMAIN retry[q]
       /\ j \in Range(dead'[q]) <=> j \in Range(dead[q])

\* See Unmoved.
LEMMA UnmovedKeepsStage ==
  ASSUME TypeOK, NEW j \in Job, Unmoved(j)
  PROVE  StageOf(j)' = StageOf(j) /\ TriesOf(j)' = TriesOf(j)
<1>1. CASE j \in DOMAIN hash
  <2>1. hash[j].queue \in Queue
    BY <1>1 DEF TypeOK, HashRec
  <2> QED
    BY <1>1, <2>1 DEF Unmoved, StageOf, TriesOf
<1>2. CASE j \notin DOMAIN hash
  BY <1>2 DEF Unmoved, StageOf, TriesOf
<1> QED
  BY <1>1, <1>2

\* The jobs in S move from stage a to stage b, and no other job moves.
LEMMA MoveFollows ==
  ASSUME NEW S \in SUBSET Job, S # {}, NEW a, NEW b,
         \A j \in S : StageOf(j) = a /\ StageOf(j)' = b,
         \A j \in Job \ S : StageOf(j)' = StageOf(j)
  PROVE  Lifecycle!Move(S, a, b)
BY DEF Lifecycle!Move

\* The jobs in S leave the leases with an attempt counted, and no other moves.
LEMMA UseAttemptFollows ==
  ASSUME NEW S \in SUBSET Job, S # {}, NEW b,
         \A j \in S : /\ StageOf(j) = "leased" /\ TriesOf(j)' = TriesOf(j) + 1
                      /\ StageOf(j)' = IF TriesOf(j) + 1 > MaxRetries THEN "dead" ELSE b,
         \A j \in Job \ S : StageOf(j)' = StageOf(j) /\ TriesOf(j)' = TriesOf(j)
  PROVE  Lifecycle!UseAttempt(S, b)
BY DEF Lifecycle!UseAttempt

\* The empty Redis is the initial state: every job is new.
LEMMA InitIsLInit ==
  ASSUME Init
  PROVE  Lifecycle!LInit
<1>1. \A j \in Job : StageOf(j) = "new" /\ TriesOf(j) = 0
  BY DEF Init, StageOf, TriesOf
<1> QED
  BY <1>1 DEF Lifecycle!LInit

\* An enqueue accepts a job.
LEMMA EnqueueAccepts ==
  ASSUME IInv, IInv', NEW q \in Queue, NEW j \in Job, NEW k \in Key \cup {NoKey},
         Enqueue(q, j, k)
  PROVE  Lifecycle!LNext
<1>1. Staged /\ Staged' /\ TypeOK
  BY StagesFollow, StagesFollowNext DEF IInv
<1>2. /\ j \notin DOMAIN birth /\ DOMAIN hash' = DOMAIN hash \cup {j}
      /\ hash'[j] = [queue |-> q, attempts |-> 0]
      /\ \A i \in DOMAIN hash \ {j} : hash'[i] = hash[i]
      /\ pending' = [pending EXCEPT ![q] = Append(pending[q], j)]
      /\ UNCHANGED <<leased, retry, dead, acked>>
  BY DEF Enqueue, PushNewJob
<1>3. /\ Range(pending'[q]) = Range(pending[q]) \cup {j}
      /\ \A x \in Queue \ {q} : pending'[x] = pending[x]
  BY <1>1, <1>2, AppendView DEF TypeOK
<1>4. StageOf(j) = "new" /\ TriesOf(j) = 0 /\ StageOf(j)' = "pending" /\ TriesOf(j)' = 0
  BY <1>1, <1>2, <1>3 DEF Staged, InSomePlace
<1>5. ASSUME NEW i \in Job \ {j} PROVE Unmoved(i)
  BY <1>2, <1>3 DEF Unmoved
<1>6. \A i \in Job \ {j} : StageOf(i)' = StageOf(i) /\ TriesOf(i)' = TriesOf(i)
  BY <1>1, <1>5, UnmovedKeepsStage
<1>7. Lifecycle!Move({j}, "new", "pending")
  BY <1>4, <1>6, MoveFollows
<1>8. UNCHANGED [i \in Job |-> TriesOf(i)]
  BY <1>4, <1>6
<1> QED
  BY <1>7, <1>8 DEF Lifecycle!LNext, Lifecycle!Accept

\* A claim takes the front of the list: what moves from pending to leased.
LEMMA ClaimView ==
  ASSUME IInv, NEW q \in Queue, NEW n \in Nat \ {0}, NEW t \in Nat, Claim(q, n, t)
  PROVE  LET m == Lesser(n, Len(pending[q]))
             got == Range(SubSeq(pending[q], 1, m))
         IN /\ m \in 1..Len(pending[q])
            /\ got \subseteq Range(pending[q]) /\ got \subseteq Job /\ got # {}
            /\ Range(pending'[q]) = Range(pending[q]) \ got
            /\ DOMAIN leased'[q] = DOMAIN leased[q] \cup got
            /\ \A x \in Queue \ {q} : pending'[x] = pending[x] /\ leased'[x] = leased[x]
            /\ UNCHANGED <<hash, retry, dead, birth, acked>>
<1> DEFINE s == pending[q]
           m == Lesser(n, Len(s))
           got == Range(SubSeq(s, 1, m))
<1>1. /\ s \in Seq(Job) /\ IsInjective(s) /\ s # <<>> /\ IsZSet(leased[q], Job)
      /\ pending \in [Queue -> Seq(Job)] /\ leased = [x \in Queue |-> leased[x]]
  BY DEF IInv, TypeOK, OnePlace, Claim, IsZSetPerQueue
<1>2. Len(s) \in Nat \ {0} /\ DOMAIN s = 1..Len(s)
  BY <1>1, LenProperties, EmptySeq
<1>3. m \in 1..Len(s) /\ m \in 0..Len(s)
  BY <1>2 DEF Lesser
<1>4. /\ pending' = [pending EXCEPT ![q] = SubSeq(s, m + 1, Len(s))]
      /\ leased' = [leased EXCEPT ![q] = ZAdd(leased[q], t + LeaseTTL, got)]
      /\ UNCHANGED <<hash, retry, dead, birth, acked>>
  BY DEF Claim
<1> HIDE DEF m
<1>5. /\ SubSeq(s, 1, m) \in Seq(Job)
      /\ Range(SubSeq(s, m + 1, Len(s))) = Range(s) \ got /\ got \subseteq Range(s)
  BY <1>1, <1>3, SplitView
<1>6. got \subseteq Job
  BY <1>1, <1>5, RangeOfSeq
<1>7. s[1] \in got
  <2>1. Len(SubSeq(s, 1, m)) = m /\ SubSeq(s, 1, m)[1] = s[1]
    <3>1. \A k \in 1..m : s[k] \in Job
      BY <1>1, <1>3, ElementOfSeq
    <3>2. m \in Int /\ 1 \in Int /\ 1 <= m
      BY <1>2, <1>3
    <3>3. /\ Len(SubSeq(s, 1, m)) = IF 1 <= m THEN m - 1 + 1 ELSE 0
          /\ \A k \in 1..(m - 1 + 1) : SubSeq(s, 1, m)[k] = s[1 + k - 1]
      BY <3>1, <3>2, SubSeqProperties
    <3>4. m - 1 + 1 = m /\ 1 \in 1..m /\ 1 + 1 - 1 = 1
      BY <3>2
    <3> QED
      BY <3>2, <3>3, <3>4
  <2>2. DOMAIN SubSeq(s, 1, m) = 1..m
    BY <1>5, <2>1, LenProperties
  <2> DEFINE u == SubSeq(s, 1, m)
  <2>3. 1 \in DOMAIN u /\ u[1] = s[1]
    BY <1>2, <1>3, <2>1, <2>2
  <2>4. got = Range(u)
    OBVIOUS
  <2> HIDE DEF u, got
  <2> QED
    BY <2>3, <2>4 DEF Range
<1>8. DOMAIN ZAdd(leased[q], t + LeaseTTL, got) = DOMAIN leased[q] \cup got
  BY DEF ZAdd
<1> HIDE DEF got, s
<1>9. /\ Range(pending'[q]) = Range(s) \ got
      /\ DOMAIN leased'[q] = DOMAIN leased[q] \cup got
      /\ \A x \in Queue \ {q} : pending'[x] = pending[x] /\ leased'[x] = leased[x]
  BY <1>1, <1>4, <1>5, <1>8
<1> QED
  BY <1>3, <1>4, <1>5, <1>6, <1>7, <1>9 DEF s, m, got

\* A claim leases jobs.
LEMMA ClaimLeases ==
  ASSUME IInv, IInv', NEW q \in Queue, NEW n \in Nat \ {0}, NEW t \in Nat, Claim(q, n, t)
  PROVE  Lifecycle!LNext
<1> DEFINE S == Range(SubSeq(pending[q], 1, Lesser(n, Len(pending[q]))))
<1>1. Staged /\ Staged' /\ TypeOK
  BY StagesFollow, StagesFollowNext DEF IInv
<1>2. /\ S \subseteq Range(pending[q]) /\ S \subseteq Job /\ S # {}
      /\ Range(pending'[q]) = Range(pending[q]) \ S
      /\ DOMAIN leased'[q] = DOMAIN leased[q] \cup S
      /\ \A x \in Queue \ {q} : pending'[x] = pending[x] /\ leased'[x] = leased[x]
      /\ UNCHANGED <<hash, retry, dead, birth, acked>>
  BY ClaimView
<1> HIDE DEF S
<1>3. \A j \in S : StageOf(j) = "pending" /\ StageOf(j)' = "leased"
  BY <1>1, <1>2 DEF Staged
<1>4. ASSUME NEW i \in Job \ S PROVE Unmoved(i)
  BY <1>2 DEF Unmoved
<1>5. \A i \in Job \ S : StageOf(i)' = StageOf(i)
  BY <1>1, <1>4, UnmovedKeepsStage
<1>6. Lifecycle!Move(S, "pending", "leased")
  BY <1>2, <1>3, <1>5, MoveFollows
<1>7. UNCHANGED [i \in Job |-> TriesOf(i)]
  BY <1>2 DEF TriesOf
<1> QED
  BY <1>2, <1>6, <1>7 DEF Lifecycle!LNext, Lifecycle!Lease

\* A renewal moves nothing.
LEMMA RenewStutters ==
  ASSUME IInv, NEW q \in Queue, NEW j \in Job, NEW t \in Nat, Renew(q, j, t)
  PROVE  \A i \in Job : Unmoved(i)
<1>1. \A x \in Queue : DOMAIN leased'[x] = DOMAIN leased[x]
  <2>1. /\ j \in DOMAIN leased[q] /\ leased = [x \in Queue |-> leased[x]]
        /\ leased' = [leased EXCEPT ![q] = ZAdd(leased[q], t + LeaseTTL, {j})]
    BY DEF IInv, TypeOK, IsZSetPerQueue, Renew
  <2>2. DOMAIN ZAdd(leased[q], t + LeaseTTL, {j}) = DOMAIN leased[q]
    BY <2>1 DEF ZAdd
  <2> QED
    BY <2>1, <2>2
<1> QED
  BY <1>1 DEF Renew, historyVars, Unmoved

\* An ack finishes jobs.
LEMMA AckFinishes ==
  ASSUME IInv, IInv', NEW q \in Queue, NEW ids \in SUBSET Job, Ack(q, ids)
  PROVE  Lifecycle!LNext
<1> DEFINE S == ids \cap DOMAIN leased[q]
<1>1. Staged /\ Staged' /\ TypeOK
  BY StagesFollow, StagesFollowNext DEF IInv
<1>2. /\ S # {} /\ S \subseteq Job /\ S \subseteq DOMAIN leased[q]
      /\ leased' = [leased EXCEPT ![q] = ZRem(leased[q], S)]
      /\ hash' = [i \in DOMAIN hash \ S |-> hash[i]]
      /\ acked' = acked \cup S
      /\ UNCHANGED <<pending, retry, dead>>
  BY DEF Ack
<1>3. /\ DOMAIN leased'[q] = DOMAIN leased[q] \ S
      /\ \A x \in Queue \ {q} : leased'[x] = leased[x]
      /\ DOMAIN hash' = DOMAIN hash \ S
      /\ \A i \in DOMAIN hash \ S : hash'[i] = hash[i]
  BY <1>1, <1>2 DEF TypeOK, IsZSetPerQueue, ZRem
<1> HIDE DEF S
<1>4. \A j \in S : StageOf(j) = "leased" /\ StageOf(j)' = "acked" /\ TriesOf(j)' = 0
  BY <1>1, <1>2 DEF Staged
<1>5. ASSUME NEW i \in Job \ S PROVE Unmoved(i)
  BY <1>2, <1>3 DEF Unmoved
<1>6. \A i \in Job \ S : StageOf(i)' = StageOf(i) /\ TriesOf(i)' = TriesOf(i)
  BY <1>1, <1>5, UnmovedKeepsStage
<1>7. Lifecycle!Move(S, "leased", "acked")
  BY <1>2, <1>4, <1>6, MoveFollows
<1>8. [i \in Job |-> TriesOf(i)]' =
        [i \in Job |-> IF i \in S THEN 0 ELSE [x \in Job |-> TriesOf(x)][i]]
  BY <1>4, <1>6
<1> QED
  BY <1>2, <1>7, <1>8 DEF Lifecycle!LNext, Lifecycle!Finish

\* Fail and the reaper end leases with an attempt counted: the jobs in over are
\* dead-lettered, the others are all at stage b after the step.
LEMMA EndedLeasesUseAttempts ==
  ASSUME IInv, IInv', NEW q \in Queue, NEW S \in SUBSET Job, S # {}, NEW b, NEW over,
         S \subseteq DOMAIN leased[q],
         over = {i \in S : Exhausted(HIncrAttempts(hash, S)[i].attempts)},
         hash' = HIncrAttempts(hash, S),
         \A i \in Job \ S : \A x \in Queue :
           /\ i \in Range(pending'[x]) <=> i \in Range(pending[x])
           /\ i \in DOMAIN leased'[x] <=> i \in DOMAIN leased[x]
           /\ i \in DOMAIN retry'[x] <=> i \in DOMAIN retry[x]
           /\ i \in Range(dead'[x]) <=> i \in Range(dead[x]),
         \A i \in over : i \in Range(dead'[q]),
         \A i \in S \ over : /\ i \in Range(pending'[q]) \/ i \in DOMAIN retry'[q]
                             /\ StageOf(i)' = b,
         acked' = acked
  PROVE  Lifecycle!UseAttempt(S, b)
<1>1. Staged /\ Staged' /\ TypeOK
  BY StagesFollow, StagesFollowNext DEF IInv
<1>2. S \subseteq DOMAIN hash
  BY Placed
<1>3. /\ DOMAIN hash' = DOMAIN hash
      /\ \A i \in S : hash'[i].attempts = hash[i].attempts + 1
      /\ \A i \in DOMAIN hash \ S : hash'[i] = hash[i]
  <2>1. hash \in [DOMAIN hash -> HashRec] /\ S \in SUBSET DOMAIN hash
    BY <1>1, <1>2 DEF TypeOK
  <2> DEFINE h == HIncrAttempts(hash, S)
  <2>2. /\ DOMAIN h = DOMAIN hash
        /\ \A i \in S : h[i].attempts = hash[i].attempts + 1
        /\ \A i \in DOMAIN hash \ S : h[i] = hash[i]
    BY <2>1, HIncrView
  <2> HIDE DEF h
  <2>3. hash' = h
    BY DEF h
  <2> QED
    BY <2>2, <2>3
<1>4. \A i \in S : /\ StageOf(i) = "leased" /\ TriesOf(i) = hash[i].attempts
                   /\ TriesOf(i)' = hash[i].attempts + 1
  <2>1. \A i \in S : i \in DOMAIN hash /\ i \in DOMAIN hash'
    BY <1>2, <1>3
  <2> QED
    BY <1>1, <1>3, <2>1 DEF Staged, TriesOf
<1>5. \A i \in S : StageOf(i)' = IF TriesOf(i) + 1 > MaxRetries THEN "dead" ELSE b
  <2> SUFFICES ASSUME NEW i \in S
               PROVE  StageOf(i)' = IF TriesOf(i) + 1 > MaxRetries THEN "dead" ELSE b
    OBVIOUS
  <2>1. i \in over <=> TriesOf(i) + 1 > MaxRetries
    BY <1>3, <1>4 DEF Exhausted
  <2>2. i \in over => StageOf(i)' = "dead"
    BY <1>1 DEF Staged
  <2>3. i \notin over => StageOf(i)' = b
    OBVIOUS
  <2> QED
    BY <2>1, <2>2, <2>3
<1>6. ASSUME NEW i \in Job \ S PROVE Unmoved(i)
  BY <1>3 DEF Unmoved
<1>7. \A i \in Job \ S : StageOf(i)' = StageOf(i) /\ TriesOf(i)' = TriesOf(i)
  BY <1>1, <1>6, UnmovedKeepsStage
<1>8. \A i \in S : StageOf(i) = "leased" /\ TriesOf(i)' = TriesOf(i) + 1
  BY <1>4
<1> QED
  BY <1>5, <1>7, <1>8, UseAttemptFollows

\* A failure uses an attempt.
LEMMA FailUsesAttempt ==
  ASSUME IInv, IInv', NEW q \in Queue, NEW j \in Job, NEW t \in Nat, NEW d \in Nat,
         Fail(q, j, t, d)
  PROVE  Lifecycle!LNext
<1> DEFINE h == HIncrAttempts(hash, {j})
           gone == {i \in {j} : Exhausted(h[i].attempts)}
<1>1. Staged' /\ TypeOK
  BY StagesFollowNext DEF IInv
<1>2. /\ j \in DOMAIN leased[q]
      /\ leased' = [leased EXCEPT ![q] = ZRem(leased[q], {j})]
      /\ hash' = h
      /\ dead' = IF gone = {j} THEN [dead EXCEPT ![q] = Append(dead[q], j)] ELSE dead
      /\ retry' = IF gone = {j} THEN retry
                  ELSE [retry EXCEPT ![q] = ZAdd(retry[q], t + d, {j})]
      /\ UNCHANGED <<pending, acked>>
      /\ gone = {} \/ gone = {j}
  <2>1. gone = {j} <=> Exhausted(h[j].attempts)
    OBVIOUS
  <2> QED
    BY <2>1 DEF Fail, historyVars
<1> HIDE DEF h
<1>3. /\ DOMAIN leased'[q] = DOMAIN leased[q] \ {j}
      /\ \A x \in Queue \ {q} : leased'[x] = leased[x]
  BY <1>1, <1>2 DEF TypeOK, IsZSetPerQueue, ZRem
<1>4. /\ Range(dead'[q]) = Range(dead[q]) \cup gone
      /\ \A x \in Queue \ {q} : dead'[x] = dead[x]
  <2>1. dead \in [Queue -> Seq(Job)] /\ Range(Append(dead[q], j)) = Range(dead[q]) \cup {j}
    BY <1>1, AppendView DEF TypeOK
  <2> QED
    BY <1>2, <2>1
<1>5. /\ DOMAIN retry'[q] = DOMAIN retry[q] \cup ({j} \ gone)
      /\ \A x \in Queue \ {q} : retry'[x] = retry[x]
  <2>1. /\ retry = [x \in Queue |-> retry[x]]
        /\ DOMAIN ZAdd(retry[q], t + d, {j}) = DOMAIN retry[q] \cup {j}
    BY <1>1 DEF TypeOK, IsZSetPerQueue, ZAdd
  <2> QED
    BY <1>2, <2>1
<1>6. gone = {i \in {j} : Exhausted(HIncrAttempts(hash, {j})[i].attempts)}
  BY DEF h
<1>7. hash' = HIncrAttempts(hash, {j})
  BY <1>2 DEF h
<1> HIDE DEF gone
<1>8. \A i \in {j} \ gone : i \in DOMAIN retry'[q] /\ StageOf(i)' = "retry"
  BY <1>1, <1>5 DEF Staged
<1>9. /\ \A i \in gone : i \in Range(dead'[q])
      /\ {j} \in SUBSET Job /\ {j} # {} /\ {j} \subseteq DOMAIN leased[q] /\ acked' = acked
  BY <1>2, <1>4
<1>10. gone \subseteq {j}
  BY <1>6
<1>11. \A i \in Job \ {j} : \A x \in Queue :
           /\ i \in Range(pending'[x]) <=> i \in Range(pending[x])
           /\ i \in DOMAIN leased'[x] <=> i \in DOMAIN leased[x]
           /\ i \in DOMAIN retry'[x] <=> i \in DOMAIN retry[x]
           /\ i \in Range(dead'[x]) <=> i \in Range(dead[x])
  BY <1>2, <1>3, <1>4, <1>5, <1>10
<1>12. Lifecycle!UseAttempt({j}, "retry")
  BY <1>6, <1>7, <1>8, <1>9, <1>11, EndedLeasesUseAttempts
<1> QED
  BY <1>12 DEF Lifecycle!LNext

\* What a range read returns to a drain: jobs, finitely many.
LEMMA DueView ==
  ASSUME NEW z, IsZSet(z, Job), NEW t, NEW due \in LowestDue(z, t, DrainLimit)
  PROVE  due \subseteq DOMAIN z /\ due \subseteq Job /\ IsFiniteSet(due)
<1>1. due \subseteq DOMAIN z /\ due \subseteq Job
  BY LowestDueView DEF IsZSet
<1> QED
  BY <1>1, JobStoreAssumption, FS_Subset

\* Pushing the members of S, in some order of their scores, adds exactly them.
LEMMA PushView ==
  ASSUME NEW f \in [Queue -> Seq(Job)], NEW q \in Queue, NEW z, NEW S \in SUBSET Job,
         NEW s \in ScoreOrders(z, S)
  PROVE  Range(f[q] \o s) = Range(f[q]) \cup S
<1>1. IsFiniteSet(S)
  BY JobStoreAssumption, FS_Subset
<1>2. s \in Seq(S) /\ Range(s) = S
  BY <1>1, ScoreOrdersView
<1>3. s \in Seq(Job)
  BY <1>2
<1> QED
  BY <1>2, <1>3, ConcatView

\* Reaping uses an attempt of every lease that it ends.
LEMMA ReapUsesAttempts ==
  ASSUME IInv, IInv', NEW q \in Queue, NEW t, Reap(q, t)
  PROVE  Lifecycle!LNext
<1>1. Staged' /\ TypeOK /\ pending \in [Queue -> Seq(Job)] /\ dead \in [Queue -> Seq(Job)]
  BY StagesFollowNext DEF IInv, TypeOK
<1>2. PICK due \in LowestDue(leased[q], t, DrainLimit) :
        LET over == {i \in due : Exhausted(HIncrAttempts(hash, due)[i].attempts)}
        IN /\ due # {}
           /\ leased' = [leased EXCEPT ![q] = ZRem(leased[q], due)]
           /\ hash' = HIncrAttempts(hash, due)
           /\ \E s \in ScoreOrders(leased[q], due \ over) :
                pending' = [pending EXCEPT ![q] = pending[q] \o s]
           /\ \E s \in ScoreOrders(leased[q], over) :
                dead' = [dead EXCEPT ![q] = dead[q] \o s]
           /\ UNCHANGED <<retry, acked>>
  BY DEF Reap, historyVars
<1>8. PICK over : over = {i \in due : Exhausted(HIncrAttempts(hash, due)[i].attempts)}
  OBVIOUS
<1>3. due \subseteq DOMAIN leased[q] /\ due \subseteq Job
  <2>1. IsZSet(leased[q], Job)
    BY <1>1 DEF TypeOK, IsZSetPerQueue
  <2> QED
    BY <1>2, <2>1, DueView
<1>4. /\ DOMAIN leased'[q] = DOMAIN leased[q] \ due
      /\ \A x \in Queue \ {q} : leased'[x] = leased[x]
  BY <1>1, <1>2 DEF TypeOK, IsZSetPerQueue, ZRem
<1>5. PICK s \in ScoreOrders(leased[q], due \ over) :
        pending' = [pending EXCEPT ![q] = pending[q] \o s]
  BY <1>2, <1>8
<1>6. PICK u \in ScoreOrders(leased[q], over) :
        dead' = [dead EXCEPT ![q] = dead[q] \o u]
  BY <1>2, <1>8
<1>7. over \subseteq due
  BY <1>8
<1>9. /\ Range(pending'[q]) = Range(pending[q]) \cup (due \ over)
      /\ \A x \in Queue \ {q} : pending'[x] = pending[x]
  <2>1. due \ over \in SUBSET Job
    BY <1>3
  <2>2. Range(pending[q] \o s) = Range(pending[q]) \cup (due \ over)
    <3>1. PICK rest : rest = due \ over
      OBVIOUS
    <3>2. s \in ScoreOrders(leased[q], rest) /\ rest \in SUBSET Job
      BY <2>1, <3>1
    <3>3. pending \in [Queue -> Seq(Job)] /\ q \in Queue
      BY <1>1
    <3>4. Range(pending[q] \o s) = Range(pending[q]) \cup rest
      BY <3>2, <3>3, PushView
    <3> QED
      BY <3>1, <3>4
  <2> QED
    BY <1>1, <1>5, <2>2
<1>10. /\ Range(dead'[q]) = Range(dead[q]) \cup over
       /\ \A x \in Queue \ {q} : dead'[x] = dead[x]
  <2>1. over \in SUBSET Job
    BY <1>3, <1>7
  <2>2. Range(dead[q] \o u) = Range(dead[q]) \cup over
    <3>1. u \in ScoreOrders(leased[q], over)
      OBVIOUS
    <3>2. dead \in [Queue -> Seq(Job)] /\ q \in Queue
      BY <1>1
    <3> QED
      BY <3>1, <3>2, <2>1, PushView
  <2> QED
    BY <1>1, <1>6, <2>2
<1>11. \A i \in due \ over : i \in Range(pending'[q]) /\ StageOf(i)' = "pending"
  BY <1>1, <1>3, <1>9 DEF Staged
<1>12. /\ \A i \in over : i \in Range(dead'[q])
       /\ due \in SUBSET Job /\ due # {} /\ acked' = acked /\ hash' = HIncrAttempts(hash, due)
  BY <1>2, <1>3, <1>10
<1>13. \A i \in Job \ due : \A x \in Queue :
           /\ i \in Range(pending'[x]) <=> i \in Range(pending[x])
           /\ i \in DOMAIN leased'[x] <=> i \in DOMAIN leased[x]
           /\ i \in DOMAIN retry'[x] <=> i \in DOMAIN retry[x]
           /\ i \in Range(dead'[x]) <=> i \in Range(dead[x])
  BY <1>2, <1>4, <1>7, <1>9, <1>10
<1>14. Lifecycle!UseAttempt(due, "pending")
  BY <1>3, <1>8, <1>11, <1>12, <1>13, EndedLeasesUseAttempts
<1> QED
  BY <1>12, <1>14 DEF Lifecycle!LNext

\* The retry drainer resumes jobs.
LEMMA DrainRetryResumes ==
  ASSUME IInv, IInv', NEW q \in Queue, NEW t, DrainRetry(q, t)
  PROVE  Lifecycle!LNext
<1>1. Staged /\ Staged' /\ TypeOK /\ pending \in [Queue -> Seq(Job)]
  BY StagesFollow, StagesFollowNext DEF IInv, TypeOK
<1>2. PICK due \in LowestDue(retry[q], t, DrainLimit) :
        /\ due # {}
        /\ retry' = [retry EXCEPT ![q] = ZRem(retry[q], due)]
        /\ \E s \in ScoreOrders(retry[q], due) :
             pending' = [pending EXCEPT ![q] = pending[q] \o s]
        /\ UNCHANGED <<hash, leased, dead, acked>>
  BY DEF DrainRetry, historyVars
<1>3. due \subseteq DOMAIN retry[q] /\ due \in SUBSET Job
  <2>1. IsZSet(retry[q], Job)
    BY <1>1 DEF TypeOK, IsZSetPerQueue
  <2> QED
    BY <1>2, <2>1, DueView
<1>4. /\ DOMAIN retry'[q] = DOMAIN retry[q] \ due
      /\ \A x \in Queue \ {q} : retry'[x] = retry[x]
  BY <1>1, <1>2 DEF TypeOK, IsZSetPerQueue, ZRem
<1>5. /\ Range(pending'[q]) = Range(pending[q]) \cup due
      /\ \A x \in Queue \ {q} : pending'[x] = pending[x]
  <2>1. PICK s \in ScoreOrders(retry[q], due) :
          pending' = [pending EXCEPT ![q] = pending[q] \o s]
    BY <1>2
  <2>2. Range(pending[q] \o s) = Range(pending[q]) \cup due
    BY <1>1, <1>3, PushView
  <2> QED
    BY <1>1, <2>1, <2>2
<1>6. \A j \in due : StageOf(j) = "retry" /\ StageOf(j)' = "pending"
  BY <1>1, <1>3, <1>5 DEF Staged
<1>7. ASSUME NEW i \in Job \ due PROVE Unmoved(i)
  BY <1>2, <1>4, <1>5 DEF Unmoved
<1>8. \A i \in Job \ due : StageOf(i)' = StageOf(i)
  BY <1>1, <1>7, UnmovedKeepsStage
<1>9. Lifecycle!Move(due, "retry", "pending")
  BY <1>2, <1>3, <1>6, <1>8, MoveFollows
<1>10. UNCHANGED [i \in Job |-> TriesOf(i)]
  BY <1>2 DEF TriesOf
<1> QED
  BY <1>3, <1>9, <1>10 DEF Lifecycle!LNext, Lifecycle!Resume

\* Every script is a step of the lifecycle, or moves nothing.
LEMMA NextRefines ==
  ASSUME IInv, IInv', [Next]_vars
  PROVE  [Lifecycle!LNext]_<<[j \in Job |-> StageOf(j)], [j \in Job |-> TriesOf(j)]>>
<1>1. Reading \subseteq Nat /\ 1..MaxClaimBatch \subseteq Nat \ {0} /\ Delay \subseteq Nat /\ TypeOK
  BY JobStoreAssumption DEF IInv, TypeOK, Reading
<1>2. ASSUME \A j \in Job : Unmoved(j)
      PROVE  UNCHANGED <<[j \in Job |-> StageOf(j)], [j \in Job |-> TriesOf(j)]>>
  BY <1>1, <1>2, UnmovedKeepsStage
<1>3. ASSUME NEW q \in Queue, NEW j \in Job, NEW k \in Key \cup {NoKey}, Enqueue(q, j, k)
      PROVE  Lifecycle!LNext
  BY <1>3, EnqueueAccepts
<1>4. ASSUME NEW q \in Queue, NEW n \in 1..MaxClaimBatch, NEW t \in Reading, Claim(q, n, t)
      PROVE  Lifecycle!LNext
  BY <1>1, <1>4, ClaimLeases
<1>5. ASSUME NEW q \in Queue, NEW j \in Job, NEW t \in Reading, Renew(q, j, t)
      PROVE  \A i \in Job : Unmoved(i)
  BY <1>1, <1>5, RenewStutters
<1>6. ASSUME NEW q \in Queue, NEW ids \in SUBSET Job, Ack(q, ids)
      PROVE  Lifecycle!LNext
  BY <1>6, AckFinishes
<1>7. ASSUME NEW q \in Queue, NEW j \in Job, NEW t \in Reading, NEW d \in Delay, Fail(q, j, t, d)
      PROVE  Lifecycle!LNext
  BY <1>1, <1>7, FailUsesAttempt
<1>8. ASSUME NEW q \in Queue, NEW t \in Reading, Reap(q, t) PROVE Lifecycle!LNext
  BY <1>8, ReapUsesAttempts
<1>9. ASSUME NEW q \in Queue, NEW t \in Reading, DrainRetry(q, t) PROVE Lifecycle!LNext
  BY <1>9, DrainRetryResumes
<1>10. ASSUME Tick \/ UNCHANGED vars PROVE \A i \in Job : Unmoved(i)
  BY <1>10 DEF Tick, vars, redisVars, historyVars, Unmoved
<1> QED
  BY <1>2, <1>3, <1>4, <1>5, <1>6, <1>7, <1>8, <1>9, <1>10 DEF Next

\* The scripts of store.go implement the lifecycle of the README's diagram.
THEOREM StoreImplementsLifecycle == Spec => ImplementsLifecycle
<1>1. Init => Lifecycle!LInit
  BY InitIsLInit
<1>2. IInv /\ IInv' /\ [Next]_vars =>
        [Lifecycle!LNext]_<<[j \in Job |-> StageOf(j)], [j \in Job |-> TriesOf(j)]>>
  BY NextRefines
<1> QED
  BY <1>1, <1>2, IInvAlways, PTL DEF Spec, ImplementsLifecycle, Lifecycle!LSpec

\* What no script may do to a job: take it out of acked or dead, or end its lease
\* other than by an ack without counting the attempt, or count one elsewhere.
OnlyForward ==
  \A j \in Job :
    /\ StageOf(j) \in {"acked", "dead"} => StageOf(j)' = StageOf(j)
    /\ StageOf(j) = "leased" /\ StageOf(j)' \notin {"leased", "acked"}
         => TriesOf(j)' = TriesOf(j) + 1
    /\ TriesOf(j)' # TriesOf(j) => StageOf(j) = "leased" /\ StageOf(j)' # "leased"

\* Every step of the lifecycle is of this kind.
LEMMA LifecycleMovesForward ==
  ASSUME [Lifecycle!LNext]_<<[j \in Job |-> StageOf(j)], [j \in Job |-> TriesOf(j)]>>
  PROVE  OnlyForward
<1> DEFINE st == [j \in Job |-> StageOf(j)]
           tr == [j \in Job |-> TriesOf(j)]
<1>1. \A j \in Job : /\ st[j] = StageOf(j) /\ st'[j] = StageOf(j)'
                     /\ tr[j] = TriesOf(j) /\ tr'[j] = TriesOf(j)'
  OBVIOUS
<1>2. ASSUME NEW S \in SUBSET Job, NEW b, b \in {"retry", "pending"}, Lifecycle!UseAttempt(S, b)
      PROVE  OnlyForward
  <2>1. \A j \in Job :
          /\ j \in S => /\ StageOf(j) = "leased" /\ StageOf(j)' \in {"dead", b}
                        /\ TriesOf(j)' = TriesOf(j) + 1
          /\ j \notin S => StageOf(j)' = StageOf(j) /\ TriesOf(j)' = TriesOf(j)
    BY <1>1, <1>2 DEF Lifecycle!UseAttempt
  <2> QED
    BY <1>2, <2>1 DEF OnlyForward
<1>3. ASSUME UNCHANGED tr PROVE \A j \in Job : TriesOf(j)' = TriesOf(j)
  BY <1>1, <1>3
<1>4. ASSUME NEW S \in SUBSET Job, NEW a, NEW b, Lifecycle!Move(S, a, b), UNCHANGED tr,
             a \notin {"acked", "dead"}, a # "leased"
      PROVE  OnlyForward
  <2>1. \A j \in Job : /\ TriesOf(j)' = TriesOf(j)
                       /\ StageOf(j) = a \/ StageOf(j)' = StageOf(j)
    BY <1>1, <1>3, <1>4 DEF Lifecycle!Move
  <2> QED
    BY <1>4, <2>1 DEF OnlyForward
<1>5. ASSUME NEW j \in Job, Lifecycle!Accept(j) PROVE OnlyForward
  <2>1. Lifecycle!Move({j}, "new", "pending") /\ UNCHANGED tr
    BY <1>5 DEF Lifecycle!Accept
  <2> QED
    BY <1>4, <2>1
<1>6. ASSUME NEW S \in SUBSET Job, Lifecycle!Lease(S) \/ Lifecycle!Resume(S)
      PROVE  OnlyForward
  <2>1. /\ Lifecycle!Move(S, "pending", "leased") \/ Lifecycle!Move(S, "retry", "pending")
        /\ UNCHANGED tr
    BY <1>6 DEF Lifecycle!Lease, Lifecycle!Resume
  <2> QED
    BY <1>4, <2>1
<1>7. ASSUME NEW S \in SUBSET Job, Lifecycle!Finish(S) PROVE OnlyForward
  <2>1. Lifecycle!Move(S, "leased", "acked") /\ \A j \in Job \ S : TriesOf(j)' = TriesOf(j)
    BY <1>1, <1>7 DEF Lifecycle!Finish
  <2>2. \A j \in Job : \/ StageOf(j) = "leased" /\ StageOf(j)' = "acked"
                       \/ StageOf(j)' = StageOf(j) /\ TriesOf(j)' = TriesOf(j)
    BY <1>1, <2>1 DEF Lifecycle!Move
  <2> QED
    BY <2>2 DEF OnlyForward
<1>8. ASSUME UNCHANGED <<st, tr>> PROVE OnlyForward
  BY <1>1, <1>8 DEF OnlyForward
<1> QED
  BY <1>2, <1>5, <1>6, <1>7, <1>8 DEF Lifecycle!LNext

\* An acked job stays acked and a dead-lettered one stays dead, whatever late or
\* duplicated call comes after; a lease that ends without an ack costs exactly one
\* attempt, whether a worker's failure or the reaper ended it, and nothing else
\* touches the count.
THEOREM JobsOnlyMoveForward == Spec => [][OnlyForward]_vars
<1>1. IInv /\ IInv' /\ [Next]_vars => OnlyForward
  BY NextRefines, LifecycleMovesForward
<1> QED
  BY <1>1, IInvAlways, PTL DEF Spec

-----------------------------------------------------------------------------
(***************************************************************************)
(* FIFO.  A list holds jobs that were never leased and jobs that came back *)
(* from a lease, mixed; the former are in the order of their creation.     *)
(***************************************************************************)
\* The jobs of list s without a lease yet, by g, are in the order of creation b.
InOrder(s, g, b) ==
  \A m, n \in 1..Len(s) :
    (m < n /\ g[s[m]] = 0 /\ g[s[n]] = 0) => b[s[m]].no < b[s[n]].no

\* What comes back to a list has been leased, so it never counts in InOrder.
FifoInv ==
  /\ \A q \in Queue : InOrder(pending[q], grants, birth)
  /\ \A q \in Queue : \A j \in DOMAIN retry[q] : grants[j] # 0

\* The empty Redis satisfies the invariant.
LEMMA InitFifo ==
  ASSUME Init
  PROVE  FifoInv
<1>1. /\ \A q \in Queue : pending[q] = <<>> /\ retry[q] = EmptyZSet
      /\ DOMAIN EmptyZSet = {}
  BY DEF Init, EmptyZSet
<1>2. Len(<<>>) = 0 /\ 1..0 = {}
  OBVIOUS
<1> QED
  BY <1>1, <1>2 DEF FifoInv, InOrder

\* Whoever is leased has a lease to show for it.
LEMMA LeasedWasGranted ==
  ASSUME IInv, NEW q \in Queue, NEW j \in DOMAIN leased[q]
  PROVE  j \in Job /\ grants[j] # 0
<1>1. j \in Job
  BY DEF IInv, TypeOK, IsZSetPerQueue, IsZSet
<1>2. grants[j] = hash[j].attempts + 1
  BY <1>1 DEF IInv, AttemptsCountEndedLeases, InSomePlace
<1>3. hash[j].attempts \in Nat
  <2>1. j \in DOMAIN hash
    BY <1>1 DEF IInv, HashBehindEveryID, InSomePlace
  <2> QED
    BY <2>1 DEF IInv, TypeOK, HashRec
<1> QED
  BY <1>1, <1>2, <1>3

\* Jobs that were leased before may be pushed in any order.
LEMMA ReturnsKeepOrder ==
  ASSUME NEW s \in Seq(Job), NEW t \in Seq(Job), NEW g, NEW b, InOrder(s, g, b),
         \A j \in Range(t) : g[j] # 0
  PROVE  InOrder(s \o t, g, b)
<1> DEFINE c == s \o t
           l == Len(s)
           r == Len(t)
<1>1. /\ l \in Nat /\ r \in Nat /\ Len(c) = l + r /\ DOMAIN t = 1..r
      /\ \A i \in 1..(l + r) : c[i] = IF i <= l THEN s[i] ELSE t[i - l]
  BY ConcatProperties, LenProperties
<1>2. \A i \in 1..r : g[t[i]] # 0
  BY <1>1 DEF Range
<1>3. \A m, n \in 1..l : (m < n /\ g[s[m]] = 0 /\ g[s[n]] = 0) => b[s[m]].no < b[s[n]].no
  BY DEF InOrder
<1> HIDE DEF c, l, r
<1> SUFFICES ASSUME NEW m \in 1..(l + r), NEW n \in 1..(l + r),
                    m < n, g[c[m]] = 0, g[c[n]] = 0
             PROVE  b[c[m]].no < b[c[n]].no
  BY <1>1 DEF InOrder, c
<1>4. n <= l
  <2> SUFFICES ASSUME n > l PROVE FALSE
    BY <1>1
  <2>1. n - l \in 1..r /\ c[n] = t[n - l]
    BY <1>1
  <2> QED
    BY <1>2, <2>1
<1>5. m \in 1..l /\ n \in 1..l /\ c[m] = s[m] /\ c[n] = s[n]
  BY <1>1, <1>4
<1> QED
  BY <1>3, <1>5

\* A new job goes behind everything that is older.
LEMMA NewestKeepsOrder ==
  ASSUME NEW s \in Seq(Job), NEW j \in Job, NEW g, NEW b, InOrder(s, g, b),
         \A i \in Range(s) : b[i].no < b[j].no
  PROVE  InOrder(Append(s, j), g, b)
<1> DEFINE c == Append(s, j)
           l == Len(s)
<1>1. /\ l \in Nat /\ Len(c) = l + 1 /\ DOMAIN s = 1..l
      /\ \A i \in 1..l : c[i] = s[i]
      /\ c[l + 1] = j
  BY AppendProperties, LenProperties
<1>2. \A i \in 1..l : b[s[i]].no < b[j].no
  BY <1>1 DEF Range
<1>3. \A m, n \in 1..l : (m < n /\ g[s[m]] = 0 /\ g[s[n]] = 0) => b[s[m]].no < b[s[n]].no
  BY DEF InOrder
<1> HIDE DEF c, l
<1> SUFFICES ASSUME NEW m \in 1..(l + 1), NEW n \in 1..(l + 1),
                    m < n, g[c[m]] = 0, g[c[n]] = 0
             PROVE  b[c[m]].no < b[c[n]].no
  BY <1>1 DEF InOrder, c
<1>4. m \in 1..l /\ c[m] = s[m]
  BY <1>1
<1>5. CASE n = l + 1
  BY <1>1, <1>2, <1>4, <1>5
<1>6. CASE n \in 1..l
  BY <1>1, <1>3, <1>4, <1>6
<1> QED
  BY <1>1, <1>5, <1>6

\* What a claim leaves is in the order it was in.
LEMMA RestKeepsOrder ==
  ASSUME NEW s \in Seq(Job), NEW k \in 0..Len(s), NEW g, NEW b, InOrder(s, g, b)
  PROVE  InOrder(SubSeq(s, k + 1, Len(s)), g, b)
<1> DEFINE c == SubSeq(s, k + 1, Len(s))
           l == Len(s)
<1>1. /\ l \in Nat /\ k \in 0..l /\ Len(c) = l - k
      /\ \A i \in 1..(l - k) : c[i] = s[k + i]
  BY SplitPositions, LenProperties
<1>2. \A m, n \in 1..l : (m < n /\ g[s[m]] = 0 /\ g[s[n]] = 0) => b[s[m]].no < b[s[n]].no
  BY DEF InOrder
<1> HIDE DEF c, l
<1> SUFFICES ASSUME NEW m \in 1..(l - k), NEW n \in 1..(l - k),
                    m < n, g[c[m]] = 0, g[c[n]] = 0
             PROVE  b[c[m]].no < b[c[n]].no
  BY <1>1 DEF InOrder, c
<1>3. k + m \in 1..l /\ k + n \in 1..l /\ k + m < k + n
  BY <1>1
<1> QED
  BY <1>1, <1>2, <1>3

\* The order depends on the lease counts and birth numbers of the list only.
LEMMA OrderByMembers ==
  ASSUME NEW s \in Seq(Job), NEW g, NEW b, NEW h, NEW d, InOrder(s, g, b),
         \A i \in Range(s) : g[i] = h[i] /\ b[i] = d[i]
  PROVE  InOrder(s, h, d)
<1>1. \A m \in 1..Len(s) : g[s[m]] = h[s[m]] /\ b[s[m]] = d[s[m]]
  BY LenProperties DEF Range
<1> QED
  BY <1>1 DEF InOrder

\* An enqueue keeps the invariant: its job has the highest number.
LEMMA EnqueueKeepsFifo ==
  ASSUME IInv, KeyInv, FifoInv, NEW q \in Queue, NEW j \in Job, NEW k \in Key \cup {NoKey},
         Enqueue(q, j, k)
  PROVE  FifoInv'
<1>1. pending \in [Queue -> Seq(Job)] /\ DOMAIN birth \subseteq Job
  BY DEF IInv, TypeOK
<1>2. PICK b : b = birth'
  OBVIOUS
<1>3. /\ j \notin DOMAIN birth
      /\ \A i \in DOMAIN birth : b[i] = birth[i]
      /\ b[j].no = Cardinality(DOMAIN birth)
      /\ pending' = [pending EXCEPT ![q] = Append(pending[q], j)]
      /\ UNCHANGED <<retry, grants>>
  BY <1>2 DEF Enqueue, PushNewJob
<1>4. \A x \in Queue : \A i \in Range(pending[x]) : i \in DOMAIN birth
  <2> SUFFICES ASSUME NEW x \in Queue, NEW i \in Range(pending[x]) PROVE i \in DOMAIN birth
    OBVIOUS
  <2>1. i \in Job
    BY <1>1, RangeOfSeq
  <2> QED
    BY <2>1 DEF IInv, NoJobLost, HashBehindEveryID, InSomePlace
<1>5. \A x \in Queue : InOrder(pending[x], grants, b)
  <2> SUFFICES ASSUME NEW x \in Queue PROVE InOrder(pending[x], grants, b)
    OBVIOUS
  <2>1. PICK s \in Seq(Job) : s = pending[x]
    BY <1>1
  <2>2. InOrder(s, grants, birth) /\ \A i \in Range(s) : grants[i] = grants[i] /\ birth[i] = b[i]
    BY <1>3, <1>4, <2>1 DEF FifoInv
  <2> QED
    BY <2>1, <2>2, OrderByMembers
<1>6. InOrder(Append(pending[q], j), grants, b)
  <2>1. PICK s \in Seq(Job) : s = pending[q]
    BY <1>1
  <2>2. InOrder(s, grants, b) /\ \A i \in Range(s) : b[i].no < b[j].no
    BY <1>3, <1>4, <1>5, <2>1 DEF KeyInv, BornInOrder
  <2> QED
    BY <2>1, <2>2, NewestKeepsOrder
<1>7. \A x \in Queue : pending'[x] = IF x = q THEN Append(pending[q], j) ELSE pending[x]
  BY <1>1, <1>3
<1> QED
  BY <1>2, <1>3, <1>5, <1>6, <1>7 DEF FifoInv

\* A claim keeps the invariant: it takes jobs off the front.
LEMMA ClaimKeepsFifo ==
  ASSUME IInv, FifoInv, NEW q \in Queue, NEW n \in Nat \ {0}, NEW t \in Nat, Claim(q, n, t)
  PROVE  FifoInv'
<1>1. pending \in [Queue -> Seq(Job)] /\ grants \in [Job -> Nat]
  BY DEF IInv, TypeOK
<1>2. PICK s \in Seq(Job) : s = pending[q]
  BY <1>1
<1>3. PICK m : m = Lesser(n, Len(s))
  OBVIOUS
<1>4. PICK got : got = Range(SubSeq(s, 1, m))
  OBVIOUS
<1>5. PICK g : g = grants'
  OBVIOUS
<1>6. /\ m \in 0..Len(s) /\ IsInjective(s)
      /\ pending' = [pending EXCEPT ![q] = SubSeq(s, m + 1, Len(s))]
      /\ g = [j \in Job |-> IF j \in got THEN grants[j] + 1 ELSE grants[j]]
      /\ UNCHANGED <<retry, birth>>
  <2>1. m \in 0..Len(s)
    BY <1>3, LenProperties DEF Lesser
  <2>2. IsInjective(s)
    BY <1>2 DEF IInv, OnePlace
  <2> QED
    BY <1>2, <1>3, <1>4, <1>5, <2>1, <2>2 DEF Claim
<1>7. \A j \in Job : grants[j] # 0 => g[j] # 0
  BY <1>1, <1>6
<1>8. InOrder(SubSeq(s, m + 1, Len(s)), g, birth)
  <2> DEFINE back == SubSeq(s, m + 1, Len(s))
  <2>1. back \in Seq(Job) /\ Range(back) = Range(s) \ got
    BY <1>4, <1>6, SplitView
  <2>2. InOrder(s, grants, birth)
    BY <1>2 DEF FifoInv
  <2>3. InOrder(back, grants, birth)
    BY <1>6, <2>2, RestKeepsOrder
  <2>4. \A i \in Range(back) : grants[i] = g[i] /\ birth[i] = birth[i]
    <3>1. Range(s) \subseteq Job
      BY RangeOfSeq
    <3> QED
      BY <1>6, <2>1, <3>1
  <2> HIDE DEF back
  <2>5. InOrder(back, g, birth)
    BY <2>1, <2>3, <2>4, OrderByMembers
  <2> QED
    BY <2>5 DEF back
<1>9. \A x \in Queue \ {q} : InOrder(pending[x], g, birth)
  <2> SUFFICES ASSUME NEW x \in Queue \ {q} PROVE InOrder(pending[x], g, birth)
    OBVIOUS
  <2>1. PICK u \in Seq(Job) : u = pending[x]
    BY <1>1
  <2>2. \A i \in Range(u) : i \in Job /\ i \notin got
    <3>1. \A i \in Range(u) : i \in Job /\ hash[i].queue = x
      BY <2>1, RangeOfSeq DEF IInv, HashBehindEveryID, InSomePlace
    <3>2. \A i \in got : i \in Range(s) /\ i \in Job
      BY <1>4, <1>6, SplitView, RangeOfSeq
    <3>3. \A i \in Range(s) : i \in Job => hash[i].queue = q
      BY <1>2 DEF IInv, HashBehindEveryID, InSomePlace
    <3> QED
      BY <3>1, <3>2, <3>3
  <2>3. InOrder(u, grants, birth) /\ \A i \in Range(u) : grants[i] = g[i] /\ birth[i] = birth[i]
    BY <1>6, <2>1, <2>2 DEF FifoInv
  <2> QED
    BY <2>1, <2>3, OrderByMembers
<1>10. /\ \A x \in Queue : pending'[x] = IF x = q THEN SubSeq(s, m + 1, Len(s)) ELSE pending[x]
       /\ \A x \in Queue : \A j \in DOMAIN retry[x] : j \in Job
  BY <1>1, <1>6 DEF IInv, TypeOK, IsZSetPerQueue, IsZSet
<1> QED
  BY <1>5, <1>6, <1>7, <1>8, <1>9, <1>10 DEF FifoInv

\* Fail keeps the invariant: the job it sends to the retry set was leased.
LEMMA FailKeepsFifo ==
  ASSUME IInv, FifoInv, NEW q \in Queue, NEW j \in Job, NEW t, NEW d, Fail(q, j, t, d)
  PROVE  FifoInv'
<1>1. j \in DOMAIN leased[q] /\ grants[j] # 0 /\ UNCHANGED <<pending, grants, birth>>
  BY LeasedWasGranted DEF Fail, historyVars
<1>2. \A x \in Queue : DOMAIN retry'[x] \subseteq DOMAIN retry[x] \cup {j}
  <2>1. /\ retry = [x \in Queue |-> retry[x]]
        /\ DOMAIN ZAdd(retry[q], t + d, {j}) = DOMAIN retry[q] \cup {j}
    BY DEF IInv, TypeOK, IsZSetPerQueue, ZAdd
  <2>2. retry' = retry \/ retry' = [retry EXCEPT ![q] = ZAdd(retry[q], t + d, {j})]
    BY DEF Fail
  <2> QED
    BY <2>1, <2>2
<1> QED
  BY <1>1, <1>2 DEF FifoInv

\* A drain keeps the invariant: what it pushes was leased before.
LEMMA DrainKeepsFifo ==
  ASSUME IInv, FifoInv, NEW q \in Queue, NEW z, NEW due \in SUBSET Job,
         NEW s \in ScoreOrders(z, due), \A j \in due : grants[j] # 0,
         pending' = [pending EXCEPT ![q] = pending[q] \o s],
         \A x \in Queue : DOMAIN retry'[x] \subseteq DOMAIN retry[x],
         UNCHANGED <<grants, birth>>
  PROVE  FifoInv'
<1>1. pending \in [Queue -> Seq(Job)]
  BY DEF IInv, TypeOK
<1>2. s \in Seq(Job) /\ Range(s) = due
  <2>1. IsFiniteSet(due)
    BY JobStoreAssumption, FS_Subset
  <2>2. s \in Seq(due) /\ Range(s) = due
    BY <2>1, ScoreOrdersView
  <2> QED
    BY <2>2
<1>3. InOrder(pending[q] \o s, grants, birth)
  <2>1. PICK u \in Seq(Job) : u = pending[q]
    BY <1>1
  <2>2. InOrder(u, grants, birth)
    BY <2>1 DEF FifoInv
  <2> QED
    BY <1>2, <2>1, <2>2, ReturnsKeepOrder
<1>4. \A x \in Queue : pending'[x] = IF x = q THEN pending[q] \o s ELSE pending[x]
  BY <1>1
<1> QED
  BY <1>3, <1>4 DEF FifoInv

\* The reaper's drain keeps the invariant.
LEMMA ReapKeepsFifo ==
  ASSUME IInv, FifoInv, NEW q \in Queue, NEW t, Reap(q, t)
  PROVE  FifoInv'
<1>1. PICK due \in LowestDue(leased[q], t, DrainLimit) :
        /\ \E s \in ScoreOrders(leased[q],
                  due \ {i \in due : Exhausted(HIncrAttempts(hash, due)[i].attempts)}) :
             pending' = [pending EXCEPT ![q] = pending[q] \o s]
        /\ UNCHANGED <<retry, grants, birth>>
  BY DEF Reap, historyVars
<1>2. IsZSet(leased[q], Job)
  BY DEF IInv, TypeOK, IsZSetPerQueue
<1>3. due \subseteq DOMAIN leased[q] /\ due \subseteq Job
  BY <1>1, <1>2, DueView
<1>4. PICK rest : rest = due \ {i \in due : Exhausted(HIncrAttempts(hash, due)[i].attempts)}
  OBVIOUS
<1>5. rest \in SUBSET Job /\ \A j \in rest : grants[j] # 0
  BY <1>3, <1>4, LeasedWasGranted
<1>6. PICK s \in ScoreOrders(leased[q], rest) :
        pending' = [pending EXCEPT ![q] = pending[q] \o s]
  BY <1>1, <1>4
<1>7. s \in ScoreOrders(leased[q], rest)
  BY <1>6
<1> QED
  BY <1>1, <1>5, <1>6, <1>7, DrainKeepsFifo

\* The retry drainer's drain keeps the invariant.
LEMMA DrainRetryKeepsFifo ==
  ASSUME IInv, FifoInv, NEW q \in Queue, NEW t, DrainRetry(q, t)
  PROVE  FifoInv'
<1>1. PICK due \in LowestDue(retry[q], t, DrainLimit) :
        /\ \E s \in ScoreOrders(retry[q], due) :
             pending' = [pending EXCEPT ![q] = pending[q] \o s]
        /\ retry' = [retry EXCEPT ![q] = ZRem(retry[q], due)]
        /\ UNCHANGED <<grants, birth>>
  BY DEF DrainRetry, historyVars
<1>2. IsZSet(retry[q], Job) /\ retry = [x \in Queue |-> retry[x]]
  BY DEF IInv, TypeOK, IsZSetPerQueue
<1>3. due \subseteq DOMAIN retry[q] /\ due \subseteq Job
  BY <1>1, <1>2, DueView
<1>4. due \in SUBSET Job /\ \A j \in due : grants[j] # 0
  BY <1>3 DEF FifoInv
<1>5. \A x \in Queue : DOMAIN retry'[x] \subseteq DOMAIN retry[x]
  <2>1. DOMAIN ZRem(retry[q], due) \subseteq DOMAIN retry[q]
    BY DEF ZRem
  <2> QED
    BY <1>1, <1>2, <2>1
<1>6. PICK s \in ScoreOrders(retry[q], due) :
        pending' = [pending EXCEPT ![q] = pending[q] \o s]
  BY <1>1
<1>7. s \in ScoreOrders(retry[q], due)
  BY <1>6
<1> QED
  BY <1>1, <1>4, <1>5, <1>6, <1>7, DrainKeepsFifo

\* Every step keeps the invariant.
LEMMA NextKeepsFifo ==
  ASSUME IInv, KeyInv, FifoInv, [Next]_vars
  PROVE  FifoInv'
<1>1. Reading \subseteq Nat /\ 1..MaxClaimBatch \subseteq Nat \ {0}
  BY JobStoreAssumption DEF IInv, TypeOK, Reading
<1>2. ASSUME UNCHANGED <<pending, retry, grants, birth>> PROVE FifoInv'
  BY <1>2 DEF FifoInv
<1>3. ASSUME NEW q \in Queue, NEW j \in Job, NEW k \in Key \cup {NoKey}, Enqueue(q, j, k)
      PROVE  FifoInv'
  BY <1>3, EnqueueKeepsFifo
<1>4. ASSUME NEW q \in Queue, NEW n \in 1..MaxClaimBatch, NEW t \in Reading, Claim(q, n, t)
      PROVE  FifoInv'
  BY <1>1, <1>4, ClaimKeepsFifo
<1>5. ASSUME NEW q \in Queue, NEW j \in Job, NEW t \in Reading, Renew(q, j, t)
      PROVE  FifoInv'
  BY <1>2, <1>5 DEF Renew, historyVars
<1>6. ASSUME NEW q \in Queue, NEW ids \in SUBSET Job, Ack(q, ids)
      PROVE  FifoInv'
  BY <1>2, <1>6 DEF Ack
<1>7. ASSUME NEW q \in Queue, NEW j \in Job, NEW t \in Reading, NEW d \in Delay, Fail(q, j, t, d)
      PROVE  FifoInv'
  BY <1>7, FailKeepsFifo
<1>8. ASSUME NEW q \in Queue, NEW t \in Reading, Reap(q, t) PROVE FifoInv'
  BY <1>8, ReapKeepsFifo
<1>9. ASSUME NEW q \in Queue, NEW t \in Reading, DrainRetry(q, t) PROVE FifoInv'
  BY <1>9, DrainRetryKeepsFifo
<1>10. ASSUME Tick \/ UNCHANGED vars PROVE FifoInv'
  BY <1>2, <1>10 DEF Tick, vars, redisVars, historyVars
<1> QED
  BY <1>3, <1>4, <1>5, <1>6, <1>7, <1>8, <1>9, <1>10 DEF Next

\* Lists are always in the order described.
THEOREM FifoInvAlways == Spec => []FifoInv
<1>1. Init => FifoInv
  BY InitFifo
<1>2. IInv /\ KeyInv /\ FifoInv /\ [Next]_vars => FifoInv'
  BY NextKeepsFifo
<1> QED
  BY <1>1, <1>2, IInvAlways, KeyInvAlways, PTL DEF Spec

\* What one step may not do, in words of the state before it: see FreshJobsInOrder.
LeasesOldestFirst ==
  \A q \in Queue : \A i, j \in Range(pending[q]) :
    (/\ grants[i] = 0 /\ grants[j] = 0
     /\ birth[i].no < birth[j].no
     /\ j \in DOMAIN leased'[q])
      => i \notin Range(pending'[q])

\* No script but claim leases a job that is pending.
LEMMA OnlyClaimLeases ==
  ASSUME IInv, NEW q \in Queue, DOMAIN leased'[q] \subseteq DOMAIN leased[q]
  PROVE  \A j \in Range(pending[q]) : j \notin DOMAIN leased'[q]
BY DEF IInv, OnePlace

\* A claim takes what is in front, and what is in front is older.
LEMMA ClaimTakesOldest ==
  ASSUME IInv, KeyInv, FifoInv, NEW q \in Queue, NEW n \in Nat \ {0}, NEW t \in Nat,
         Claim(q, n, t), NEW i \in Range(pending[q]), NEW j \in Range(pending[q]),
         grants[i] = 0, grants[j] = 0, birth[i].no < birth[j].no, j \in DOMAIN leased'[q]
  PROVE  i \notin Range(pending'[q])
<1>1. PICK s \in Seq(Job) : s = pending[q]
  BY DEF IInv, TypeOK
<1>2. PICK m : m = Lesser(n, Len(s))
  OBVIOUS
<1>3. PICK got : got = Range(SubSeq(s, 1, m))
  OBVIOUS
<1>4. /\ Range(pending'[q]) = Range(s) \ got
      /\ DOMAIN leased'[q] = DOMAIN leased[q] \cup got
      /\ m \in 1..Len(s)
  BY <1>1, <1>2, <1>3, ClaimView
<1>5. j \in got
  BY <1>4 DEF IInv, OnePlace
<1>6. SUFFICES ASSUME i \notin got PROVE FALSE
  BY <1>4
<1> DEFINE front == SubSeq(s, 1, m)
           l == Len(s)
<1>7. /\ l \in Nat /\ DOMAIN s = 1..l /\ DOMAIN front = 1..m
      /\ \A k \in 1..m : front[k] = s[k]
  <2>1. m \in 0..Len(s)
    BY <1>4, LenProperties
  <2>2. front \in Seq(Job) /\ Len(front) = m /\ \A k \in 1..m : front[k] = s[k]
    BY <2>1, SplitPositions
  <2> QED
    BY <2>2, LenProperties
<1>8. \A a, b \in 1..l :
        (a < b /\ grants[s[a]] = 0 /\ grants[s[b]] = 0) => birth[s[a]].no < birth[s[b]].no
  BY <1>1 DEF FifoInv, InOrder
<1>9. got = Range(front)
  BY <1>3
<1>10. birth[i].no \in Nat /\ birth[j].no \in Nat
  <2>1. i \in Job /\ j \in Job
    BY <1>1, RangeOfSeq
  <2>2. i \in DOMAIN birth /\ j \in DOMAIN birth
    BY <2>1 DEF IInv, NoJobLost, HashBehindEveryID, InSomePlace
  <2> QED
    BY <2>2 DEF IInv, TypeOK, BirthRec
<1> HIDE DEF front, l
<1>11. PICK b \in 1..m : s[b] = j
  BY <1>5, <1>7, <1>9 DEF Range
<1>12. PICK a \in 1..l : s[a] = i
  BY <1>1, <1>7 DEF Range
<1>13. a > m
  <2> SUFFICES ASSUME a \in 1..m PROVE FALSE
    BY <1>4, <1>7 DEF l
  <2>1. front[a] = i /\ a \in DOMAIN front
    BY <1>7, <1>12
  <2> QED
    BY <1>6, <1>9, <2>1 DEF Range
<1>14. b < a /\ b \in 1..l
  BY <1>4, <1>7, <1>13 DEF l
<1>15. birth[j].no < birth[i].no
  BY <1>8, <1>11, <1>12, <1>14
<1> QED
  BY <1>10, <1>15

\* The leases of a queue grow only in a claim of that queue.
LEMMA LeasesGrowInClaims ==
  ASSUME IInv, [Next]_vars, NEW q \in Queue
  PROVE  \/ DOMAIN leased'[q] \subseteq DOMAIN leased[q]
         \/ \E n \in 1..MaxClaimBatch, t \in Reading : Claim(q, n, t)
<1>1. leased = [x \in Queue |-> leased[x]]
  BY DEF IInv, TypeOK, IsZSetPerQueue
<1>2. ASSUME NEW x \in Queue, NEW S, leased' = [leased EXCEPT ![x] = ZRem(leased[x], S)]
      PROVE  DOMAIN leased'[q] \subseteq DOMAIN leased[q]
  <2>1. DOMAIN ZRem(leased[x], S) \subseteq DOMAIN leased[x]
    BY DEF ZRem
  <2> QED
    BY <1>1, <1>2, <2>1
<1>3. ASSUME NEW x \in Queue, NEW j \in Job, NEW k \in Key \cup {NoKey}, Enqueue(x, j, k)
      PROVE  leased' = leased
  BY <1>3 DEF Enqueue, PushNewJob
<1>4. ASSUME NEW x \in Queue, NEW n \in 1..MaxClaimBatch, NEW t \in Reading, Claim(x, n, t), x # q
      PROVE  leased'[q] = leased[q]
  BY <1>1, <1>4 DEF Claim
<1>5. ASSUME NEW x \in Queue, NEW j \in Job, NEW t \in Reading, Renew(x, j, t)
      PROVE  DOMAIN leased'[q] \subseteq DOMAIN leased[q]
  <2>1. /\ leased' = [leased EXCEPT ![x] = ZAdd(leased[x], t + LeaseTTL, {j})]
        /\ DOMAIN ZAdd(leased[x], t + LeaseTTL, {j}) = DOMAIN leased[x]
    BY <1>5 DEF Renew, ZAdd
  <2> QED
    BY <1>1, <2>1
<1>6. ASSUME NEW x \in Queue, NEW ids \in SUBSET Job, Ack(x, ids)
      PROVE  DOMAIN leased'[q] \subseteq DOMAIN leased[q]
  BY <1>2, <1>6 DEF Ack
<1>7. ASSUME NEW x \in Queue, NEW j \in Job, NEW t \in Reading, NEW d \in Delay, Fail(x, j, t, d)
      PROVE  DOMAIN leased'[q] \subseteq DOMAIN leased[q]
  BY <1>2, <1>7 DEF Fail
<1>8. ASSUME NEW x \in Queue, NEW t \in Reading, Reap(x, t)
      PROVE  DOMAIN leased'[q] \subseteq DOMAIN leased[q]
  <2>1. PICK due : leased' = [leased EXCEPT ![x] = ZRem(leased[x], due)]
    BY <1>8 DEF Reap
  <2> QED
    BY <1>2, <2>1
<1>9. ASSUME NEW x \in Queue, NEW t \in Reading, DrainRetry(x, t) PROVE leased' = leased
  BY <1>9 DEF DrainRetry
<1>10. ASSUME Tick \/ UNCHANGED vars PROVE leased' = leased
  BY <1>10 DEF Tick, vars, redisVars
<1> QED
  BY <1>3, <1>4, <1>5, <1>6, <1>7, <1>8, <1>9, <1>10 DEF Next

\* Jobs are leased oldest first: a claim never takes a job ahead of an older one
\* that was never leased and stays pending, whatever the scripts of other calls
\* do to the list in between.
THEOREM ClaimsAreFifo == Spec => FreshJobsInOrder
<1>1. IInv /\ KeyInv /\ FifoInv /\ [Next]_vars => LeasesOldestFirst
  <2> SUFFICES ASSUME IInv, KeyInv, FifoInv, [Next]_vars, NEW q \in Queue,
                      NEW i \in Range(pending[q]), NEW j \in Range(pending[q]),
                      grants[i] = 0, grants[j] = 0, birth[i].no < birth[j].no,
                      j \in DOMAIN leased'[q]
               PROVE  i \notin Range(pending'[q])
    BY DEF LeasesOldestFirst
  <2>1. Reading \subseteq Nat /\ 1..MaxClaimBatch \subseteq Nat \ {0}
    BY JobStoreAssumption DEF IInv, TypeOK, Reading
  <2>2. PICK n \in 1..MaxClaimBatch, t \in Reading : Claim(q, n, t)
    BY OnlyClaimLeases, LeasesGrowInClaims
  <2> QED
    BY <2>1, <2>2, ClaimTakesOldest
<1>2. FreshJobsInOrder <=> [][LeasesOldestFirst]_vars
  BY PTL DEF FreshJobsInOrder, LeasesOldestFirst
<1> QED
  BY <1>1, <1>2, IInvAlways, KeyInvAlways, FifoInvAlways, PTL DEF Spec
-----------------------------------------------------------------------------
(***************************************************************************)
(* Backoff.  Facts about 2^n come from counting the subsets of 1..n, which *)
(* the library does: they need no induction here.                          *)
(***************************************************************************)
\* 2^n counts the subsets of 1..n.
LEMMA PowerView ==
  ASSUME NEW n \in Nat
  PROVE  IsFiniteSet(SUBSET (1..n)) /\ Cardinality(SUBSET (1..n)) = 2^n
<1>1. IsFiniteSet(1..n) /\ Cardinality(1..n) = n
  BY FS_Interval
<1> QED
  BY <1>1, FS_SUBSET

\* So it is a positive number.
LEMMA PowerType ==
  ASSUME NEW n \in Nat
  PROVE  2^n \in Nat /\ 2^n >= 1
<1>1. 2^n \in Nat
  BY PowerView, FS_CardinalityType
<1>2. SUBSET (1..n) # {}
  OBVIOUS
<1>3. Cardinality(SUBSET (1..n)) # 0
  BY <1>2, PowerView, FS_EmptySet
<1> QED
  BY <1>1, <1>3, PowerView

\* It grows with n.
LEMMA PowerGrows ==
  ASSUME NEW m \in Nat, NEW n \in Nat, m <= n
  PROVE  2^m <= 2^n
<1>1. SUBSET (1..m) \in SUBSET (SUBSET (1..n))
  OBVIOUS
<1>2. Cardinality(SUBSET (1..m)) <= Cardinality(SUBSET (1..n))
  BY <1>1, PowerView, FS_Subset
<1> QED
  BY <1>2, PowerView

\* One more element doubles the subsets.
LEMMA PowerDoubles ==
  ASSUME NEW n \in Nat
  PROVE  2^(n + 1) = 2 * 2^n
<1> DEFINE A == SUBSET (1..n)
           B == {s \cup {n + 1} : s \in A}
           f == [s \in A |-> s \cup {n + 1}]
<1>1. SUBSET (1..(n + 1)) = A \cup B
  <2>1. ASSUME NEW s \in SUBSET (1..(n + 1)), n + 1 \in s PROVE s \in B
    <3>1. s \ {n + 1} \in A /\ s = (s \ {n + 1}) \cup {n + 1}
      BY <2>1
    <3> QED
      BY <3>1
  <2>2. ASSUME NEW s \in SUBSET (1..(n + 1)), n + 1 \notin s PROVE s \in A
    BY <2>2
  <2>3. ASSUME NEW s \in A PROVE s \in SUBSET (1..(n + 1)) /\ s \cup {n + 1} \in SUBSET (1..(n + 1))
    <3>1. \A x \in s : x \in 1..(n + 1)
      OBVIOUS
    <3>2. n + 1 \in 1..(n + 1)
      OBVIOUS
    <3> QED
      BY <3>1, <3>2
  <2>4. SUBSET (1..(n + 1)) \subseteq A \cup B
    BY <2>1, <2>2
  <2>5. ASSUME NEW t \in A \cup B PROVE t \in SUBSET (1..(n + 1))
    <3>1. CASE t \in A
      BY <2>3, <3>1
    <3>2. CASE t \in B
      <4>1. PICK s \in A : t = s \cup {n + 1}
        BY <3>2
      <4> QED
        BY <2>3, <4>1
    <3> QED
      BY <2>5, <3>1, <3>2
  <2> QED
    BY <2>4, <2>5
<1>2. A \cap B = {}
  OBVIOUS
<1>3. f \in Bijection(A, B)
  <2>1. \A s, t \in A : f[s] = f[t] => s = t
    OBVIOUS
  <2>2. f \in [A -> B] /\ \A t \in B : \E s \in A : f[s] = t
    OBVIOUS
  <2> QED
    BY <2>1, <2>2 DEF Bijection, Injection, Surjection, IsInjective
<1>4. IsFiniteSet(A) /\ Cardinality(A) = 2^n
  BY PowerView
<1> HIDE DEF A, B, f
<1>5. IsFiniteSet(B) /\ Cardinality(B) = 2^n
  BY <1>3, <1>4, FS_Bijection DEF ExistsBijection
<1>6. Cardinality(A \cup B) = 2^n + 2^n - 0
  BY <1>2, <1>4, <1>5, FS_Union, FS_EmptySet
<1>7. Cardinality(A \cup B) = 2^(n + 1)
  BY <1>1, PowerView
<1> QED
  BY <1>6, <1>7, PowerType

\* A number below the modulus is its own remainder.
LEMMA SmallRemainder ==
  ASSUME NEW a \in Nat, NEW b \in Nat, a < b
  PROVE  a % b = a
OBVIOUS

\* Division rounds down to the multiple below.
LEMMA Rounding ==
  ASSUME NEW n \in Nat, NEW d \in Nat \ {0}
  PROVE  LET q == n \div d
         IN q \in Nat /\ d * q <= n /\ n < d * (q + 1)
OBVIOUS

\* Rounding down keeps the order.
LEMMA RoundingGrows ==
  ASSUME NEW m \in Nat, NEW n \in Nat, NEW d \in Nat \ {0}, m <= n
  PROVE  m \div d <= n \div d
OBVIOUS

\* So does a product.
LEMMA ProductGrows ==
  ASSUME NEW a \in Nat, NEW b \in Nat, NEW c \in Nat, NEW d \in Nat, a <= b, c <= d
  PROVE  a * c \in Nat /\ a * c <= b * d
OBVIOUS

\* A base whose longest delay fits a time.Duration.
Fits(base) == base \in Nat /\ base * 2^MaxShift < 2^(Width - 1)

\* For such a base the nominal delay is exact: nothing of it is cut off.
LEMMA NominalView ==
  ASSUME NEW base, Fits(base), NEW attempt \in Int
  PROVE  /\ ShiftOf(attempt) \in 0..MaxShift
         /\ Nominal(base, attempt) = base * 2^ShiftOf(attempt)
         /\ Nominal(base, attempt) \in Nat
<1>1. ShiftOf(attempt) \in 0..MaxShift /\ MaxShift \in Nat /\ Width - 1 \in Nat
  BY BackoffAssumption DEF ShiftOf
<1>2. PICK shift \in Nat : shift = ShiftOf(attempt) /\ shift <= MaxShift
  BY <1>1
<1>3. PICK p \in Nat : p = 2^shift
  BY PowerType
<1>4. PICK top \in Nat : top = 2^MaxShift
  BY <1>1, PowerType
<1>5. PICK half \in Nat : half = 2^(Width - 1) /\ half >= 1
  BY <1>1, PowerType
<1>6. p <= top
  BY <1>1, <1>2, <1>3, <1>4, PowerGrows
<1>7. base \in Nat /\ base * top < half
  BY <1>4, <1>5 DEF Fits
<1>8. base * p \in Nat /\ base * p <= base * top
  BY <1>6, <1>7, ProductGrows
<1>9. PICK n \in Nat : n = base * p /\ n < half
  <2>1. base * top \in Nat
    BY <1>7
  <2> QED
    BY <1>5, <1>7, <1>8, <2>1
<1>10. (n + half) % (2 * half) = n + half
  BY <1>5, <1>9, SmallRemainder
<1>11. ToDuration(n) = n
  BY <1>5, <1>9, <1>10 DEF ToDuration
<1> QED
  BY <1>1, <1>2, <1>3, <1>9, <1>11 DEF Nominal

\* Each delay is a number of nanoseconds from half of the nominal delay to all of
\* it, rounded down to milliseconds.
LEMMA DelaysView ==
  ASSUME NEW base, Fits(base), NEW attempt \in Int, NEW ms \in Delays(base, attempt)
  PROVE  LET n == base * 2^ShiftOf(attempt)
         IN /\ n \in Nat
            /\ \E d \in Nat : n \div 2 <= d /\ d <= n /\ ms = d \div Millisecond
<1>1. PICK n \in Nat : n = base * 2^ShiftOf(attempt) /\ n = Nominal(base, attempt)
  BY NominalView
<1>2. n \div 2 \in Nat /\ Quotient(n, 2) = n \div 2
  BY <1>1 DEF Quotient
<1>3. PICK d \in (n \div 2)..n : ms = Quotient(d, Millisecond)
  BY <1>1, <1>2 DEF Delays
<1>4. d \in Nat /\ n \div 2 <= d /\ d <= n
  BY <1>2, <1>3
<1>5. ms = d \div Millisecond
  BY <1>3, <1>4 DEF Quotient
<1> QED
  BY <1>1, <1>4, <1>5

\* A smaller base fits too.
LEMMA SmallerBaseFits ==
  ASSUME Fits(MaxBase), NEW base \in 0..MaxBase
  PROVE  Fits(base)
<1>1. PICK top \in Nat : top = 2^MaxShift
  BY BackoffAssumption, PowerType
<1>2. PICK half \in Nat : half = 2^(Width - 1)
  <2>1. Width - 1 \in Nat
    BY BackoffAssumption
  <2> QED
    BY <2>1, PowerType
<1>3. base \in Nat /\ MaxBase \in Nat /\ base <= MaxBase /\ MaxBase * top < half
  BY <1>1, <1>2, BackoffAssumption DEF Fits
<1>4. base * top \in Nat /\ MaxBase * top \in Nat /\ base * top <= MaxBase * top
  BY <1>1, <1>3, ProductGrows
<1>5. base * top < half
  BY <1>2, <1>3, <1>4
<1> QED
  BY <1>1, <1>2, <1>3, <1>5 DEF Fits

\* The shift that the reference describes is the one the code clamps to.
LEMMA ShiftView ==
  ASSUME NEW attempt \in Int, NEW shift \in 0..MaxShift,
         \A s \in 0..MaxShift : s <= shift <=> s <= attempt \/ s = 0
  PROVE  shift = ShiftOf(attempt)
<1>1. MaxShift \in Nat
  BY BackoffAssumption
<1>2. PICK t \in 0..MaxShift : t = ShiftOf(attempt)
  BY <1>1 DEF ShiftOf
<1>3. (t <= attempt \/ t = 0) /\ ((shift <= attempt \/ shift = 0) => shift <= t)
  BY <1>1, <1>2 DEF ShiftOf
<1>4. t <= shift /\ (shift <= attempt \/ shift = 0)
  BY <1>1, <1>3
<1> QED
  BY <1>1, <1>2, <1>3, <1>4

\* What the rounding to milliseconds leaves of a delay is in the band.
LEMMA Band ==
  ASSUME NEW n \in Nat, NEW d \in Nat, n \div 2 <= d, d <= n,
         NEW ms, ms = d \div Millisecond
  PROVE  n < 2 * Millisecond * (ms + 1) /\ Millisecond * ms <= n
<1>1. Millisecond \in Nat \ {0}
  BY BackoffAssumption
<1>2. ms \in Nat /\ Millisecond * ms <= d /\ d < Millisecond * (ms + 1)
  BY <1>1, Rounding
<1>3. n < 2 * ((n \div 2) + 1) /\ n \div 2 \in Nat
  BY Rounding
<1>4. PICK x \in Nat : x = Millisecond * (ms + 1)
  BY <1>1, <1>2
<1>5. n < 2 * x
  BY <1>2, <1>3, <1>4
<1>6. 2 * Millisecond * (ms + 1) = 2 * x
  BY <1>1, <1>2, <1>4
<1>7. Millisecond * ms \in Nat
  BY <1>1, <1>2
<1> QED
  BY <1>2, <1>5, <1>6, <1>7

\* The least delay of an attempt is no shorter than the longest of the one before.
LEMMA NoShorterThanBefore ==
  ASSUME NEW base, Fits(base), NEW attempt \in 0..(MaxShift - 1),
         NEW ms \in Delays(base, attempt), NEW longer \in Delays(base, attempt + 1)
  PROVE  ms <= longer
<1>1. MaxShift \in Nat /\ Millisecond \in Nat \ {0} /\ base \in Nat
  BY BackoffAssumption DEF Fits
<1>2. attempt \in Nat /\ ShiftOf(attempt) = attempt /\ ShiftOf(attempt + 1) = attempt + 1
  BY <1>1 DEF ShiftOf
<1>3. PICK n \in Nat, d \in Nat : n = base * 2^attempt /\ d <= n /\ ms = d \div Millisecond
  BY <1>2, DelaysView
<1>4. PICK m \in Nat, e \in Nat :
        m = base * 2^(attempt + 1) /\ m \div 2 <= e /\ longer = e \div Millisecond
  BY <1>2, DelaysView
<1>5. PICK p \in Nat : p = 2^attempt /\ 2^(attempt + 1) = 2 * p
  BY <1>2, PowerType, PowerDoubles
<1>6. m = 2 * n
  BY <1>1, <1>3, <1>4, <1>5
<1>7. m \div 2 = n
  BY <1>6
<1>8. d <= e
  BY <1>3, <1>4, <1>7
<1> QED
  BY <1>1, <1>3, <1>4, <1>8, RoundingGrows

\* For every attempt the code agrees with the reference.
LEMMA EveryAttemptInBand ==
  ASSUME Fits(MaxBase), NEW attempt \in SomeAttempts
  PROVE  InBand[attempt]
<1>1. attempt \in Int
  BY BackoffAssumption DEF SomeAttempts
<1>2. ASSUME NEW base \in 0..MaxBase, NEW shift \in 0..MaxShift,
             \A s \in 0..MaxShift : s <= shift <=> s <= attempt \/ s = 0,
             NEW ms \in Delays(base, attempt)
      PROVE  /\ base * 2^shift < 2 * Millisecond * (ms + 1)
             /\ Millisecond * ms <= base * 2^shift
             /\ attempt \in 0..(MaxShift - 1) =>
                  \A longer \in Delays(base, attempt + 1) : ms <= longer
  <2>1. Fits(base)
    BY SmallerBaseFits
  <2>2. shift = ShiftOf(attempt)
    BY <1>1, <1>2, ShiftView
  <2>3. PICK n \in Nat, d \in Nat :
          /\ n = base * 2^shift
          /\ n \div 2 <= d /\ d <= n /\ ms = d \div Millisecond
    BY <1>1, <2>1, <2>2, DelaysView
  <2>4. n < 2 * Millisecond * (ms + 1) /\ Millisecond * ms <= n
    BY <2>3, Band
  <2> QED
    BY <2>1, <2>3, <2>4, NoShorterThanBefore
<1> QED
  BY <1>2 DEF InBand

\* Whatever attempt a worker sends, a base whose longest delay fits a
\* time.Duration gives delays from half of base * 2^attempt, the attempt clamped,
\* to all of it, up to the rounding to milliseconds: the jitter of Backoff's
\* comment, and no delay is negative.
THEOREM DelaysInBand ==
  ASSUME NEW base, Fits(base), NEW attempt \in Int, NEW ms \in Delays(base, attempt)
  PROVE  /\ ms \in Nat
         /\ base * 2^ShiftOf(attempt) < 2 * Millisecond * (ms + 1)
         /\ Millisecond * ms <= base * 2^ShiftOf(attempt)
<1>1. PICK n \in Nat, d \in Nat :
        /\ n = base * 2^ShiftOf(attempt)
        /\ n \div 2 <= d /\ d <= n /\ ms = d \div Millisecond
  BY DelaysView
<1>2. ms \in Nat
  BY <1>1, BackoffAssumption, Rounding
<1> QED
  BY <1>1, <1>2, Band

\* The attempts up to the cap give every delay there is: the store's delays are
\* those of whatever attempt a request carries.
LEMMA ClampedAttempts ==
  ASSUME NEW attempt \in Int
  PROVE  Delays(BackoffBase, attempt) \subseteq RetryDelays
<1>1. PICK shift \in 0..MaxShift : shift = ShiftOf(attempt) /\ ShiftOf(shift) = shift
  BY BackoffAssumption DEF ShiftOf
<1>2. Nominal(BackoffBase, attempt) = Nominal(BackoffBase, shift)
  BY <1>1 DEF Nominal
<1>3. Delays(BackoffBase, attempt) = Delays(BackoffBase, shift)
  BY <1>2 DEF Delays
<1> QED
  BY <1>1, <1>3 DEF RetryDelays, BackoffDelays

\* No delay of the store is longer than the cap allows.
LEMMA LongestDelay ==
  ASSUME Fits(BackoffBase), NEW ms \in RetryDelays
  PROVE  ms \in Nat /\ Millisecond * ms <= BackoffBase * 2^MaxShift
<1>1. PICK attempt \in 0..MaxShift : ms \in Delays(BackoffBase, attempt)
  BY DEF RetryDelays, BackoffDelays
<1>2. attempt \in Nat /\ ShiftOf(attempt) = attempt /\ attempt <= MaxShift /\ MaxShift \in Nat
  BY <1>1, BackoffAssumption DEF ShiftOf
<1>3. ms \in Nat /\ Millisecond * ms <= BackoffBase * 2^attempt
  BY <1>1, <1>2, DelaysInBand
<1>4. PICK p \in Nat : p = 2^attempt
  BY <1>2, PowerType
<1>5. PICK top \in Nat : top = 2^MaxShift
  BY <1>2, PowerType
<1>6. p <= top
  BY <1>2, <1>4, <1>5, PowerGrows
<1>7. /\ BackoffBase * p \in Nat /\ BackoffBase * top \in Nat
      /\ BackoffBase * p <= BackoffBase * top
  BY <1>6, BackoffAssumption, ProductGrows
<1>8. Millisecond * ms \in Nat
  BY <1>3, BackoffAssumption
<1> QED
  BY <1>3, <1>4, <1>5, <1>7, <1>8

\* The store asks of its delays only that they are not negative, and Backoff keeps
\* its side when the configured base fits, whatever attempt a request carries: every
\* theorem about the store holds with the delays that Fail computes.
THEOREM BackoffMeetsAssumption ==
  ASSUME Fits(BackoffBase)
  PROVE  /\ RetryDelays \subseteq Nat
         /\ \A attempt \in Int : Delays(BackoffBase, attempt) \subseteq RetryDelays
BY LongestDelay, ClampedAttempts

\* The scores of the retry sets are at most far ahead.
RetryWithin(far) ==
  \A q \in Queue : \A j \in DOMAIN retry[q] :
    Millisecond * retry[q][j] <= Millisecond * (now + MaxSkew) + far

\* A score that was not too far ahead is not later on either.
LEMMA LaterIsNearer ==
  ASSUME NEW n \in Nat, NEW m \in Nat, n <= m, NEW far \in Nat, NEW score \in Nat,
         Millisecond * score <= Millisecond * (n + MaxSkew) + far
  PROVE  Millisecond * score <= Millisecond * (m + MaxSkew) + far
<1>1. Millisecond \in Nat /\ MaxSkew \in Nat
  BY BackoffAssumption, JobStoreAssumption
<1>2. PICK a \in Nat, b \in Nat : a = n + MaxSkew /\ b = m + MaxSkew /\ a <= b
  BY <1>1
<1>3. Millisecond * a \in Nat /\ Millisecond * b \in Nat /\ Millisecond * a <= Millisecond * b
  BY <1>1, <1>2, ProductGrows
<1>4. Millisecond * score \in Nat
  BY <1>1
<1> QED
  BY <1>2, <1>3, <1>4

\* A failure adds a delay to a clock that is at most the skew ahead.
LEMMA FailStaysWithin ==
  ASSUME TypeOK, NEW far \in Nat, RetryWithin(far), \A d \in Delay : Millisecond * d <= far,
         NEW q \in Queue, NEW j \in Job, NEW t \in Reading, NEW d \in Delay, Fail(q, j, t, d)
  PROVE  RetryWithin(far)'
<1>1. /\ Millisecond \in Nat /\ MaxSkew \in Nat /\ now \in Nat /\ d \in Nat
      /\ t \in Nat /\ t <= now + MaxSkew
  BY BackoffAssumption, JobStoreAssumption DEF TypeOK, Reading
<1>2. retry \in [Queue -> {retry[x] : x \in Queue}] /\ now' = now
  BY DEF Fail, TypeOK, IsZSetPerQueue
<1>3. PICK due \in Nat : due = t + d
  BY <1>1
<1>4. Millisecond * due <= Millisecond * (now + MaxSkew) + far
  <2>1. PICK latest \in Nat : latest = now + MaxSkew /\ t <= latest
    BY <1>1
  <2>2. Millisecond * t \in Nat /\ Millisecond * latest \in Nat /\ Millisecond * t <= Millisecond * latest
    BY <1>1, <2>1, ProductGrows
  <2>3. Millisecond * due = Millisecond * t + Millisecond * d
    BY <1>1, <1>3
  <2>4. Millisecond * d \in Nat /\ Millisecond * d <= far
    BY <1>1
  <2> QED
    BY <2>1, <2>2, <2>3, <2>4
<1>5. \/ retry' = retry
      \/ retry' = [retry EXCEPT ![q] = ZAdd(retry[q], due, {j})]
  BY <1>3 DEF Fail
<1>6. ASSUME NEW x \in Queue, NEW i \in DOMAIN retry'[x]
      PROVE  retry'[x][i] = due \/ (i \in DOMAIN retry[x] /\ retry'[x][i] = retry[x][i])
  BY <1>2, <1>5, <1>6 DEF ZAdd
<1> QED
  BY <1>2, <1>4, <1>6 DEF RetryWithin

\* Nothing else puts a job into retry, and time only brings its turn nearer.
LEMMA NextStaysWithin ==
  ASSUME TypeOK, TypeOK', NEW far \in Nat, RetryWithin(far),
         \A d \in Delay : Millisecond * d <= far, [Next]_vars
  PROVE  RetryWithin(far)'
<1>1. ASSUME retry' = retry, now' = now PROVE RetryWithin(far)'
  BY <1>1 DEF RetryWithin
<1>2. ASSUME NEW q \in Queue, NEW j \in Job, NEW k \in Key \cup {NoKey}, Enqueue(q, j, k)
      PROVE  RetryWithin(far)'
  BY <1>1, <1>2 DEF Enqueue, PushNewJob
<1>3. ASSUME NEW q \in Queue, NEW n \in 1..MaxClaimBatch, NEW t \in Reading, Claim(q, n, t)
      PROVE  RetryWithin(far)'
  BY <1>1, <1>3 DEF Claim
<1>4. ASSUME NEW q \in Queue, NEW j \in Job, NEW t \in Reading, Renew(q, j, t)
      PROVE  RetryWithin(far)'
  BY <1>1, <1>4 DEF Renew
<1>5. ASSUME NEW q \in Queue, NEW ids \in SUBSET Job, Ack(q, ids) PROVE RetryWithin(far)'
  BY <1>1, <1>5 DEF Ack
<1>6. ASSUME NEW q \in Queue, NEW j \in Job, NEW t \in Reading, NEW d \in Delay, Fail(q, j, t, d)
      PROVE  RetryWithin(far)'
  BY <1>6, FailStaysWithin
<1>7. ASSUME NEW q \in Queue, NEW t \in Reading, Reap(q, t) PROVE RetryWithin(far)'
  BY <1>1, <1>7 DEF Reap
<1>8. ASSUME NEW q \in Queue, NEW t \in Reading, DrainRetry(q, t) PROVE RetryWithin(far)'
  <2>1. PICK due : retry' = [retry EXCEPT ![q] = ZRem(retry[q], due)] /\ now' = now
    BY <1>8 DEF DrainRetry
  <2>2. retry \in [Queue -> {retry[x] : x \in Queue}]
    BY DEF TypeOK, IsZSetPerQueue
  <2>3. ASSUME NEW x \in Queue, NEW i \in DOMAIN retry'[x]
        PROVE  i \in DOMAIN retry[x] /\ retry'[x][i] = retry[x][i]
    BY <2>1, <2>2, <2>3 DEF ZRem
  <2> QED
    BY <2>1, <2>3 DEF RetryWithin
<1>9. ASSUME Tick PROVE RetryWithin(far)'
  <2>1. retry' = retry /\ now' = now + 1 /\ now \in Nat
    BY <1>9 DEF Tick, TypeOK
  <2>2. ASSUME NEW q \in Queue, NEW j \in DOMAIN retry[q] PROVE retry[q][j] \in Nat
    BY <2>2 DEF TypeOK, IsZSetPerQueue, IsZSet
  <2>3. ASSUME NEW q \in Queue, NEW j \in DOMAIN retry[q]
        PROVE  Millisecond * retry[q][j] <= Millisecond * (now' + MaxSkew) + far
    <3>1. PICK score \in Nat : score = retry[q][j]
      BY <2>2
    <3>2. PICK later \in Nat : later = now' /\ now <= later
      BY <2>1
    <3>3. Millisecond * score <= Millisecond * (now + MaxSkew) + far
      BY <3>1 DEF RetryWithin
    <3>4. Millisecond * score <= Millisecond * (later + MaxSkew) + far
      BY <2>1, <3>2, <3>3, LaterIsNearer
    <3> QED
      BY <3>1, <3>2, <3>4
  <2> QED
    BY <2>1, <2>3 DEF RetryWithin
<1>10. ASSUME UNCHANGED vars PROVE RetryWithin(far)'
  BY <1>1, <1>10 DEF vars, redisVars
<1> QED
  BY <1>2, <1>3, <1>4, <1>5, <1>6, <1>7, <1>8, <1>9, <1>10 DEF Next

\* Whatever attempt a worker sends, Backoff keeps the delay within its band, for
\* every base up to one that fits, and an attempt never waits less than the one
\* before it; and with the delays that Fail computes, no job in retry is further
\* from being due than the longest delay.
THEOREM BackoffStaysInBand ==
  ASSUME Fits(MaxBase), Fits(BackoffBase), Delay = RetryDelays
  PROVE  Spec => []BackoffInBand
<1> DEFINE far == BackoffBase * 2^MaxShift
<1>1. \A sent \in SomeAttempts : InBand[sent]
  BY EveryAttemptInBand
<1>2. far \in Nat /\ \A d \in Delay : Millisecond * d <= far
  <2>1. 2^MaxShift \in Nat /\ BackoffBase \in Nat
    BY BackoffAssumption, PowerType
  <2>2. far \in Nat
    BY <2>1
  <2> QED
    BY <2>2, LongestDelay
<1> HIDE DEF far
<1>3. Init => RetryWithin(far)
  BY DEF Init, RetryWithin, EmptyZSet
<1>4. TypeOK /\ TypeOK' /\ RetryWithin(far) /\ [Next]_vars => RetryWithin(far)'
  BY <1>2, NextStaysWithin
<1>5. RetryWithin(far) => BackoffInBand
  BY <1>1 DEF RetryWithin, BackoffInBand, far
<1> QED
  BY <1>3, <1>4, <1>5, TypeCorrect, PTL DEF Spec
=============================================================================
