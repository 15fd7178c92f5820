--------------------------- MODULE JobStoreProofs ---------------------------
(***************************************************************************)
(* Proofs about JobStore, for any jobs, queues, keys, clock and limits.    *)
(*                                                                         *)
(* RedisProofs says what a command does to the set of IDs in a structure.  *)
(* This module shows, script by script, that the inductive invariant IInv  *)
(* is kept; it reasons about those sets, never about positions in a list.  *)
(***************************************************************************)
EXTENDS JobStore, RedisProofs

-----------------------------------------------------------------------------
(***************************************************************************)
(* The inductive invariant.  None of the safety invariants is inductive    *)
(* alone: that the HINCRBY of a drain finds a hash needs HashBehindEveryID,*)
(* which an ack keeps only because of OnePlace, which an enqueue keeps     *)
(* only because NoJobLost makes a fresh ID unused everywhere.              *)
(***************************************************************************)
IInv ==
  /\ TypeOK
  /\ HashBehindEveryID
  /\ OnePlace
  /\ NoJobLost
  /\ DeadExactlyWhenExhausted
  /\ AttemptsCountEndedLeases

\* The empty Redis satisfies the invariant.
LEMMA InitIInv ==
  ASSUME Init
  PROVE  IInv
<1>1. /\ DOMAIN hash = {} /\ DOMAIN birth = {} /\ DOMAIN idem = {}
      /\ \A q \in Queue : /\ pending[q] = <<>> /\ dead[q] = <<>>
                          /\ DOMAIN leased[q] = {} /\ DOMAIN retry[q] = {}
  BY DEF Init, EmptyZSet
<1>2. Range(<<>>) = {} /\ IsInjective(<<>>)
  BY DEF Range, IsInjective
<1>3. \A q \in Queue, j \in Job : ~InSomePlace(q, j)
  BY <1>1, <1>2 DEF InSomePlace
<1>4. TypeOK
  <2>1. IsZSetPerQueue(leased) /\ IsZSetPerQueue(retry)
    BY DEF Init, IsZSetPerQueue, IsZSet, EmptyZSet
  <2>2. pending \in [Queue -> Seq(Job)] /\ dead \in [Queue -> Seq(Job)]
    BY EmptySeq DEF Init
  <2> QED
    BY <1>1, <2>1, <2>2 DEF Init, TypeOK, HashRec, IdemRec, BirthRec
<1>5. OnePlace
  BY <1>1, <1>2 DEF OnePlace
<1>6. NoJobLost
  BY <1>1 DEF Init, NoJobLost
<1>7. AttemptsCountEndedLeases
  BY <1>3 DEF Init, AttemptsCountEndedLeases
<1> QED
  BY <1>3, <1>4, <1>5, <1>6, <1>7
  DEF IInv, HashBehindEveryID, DeadExactlyWhenExhausted

\* What the invariant says of an ID in a structure of queue q.
LEMMA Placed ==
  ASSUME IInv, NEW q \in Queue, NEW j,
         \/ j \in Range(pending[q])
         \/ j \in DOMAIN leased[q]
         \/ j \in DOMAIN retry[q]
         \/ j \in Range(dead[q])
  PROVE  /\ j \in Job /\ j \in DOMAIN hash
         /\ hash[j] \in HashRec /\ hash[j].queue = q
         /\ \A x \in Queue : InSomePlace(x, j) => x = q
<1>1. j \in Job
  <2>1. Range(pending[q]) \subseteq Job /\ Range(dead[q]) \subseteq Job
    BY RangeOfSeq DEF IInv, TypeOK
  <2>2. DOMAIN leased[q] \subseteq Job /\ DOMAIN retry[q] \subseteq Job
    BY DEF IInv, TypeOK, IsZSetPerQueue, IsZSet
  <2> QED
    BY <2>1, <2>2
<1>2. InSomePlace(q, j)
  BY DEF InSomePlace
<1>3. j \in DOMAIN hash /\ hash[j].queue = q
  BY <1>1, <1>2 DEF IInv, HashBehindEveryID
<1>4. hash[j] \in HashRec
  BY <1>3 DEF IInv, TypeOK
<1>5. \A x \in Queue : InSomePlace(x, j) => hash[j].queue = x
  BY <1>1 DEF IInv, HashBehindEveryID
<1> QED
  BY <1>1, <1>3, <1>4, <1>5

\* Creating a job keeps the invariant: a fresh ID is nowhere, so its hash and
\* its place are new together.
LEMMA EnqueueKeeps ==
  ASSUME IInv, NEW q \in Queue, NEW j \in Job, NEW k \in Key \cup {NoKey},
         Enqueue(q, j, k)
  PROVE  IInv'
<1>1. /\ j \notin DOMAIN birth /\ j \notin DOMAIN hash /\ j \notin acked
      /\ \A x \in Queue : ~InSomePlace(x, j)
  BY DEF IInv, Enqueue, PushNewJob, NoJobLost, HashBehindEveryID
<1>2. /\ DOMAIN hash' = DOMAIN hash \cup {j}
      /\ hash'[j] = [queue |-> q, attempts |-> 0]
      /\ \A i \in DOMAIN hash : hash'[i] = hash[i]
  BY <1>1 DEF Enqueue, PushNewJob
<1>3. /\ pending' \in [Queue -> Seq(Job)]
      /\ \A x \in Queue \ {q} : pending'[x] = pending[x]
      /\ Range(pending'[q]) = Range(pending[q]) \cup {j}
      /\ IsInjective(pending'[q])
  <2>1. pending \in [Queue -> Seq(Job)] /\ IsInjective(pending[q])
    BY DEF IInv, TypeOK, OnePlace
  <2>2. pending' = [pending EXCEPT ![q] = Append(pending[q], j)]
    BY DEF Enqueue, PushNewJob
  <2>3. j \notin Range(pending[q])
    BY <1>1 DEF InSomePlace
  <2> QED
    BY <2>1, <2>2, <2>3, AppendView
<1>4. UNCHANGED <<leased, retry, dead, now, acked, grants>>
  BY DEF Enqueue, PushNewJob
<1>5. \A x \in Queue, i \in Job :
        InSomePlace(x, i)' <=> InSomePlace(x, i) \/ (x = q /\ i = j)
  BY <1>3, <1>4 DEF InSomePlace
<1>6. TypeOK'
  <2>1. hash' \in [DOMAIN hash' -> HashRec] /\ DOMAIN hash' \subseteq Job
    BY DEF IInv, TypeOK, Enqueue, PushNewJob, HashRec
  <2>2. birth' \in [DOMAIN birth' -> BirthRec] /\ DOMAIN birth' \subseteq Job
    <3>1. Cardinality(DOMAIN birth) \in Nat
      BY JobStoreAssumption, FS_Subset, FS_CardinalityType DEF IInv, TypeOK
    <3>2. [no |-> Cardinality(DOMAIN birth), key |-> k,
           at |-> IF k = NoKey THEN 0 ELSE now] \in BirthRec
      BY <3>1 DEF IInv, TypeOK, BirthRec
    <3> QED
      BY <3>2 DEF IInv, TypeOK, Enqueue, PushNewJob
  <2>3. idem' \in [DOMAIN idem' -> IdemRec] /\ DOMAIN idem' \subseteq Key
    <3>1. [id |-> j, exp |-> now + IdemWindow] \in IdemRec
      BY JobStoreAssumption DEF IInv, TypeOK, IdemRec
    <3> QED
      BY <3>1 DEF IInv, TypeOK, Enqueue
  <2> QED
    BY <1>3, <1>4, <2>1, <2>2, <2>3 DEF IInv, TypeOK, IsZSetPerQueue
<1>7. HashBehindEveryID'
  BY <1>2, <1>5 DEF IInv, HashBehindEveryID
<1>8. OnePlace'
  <2>1. \A x \in Queue : Range(pending'[x]) \subseteq Range(pending[x]) \cup {j}
    BY <1>3
  <2>2. \A x \in Queue : /\ j \notin DOMAIN leased[x]
                        /\ j \notin DOMAIN retry[x]
                        /\ j \notin Range(dead[x])
    BY <1>1 DEF InSomePlace
  <2>3. \A x \in Queue : IsInjective(pending'[x])
    BY <1>3 DEF IInv, OnePlace
  <2> QED
    BY <1>4, <2>1, <2>2, <2>3 DEF IInv, OnePlace
<1>9. NoJobLost'
  <2>1. DOMAIN birth' = DOMAIN birth \cup {j}
    BY DEF Enqueue, PushNewJob
  <2>2. \A i \in DOMAIN hash : i \in Job
    BY DEF IInv, TypeOK
  <2>3. \A i \in DOMAIN hash' : \E x \in Queue : hash'[i].queue = x /\ InSomePlace(x, i)'
    BY <1>1, <1>2, <1>5, <2>2 DEF IInv, NoJobLost
  <2> QED
    BY <1>1, <1>2, <1>4, <2>1, <2>3 DEF IInv, NoJobLost
<1>10. DeadExactlyWhenExhausted'
  <2>1. \A x \in Queue : j \notin Range(dead[x])
    BY <1>1 DEF InSomePlace
  <2> QED
    BY <1>1, <1>2, <1>4, <1>5, <2>1, JobStoreAssumption
    DEF IInv, DeadExactlyWhenExhausted, HashBehindEveryID
<1>11. AttemptsCountEndedLeases'
  <2>1. \A x \in Queue : j \notin DOMAIN leased[x]
    BY <1>1 DEF InSomePlace
  <2>2. grants[j] = 0
    BY <1>1 DEF IInv, AttemptsCountEndedLeases
  <2>3. DOMAIN birth' = DOMAIN birth \cup {j}
    BY DEF Enqueue, PushNewJob
  <2> QED
    BY <1>1, <1>2, <1>4, <1>5, <2>1, <2>2, <2>3
    DEF IInv, AttemptsCountEndedLeases, HashBehindEveryID
<1> QED
  BY <1>6, <1>7, <1>8, <1>9, <1>10, <1>11 DEF IInv

\* A claim moves IDs from pending to leased and nothing else.
LEMMA ClaimKeeps ==
  ASSUME IInv, NEW q \in Queue, NEW n \in Nat, NEW t \in Nat, Claim(q, n, t)
  PROVE  IInv'
<1> DEFINE m == Lesser(n, Len(pending[q]))
           got == Range(SubSeq(pending[q], 1, m))
<1>1. /\ pending \in [Queue -> Seq(Job)] /\ IsInjective(pending[q])
      /\ IsZSetPerQueue(leased)
  BY DEF IInv, TypeOK, OnePlace
<1>2. m \in 0..Len(pending[q])
  <2>1. Len(pending[q]) \in Nat
    BY <1>1, LenProperties
  <2> QED
    BY <2>1 DEF Lesser
<1>3. /\ pending' = [pending EXCEPT ![q] = SubSeq(pending[q], m + 1, Len(pending[q]))]
      /\ leased' = [leased EXCEPT ![q] = ZAdd(leased[q], t + LeaseTTL, got)]
      /\ grants' = [i \in Job |-> IF i \in got THEN grants[i] + 1 ELSE grants[i]]
      /\ UNCHANGED <<hash, retry, dead, idem, now, birth, acked>>
  BY DEF Claim
<1>4. /\ got \subseteq Range(pending[q])
      /\ pending' \in [Queue -> Seq(Job)]
      /\ \A x \in Queue \ {q} : pending'[x] = pending[x]
      /\ Range(pending'[q]) = Range(pending[q]) \ got
      /\ IsInjective(pending'[q])
  <2>1. pending[q] \in Seq(Job)
    BY <1>1
  <2> HIDE DEF m
  <2>2. LET front == SubSeq(pending[q], 1, m)
            back == SubSeq(pending[q], m + 1, Len(pending[q]))
        IN /\ front \in Seq(Job) /\ back \in Seq(Job)
           /\ IsInjective(back)
           /\ Range(back) = Range(pending[q]) \ Range(front)
           /\ Range(front) \subseteq Range(pending[q])
    BY <1>1, <1>2, <2>1, SplitView
  <2> QED
    BY <1>1, <1>3, <2>2
<1>5. got \subseteq Job
  BY <1>4, Placed
<1> HIDE DEF got, m
<1>6. /\ IsZSetPerQueue(leased')
      /\ \A x \in Queue \ {q} : leased'[x] = leased[x]
      /\ DOMAIN leased'[q] = DOMAIN leased[q] \cup got
  <2>1. PICK z : z = leased[q] /\ IsZSet(z, Job)
    BY <1>1 DEF IsZSetPerQueue
  <2>2. PICK until \in Nat : until = t + LeaseTTL
    BY JobStoreAssumption
  <2>3. IsZSet(ZAdd(z, until, got), Job) /\ DOMAIN ZAdd(z, until, got) = DOMAIN z \cup got
    BY <1>5, <2>1, ZAddView
  <2>4. PICK more : more = ZAdd(z, until, got)
    OBVIOUS
  <2> QED
    BY <1>1, <1>3, <2>1, <2>2, <2>3, <2>4 DEF IsZSetPerQueue
<1>7. \A x \in Queue, i \in Job : InSomePlace(x, i)' <=> InSomePlace(x, i)
  BY <1>3, <1>4, <1>6 DEF InSomePlace
<1>8. TypeOK'
  BY <1>3, <1>4, <1>6 DEF IInv, TypeOK, IsZSetPerQueue
<1>9. HashBehindEveryID'
  BY <1>3, <1>7 DEF IInv, HashBehindEveryID
<1>10. OnePlace'
  <2>1. \A x \in Queue : IsInjective(pending'[x])
    BY <1>4 DEF IInv, OnePlace
  <2>2. /\ Range(pending'[q]) \cap DOMAIN leased'[q] = {}
        /\ Range(pending'[q]) \cap DOMAIN retry[q] = {}
        /\ Range(pending'[q]) \cap Range(dead[q]) = {}
        /\ DOMAIN leased'[q] \cap DOMAIN retry[q] = {}
        /\ DOMAIN leased'[q] \cap Range(dead[q]) = {}
    BY <1>4, <1>6 DEF IInv, OnePlace
  <2> QED
    BY <1>3, <1>4, <1>6, <2>1, <2>2 DEF IInv, OnePlace
<1>11. NoJobLost'
  <2>1. DOMAIN hash \subseteq Job
    BY DEF IInv, TypeOK
  <2> QED
    BY <1>3, <1>7, <2>1 DEF IInv, NoJobLost
<1>12. DeadExactlyWhenExhausted'
  BY <1>3, <1>7 DEF IInv, DeadExactlyWhenExhausted
<1>13. AttemptsCountEndedLeases'
  <2>1. \A i \in got : i \in DOMAIN birth
    BY <1>4, Placed DEF IInv, NoJobLost
  <2>2. \A i \in got, x \in Queue : InSomePlace(x, i) => x = q
    BY <1>4, Placed
  <2>3. \A i \in got : i \notin DOMAIN leased[q] /\ InSomePlace(q, i) /\ hash[i] \in HashRec
    BY <1>4, Placed DEF IInv, OnePlace, InSomePlace
  <2>4. ASSUME NEW x \in Queue, NEW i \in Job, InSomePlace(x, i)
        PROVE  grants'[i] = hash[i].attempts + IF i \in DOMAIN leased'[x] THEN 1 ELSE 0
    <3>1. grants[i] = hash[i].attempts + IF i \in DOMAIN leased[x] THEN 1 ELSE 0
      BY <2>4 DEF IInv, AttemptsCountEndedLeases
    <3>2. CASE i \in got
      <4>1. x = q /\ i \in DOMAIN leased'[x] /\ hash[i].attempts \in Nat
        BY <1>6, <2>2, <2>3, <2>4, <3>2 DEF HashRec
      <4>2. grants[i] = hash[i].attempts
        BY <2>3, <3>1, <3>2, <4>1
      <4> QED
        BY <1>3, <3>2, <4>1, <4>2
    <3>3. CASE i \notin got
      <4>1. i \in DOMAIN leased'[x] <=> i \in DOMAIN leased[x]
        BY <1>6, <3>3
      <4> QED
        BY <1>3, <3>1, <3>3, <4>1
    <3> QED
      BY <3>2, <3>3
  <2> QED
    BY <1>3, <1>7, <2>1, <2>4 DEF IInv, AttemptsCountEndedLeases
<1> QED
  BY <1>8, <1>9, <1>10, <1>11, <1>12, <1>13 DEF IInv

\* A renewal only rescores a lease.
LEMMA RenewKeeps ==
  ASSUME IInv, NEW q \in Queue, NEW j \in Job, NEW t \in Nat, Renew(q, j, t)
  PROVE  IInv'
<1>1. /\ IsZSetPerQueue(leased')
      /\ \A x \in Queue : DOMAIN leased'[x] = DOMAIN leased[x]
  <2>1. IsZSetPerQueue(leased) /\ j \in DOMAIN leased[q] /\ t + LeaseTTL \in Nat
    BY JobStoreAssumption DEF IInv, TypeOK, Renew
  <2>2. /\ IsZSet(ZAdd(leased[q], t + LeaseTTL, {j}), Job)
        /\ DOMAIN ZAdd(leased[q], t + LeaseTTL, {j}) = DOMAIN leased[q]
    <3>1. {j} \in SUBSET Job /\ IsZSet(leased[q], Job)
      BY <2>1 DEF IsZSetPerQueue
    <3>2. PICK z : z = leased[q]
      OBVIOUS
    <3>3. PICK score \in Nat : score = t + LeaseTTL
      BY <2>1
    <3>4. IsZSet(ZAdd(z, score, {j}), Job) /\ DOMAIN ZAdd(z, score, {j}) = DOMAIN z \cup {j}
      BY <3>1, <3>2, ZAddView
    <3> QED
      BY <2>1, <3>2, <3>3, <3>4
  <2> QED
    BY <2>1, <2>2 DEF Renew, IsZSetPerQueue
<1>2. UNCHANGED <<hash, pending, retry, dead, idem, now, birth, acked, grants>>
  BY DEF Renew, historyVars
<1>3. \A x \in Queue, i \in Job : InSomePlace(x, i)' <=> InSomePlace(x, i)
  BY <1>1, <1>2 DEF InSomePlace
<1>4. TypeOK'
  BY <1>1, <1>2 DEF IInv, TypeOK, IsZSetPerQueue
<1>5. HashBehindEveryID'
  BY <1>2, <1>3 DEF IInv, HashBehindEveryID
<1>6. OnePlace'
  BY <1>1, <1>2 DEF IInv, OnePlace
<1>7. NoJobLost'
  <2>1. DOMAIN hash \subseteq Job
    BY DEF IInv, TypeOK
  <2> QED
    BY <1>2, <1>3, <2>1 DEF IInv, NoJobLost
<1>8. DeadExactlyWhenExhausted' /\ AttemptsCountEndedLeases'
  BY <1>1, <1>2, <1>3 DEF IInv, DeadExactlyWhenExhausted, AttemptsCountEndedLeases
<1> QED
  BY <1>4, <1>5, <1>6, <1>7, <1>8 DEF IInv

\* An ack removes leases together with their hashes; no other structure held
\* those IDs.
LEMMA AckKeeps ==
  ASSUME IInv, NEW q \in Queue, NEW ids, Ack(q, ids)
  PROVE  IInv'
<1> DEFINE gone == ids \cap DOMAIN leased[q]
<1>1. /\ leased' = [leased EXCEPT ![q] = ZRem(leased[q], gone)]
      /\ hash' = [i \in DOMAIN hash \ gone |-> hash[i]]
      /\ acked' = acked \cup gone
      /\ UNCHANGED <<pending, retry, dead, idem, now, birth, grants>>
  BY DEF Ack
<1>2. \A i \in gone : /\ i \in Job /\ i \in DOMAIN hash
                      /\ \A x \in Queue : InSomePlace(x, i) => x = q
  BY Placed
<1>3. \A i \in gone : /\ i \notin Range(pending[q])
                      /\ i \notin DOMAIN retry[q]
                      /\ i \notin Range(dead[q])
  BY DEF IInv, OnePlace
<1> HIDE DEF gone
<1>4. /\ IsZSetPerQueue(leased')
      /\ \A x \in Queue \ {q} : leased'[x] = leased[x]
      /\ DOMAIN leased'[q] = DOMAIN leased[q] \ gone
  <2>1. IsZSetPerQueue(leased)
    BY DEF IInv, TypeOK
  <2>2. /\ IsZSet(ZRem(leased[q], gone), Job)
        /\ DOMAIN ZRem(leased[q], gone) = DOMAIN leased[q] \ gone
    BY <2>1, ZRemView DEF IsZSetPerQueue
  <2> QED
    BY <1>1, <2>1, <2>2 DEF IsZSetPerQueue
<1>5. \A x \in Queue, i \in Job :
        InSomePlace(x, i)' <=> InSomePlace(x, i) /\ i \notin gone
  BY <1>1, <1>2, <1>3, <1>4 DEF InSomePlace
<1>6. /\ DOMAIN hash' = DOMAIN hash \ gone
      /\ \A i \in DOMAIN hash' : hash'[i] = hash[i]
  BY <1>1
<1>7. TypeOK'
  <2>1. /\ DOMAIN hash' \subseteq Job /\ hash' \in [DOMAIN hash' -> HashRec]
        /\ acked' \subseteq Job
    BY <1>1, <1>2 DEF IInv, TypeOK
  <2> QED
    BY <1>1, <1>4, <2>1 DEF IInv, TypeOK, IsZSetPerQueue
<1>8. HashBehindEveryID'
  BY <1>5, <1>6 DEF IInv, HashBehindEveryID
<1>9. OnePlace'
  BY <1>1, <1>4 DEF IInv, OnePlace
<1>10. NoJobLost'
  <2>1. DOMAIN hash \subseteq Job
    BY DEF IInv, TypeOK
  <2>2. \A i \in DOMAIN hash' : \E x \in Queue : hash'[i].queue = x /\ InSomePlace(x, i)'
    BY <1>5, <1>6, <2>1 DEF IInv, NoJobLost
  <2> QED
    BY <1>1, <1>2, <1>6, <2>2 DEF IInv, NoJobLost
<1>11. DeadExactlyWhenExhausted'
  BY <1>1, <1>5, <1>6, <1>8 DEF IInv, DeadExactlyWhenExhausted, HashBehindEveryID
<1>12. AttemptsCountEndedLeases'
  BY <1>1, <1>4, <1>5, <1>6, <1>8
  DEF IInv, AttemptsCountEndedLeases, HashBehindEveryID
<1> QED
  BY <1>7, <1>8, <1>9, <1>10, <1>11, <1>12 DEF IInv

\* HINCRBY on hashes that exist creates none and changes only their counters.
LEMMA HIncrView ==
  ASSUME NEW h, h \in [DOMAIN h -> HashRec], NEW S \in SUBSET DOMAIN h
  PROVE  LET g == HIncrAttempts(h, S)
         IN /\ DOMAIN g = DOMAIN h
            /\ g \in [DOMAIN h -> HashRec]
            /\ \A i \in DOMAIN h : g[i].queue = h[i].queue
            /\ \A i \in S : g[i].attempts = h[i].attempts + 1
            /\ \A i \in DOMAIN h \ S : g[i] = h[i]
<1>1. HIncrAttempts(h, S) =
        [i \in DOMAIN h |-> IF i \in S THEN [h[i] EXCEPT !.attempts = @ + 1] ELSE h[i]]
  BY DEF HIncrAttempts
<1>2. \A i \in DOMAIN h : h[i] \in HashRec
  OBVIOUS
<1>3. \A i \in DOMAIN h : LET r == [h[i] EXCEPT !.attempts = @ + 1]
                          IN r \in HashRec /\ r.queue = h[i].queue
                             /\ r.attempts = h[i].attempts + 1
  BY <1>2 DEF HashRec
<1> QED
  BY <1>1, <1>2, <1>3

\* Ending leases with their attempts counted, the jobs in over dead-lettered
\* and the others all put in pending or all put in retry, keeps the invariant.
\* Fail and the reaper are both of this form.
LEMMA EndLeasesKeeps ==
  ASSUME IInv, TypeOK', NEW q \in Queue, NEW due, NEW over,
         due \subseteq DOMAIN leased[q],
         over = {i \in due : Exhausted(HIncrAttempts(hash, due)[i].attempts)},
         hash' = HIncrAttempts(hash, due),
         UNCHANGED <<birth, acked, grants>>,
         \A x \in Queue \ {q} :
           /\ pending'[x] = pending[x] /\ leased'[x] = leased[x]
           /\ retry'[x] = retry[x] /\ dead'[x] = dead[x],
         DOMAIN leased'[q] = DOMAIN leased[q] \ due,
         \/ /\ Range(pending'[q]) = Range(pending[q]) \cup (due \ over)
            /\ DOMAIN retry'[q] = DOMAIN retry[q]
         \/ /\ Range(pending'[q]) = Range(pending[q])
            /\ DOMAIN retry'[q] = DOMAIN retry[q] \cup (due \ over),
         IsInjective(pending'[q]),
         Range(dead'[q]) = Range(dead[q]) \cup over,
         IsInjective(dead'[q])
  PROVE  IInv'
<1>1. \A i \in due : /\ i \in Job /\ i \in DOMAIN hash /\ hash[i] \in HashRec
                     /\ hash[i].queue = q
                     /\ \A x \in Queue : InSomePlace(x, i) => x = q
  BY Placed
<1>2. \A i \in due : /\ i \notin Range(pending[q])
                     /\ i \notin DOMAIN retry[q]
                     /\ i \notin Range(dead[q])
                     /\ InSomePlace(q, i)
  BY DEF IInv, OnePlace, InSomePlace
<1>3. /\ DOMAIN hash' = DOMAIN hash
      /\ \A i \in DOMAIN hash : hash'[i].queue = hash[i].queue
      /\ \A i \in due : hash'[i].attempts = hash[i].attempts + 1
      /\ \A i \in DOMAIN hash \ due : hash'[i] = hash[i]
  <2>1. hash \in [DOMAIN hash -> HashRec] /\ due \in SUBSET DOMAIN hash
    BY <1>1 DEF IInv, TypeOK
  <2> QED
    BY <2>1, HIncrView
<1>4. \A x \in Queue, i \in Job : InSomePlace(x, i)' <=> InSomePlace(x, i)
  BY <1>1, <1>2 DEF InSomePlace
<1>5. HashBehindEveryID'
  BY <1>3, <1>4 DEF IInv, HashBehindEveryID
<1>6. OnePlace'
  <2>1. /\ Range(pending'[q]) \cap DOMAIN leased'[q] = {}
        /\ Range(pending'[q]) \cap DOMAIN retry'[q] = {}
        /\ Range(pending'[q]) \cap Range(dead'[q]) = {}
        /\ DOMAIN leased'[q] \cap DOMAIN retry'[q] = {}
        /\ DOMAIN leased'[q] \cap Range(dead'[q]) = {}
        /\ DOMAIN retry'[q] \cap Range(dead'[q]) = {}
    BY <1>2 DEF IInv, OnePlace
  <2> QED
    BY <2>1 DEF IInv, OnePlace
<1>7. NoJobLost'
  <2>1. DOMAIN hash \subseteq Job
    BY DEF IInv, TypeOK
  <2> QED
    BY <1>3, <1>4, <2>1 DEF IInv, NoJobLost
<1>8. DeadExactlyWhenExhausted'
  <2> SUFFICES ASSUME NEW x \in Queue, NEW i \in Job, InSomePlace(x, i)
               PROVE  IF i \in Range(dead'[x]) THEN hash'[i].attempts = MaxRetries + 1
                      ELSE hash'[i].attempts <= MaxRetries
    BY <1>4 DEF DeadExactlyWhenExhausted
  <2>1. /\ IF i \in Range(dead[x]) THEN hash[i].attempts = MaxRetries + 1
           ELSE hash[i].attempts <= MaxRetries
        /\ i \in DOMAIN hash
    BY DEF IInv, DeadExactlyWhenExhausted, HashBehindEveryID
  <2>2. CASE i \in due
    <3>1. x = q /\ hash[i].attempts <= MaxRetries /\ hash[i].attempts \in Nat
      BY <1>1, <1>2, <2>1, <2>2 DEF HashRec
    <3>2. hash'[i].attempts = hash[i].attempts + 1
      BY <1>3, <2>2
    <3>3. i \in over <=> hash'[i].attempts > MaxRetries
      BY <2>2 DEF Exhausted
    <3>4. i \in Range(dead'[x]) <=> i \in over
      BY <1>2, <2>2, <3>1
    <3> QED
      BY <3>1, <3>2, <3>3, <3>4, JobStoreAssumption
  <2>3. CASE i \notin due
    <3>1. hash'[i] = hash[i] /\ (i \in Range(dead'[x]) <=> i \in Range(dead[x]))
      BY <1>3, <2>1, <2>3
    <3> QED
      BY <2>1, <3>1
  <2> QED
    BY <2>2, <2>3
<1>9. AttemptsCountEndedLeases'
  <2>1. ASSUME NEW x \in Queue, NEW i \in Job, InSomePlace(x, i)
        PROVE  grants[i] = hash'[i].attempts + IF i \in DOMAIN leased'[x] THEN 1 ELSE 0
    <3>1. /\ grants[i] = hash[i].attempts + IF i \in DOMAIN leased[x] THEN 1 ELSE 0
          /\ i \in DOMAIN hash
      BY <2>1 DEF IInv, AttemptsCountEndedLeases, HashBehindEveryID
    <3>2. CASE i \in due
      <4>1. x = q /\ i \in DOMAIN leased[x] /\ i \notin DOMAIN leased'[x]
        BY <1>1, <2>1, <3>2
      <4>2. hash'[i].attempts = hash[i].attempts + 1 /\ hash[i].attempts \in Nat
        BY <1>1, <1>3, <3>2 DEF HashRec
      <4> QED
        BY <3>1, <4>1, <4>2
    <3>3. CASE i \notin due
      <4>1. hash'[i] = hash[i] /\ (i \in DOMAIN leased'[x] <=> i \in DOMAIN leased[x])
        BY <1>3, <3>1, <3>3
      <4> QED
        BY <3>1, <4>1
    <3> QED
      BY <3>2, <3>3
  <2> QED
    BY <1>4, <2>1 DEF IInv, AttemptsCountEndedLeases
<1> QED
  BY <1>5, <1>6, <1>7, <1>8, <1>9 DEF IInv

\* A failed attempt ends one lease.
LEMMA FailKeeps ==
  ASSUME IInv, NEW q \in Queue, NEW j \in Job, NEW t \in Nat, NEW d \in Nat,
         Fail(q, j, t, d)
  PROVE  IInv'
<1> DEFINE h == HIncrAttempts(hash, {j})
           over == Exhausted(h[j].attempts)
           nowDead == {i \in {j} : Exhausted(h[i].attempts)}
           toRetry == {j} \ nowDead
<1>1. /\ j \in DOMAIN leased[q]
      /\ leased' = [leased EXCEPT ![q] = ZRem(leased[q], {j})]
      /\ hash' = h
      /\ dead' = IF over THEN [dead EXCEPT ![q] = Append(dead[q], j)] ELSE dead
      /\ retry' = IF over THEN retry
                  ELSE [retry EXCEPT ![q] = ZAdd(retry[q], t + d, {j})]
      /\ UNCHANGED <<pending, idem, now, birth, acked, grants>>
  BY DEF Fail, historyVars
<1>2. /\ j \in DOMAIN hash /\ j \notin Range(pending[q])
      /\ j \notin DOMAIN retry[q] /\ j \notin Range(dead[q])
  BY <1>1, Placed DEF IInv, OnePlace
<1>3. /\ IsZSetPerQueue(leased) /\ IsZSetPerQueue(retry)
      /\ pending \in [Queue -> Seq(Job)] /\ dead \in [Queue -> Seq(Job)]
      /\ hash \in [DOMAIN hash -> HashRec]
      /\ IsInjective(pending[q]) /\ IsInjective(dead[q])
  BY DEF IInv, TypeOK, OnePlace
<1>4. h \in [DOMAIN hash -> HashRec] /\ DOMAIN h = DOMAIN hash
  <2>1. {j} \in SUBSET DOMAIN hash
    BY <1>2
  <2> QED
    BY <1>3, <2>1, HIncrView
<1> HIDE DEF h
<1>5. nowDead = (IF over THEN {j} ELSE {}) /\ toRetry = (IF over THEN {} ELSE {j})
  OBVIOUS
<1> HIDE DEF over, nowDead, toRetry
<1>6. /\ IsZSetPerQueue(leased')
      /\ \A x \in Queue \ {q} : leased'[x] = leased[x]
      /\ DOMAIN leased'[q] = DOMAIN leased[q] \ {j}
  <2>0. IsZSet(leased[q], Job)
    BY <1>3 DEF IsZSetPerQueue
  <2>1. /\ IsZSet(ZRem(leased[q], {j}), Job)
        /\ DOMAIN ZRem(leased[q], {j}) = DOMAIN leased[q] \ {j}
    BY <2>0, ZRemView
  <2> QED
    BY <1>1, <1>3, <2>1 DEF IsZSetPerQueue
<1>7. /\ IsZSetPerQueue(retry')
      /\ \A x \in Queue \ {q} : retry'[x] = retry[x]
      /\ DOMAIN retry'[q] = DOMAIN retry[q] \cup toRetry
  <2>1. CASE over
    BY <1>1, <1>3, <1>5, <2>1
  <2>2. CASE ~over
    <3>1. IsZSet(retry[q], Job) /\ {j} \in SUBSET Job /\ t + d \in Nat
      BY <1>3 DEF IsZSetPerQueue
    <3>2. /\ IsZSet(ZAdd(retry[q], t + d, {j}), Job)
          /\ DOMAIN ZAdd(retry[q], t + d, {j}) = DOMAIN retry[q] \cup {j}
      BY <3>1, ZAddView
    <3> QED
      BY <1>1, <1>3, <1>5, <2>2, <3>2 DEF IsZSetPerQueue
  <2> QED
    BY <2>1, <2>2
<1>8. /\ dead' \in [Queue -> Seq(Job)]
      /\ \A x \in Queue \ {q} : dead'[x] = dead[x]
      /\ Range(dead'[q]) = Range(dead[q]) \cup nowDead
      /\ IsInjective(dead'[q])
  <2>1. CASE over
    <3>1. /\ Append(dead[q], j) \in Seq(Job)
          /\ Range(Append(dead[q], j)) = Range(dead[q]) \cup {j}
          /\ IsInjective(Append(dead[q], j))
      BY <1>2, <1>3, AppendView
    <3> QED
      BY <1>1, <1>3, <1>5, <2>1, <3>1
  <2>2. CASE ~over
    BY <1>1, <1>3, <1>5, <2>2
  <2> QED
    BY <2>1, <2>2
<1>9. TypeOK'
  BY <1>1, <1>4, <1>6, <1>7, <1>8 DEF IInv, TypeOK
<1>10. PICK due, dying : due = {j} /\ dying = nowDead
  OBVIOUS
<1>11. /\ due \subseteq DOMAIN leased[q]
       /\ dying = {i \in due : Exhausted(HIncrAttempts(hash, due)[i].attempts)}
       /\ hash' = HIncrAttempts(hash, due)
       /\ UNCHANGED <<birth, acked, grants>>
       /\ \A x \in Queue \ {q} :
            /\ pending'[x] = pending[x] /\ leased'[x] = leased[x]
            /\ retry'[x] = retry[x] /\ dead'[x] = dead[x]
  BY <1>1, <1>5, <1>6, <1>7, <1>8, <1>10 DEF nowDead, h
<1>12. /\ DOMAIN leased'[q] = DOMAIN leased[q] \ due
       /\ Range(pending'[q]) = Range(pending[q])
       /\ DOMAIN retry'[q] = DOMAIN retry[q] \cup (due \ dying)
       /\ IsInjective(pending'[q])
       /\ Range(dead'[q]) = Range(dead[q]) \cup dying
       /\ IsInjective(dead'[q])
  BY <1>1, <1>3, <1>6, <1>7, <1>8, <1>10 DEF toRetry
<1> QED
  BY <1>9, <1>11, <1>12, EndLeasesKeeps

\* The reaper ends every due lease of a batch.
LEMMA ReapKeeps ==
  ASSUME IInv, NEW q \in Queue, NEW t, Reap(q, t)
  PROVE  IInv'
<1>1. PICK due \in LowestDue(leased[q], t, DrainLimit) :
        /\ leased' = [leased EXCEPT ![q] = ZRem(leased[q], due)]
        /\ hash' = HIncrAttempts(hash, due)
        /\ \E s \in ScoreOrders(leased[q], due \ {i \in due : Exhausted(HIncrAttempts(hash, due)[i].attempts)}) :
             pending' = [pending EXCEPT ![q] = pending[q] \o s]
        /\ \E s \in ScoreOrders(leased[q], {i \in due : Exhausted(HIncrAttempts(hash, due)[i].attempts)}) :
             dead' = [dead EXCEPT ![q] = dead[q] \o s]
        /\ UNCHANGED <<retry, idem, now, birth, acked, grants>>
  BY DEF Reap, historyVars
<1> DEFINE over == {i \in due : Exhausted(HIncrAttempts(hash, due)[i].attempts)}
           back == due \ over
<1>2. PICK s \in ScoreOrders(leased[q], back) : pending' = [pending EXCEPT ![q] = pending[q] \o s]
  BY <1>1
<1>3. PICK r \in ScoreOrders(leased[q], over) : dead' = [dead EXCEPT ![q] = dead[q] \o r]
  BY <1>1
<1>4. due \subseteq DOMAIN leased[q] /\ due \subseteq Job
  <2>1. due \subseteq DOMAIN leased[q]
    BY LowestDueView
  <2> QED
    BY <2>1, Placed
<1>5. over \subseteq due /\ back \subseteq due /\ over \cap back = {} /\ due = over \cup back
  OBVIOUS
<1>6. /\ due \in SUBSET DOMAIN hash
      /\ \A i \in due : /\ i \notin Range(pending[q])
                        /\ i \notin DOMAIN retry[q]
                        /\ i \notin Range(dead[q])
  BY <1>4, Placed DEF IInv, OnePlace
<1>7. /\ IsZSetPerQueue(leased) /\ IsZSetPerQueue(retry)
      /\ pending \in [Queue -> Seq(Job)] /\ dead \in [Queue -> Seq(Job)]
      /\ hash \in [DOMAIN hash -> HashRec] /\ DOMAIN hash \subseteq Job
      /\ IsInjective(pending[q]) /\ IsInjective(dead[q])
  BY DEF IInv, TypeOK, OnePlace
<1>8. hash' \in [DOMAIN hash' -> HashRec] /\ DOMAIN hash' \subseteq Job
  BY <1>1, <1>6, <1>7, HIncrView
<1>9. /\ s \in Seq(Job) /\ Range(s) = back /\ IsInjective(s)
      /\ r \in Seq(Job) /\ Range(r) = over /\ IsInjective(r)
  <2> HIDE DEF over, back
  <2>1. IsFiniteSet(back) /\ IsFiniteSet(over) /\ back \subseteq Job /\ over \subseteq Job
    BY <1>4, <1>5, JobStoreAssumption, FS_Subset
  <2>2. /\ s \in Seq(back) /\ Range(s) = back /\ IsInjective(s)
        /\ r \in Seq(over) /\ Range(r) = over /\ IsInjective(r)
    BY <2>1, <1>2, <1>3, ScoreOrdersView
  <2> QED
    BY <2>1, <2>2, SeqMonotonic
<1> HIDE DEF over, back
<1>10. /\ IsZSetPerQueue(leased')
       /\ \A x \in Queue \ {q} : leased'[x] = leased[x]
       /\ DOMAIN leased'[q] = DOMAIN leased[q] \ due
  <2>0. IsZSet(leased[q], Job)
    BY <1>7 DEF IsZSetPerQueue
  <2>1. /\ IsZSet(ZRem(leased[q], due), Job)
        /\ DOMAIN ZRem(leased[q], due) = DOMAIN leased[q] \ due
    BY <2>0, ZRemView
  <2> QED
    BY <1>1, <1>7, <2>1 DEF IsZSetPerQueue
<1>11. /\ pending' \in [Queue -> Seq(Job)]
       /\ \A x \in Queue \ {q} : pending'[x] = pending[x]
       /\ Range(pending'[q]) = Range(pending[q]) \cup back
       /\ IsInjective(pending'[q])
  <2>1. pending[q] \in Seq(Job) /\ Range(pending[q]) \cap Range(s) = {}
    BY <1>5, <1>6, <1>7, <1>9
  <2>2. /\ pending[q] \o s \in Seq(Job)
        /\ Range(pending[q] \o s) = Range(pending[q]) \cup back
        /\ IsInjective(pending[q] \o s)
    BY <1>7, <1>9, <2>1, ConcatView
  <2> QED
    BY <1>2, <1>7, <2>2
<1>12. /\ dead' \in [Queue -> Seq(Job)]
       /\ \A x \in Queue \ {q} : dead'[x] = dead[x]
       /\ Range(dead'[q]) = Range(dead[q]) \cup over
       /\ IsInjective(dead'[q])
  <2>1. dead[q] \in Seq(Job) /\ Range(dead[q]) \cap Range(r) = {}
    BY <1>5, <1>6, <1>7, <1>9
  <2>2. /\ dead[q] \o r \in Seq(Job)
        /\ Range(dead[q] \o r) = Range(dead[q]) \cup over
        /\ IsInjective(dead[q] \o r)
    BY <1>7, <1>9, <2>1, ConcatView
  <2> QED
    BY <1>3, <1>7, <2>2
<1>13. TypeOK'
  BY <1>1, <1>8, <1>10, <1>11, <1>12 DEF IInv, TypeOK, IsZSetPerQueue
<1>14. /\ over = {i \in due : Exhausted(HIncrAttempts(hash, due)[i].attempts)}
       /\ Range(pending'[q]) = Range(pending[q]) \cup (due \ over)
       /\ DOMAIN retry'[q] = DOMAIN retry[q]
       /\ hash' = HIncrAttempts(hash, due)
       /\ UNCHANGED <<birth, acked, grants>>
       /\ \A x \in Queue \ {q} :
            /\ pending'[x] = pending[x] /\ leased'[x] = leased[x]
            /\ retry'[x] = retry[x] /\ dead'[x] = dead[x]
  BY <1>1, <1>5, <1>10, <1>11, <1>12 DEF over, back
<1> QED
  BY <1>4, <1>10, <1>11, <1>12, <1>13, <1>14, EndLeasesKeeps

\* The retry drainer moves IDs from retry to pending and nothing else.
LEMMA DrainRetryKeeps ==
  ASSUME IInv, NEW q \in Queue, NEW t, DrainRetry(q, t)
  PROVE  IInv'
<1>1. PICK due \in LowestDue(retry[q], t, DrainLimit) :
        /\ retry' = [retry EXCEPT ![q] = ZRem(retry[q], due)]
        /\ \E s \in ScoreOrders(retry[q], due) :
             pending' = [pending EXCEPT ![q] = pending[q] \o s]
        /\ UNCHANGED <<hash, leased, dead, idem, now, birth, acked, grants>>
  BY DEF DrainRetry, historyVars
<1>2. PICK s \in ScoreOrders(retry[q], due) : pending' = [pending EXCEPT ![q] = pending[q] \o s]
  BY <1>1
<1>3. due \subseteq DOMAIN retry[q] /\ due \subseteq Job
  <2>1. due \subseteq DOMAIN retry[q]
    BY LowestDueView
  <2> QED
    BY <2>1, Placed
<1>4. \A i \in due : /\ i \notin Range(pending[q])
                     /\ i \notin DOMAIN leased[q]
                     /\ i \notin Range(dead[q])
  BY <1>3 DEF IInv, OnePlace
<1>5. /\ pending \in [Queue -> Seq(Job)] /\ IsInjective(pending[q])
      /\ IsZSetPerQueue(retry)
  BY DEF IInv, TypeOK, OnePlace
<1>6. s \in Seq(Job) /\ Range(s) = due /\ IsInjective(s)
  <2>1. IsFiniteSet(due)
    BY <1>3, JobStoreAssumption, FS_Subset
  <2>2. s \in Seq(due) /\ Range(s) = due /\ IsInjective(s)
    BY <2>1, ScoreOrdersView
  <2> QED
    BY <1>3, <2>2, SeqMonotonic
<1>7. /\ IsZSetPerQueue(retry')
      /\ \A x \in Queue \ {q} : retry'[x] = retry[x]
      /\ DOMAIN retry'[q] = DOMAIN retry[q] \ due
  <2>0. IsZSet(retry[q], Job)
    BY <1>5 DEF IsZSetPerQueue
  <2>1. /\ IsZSet(ZRem(retry[q], due), Job)
        /\ DOMAIN ZRem(retry[q], due) = DOMAIN retry[q] \ due
    BY <2>0, ZRemView
  <2> QED
    BY <1>1, <1>5, <2>1 DEF IsZSetPerQueue
<1>8. /\ pending' \in [Queue -> Seq(Job)]
      /\ \A x \in Queue \ {q} : pending'[x] = pending[x]
      /\ Range(pending'[q]) = Range(pending[q]) \cup due
      /\ IsInjective(pending'[q])
  <2>1. pending[q] \in Seq(Job) /\ Range(pending[q]) \cap Range(s) = {}
    BY <1>4, <1>5, <1>6
  <2>2. /\ pending[q] \o s \in Seq(Job)
        /\ Range(pending[q] \o s) = Range(pending[q]) \cup due
        /\ IsInjective(pending[q] \o s)
    BY <1>5, <1>6, <2>1, ConcatView
  <2> QED
    BY <1>2, <1>5, <2>2
<1>9. \A x \in Queue, i \in Job : InSomePlace(x, i)' <=> InSomePlace(x, i)
  BY <1>1, <1>3, <1>7, <1>8 DEF InSomePlace
<1>10. TypeOK'
  BY <1>1, <1>7, <1>8 DEF IInv, TypeOK
<1>11. HashBehindEveryID'
  BY <1>1, <1>9 DEF IInv, HashBehindEveryID
<1>12. OnePlace'
  <2>1. /\ Range(pending'[q]) \cap DOMAIN leased[q] = {}
        /\ Range(pending'[q]) \cap DOMAIN retry'[q] = {}
        /\ Range(pending'[q]) \cap Range(dead[q]) = {}
        /\ DOMAIN leased[q] \cap DOMAIN retry'[q] = {}
        /\ DOMAIN retry'[q] \cap Range(dead[q]) = {}
    BY <1>4, <1>7, <1>8 DEF IInv, OnePlace
  <2> QED
    BY <1>1, <1>7, <1>8, <2>1 DEF IInv, OnePlace
<1>13. NoJobLost'
  <2>1. DOMAIN hash \subseteq Job
    BY DEF IInv, TypeOK
  <2> QED
    BY <1>1, <1>9, <2>1 DEF IInv, NoJobLost
<1>14. DeadExactlyWhenExhausted' /\ AttemptsCountEndedLeases'
  BY <1>1, <1>9 DEF IInv, DeadExactlyWhenExhausted, AttemptsCountEndedLeases
<1> QED
  BY <1>10, <1>11, <1>12, <1>13, <1>14 DEF IInv

\* The passage of time only drops idempotency markers.
LEMMA TickKeeps ==
  ASSUME IInv, Tick
  PROVE  IInv'
<1>1. UNCHANGED <<hash, pending, leased, retry, dead, birth, acked, grants>>
  BY DEF Tick, historyVars
<1>2. \A x \in Queue, i \in Job : InSomePlace(x, i)' <=> InSomePlace(x, i)
  BY <1>1 DEF InSomePlace
<1>3. TypeOK'
  BY <1>1 DEF IInv, TypeOK, Tick
<1>4. HashBehindEveryID' /\ OnePlace' /\ NoJobLost'
  BY <1>1, <1>2 DEF IInv, TypeOK, HashBehindEveryID, OnePlace, NoJobLost
<1>5. DeadExactlyWhenExhausted' /\ AttemptsCountEndedLeases'
  BY <1>1, <1>2 DEF IInv, DeadExactlyWhenExhausted, AttemptsCountEndedLeases
<1> QED
  BY <1>3, <1>4, <1>5 DEF IInv

\* No step of any caller breaks the invariant.
LEMMA NextKeeps ==
  ASSUME IInv, [Next]_vars
  PROVE  IInv'
<1>1. Reading \subseteq Nat
  BY JobStoreAssumption DEF IInv, TypeOK, Reading
<1>2. ASSUME NEW q \in Queue, NEW j \in Job, NEW k \in Key \cup {NoKey}, Enqueue(q, j, k)
      PROVE  IInv'
  BY <1>2, EnqueueKeeps
<1>3. ASSUME NEW q \in Queue, NEW n \in 1..MaxClaimBatch, NEW t \in Reading, Claim(q, n, t)
      PROVE  IInv'
  <2>1. n \in Nat /\ t \in Nat
    BY <1>1, JobStoreAssumption
  <2> QED
    BY <1>3, <2>1, ClaimKeeps
<1>4. ASSUME NEW q \in Queue, NEW j \in Job, NEW t \in Reading, Renew(q, j, t)
      PROVE  IInv'
  BY <1>1, <1>4, RenewKeeps
<1>5. ASSUME NEW q \in Queue, NEW ids \in SUBSET Job, Ack(q, ids)
      PROVE  IInv'
  BY <1>5, AckKeeps
<1>6. ASSUME NEW q \in Queue, NEW j \in Job, NEW t \in Reading, NEW d \in Delay, Fail(q, j, t, d)
      PROVE  IInv'
  <2>1. t \in Nat /\ d \in Nat
    BY <1>1, JobStoreAssumption
  <2> QED
    BY <1>6, <2>1, FailKeeps
<1>7. ASSUME NEW q \in Queue, NEW t \in Reading, Reap(q, t)
      PROVE  IInv'
  BY <1>7, ReapKeeps
<1>8. ASSUME NEW q \in Queue, NEW t \in Reading, DrainRetry(q, t)
      PROVE  IInv'
  BY <1>8, DrainRetryKeeps
<1>9. CASE Tick
  BY <1>9, TickKeeps
<1>10. CASE UNCHANGED vars
  <2>1. UNCHANGED <<hash, pending, leased, retry, dead, idem, now, birth, acked, grants>>
    BY <1>10 DEF vars, redisVars, historyVars
  <2>2. \A x \in Queue, i \in Job : InSomePlace(x, i)' <=> InSomePlace(x, i)
    BY <2>1 DEF InSomePlace
  <2>3. TypeOK'
    BY <2>1 DEF IInv, TypeOK
  <2>4. HashBehindEveryID' /\ OnePlace' /\ NoJobLost'
    BY <2>1, <2>2 DEF IInv, TypeOK, HashBehindEveryID, OnePlace, NoJobLost
  <2>5. DeadExactlyWhenExhausted' /\ AttemptsCountEndedLeases'
    BY <2>1, <2>2 DEF IInv, DeadExactlyWhenExhausted, AttemptsCountEndedLeases
  <2> QED
    BY <2>3, <2>4, <2>5 DEF IInv
<1> QED
  BY <1>2, <1>3, <1>4, <1>5, <1>6, <1>7, <1>8, <1>9, <1>10 DEF Next

\* The invariant holds in every reachable state.
THEOREM IInvAlways == Spec => []IInv
<1>1. Init => IInv
  BY InitIInv
<1>2. IInv /\ [Next]_vars => IInv'
  BY NextKeeps
<1> QED
  BY <1>1, <1>2, PTL DEF Spec

\* Type correctness: every hash has a real queue, every structure holds IDs of
\* jobs, every score is a time.
THEOREM TypeCorrect == Spec => []TypeOK
<1>1. IInv => TypeOK
  BY DEF IInv
<1> QED
  BY <1>1, IInvAlways, PTL

\* No accepted job is ever lost: until it is acked it has its payload and a
\* place in its own queue, whatever the callers do and however many loops run.
THEOREM JobsNeverLost == Spec => []NoJobLost
<1>1. IInv => NoJobLost
  BY DEF IInv
<1> QED
  BY <1>1, IInvAlways, PTL

\* An ID in a structure of a queue has its hash, with that queue in it: a claim
\* finds the payload, and no HINCRBY makes a hash out of nothing.
THEOREM PayloadsStay == Spec => []HashBehindEveryID
<1>1. IInv => HashBehindEveryID
  BY DEF IInv
<1> QED
  BY <1>1, IInvAlways, PTL

\* A job is never in two structures, nor twice in one.
THEOREM JobsInOnePlace == Spec => []OnePlace
<1>1. IInv => OnePlace
  BY DEF IInv
<1> QED
  BY <1>1, IInvAlways, PTL

\* An attempt is counted once for each lease that ends without an ack, although
\* fail and the reaper race for it.
THEOREM AttemptsExact == Spec => []AttemptsCountEndedLeases
<1>1. IInv => AttemptsCountEndedLeases
  BY DEF IInv
<1> QED
  BY <1>1, IInvAlways, PTL

\* A job is dead exactly when its attempts have run out.
THEOREM DeadLettersExact == Spec => []DeadExactlyWhenExhausted
<1>1. IInv => DeadExactlyWhenExhausted
  BY DEF IInv
<1> QED
  BY <1>1, IInvAlways, PTL

-----------------------------------------------------------------------------
(***************************************************************************)
(* Keys.  The invariant speaks of the markers, the clock and the history   *)
(* of creations only, so it needs nothing of what the scripts do to jobs.  *)
(***************************************************************************)
KeyTypeOK ==
  /\ now \in Nat
  /\ DOMAIN birth \subseteq Job
  /\ birth \in [DOMAIN birth -> BirthRec]
  /\ DOMAIN idem \subseteq Key
  /\ idem \in [DOMAIN idem -> IdemRec]

\* Ordinals are distinct and below the number of jobs; no job is from the future.
BornInOrder ==
  /\ \A j \in DOMAIN birth :
       birth[j].no < Cardinality(DOMAIN birth) /\ birth[j].at <= now
  /\ \A i, j \in DOMAIN birth : birth[i].no = birth[j].no => i = j

\* A marker expires a window after its job was created.
MarkerExpiry ==
  \A k \in DOMAIN idem : idem[k].exp = birth[idem[k].id].at + IdemWindow

\* While a keyed job is younger than the window, its key has a marker.
MarkerWhileYoung ==
  \A j \in DOMAIN birth :
    (birth[j].key # NoKey /\ now < birth[j].at + IdemWindow) => birth[j].key \in DOMAIN idem

KeyInv ==
  /\ KeyTypeOK
  /\ BornInOrder
  /\ MarkerNamesOriginal
  /\ MarkerExpiry
  /\ MarkerWhileYoung
  /\ KeysDedupedWithinWindow

\* The empty Redis satisfies the invariant.
LEMMA InitKeyInv ==
  ASSUME Init
  PROVE  KeyInv
<1>1. DOMAIN birth = {} /\ DOMAIN idem = {} /\ now = 0
  BY DEF Init
<1>2. KeyTypeOK
  BY <1>1 DEF Init, KeyTypeOK, BirthRec, IdemRec
<1> QED
  BY <1>1, <1>2 DEF KeyInv, BornInOrder, MarkerNamesOriginal, MarkerExpiry,
     MarkerWhileYoung, KeysDedupedWithinWindow

\* A step that touches no marker, no clock and no creation changes nothing here.
LEMMA FrameKeepsKeys ==
  ASSUME KeyInv, UNCHANGED <<idem, now, birth>>
  PROVE  KeyInv'
BY DEF KeyInv, KeyTypeOK, BornInOrder, MarkerNamesOriginal, MarkerExpiry,
       MarkerWhileYoung, KeysDedupedWithinWindow

\* The number of jobs created grows by one with each.
LEMMA OneMoreBirth ==
  ASSUME DOMAIN birth \subseteq Job, NEW j, j \notin DOMAIN birth
  PROVE  /\ Cardinality(DOMAIN birth) \in Nat
         /\ Cardinality(DOMAIN birth \cup {j}) = Cardinality(DOMAIN birth) + 1
<1>1. IsFiniteSet(DOMAIN birth)
  BY JobStoreAssumption, FS_Subset
<1> QED
  BY <1>1, FS_CardinalityType, FS_AddElement

\* Creating a job keeps the invariant: its key had no marker, so the jobs
\* created with it before are at least a window old.
LEMMA EnqueueKeepsKeys ==
  ASSUME KeyInv, NEW q \in Queue, NEW j \in Job, NEW k \in Key \cup {NoKey},
         Enqueue(q, j, k)
  PROVE  KeyInv'
<1> DEFINE n == Cardinality(DOMAIN birth)
<1>1. /\ KeyTypeOK /\ BornInOrder /\ MarkerNamesOriginal /\ MarkerExpiry
      /\ MarkerWhileYoung /\ KeysDedupedWithinWindow
  BY DEF KeyInv
<1>2. /\ j \notin DOMAIN birth
      /\ now' = now /\ now \in Nat
      /\ DOMAIN birth' = DOMAIN birth \cup {j}
      /\ \A i \in DOMAIN birth : birth'[i] = birth[i]
      /\ birth' = [x \in DOMAIN birth \cup {j} |->
                    IF x = j THEN [no |-> n, key |-> k, at |-> IF k = NoKey THEN 0 ELSE now]
                    ELSE birth[x]]
      /\ birth'[j] = [no |-> n, key |-> k, at |-> IF k = NoKey THEN 0 ELSE now]
  BY <1>1 DEF Enqueue, PushNewJob, KeyTypeOK
<1>3. /\ n \in Nat /\ Cardinality(DOMAIN birth') = n + 1
  BY <1>1, <1>2, OneMoreBirth DEF KeyTypeOK
<1>4. /\ birth'[j].no = n /\ birth'[j].key = k
      /\ k = NoKey => birth'[j].at = 0
      /\ k # NoKey => birth'[j].at = now
      /\ birth'[j] \in BirthRec
  BY <1>2, <1>3 DEF BirthRec
<1>5. \A i \in DOMAIN birth : /\ birth[i].no \in Nat /\ birth[i].at \in Nat
                              /\ birth[i].no < n /\ birth[i].at <= now
                              /\ i # j /\ i \in Job
  BY <1>1, <1>2 DEF KeyTypeOK, BirthRec, BornInOrder
<1>6. k = NoKey => idem' = idem
  BY DEF Enqueue
<1>7. k # NoKey => /\ k \in Key /\ k \notin DOMAIN idem
                   /\ DOMAIN idem' = DOMAIN idem \cup {k}
                   /\ idem'[k] = [id |-> j, exp |-> now + IdemWindow]
                   /\ \A x \in DOMAIN idem : idem'[x] = idem[x]
                   /\ idem' = [x \in DOMAIN idem \cup {k} |->
                                IF x = k THEN [id |-> j, exp |-> now + IdemWindow]
                                ELSE idem[x]]
  BY DEF Enqueue
<1>8. IdemWindow \in Nat /\ NoKey \notin Key
  BY JobStoreAssumption
<1> HIDE DEF n
<1>9. KeyTypeOK'
  <2>1. DOMAIN birth' \subseteq Job /\ birth' \in [DOMAIN birth' -> BirthRec]
    <3>1. \A i \in DOMAIN birth : birth'[i] \in BirthRec
      BY <1>1, <1>2 DEF KeyTypeOK
    <3> QED
      BY <1>1, <1>2, <1>4, <3>1 DEF KeyTypeOK
  <2>2. DOMAIN idem' \subseteq Key /\ idem' \in [DOMAIN idem' -> IdemRec]
    <3>1. CASE k = NoKey
      BY <1>1, <1>6, <3>1 DEF KeyTypeOK
    <3>2. CASE k # NoKey
      <4>1. [id |-> j, exp |-> now + IdemWindow] \in IdemRec
        BY <1>2, <1>8 DEF IdemRec
      <4> QED
        BY <1>1, <1>7, <3>2, <4>1 DEF KeyTypeOK
    <3> QED
      BY <3>1, <3>2
  <2> QED
    BY <1>2, <2>1, <2>2 DEF KeyTypeOK
<1>10. BornInOrder'
  <2>1. \A i \in DOMAIN birth' : birth'[i].no < Cardinality(DOMAIN birth')
    BY <1>2, <1>3, <1>4, <1>5
  <2>2. \A i \in DOMAIN birth' : birth'[i].at <= now'
    BY <1>2, <1>4, <1>5
  <2>3. \A i, h \in DOMAIN birth' : birth'[i].no = birth'[h].no => i = h
    BY <1>1, <1>2, <1>3, <1>4, <1>5 DEF BornInOrder
  <2> QED
    BY <2>1, <2>2, <2>3, Zenon DEF BornInOrder
<1>11. \A x \in DOMAIN idem : /\ idem[x].id \in DOMAIN birth /\ x \in Key
                              /\ birth[idem[x].id].key = x
  BY <1>1 DEF MarkerNamesOriginal, KeyTypeOK
<1>12. MarkerNamesOriginal'
  <2> SUFFICES ASSUME NEW x \in DOMAIN idem'
               PROVE  /\ idem'[x].id \in DOMAIN birth'
                      /\ birth'[idem'[x].id].key = x
                      /\ \A i \in DOMAIN birth' :
                           birth'[i].key = x => birth'[i].no <= birth'[idem'[x].id].no
    BY DEF MarkerNamesOriginal
  <2>1. CASE x \in DOMAIN idem /\ x # k
    <3>1. idem'[x] = idem[x]
      BY <1>6, <1>7, <2>1
    <3>2. \A i \in DOMAIN birth : birth[i].key = x => birth[i].no <= birth[idem[x].id].no
      BY <1>1, <2>1 DEF MarkerNamesOriginal
    <3> QED
      BY <1>2, <1>4, <1>11, <2>1, <3>1, <3>2
  <2>2. CASE x = k
    <3>1. k # NoKey
      BY <1>6, <1>8, <1>11, <2>2
    <3>2. idem'[x].id = j
      BY <1>7, <2>2, <3>1
    <3> QED
      BY <1>2, <1>3, <1>4, <1>5, <2>2, <3>2
  <2>3. x \in DOMAIN idem \/ x = k
    BY <1>6, <1>7
  <2> QED
    BY <2>1, <2>2, <2>3
<1>13. MarkerExpiry'
  <2> SUFFICES ASSUME NEW x \in DOMAIN idem'
               PROVE  idem'[x].exp = birth'[idem'[x].id].at + IdemWindow
    BY DEF MarkerExpiry
  <2>1. CASE x \in DOMAIN idem /\ x # k
    <3>1. idem'[x] = idem[x]
      BY <1>6, <1>7, <2>1
    <3> QED
      BY <1>1, <1>2, <1>11, <2>1, <3>1 DEF MarkerExpiry
  <2>2. CASE x = k
    <3>1. k # NoKey
      BY <1>6, <1>8, <1>11, <2>2
    <3> QED
      BY <1>4, <1>7, <2>2, <3>1
  <2>3. x \in DOMAIN idem \/ x = k
    BY <1>6, <1>7
  <2> QED
    BY <2>1, <2>2, <2>3
<1>14. DOMAIN idem \subseteq DOMAIN idem' /\ (k # NoKey => k \in DOMAIN idem')
  BY <1>6, <1>7
<1>15. MarkerWhileYoung'
  BY <1>1, <1>2, <1>4, <1>14 DEF MarkerWhileYoung
<1>16. \A i \in DOMAIN birth : (birth[i].key = k /\ k # NoKey) => now >= birth[i].at + IdemWindow
  BY <1>1, <1>5, <1>7, <1>8, <1>2 DEF MarkerWhileYoung
<1>17. KeysDedupedWithinWindow'
  <2> SUFFICES ASSUME NEW i \in DOMAIN birth', NEW h \in DOMAIN birth', i # h,
                      birth'[i].key = birth'[h].key, birth'[i].key # NoKey,
                      birth'[i].no < birth'[h].no
               PROVE  birth'[h].at >= birth'[i].at + IdemWindow
    BY DEF KeysDedupedWithinWindow
  <2>1. CASE i \in DOMAIN birth /\ h \in DOMAIN birth
    BY <1>1, <1>2, <2>1 DEF KeysDedupedWithinWindow
  <2>2. CASE i \in DOMAIN birth /\ h = j
    BY <1>2, <1>4, <1>16, <2>2
  <2>3. CASE i = j /\ h \in DOMAIN birth
    <3>1. birth'[i].no = n /\ birth'[h].no < n /\ birth'[h].no \in Nat
      BY <1>2, <1>4, <1>5, <2>3
    <3> QED
      BY <1>3, <3>1
  <2> QED
    BY <1>2, <2>1, <2>2, <2>3
<1> QED
  BY <1>9, <1>10, <1>12, <1>13, <1>15, <1>17 DEF KeyInv

\* Time keeps the invariant: a marker is dropped when its job is a window old,
\* and every other job with its key is older still.
LEMMA TickKeepsKeys ==
  ASSUME KeyInv, Tick
  PROVE  KeyInv'
<1>1. /\ KeyTypeOK /\ BornInOrder /\ MarkerNamesOriginal /\ MarkerExpiry
      /\ MarkerWhileYoung /\ KeysDedupedWithinWindow
  BY DEF KeyInv
<1>2. /\ birth' = birth /\ now \in Nat /\ now' = now + 1
      /\ DOMAIN idem' = {x \in DOMAIN idem : now + 1 < idem[x].exp}
      /\ \A x \in DOMAIN idem' : idem'[x] = idem[x]
      /\ IdemWindow \in Nat
  BY <1>1, JobStoreAssumption DEF Tick, historyVars, KeyTypeOK
<1>3. \A i \in DOMAIN birth : birth[i].at \in Nat /\ birth[i].no \in Nat /\ birth[i].at <= now
  BY <1>1 DEF KeyTypeOK, BirthRec, BornInOrder
<1>4. KeyTypeOK'
  <2>1. idem' \in [DOMAIN idem' -> IdemRec]
    BY <1>1, <1>2 DEF KeyTypeOK, Tick
  <2> QED
    BY <1>1, <1>2, <2>1 DEF KeyTypeOK
<1>5. BornInOrder'
  BY <1>1, <1>2, <1>3 DEF BornInOrder
<1>6. MarkerNamesOriginal' /\ MarkerExpiry' /\ KeysDedupedWithinWindow'
  BY <1>1, <1>2 DEF MarkerNamesOriginal, MarkerExpiry, KeysDedupedWithinWindow
<1>7. MarkerWhileYoung'
  <2> SUFFICES ASSUME NEW j \in DOMAIN birth, birth[j].key # NoKey,
                      now + 1 < birth[j].at + IdemWindow
               PROVE  birth[j].key \in DOMAIN idem'
    BY <1>2 DEF MarkerWhileYoung
  <2> DEFINE k == birth[j].key
             o == idem[k].id
  <2>1. k \in DOMAIN idem
    BY <1>1, <1>2, <1>3 DEF MarkerWhileYoung
  <2>2. /\ o \in DOMAIN birth /\ birth[o].key = k /\ birth[j].no <= birth[o].no
        /\ idem[k].exp = birth[o].at + IdemWindow
    BY <1>1, <2>1 DEF MarkerNamesOriginal, MarkerExpiry
  <2>3. o = j
    <3> SUFFICES ASSUME o # j PROVE FALSE
      OBVIOUS
    <3>1. birth[j].no < birth[o].no
      BY <1>1, <1>3, <2>2 DEF BornInOrder
    <3>2. birth[o].at >= birth[j].at + IdemWindow
      BY <1>1, <2>2, <3>1 DEF KeysDedupedWithinWindow
    <3> QED
      BY <1>2, <1>3, <2>2, <3>2
  <2> QED
    BY <1>2, <2>1, <2>2, <2>3
<1> QED
  BY <1>4, <1>5, <1>6, <1>7 DEF KeyInv

\* Only an enqueue and the clock touch what the invariant is about.
LEMMA StoreStepKeepsKeys ==
  ASSUME KeyInv, [Next]_vars
  PROVE  KeyInv'
<1>1. ASSUME NEW q \in Queue, NEW j \in Job, NEW k \in Key \cup {NoKey}, Enqueue(q, j, k)
      PROVE  KeyInv'
  BY <1>1, EnqueueKeepsKeys
<1>2. CASE Tick
  BY <1>2, TickKeepsKeys
<1>3. ASSUME NEW q \in Queue, NEW n \in 1..MaxClaimBatch, NEW t \in Reading, Claim(q, n, t)
      PROVE  UNCHANGED <<idem, now, birth>>
  BY <1>3 DEF Claim
<1>4. ASSUME NEW q \in Queue, NEW j \in Job, NEW t \in Reading, Renew(q, j, t)
      PROVE  UNCHANGED <<idem, now, birth>>
  BY <1>4 DEF Renew, historyVars
<1>5. ASSUME NEW q \in Queue, NEW ids \in SUBSET Job, Ack(q, ids)
      PROVE  UNCHANGED <<idem, now, birth>>
  BY <1>5 DEF Ack
<1>6. ASSUME NEW q \in Queue, NEW j \in Job, NEW t \in Reading, NEW d \in Delay, Fail(q, j, t, d)
      PROVE  UNCHANGED <<idem, now, birth>>
  BY <1>6 DEF Fail, historyVars
<1>7. ASSUME NEW q \in Queue, NEW t \in Reading, Reap(q, t)
      PROVE  UNCHANGED <<idem, now, birth>>
  BY <1>7 DEF Reap, historyVars
<1>8. ASSUME NEW q \in Queue, NEW t \in Reading, DrainRetry(q, t)
      PROVE  UNCHANGED <<idem, now, birth>>
  BY <1>8 DEF DrainRetry, historyVars
<1>9. CASE UNCHANGED vars
  BY <1>9, FrameKeepsKeys DEF vars, redisVars, historyVars
<1> QED
  BY <1>1, <1>2, <1>3, <1>4, <1>5, <1>6, <1>7, <1>8, <1>9, FrameKeepsKeys DEF Next

\* The invariant of the keys holds always.
THEOREM KeyInvAlways == Spec => []KeyInv
<1>1. Init => KeyInv
  BY InitKeyInv
<1>2. KeyInv /\ [Next]_vars => KeyInv'
  BY StoreStepKeepsKeys
<1> QED
  BY <1>1, <1>2, PTL DEF Spec

\* Within the window a key makes one job, across queues, retries and acks.
THEOREM KeysDeduplicate == Spec => []KeysDedupedWithinWindow
<1>1. KeyInv => KeysDedupedWithinWindow
  BY DEF KeyInv
<1> QED
  BY <1>1, KeyInvAlways, PTL

\* A marker that is alive names the last job created with its key.
THEOREM MarkersNameOriginals == Spec => []MarkerNamesOriginal
<1>1. KeyInv => MarkerNamesOriginal
  BY DEF KeyInv
<1> QED
  BY <1>1, KeyInvAlways, PTL
=============================================================================
