------------------------------ MODULE JobStore ------------------------------
(***************************************************************************)
(* The job half of internal/cogs/store.go: the Redis structures that hold  *)
(* every job, and the Lua scripts that move jobs between them.  A script   *)
(* is one atomic step.  Its callers are arbitrary: any queue, any job ID,  *)
(* any order, any number of times, so the steps of stale workers, retried  *)
(* requests and several leaders' loops are all included.                   *)
(*                                                                         *)
(* Calls that change nothing (an enqueue that hits an idempotency marker,  *)
(* a renew, ack or fail whose lease is gone, a drain with nothing due) are *)
(* stuttering steps.                                                       *)
(***************************************************************************)
EXTENDS Redis

CONSTANTS
  Job,            \* the IDs NewID may return
  Queue,          \* valid queue names
  Key,            \* idempotency keys
  NoKey,          \* the empty idempotency key
  LeaseTTL,       \* cfg.LeaseTTL, in clock units
  MaxRetries,     \* cfg.MaxRetries
  DrainLimit,     \* cfg.DrainLimit
  MaxClaimBatch,  \* cfg.MaxClaimBatch
  IdemWindow,     \* cfg.IdempotencyWindow
  Delay,          \* the delays Backoff may return
  MaxSkew,        \* how far a server's nowMS() may be from Redis's clock by
                  \* the time its script runs: clock skew plus delay
  MaxTime         \* bound: the clock stops here

ASSUME JobStoreAssumption ==
  /\ IsFiniteSet(Job)
  /\ NoKey \notin Key
  /\ LeaseTTL \in Nat
  /\ MaxRetries \in Nat
  /\ DrainLimit \in Nat
  /\ MaxClaimBatch \in Nat
  /\ IdemWindow \in Nat
  /\ Delay \subseteq Nat
  /\ MaxSkew \in Nat
  /\ MaxTime \in Nat

VARIABLES
  hash,     \* job:{id}: the queue and attempts fields of the hashes that exist
  pending,  \* queue:{q}:pending
  leased,   \* queue:{q}:leased, scored by lease deadline
  retry,    \* queue:{q}:retry, scored by next attempt time
  dead,     \* queue:{q}:dead
  idem,     \* idem:{key}: the markers that exist, with their expiry
  now,      \* Redis's clock
  birth,    \* history: the jobs ever created, with ordinal, key and time
  acked,    \* history: the jobs an ack removed
  grants    \* history: how many leases each job was given

redisVars == <<hash, pending, leased, retry, dead, idem>>
historyVars == <<birth, acked, grants>>
vars == <<redisVars, now, historyVars>>

-----------------------------------------------------------------------------
\* The queue field of a hash that HINCRBY made: there is none.
NoQueue == ""

HashRec == [queue : Queue, attempts : Nat]
IdemRec == [id : Job, exp : Nat]
\* A family of sorted sets of job IDs, one per queue.
IsZSetPerQueue(f) ==
  /\ f = [q \in Queue |-> f[q]]
  /\ \A q \in Queue : IsZSet(f[q], Job)
BirthRec == [no : Nat, key : Key \cup {NoKey}, at : Nat]

TypeOK ==
  /\ DOMAIN hash \subseteq Job
  /\ hash \in [DOMAIN hash -> HashRec]
  /\ pending \in [Queue -> Seq(Job)]
  /\ IsZSetPerQueue(leased)
  /\ IsZSetPerQueue(retry)
  /\ dead \in [Queue -> Seq(Job)]
  /\ DOMAIN idem \subseteq Key
  /\ idem \in [DOMAIN idem -> IdemRec]
  /\ now \in Nat
  /\ DOMAIN birth \subseteq Job
  /\ birth \in [DOMAIN birth -> BirthRec]
  /\ acked \subseteq Job
  /\ grants \in [Job -> Nat]

Init ==
  /\ hash = [j \in {} |-> [queue |-> NoQueue, attempts |-> 0]]
  /\ pending = [q \in Queue |-> <<>>]
  /\ leased = [q \in Queue |-> EmptyZSet]
  /\ retry = [q \in Queue |-> EmptyZSet]
  /\ dead = [q \in Queue |-> <<>>]
  /\ idem = [k \in {} |-> [id |-> NoQueue, exp |-> 0]]
  /\ now = 0
  /\ birth = [j \in {} |-> [no |-> 0, key |-> NoKey, at |-> 0]]
  /\ acked = {}
  /\ grants = [j \in Job |-> 0]

-----------------------------------------------------------------------------
\* What nowMS() may have returned to the server whose script runs now.
Reading == {t \in 0..(now + MaxSkew) : now <= t + MaxSkew}

\* HINCRBY job:{id} attempts 1, for the IDs in S.  It creates a hash that does
\* not exist, one with no queue and no payload.
HIncrAttempts(h, S) ==
  [j \in DOMAIN h \cup S |->
     IF j \in S
     THEN IF j \in DOMAIN h
          THEN [h[j] EXCEPT !.attempts = @ + 1]
          ELSE [queue |-> NoQueue, attempts |-> 1]
     ELSE h[j]]

\* A fresh ID, its hash and its place at the tail of the queue: the common
\* end of enqueueScript and scheduleDrainScript.  Redis's time of creation is
\* kept for keyed jobs only.
PushNewJob(q, j, k) ==
  /\ j \notin DOMAIN birth
  /\ hash' = [x \in DOMAIN hash \cup {j} |->
                IF x = j THEN [queue |-> q, attempts |-> 0] ELSE hash[x]]
  /\ pending' = [pending EXCEPT ![q] = Append(@, j)]
  /\ birth' = [x \in DOMAIN birth \cup {j} |->
                IF x = j THEN [no |-> Cardinality(DOMAIN birth), key |-> k,
                               at |-> IF k = NoKey THEN 0 ELSE now]
                ELSE birth[x]]
  /\ UNCHANGED <<leased, retry, dead, now, acked, grants>>

\* Bug: the marker is not looked at.
EnqueueWithoutNX(q, j, k) ==
  /\ idem' = IF k = NoKey THEN idem
             ELSE [x \in DOMAIN idem \cup {k} |->
                     IF x = k THEN [id |-> j, exp |-> now + IdemWindow]
                     ELSE idem[x]]
  /\ PushNewJob(q, j, k)

\* Bug: SET without NX, so a duplicate's own ID replaces the original's.
EnqueueOverwriting(q, j, k) ==
  /\ j \notin DOMAIN birth
  /\ idem' = IF k = NoKey THEN idem
             ELSE [x \in DOMAIN idem \cup {k} |->
                     IF x = k THEN [id |-> j, exp |-> now + IdemWindow]
                     ELSE idem[x]]
  /\ IF k \in DOMAIN idem THEN UNCHANGED <<hash, pending, leased, retry, dead, now, historyVars>>
     ELSE PushNewJob(q, j, k)

\* Enqueue: SET NX EX on the marker when a key is given; an existing marker
\* ends the script, and Redis refuses an expiry of 0 seconds.
Enqueue(q, j, k) ==
  /\ k # NoKey => k \notin DOMAIN idem /\ IdemWindow > 0
  /\ idem' = IF k = NoKey THEN idem
             ELSE [x \in DOMAIN idem \cup {k} |->
                     IF x = k THEN [id |-> j, exp |-> now + IdemWindow]
                     ELSE idem[x]]
  /\ PushNewJob(q, j, k)

\* Bug: a crash between the pops and the ZADDs of two separate calls.
ClaimThenCrash(q, n, t) ==
  LET m == Lesser(n, Len(pending[q]))
      got == Range(SubSeq(pending[q], 1, m))
  IN /\ pending[q] # <<>>
     /\ pending' = [pending EXCEPT ![q] = SubSeq(@, m + 1, Len(@))]
     /\ UNCHANGED <<hash, leased, retry, dead, idem, now, historyVars>>

\* Bug: LPOP, which takes the newest job.
ClaimNewest(q, n, t) ==
  LET last == pending[q][Len(pending[q])]
  IN /\ pending[q] # <<>>
     /\ pending' = [pending EXCEPT ![q] = SubSeq(@, 1, Len(@) - 1)]
     /\ leased' = [leased EXCEPT ![q] = ZAdd(@, t + LeaseTTL, {last})]
     /\ grants' = [grants EXCEPT ![last] = @ + 1]
     /\ UNCHANGED <<hash, retry, dead, idem, now, birth, acked>>

\* Claim of one queue: RPOP up to n IDs, ZADD each with the same deadline.
Claim(q, n, t) ==
  LET m == Lesser(n, Len(pending[q]))
      got == Range(SubSeq(pending[q], 1, m))
  IN /\ pending[q] # <<>>
     /\ pending' = [pending EXCEPT ![q] = SubSeq(@, m + 1, Len(@))]
     /\ leased' = [leased EXCEPT ![q] = ZAdd(@, t + LeaseTTL, got)]
     /\ grants' = [j \in Job |-> IF j \in got THEN grants[j] + 1 ELSE grants[j]]
     /\ UNCHANGED <<hash, retry, dead, idem, now, birth, acked>>

\* Bug: no ZSCORE check.
RenewUnchecked(q, j, t) ==
  /\ j \in DOMAIN hash /\ hash[j].queue = q
  /\ leased' = [leased EXCEPT ![q] = ZAdd(@, t + LeaseTTL, {j})]
  /\ UNCHANGED <<hash, pending, retry, dead, idem, now, historyVars>>

\* Renew: extends the lease of an ID that is a member, whoever asks.
Renew(q, j, t) ==
  /\ j \in DOMAIN leased[q]
  /\ leased' = [leased EXCEPT ![q] = ZAdd(@, t + LeaseTTL, {j})]
  /\ UNCHANGED <<hash, pending, retry, dead, idem, now, historyVars>>

\* Bug: the hash goes whether or not ZREM removed a lease.
AckUnchecked(q, ids) ==
  LET gone == ids \cap DOMAIN leased[q]
  IN /\ ids # {}
     /\ leased' = [leased EXCEPT ![q] = ZRem(@, gone)]
     /\ hash' = [j \in DOMAIN hash \ ids |-> hash[j]]
     /\ acked' = acked \cup (ids \cap DOMAIN hash)
     /\ UNCHANGED <<pending, retry, dead, idem, now, birth, grants>>

\* Bug: the hash is deleted and the lease is left to expire.
AckKeepsLease(q, ids) ==
  LET gone == ids \cap DOMAIN leased[q]
  IN /\ gone # {}
     /\ hash' = [j \in DOMAIN hash \ gone |-> hash[j]]
     /\ acked' = acked \cup gone
     /\ UNCHANGED <<pending, leased, retry, dead, idem, now, birth, grants>>

\* Ack: each ID that ZREM removes from this queue's leases loses its hash.
Ack(q, ids) ==
  LET gone == ids \cap DOMAIN leased[q]
  IN /\ gone # {}
     /\ leased' = [leased EXCEPT ![q] = ZRem(@, gone)]
     /\ hash' = [j \in DOMAIN hash \ gone |-> hash[j]]
     /\ acked' = acked \cup gone
     /\ UNCHANGED <<pending, retry, dead, idem, now, birth, grants>>

\* Bug: one retry too few.
ExhaustedEarly(n) == n >= MaxRetries

\* Whether the attempt counter just incremented to n is past its limit.
Exhausted(n) == n > MaxRetries

\* Fail: the attempt is counted, then the job is dead-lettered or given a
\* retry time.  The delay comes from the attempt number the caller sent.
Fail(q, j, t, delay) ==
  LET h == HIncrAttempts(hash, {j})
      over == Exhausted(h[j].attempts)
  IN /\ j \in DOMAIN leased[q]
     /\ leased' = [leased EXCEPT ![q] = ZRem(@, {j})]
     /\ hash' = h
     /\ dead' = IF over THEN [dead EXCEPT ![q] = Append(@, j)] ELSE dead
     /\ retry' = IF over THEN retry
                 ELSE [retry EXCEPT ![q] = ZAdd(@, t + delay, {j})]
     /\ UNCHANGED <<pending, idem, now, historyVars>>

\* Bug: bumpAttempts is off, so a lease that expires costs no attempt.
ReapUncounted(q, t) ==
  \E due \in LowestDue(leased[q], t, DrainLimit) :
    /\ due # {}
    /\ leased' = [leased EXCEPT ![q] = ZRem(@, due)]
    /\ \E s \in ScoreOrders(leased[q], due) :
         pending' = [pending EXCEPT ![q] = @ \o s]
    /\ UNCHANGED <<hash, retry, dead, idem, now, historyVars>>

\* drain with bumpAttempts, over the leased set: the reaper's script.
Reap(q, t) ==
  \E due \in LowestDue(leased[q], t, DrainLimit) :
    LET h == HIncrAttempts(hash, due)
        over == {j \in due : Exhausted(h[j].attempts)}
    IN /\ due # {}
       /\ leased' = [leased EXCEPT ![q] = ZRem(@, due)]
       /\ hash' = h
       /\ \E s \in ScoreOrders(leased[q], due \ over) :
            pending' = [pending EXCEPT ![q] = @ \o s]
       /\ \E s \in ScoreOrders(leased[q], over) :
            dead' = [dead EXCEPT ![q] = @ \o s]
       /\ UNCHANGED <<retry, idem, now, historyVars>>

\* Bug: bumpAttempts is on, so a failed attempt is counted again.
DrainRetryCounted(q, t) ==
  \E due \in LowestDue(retry[q], t, DrainLimit) :
    /\ due # {}
    /\ retry' = [retry EXCEPT ![q] = ZRem(@, due)]
    /\ hash' = HIncrAttempts(hash, due)
    /\ \E s \in ScoreOrders(retry[q], due) :
         pending' = [pending EXCEPT ![q] = @ \o s]
    /\ UNCHANGED <<leased, dead, idem, now, historyVars>>

\* drain without bumpAttempts, over the retry set: the retry drainer's script.
DrainRetry(q, t) ==
  \E due \in LowestDue(retry[q], t, DrainLimit) :
    /\ due # {}
    /\ retry' = [retry EXCEPT ![q] = ZRem(@, due)]
    /\ \E s \in ScoreOrders(retry[q], due) :
         pending' = [pending EXCEPT ![q] = @ \o s]
    /\ UNCHANGED <<hash, leased, dead, idem, now, historyVars>>

\* Time passes; Redis drops the markers that reach their expiry.
Tick ==
  /\ now < MaxTime
  /\ now' = now + 1
  /\ idem' = [k \in {x \in DOMAIN idem : now + 1 < idem[x].exp} |-> idem[k]]
  /\ UNCHANGED <<hash, pending, leased, retry, dead, historyVars>>

Next ==
  \/ \E q \in Queue, j \in Job, k \in Key \cup {NoKey} : Enqueue(q, j, k)
  \/ \E q \in Queue, n \in 1..MaxClaimBatch, t \in Reading : Claim(q, n, t)
  \/ \E q \in Queue, j \in Job, t \in Reading : Renew(q, j, t)
  \/ \E q \in Queue, ids \in SUBSET Job : Ack(q, ids)
  \/ \E q \in Queue, j \in Job, t \in Reading, d \in Delay : Fail(q, j, t, d)
  \/ \E q \in Queue, t \in Reading : Reap(q, t)
  \/ \E q \in Queue, t \in Reading : DrainRetry(q, t)
  \/ Tick

Spec == Init /\ [][Next]_vars

-----------------------------------------------------------------------------
(***************************************************************************)
(* Safety.                                                                 *)
(***************************************************************************)
InSomePlace(q, j) ==
  \/ j \in Range(pending[q])
  \/ j \in DOMAIN leased[q]
  \/ j \in Range(dead[q])
  \/ j \in DOMAIN retry[q]

\* Every ID in a structure of queue q has a job hash, and that hash names q.
\* Claim reads the payload of an ID it pops, and the HINCRBY of a drain would
\* silently create an empty hash, so an ID without its hash is a job whose
\* payload is gone.
HashBehindEveryID ==
  \A q \in Queue, j \in Job :
    InSomePlace(q, j) => j \in DOMAIN hash /\ hash[j].queue = q

\* A job sits in exactly one structure of its queue, once: pending, leased,
\* retry and dead are disjoint and the lists repeat nothing.  A job in two of
\* them would be run twice without any lease expiring.
OnePlace ==
  \A q \in Queue :
    /\ IsInjective(pending[q])
    /\ IsInjective(dead[q])
    /\ Range(pending[q]) \cap DOMAIN leased[q] = {}
    /\ Range(pending[q]) \cap DOMAIN retry[q] = {}
    /\ Range(pending[q]) \cap Range(dead[q]) = {}
    /\ DOMAIN leased[q] \cap DOMAIN retry[q] = {}
    /\ DOMAIN leased[q] \cap Range(dead[q]) = {}
    /\ DOMAIN retry[q] \cap Range(dead[q]) = {}

\* store.go's core claim, "there is no instant at which a job exists in
\* neither the pending list nor the leased set": every job ever accepted was
\* either acked, or still has its hash and a place in the queue it was sent to.
NoJobLost ==
  /\ DOMAIN birth = acked \cup DOMAIN hash
  /\ acked \cap DOMAIN hash = {}
  /\ \A j \in DOMAIN hash : \E q \in Queue : hash[j].queue = q /\ InSomePlace(q, j)

\* A job is dead-lettered by the failure after its last retry, neither sooner
\* nor later, whichever of fail and the reaper counts it.
DeadExactlyWhenExhausted ==
  \A q \in Queue, j \in Job :
    InSomePlace(q, j) =>
      IF j \in Range(dead[q]) THEN hash[j].attempts = MaxRetries + 1
      ELSE hash[j].attempts <= MaxRetries

\* No attempt is counted twice or missed: the attempts field is the number of
\* leases that ended without an ack.  Fail and the reaper race for the same
\* lease, and only the one whose ZREM removes it may count it.  An ID that was
\* never accepted was never leased.
AttemptsCountEndedLeases ==
  /\ \A q \in Queue, j \in Job :
       InSomePlace(q, j) =>
         grants[j] = hash[j].attempts + IF j \in DOMAIN leased[q] THEN 1 ELSE 0
  /\ \A j \in Job \ DOMAIN birth : grants[j] = 0

\* Two jobs created with the same idempotency key are at least the window
\* apart on Redis's clock, whichever queues they were sent to.
KeysDedupedWithinWindow ==
  \A i, j \in DOMAIN birth :
    (i # j /\ birth[i].key = birth[j].key /\ birth[i].key # NoKey
           /\ birth[i].no < birth[j].no)
      => birth[j].at >= birth[i].at + IdemWindow

\* A marker that is alive names the job its key created last, so a repeated
\* enqueue is answered with the original job's ID.
MarkerNamesOriginal ==
  \A k \in DOMAIN idem :
    /\ idem[k].id \in DOMAIN birth
    /\ birth[idem[k].id].key = k
    /\ \A j \in DOMAIN birth :
         birth[j].key = k => birth[j].no <= birth[idem[k].id].no

\* Pending is FIFO: a claim never leases a job ahead of an older job of the
\* same queue that was never leased and stays pending.
FreshJobsInOrder ==
  [][\A q \in Queue : \A i, j \in Range(pending[q]) :
       (/\ grants[i] = 0 /\ grants[j] = 0
        /\ birth[i].no < birth[j].no
        /\ j \in DOMAIN leased'[q])
         => i \notin Range(pending'[q])]_vars

-----------------------------------------------------------------------------
(***************************************************************************)
(* Refinement.  A job's stage is the structure that holds its ID.          *)
(***************************************************************************)
StageOf(j) ==
  IF j \in DOMAIN hash
  THEN LET q == hash[j].queue
       IN IF j \in Range(pending[q]) THEN "pending"
          ELSE IF j \in DOMAIN leased[q] THEN "leased"
          ELSE IF j \in DOMAIN retry[q] THEN "retry"
          ELSE IF j \in Range(dead[q]) THEN "dead" ELSE "lost"
  ELSE IF j \in acked THEN "acked" ELSE "new"

TriesOf(j) == IF j \in DOMAIN hash THEN hash[j].attempts ELSE 0

Lifecycle == INSTANCE JobLifecycle WITH
  stage <- [j \in Job |-> StageOf(j)],
  tries <- [j \in Job |-> TriesOf(j)]

\* The scripts of store.go move jobs only along the arrows of the README's
\* state diagram, count every failed attempt once, and never revive a job that
\* was acked or dead-lettered.
ImplementsLifecycle == Lifecycle!LSpec
=============================================================================
