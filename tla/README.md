# Cogs in TLA+

Cogs is a job queue: an HTTP server in Go that keeps every job in Redis, and
worker SDKs in Go, Python and Node. This directory models the parts that decide
whether a job is lost, run twice, counted wrongly or forgotten. `PROJECT.json`
maps every definition to the source lines it stands for and lists the runs,
mutants, hazards, findings and theorems.

## 1. Inventory

| Component | State | Operations | What makes it hard | What makes it correct |
|---|---|---|---|---|
| Job store, `store.go`, `job.go` | per queue a pending list, leased and retry sorted sets, a dead list; a hash per job; idempotency markers | Lua scripts enqueue, claim, renew, ack, fail, drain (as reaper and as retry drainer) | callers are many servers and stale workers, with different clocks, in any order; leases have no generation | no job is lost or in two places, each failed attempt is counted once, dead exactly past the limit, keys deduplicate |
| Leader election, `leader.go` | `cogs:leader` with a TTL; `held` and a ticker per replica | SET NX, renew and release scripts | stalls, lost replies, late execution, crash, stop | a fresh leader has the lock; nobody deletes another's lock; leadership comes back |
| Server process, `cmd/cogs/main.go` | run context | start, drain, exit | goroutines nobody waits for | a stopping leader hands over |
| Cron scheduler, `scheduler.go` | a hash per schedule, an index by next run | Create, Delete, Pass | a pass is many calls, only its last is atomic; two leaders; deletions in between | one job per occurrence, schedules move forward, deleted ones stay deleted, due ones fire |
| Background loops, `loops.go` | a ticker per loop; Backoff keeps none | reapPass, retryPass, the scheduler's pass, on the leader; KnownQueues; Backoff | queues are found by three scans while jobs move, and a pass ends at its first error | a pass misses nothing that was due, every expired lease and elapsed backoff is taken up, delays stay in their band |
| HTTP API, `api.go` | none | enqueue, claim with long poll, renew, ack, fail, schedules, reads | a call's effect and its answer are separate; callers and the Redis client repeat calls | 409 exactly when there is no lease; repeated enqueues agree |
| Worker SDKs, `sdk/` | jobs waiting for a slot, running handlers, heartbeats | claim loop, heartbeat, report, shutdown | stale handlers, lost answers, slots and leases in conflict | a held lease stays alive, one handler per job, every job settles |
| Configuration, metrics, load test, chaos test, browser demo | - | - | - | not modelled: inputs, output only, or test harness |

Interaction: workers and producers call the API, the API runs scripts in
Redis, and the loops of whichever replica leads run the drain scripts on the
same structures. Redis is the only shared state. The scripts are safe
whoever calls them, so leadership is an economy for the reaper and the retry
drainer; the scheduler relies on its script's re-check as well.

## 2. Modules

| Module | Models | Uses |
|---|---|---|
| `Redis` | sorted sets and range reads (external; from how the scripts use them) | |
| `JobLifecycle` | abstract: the state diagram of a job | |
| `JobStore` | the job scripts and their data | `Redis`, implements `JobLifecycle` |
| `EnqueueCalls` | an enqueue request: retries, repeated scripts, answers | `JobStore` |
| `Backoff` | the delay before a retry, in fixed-width arithmetic | |
| `RetryBackoff` | `Store.Fail`'s delays, from the job store and Backoff | `JobStore`, `Backoff` |
| `Loops` | the reaper's and the retry drainer's passes over all queues, composed with the abstract store | `JobLifecycle` |
| `LeaderLock` | leader election and process lifecycle | |
| `CronScheduler` | schedules and passes | `Redis` |
| `Worker` | API handlers and SDK loops, composed with the abstract store | `JobLifecycle` |
| `RedisProofs` | lemmas on sorted sets, range reads and lists | `Redis` |
| `JobStoreProofs` | theorems about `JobStore` | `JobStore`, `RedisProofs` |
| `LifecycleProofs` | that `JobStore` implements `JobLifecycle`; FIFO order; Backoff's band | `JobStoreProofs`, `RetryBackoff` |
| `EnqueueProofs` | theorems about `EnqueueCalls` | `EnqueueCalls`, `JobStoreProofs` |
| `LeaderLockProofs`, `CronSchedulerProofs`, `LoopsProofs`, `WorkerProofs` | theorems about the module of that name | that module |
| `MC*` | symmetry sets, producers, cron periods, fleets for TLC | |

**JobStore.** One variable per Redis structure; a list is a sequence whose head
is the end RPOP takes. One action per script. The caller's `nowMS()` is a
parameter that may differ from Redis's clock by `MaxSkew`, which covers clock
skew and the time between computing a deadline and running the script. Calls
that change nothing are stuttering steps. Equal scores come out of a range read
in any order, since members are random IDs. History variables (`birth`,
`acked`, `grants`) only serve properties. A claim over several queues is several
`Claim` steps, as in the code. Payloads, `created_at` and the worker's name
are left out; nothing reads the last.

**JobLifecycle.** A job is new, pending, leased, in retry, dead or acked, with
a number of failed attempts. `JobStore` implements it with the stage defined as
the structure that holds the ID (`StageOf`): the job's state "is never stored
as a field" (`job.go`).

**EnqueueCalls.** The store of `JobStore`, plus the requests of producers that
retry. A request draws its ID in the handler and is executed by Redis once or,
because the client library repeats a command whose reply is lost, again with
the same ID; the producer may stop waiting at any point and send the next. What the
library does is external: it is modelled from `NewStore`, which leaves
`MaxRetries` at its default. Only the enqueue needs a module for this. A
repeated claim is a claim nobody hears of (`ClaimUnanswered`), a repeated
renew, ack or fail is one more call of a stale worker. A repetition comes
within the idempotency window: the library's retries take seconds, and the
window is an hour by default. (With a window shorter than that, a repeated
keyed script would find its marker gone and push its ID again, as one without a
key does.) `Others` is every step
of `JobStore`, so other callers use the same key on other queues and workers
finish the jobs in between.

**Backoff.** Operators only. A duration is a signed integer of `Width` bits
that wraps around. 64 bits, a shift of at most 20 and 10^6 ns per millisecond
become 12, 3 and 4, which keeps what matters: a band of bases whose longest
delay fits, a shift that would overflow without the cap, and a rounding to
milliseconds. Jitter is any value in its closed interval: `Float64` is below 1,
but the sum `0.5 + 0.5 * r` can round to 1. `RetryBackoff` puts the two together:
the store whose delays are those of `Backoff`, as `Store.Fail` computes them,
for whatever attempt the request carries: those outside `0..MaxShift` are
clamped.

**Loops.** One loop of one server, either the reaper or the retry drainer. A pass
is one step per key place that SCAN comes past, for three patterns, and one step
per queue drained, in any order, since Go's map order is random. An error of a
drain, executed or not, ends the pass. Queues in `broken` always fail. The
stores of other servers' loops and of the API's callers change between any two
steps. Data is that of `JobLifecycle`; `due` stands for the scores the clock
has passed. `owed` is history: what was due when the pass began and has been
ever since.

**LeaderLock.** A call to Redis is sent, executed and answered in three steps,
may time out before or after it is executed, and may be executed late
(`stray`). Time is kept as ages that saturate at the TTL, so the clock is not
bounded. A process that ends takes its random ID with it: its lock becomes an
`Orphan`'s. `calm` marks the point after which no faults happen; before it,
replicas stall at will.

**CronScheduler.** A pass reads the due entries, then each hash, and each read is a step;
then the script fires what is still due. A failed read takes the code's branch
for an orphan. Each next time is computed from a fresh reading of the wall clock
(`time.Now`, `scheduler.go:194`); `ClockMayStepBack` says whether a clock may be
set back while a pass is under way. A cron expression is its period; 0 stands for one that never
matches, for which the library's `Next` is the zero time.

**Worker.** A delivery is identified by the job and the attempts field the claim
returned, which `AttemptsCountEndedLeases` (proved) makes unique. The three SDKs
differ in when they claim (`GoMayClaim`, `PythonMayClaim`, `NodeMayClaim`) and
in what an error below HTTP does (`BeatsAfterError`, `ClaimBreaksLoop`); all
else is common, and the map names for each common definition the SDK it is
easiest to compare with. A call's error leaves open whether the call was
executed, will be later, or never (`Unanswered`). A claim takes any pending
jobs: order is `JobStore`'s business. `Timely` says that a worker's due steps
(start, heartbeat, report) happen before time passes. A handler succeeds or
fails. One that raises the SDK's `LeaseLostError` does so because the heartbeat
was refused, and nothing is reported then; raised without a refusal it would be
swallowed and the job acked (`worker.js:112`, `worker.py:122`), which is left
out.

## 3. Runs

| Run | Instance | Shows |
|---|---|---|
| `store_core` | 3 jobs, 2 queues, batches and drain limit of 2, one retry, Backoff's delays, skew 1, lease 2, 4 time units | type, `HashBehindEveryID`, `OnePlace`, `NoJobLost`, `DeadExactlyWhenExhausted`, `AttemptsCountEndedLeases`, `FreshJobsInOrder`, refinement of `JobLifecycle`; `BackoffInBand` for 256 bases and every attempt from -2 to 15, and for the scores in the retry sets |
| `enqueue_retry` | 2 jobs, 2 queues, 2 keys, window 2, 4 time units; a keyed request sent up to twice, each repeated once | `KeysDedupedWithinWindow`, `MarkerNamesOriginal`, `EnqueueAnswersAgree`, and `OnePlace` under repeated scripts |
| `leader` | 2 replicas, TTL 3 ticks, one late call | `FreshLeaderOwnsLock`, `LockEndsByOwnerOrExpiry`, `LeadershipRecovers`, `StaleLeaderStepsDown` |
| `loops` | 2 jobs in any of 2 queues, any of them broken, drain limit 1, one pass cut off, either loop | `PassLeavesNothingBehind`, `DueJobsAreTakenUp` |
| `cron_race` | 2 schedules, 2 replicas in a pass, skew 1, failing reads, no clock set back | `OneJobPerOccurrence`, `OccurrencesAdvance`, `DeletedStaysDeleted` |
| `cron_liveness` | the same without failing reads, one schedule per range read | `LiveScheduleStaysIndexed`, `DueScheduleFires` |
| `worker_timely` | 2 jobs, a Go and a Node worker with enough slots, lease 3, one missed renewal in a row, two worker ends | `HeldLeaseStaysAlive`, `OneHandlerPerJob` |
| `worker_settles` | a job with 2 retries, a Go and a Python worker with one slot, stalls, a late call | `AckedWasHandled`, `EveryJobSettles` |
| `enqueue_redelivered`, `leader_exit`, `cron_read_error`, `worker_prefetch` | smallest instances | violations, section 6 |

Why the bounds are enough: two queues and two servers are the fewest that can
interfere. In the store three jobs fill a batch and leave one over, one retry gives both
outcomes of a failure, and four units of time let a lease expire, be reaped,
granted again and expire again. For the keys, two
jobs and four units of time let a key be used, expire and be used again; the
key properties are about pairs. 255 is the last base whose longest delay fits
12 bits, so the boundary is included. In `loops` a limit of one makes a full batch leave
something behind, and two queues are enough for one to be hidden from a scan,
or starved, by the other. In the lock the TTL of three ticks is the real
ratio. Two passes that overlap and one that is cut off are every race the
script's re-check is for. In `worker_settles` a single job is enough for slots
to matter: a worker can reclaim a job behind its own stale handler. It does not
show a pool's queue fill up with different jobs, as Python's can; two jobs with
both workers, crashes and late calls take too long. A second
missed renewal (`MaxMissed` 2) breaks `HeldLeaseStaysAlive`, which is the
boundary `client.go` describes ("a third attempt at the deadline may already be
too late").

Deadlock is checked where the system runs for ever (leader, loops, worker) and not
where the bounded clock and the finite IDs end every behaviour (store, cron).

**Fairness.** `LeaderLock`: a replica that runs takes its steps (the ticker and the goroutine
exist until shutdown), Redis executes and answers, time passes, faults stop at
some time. Without the last nothing can be promised: replicas may stall for
ever. `Loops`: the server followed leads again and again and
its ticker fires (strong fairness of `Begin`, since leadership may come and
go), and a pass goes on. A queue that is
reached again and again is drained some time: errors of a healthy queue are
transient, and the map's random order puts every queue first now and then. The
second half is what saves the queues behind a broken one: the mutant that
drains in sorted order starves them. `CronScheduler`: some replica leads and starts passes, and a pass goes on
unless it is cut off. `Worker`: the same for the reaper and the retry drainer,
time passes, handlers return, a worker reports or fails to, workers keep
claiming, and what ends is started again. No fairness is assumed for
heartbeats, for deliveries of answers, or for late calls.

Each property of a passing run has a mutant: a plausible bug, kept next to
the definition it stands for with a comment that begins "Bug:", which makes the
run fail on that property.

## 4. Proofs

Every safety property of the passing runs is also a theorem, for every value of
the constants that satisfies the module's assumption (`JobStoreAssumption`,
`EnqueueAssumption` ...), which TLC evaluates in the runs. Further hypotheses are named below; each is met by the passing run of
the property and is needed: a run or a variant of one refutes the theorem
without it.

| Module | Theorem | States |
|---|---|---|
| `JobStoreProofs` | `TypeCorrect`, `PayloadsStay`, `JobsInOnePlace`, `JobsNeverLost`, `AttemptsExact`, `DeadLettersExact` | `TypeOK`, `HashBehindEveryID`, `OnePlace`, `NoJobLost`, `AttemptsCountEndedLeases`, `DeadExactlyWhenExhausted` |
| | `KeysDeduplicate`, `MarkersNameOriginals` | `KeysDedupedWithinWindow`, `MarkerNamesOriginal` |
| `LifecycleProofs` | `StoreImplementsLifecycle` | `ImplementsLifecycle` |
| | `JobsOnlyMoveForward` | `OnlyForward`: acked and dead are final; a lease that ends without an ack costs one attempt, and nothing else does |
| | `ClaimsAreFifo` | `FreshJobsInOrder` |
| | `BackoffStaysInBand`, if `Fits(MaxBase)`, `Fits(BackoffBase)` and `Delay = RetryDelays` | `BackoffInBand` |
| | `DelaysInBand`, `BackoffMeetsAssumption`, for a base that `Fits` | the band for any such base and any attempt; any attempt's delays are among `RetryDelays`, which meet the store's assumption |
| `EnqueueProofs` | `AnswersAgree` | `EnqueueAnswersAgree`, and the two key properties under repeated scripts |
| | `RetriesKeepTheStore`, if `SafeToRepeat` | `CallsOK`, `OnePlace`, `NoJobLost` |
| `LeaderLockProofs` | `LockTypeCorrect`, `FreshLeadersOwnTheLock`, `OnlyOwnerOrExpiryEndsLock` | `TypeOK`, `FreshLeaderOwnsLock`, `LockEndsByOwnerOrExpiry` |
| `CronSchedulerProofs` | `CronTypeCorrect`, `DeletedSchedulesStayDeleted` | `TypeOK`, `DeletedStaysDeleted` |
| | `OccurrencesFireOnce`, `SchedulesAdvance`, if `EveryCronMatches` and `~ClockMayStepBack` | `OneJobPerOccurrence`, `OccurrencesAdvance` |
| | `LiveSchedulesStay`, if `~ReadMayFail` | `LiveScheduleStaysIndexed` |
| `LoopsProofs` | `LoopTypeCorrect`, `PassesMissNothing` | `TypeOK`, `PassLeavesNothingBehind` |
| `WorkerProofs` | `WorkerTypeCorrect`, `AckedJobsWereHandled` | `TypeOK`, `AckedWasHandled` |
| | `HeldLeasesStayAlive`, `HandlersAreAlone`, if `Attended` | `HeldLeaseStaysAlive`, `OneHandlerPerJob` |
| both | `LoopsFollowLifecycle`, `WorkersFollowLifecycle` | `LSpec`: jobs move as in `JobLifecycle` |

**Hypotheses.** `SafeToRepeat`: every producer sends a key, or the Redis client
repeats nothing; otherwise finding 1. `EveryCronMatches`: every expression has
a next time; otherwise section 6's always-due schedule. `~ClockMayStepBack`: a
clock does not go back during a pass; otherwise the next time of a schedule may
be the one at which it fires, and it fires twice (`cron_race` with `TRUE`
refutes both properties). `~ReadMayFail`:
otherwise finding 3. `Fits`: the longest delay fits a duration,
`base * 2^MaxShift < 2^(Width - 1)`, which in the code's numbers is a
`BACKOFF_BASE_MS` of at most about 8.8 million (256 in `store_core` already overflows);
`Delay = RetryDelays` says that the store's delays are Backoff's, as the run sets them.
`Attended`: the fleet keeps up with its leases. Workers take
their due steps before time passes (`Timely`); no call is executed after its
caller gave up (with two retries, a late fail ends the lease of the next
worker, and a third gets the job beside it); the renewals that may fail in a row, and one more, fit in the
lease (`(MaxMissed + 1) * Heartbeat < LeaseTTL`, which for the default divisor
of three is one missed renewal); no worker is Python, whose heartbeat may end by
itself; and a Go worker has a slot for every job there is, or else finding 4. What
`Attended` leaves open is the number of workers and jobs, crashes, restarts,
lost claims, reports and renewals.

**Store.** One inductive invariant, `IInv`, is the conjunction of the six
properties of the first row. None is inductive alone. `NoJobLost` needs
`OnePlace`, or ending a lease might remove the only or not the only place.
`TypeOK` needs `HashBehindEveryID`, or HINCRBY could create a hash without a
queue; that needs `OnePlace` again, or an ack would delete the hash of a job
that is also pending. The counts need all of these to know which hash changes.
There is one lemma per action (`ClaimKeeps` ...), with `EndLeasesKeeps` shared by fail
and reap. The keys have an invariant of their own, `KeyInv`: birth numbers
are distinct and grow, births are not in the future, and each key's last job
has a marker until its window ends. It does not need `IInv`, which is
why it survives repeated scripts that break `OnePlace`.

**Refinement.** `Staged` says where the stage of a job is read off the
structures once `IInv` holds; each script is then shown to move the set of jobs
it is given from one stage to another and to leave the rest (`Unmoved`), which is a step of
`LNext`; calls on what is not there are stutters. For FIFO, `FifoInv` says that every
pending list, taken without the jobs that were leased before, is in the order of
birth, and that a job that was retried has been granted. `JobsOnlyMoveForward`
is read off the refinement: a step of `LNext` takes no job out of a final stage
and touches no count except as a lease ends. `Worker` and `Loops` use the
abstract store; that they use it by its steps only, whatever calls are executed
late or twice and wherever a pass is cut off, is `WorkersFollowLifecycle` and
`LoopsFollowLifecycle`.

**Backoff.** For a base that fits, the wrapped product is the product
(`NominalView`), each delay is a rounded point of its upper half
(`DelaysView`), and rounding is monotone and loses less than a millisecond. An
attempt below 0 or above the cap has the delays of the nearest one in range
(`ClampedAttempts`), so no delay is above the longest (`LongestDelay`), and a
retry's score, written with a clock at most the skew ahead, stays within it
while time passes (`RetryWithin`). The
facts about `2^n` that this needs (it is positive, grows and doubles) would take
an induction; they are obtained without one by counting: `2^n` is the number of
subsets of `1..n`, by the library's theorem on the cardinality of `SUBSET`
(`PowerView`), and one more element doubles them (`PowerDoubles`).

**Enqueue.** `AnswerInv` ties each request to the job it names and to the one
it made; no two requests made the same job because an ID is drawn once. With
`KeyInv`, answers that differ are a window apart.

**Lock.** `LockInv` relates three clocks: if the last successful call was sent
`age` ago, the lock is the replica's with at least `TTL - age` left
(`HeldIsGood`), the same for a reply still on its way (`ReplyIsGood`). Late releases
are harmless because only a process that is stopping sends one (`ReleaseWhenStopping`) and what
a process leaves behind carries an ID nobody has (`DownLeavesNothing`).

**Cron.** `CronInv` bounds what a pass may carry: no schedule twice, none
that was never created, a clock that is not ahead by more than the skew. `OccurrenceInv` says that
a schedule has fired only at times before the one it is indexed under, and that
the next time a pass computed is after the clock by which the script will find
the schedule due, since that clock was read before the one it is computed from
and was not set back; so whichever of two passes comes second finds it not due.

**Loops.** `LoopInv`: a job that was due when the pass began and has been since has not moved
(`OwedStage`), so its queue was found, or the scan for its kind of key has not yet come
past it, or it is among those to be drained (`OwedAhead`).

**Worker.** For every fleet `WorkInv`: a delivery to come finds its place in
`run` empty, so that no result is overwritten, and whoever acked, or has an ack
on its way, has a delivery that is done. For an attended one `HeldInv`: every
delivery that its worker still means to run or report is the one with the job's
lease, and what is left of the lease and the missed renewals together outlast
the heartbeat's timer (`Margin`). That a waiting delivery may start is an argument by
counting: the busy deliveries of its worker are of distinct other jobs, of
which there are fewer than slots.

Each of these invariants has also been checked by TLC on the instance of its run
(with times in a bounded range for `CronInv`).

Only model-checked: every liveness property (`EveryJobSettles`,
`DueJobsAreTakenUp`, `LeadershipRecovers`, `StaleLeaderStepsDown`,
`DueScheduleFires`), since the prover handles neither fairness nor ENABLED. The
findings are counterexamples of TLC.

## 5. Not modelled

Redis losing writes (a documented operational limit); authentication, request
validation, body limits; read-only endpoints; metrics; start-up. Of the answers only
the IDs and created flags of enqueues and "lease gone" are kept; an idempotency
hit on another queue's key answers with the queue of the request, not of the job
(`api.go:180`). The order in which a claim goes through its queues is left
open: it is a preference, not a guarantee, since the scripts are separate and
jobs arrive between them. Configuration that cannot work is excluded by
assumptions: `DRAIN_LIMIT=0` (no pass drains anything), `HEARTBEAT_DIVISOR=0`
(every claim panics), intervals of 0 (the ticker panics). The load test, the
chaos test and its worker are harnesses; the crashes they inject are actions of `Worker` and
`Loops`. Handlers that ignore cancellation are
included: a handler may run on after a refusal.

## 6. Findings

1. `enqueue_redelivered`: the Redis client repeats a script whose reply is lost
   (`store.go:29` leaves its retries on), and an enqueue without a key is not
   idempotent: the ID is pushed twice. Two workers run the job, and after the
   first ack the second copy has no payload. With a key all is well
   (`enqueue_retry`), except that the request that created the job may be
   answered 200 instead of 201.
2. `leader_exit`: `main` returns without waiting for the leader goroutine, so a
   graceful stop can leave the lock to its TTL, against `leader.go:50-51`.
3. `cron_read_error`: one failed HGETALL removes a live schedule from the index for
   good (`scheduler.go:177`).
4. `worker_prefetch`: the Go worker leases jobs it has no slot for and does not
   renew them, with its default settings (`client.go:244`, `:263`).

Also seen, without a run of their own: a cron expression with no matching date
is always due and fires on every pass (`scheduler.go:109`, `:194`; give
`cron_race` the expression `"never"` and `OccurrencesAdvance` fails); a clock set
back between the two readings of a pass makes an occurrence fire twice
(`scheduler.go:163`, `:194`); in Python
an error below HTTP ends the heartbeat thread or the whole loop, since only
`HTTPError` is converted (`HeldLeaseStaysAlive` fails for a fleet of Python
workers with one missed renewal); Node starts a whole batch whatever its
concurrency; a `BACKOFF_BASE_MS` above about 8.8 million overflows at the
longest delays; KnownQueues' comment says it scans for pending lists, and it
must scan for more (the mutant of `PassLeavesNothingBehind` does what the
comment says); a Redis error while a schedule is created is answered 422
(`scheduler.go:241`); `IsLeaderGauge` is never set, although `docs/API.md` lists
it.

## 7. Plan

Done: the modules above, and all safety properties as theorems. What could
follow: a composition of `Worker` and `Loops` with `JobStore` itself, in which a
delivery carries the deadline that the claim script wrote; today they meet in
`JobLifecycle`, which the store implements and which the other two follow.
