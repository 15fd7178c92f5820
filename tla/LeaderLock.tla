----------------------------- MODULE LeaderLock -----------------------------
(***************************************************************************)
(* internal/cogs/leader.go with the two lock scripts of store.go and the   *)
(* life of the process around it (cmd/cogs/main.go): which replica runs    *)
(* the background loops.                                                   *)
(*                                                                         *)
(* One unit of time is the campaign ticker's period, LeaderLockTTL / 3, so *)
(* TTL is normally 3.  Times are durations that stop growing at TTL, which *)
(* keeps the state space finite without bounding the clock.                *)
(*                                                                         *)
(* A call to Redis is sent, executed and answered in separate steps.  Until*)
(* the system is calm a call may time out before or after Redis executes   *)
(* it, a timed-out call may be executed late, replicas may stall for any   *)
(* time, crash, or be told to stop.                                        *)
(***************************************************************************)
EXTENDS Naturals, FiniteSets

CONSTANTS
  Server,   \* replicas
  TTL,      \* LeaderLockTTL, in campaign ticks
  MaxStray, \* bound: how many abandoned calls Redis may still execute
  NoOne,    \* the owner of a lock that does not exist
  Orphan    \* a lock value no running process has: NewLeader draws a new ID

ASSUME LeaderAssumption ==
  /\ TTL \in Nat \ {0}
  /\ MaxStray \in Nat
  /\ NoOne \notin Server
  /\ Orphan \notin Server
  /\ NoOne # Orphan

VARIABLES
  phase,   \* "running", "stopping" after SIGTERM, or "down"
  held,    \* l.held
  op,      \* the call to Redis in flight, or "none"
  reply,   \* Redis's answer to it, "none" until it is executed
  asked,   \* time since that call was sent
  age,     \* time since the call that last made held true was sent
  due,     \* the ticker's channel (capacity one) holds a tick
  owner,   \* the value of cogs:leader
  ttl,     \* and its remaining time to live
  stray,   \* calls given up on that Redis may still execute
  calm     \* no more faults: see Calm

server == <<phase, held, op, reply, asked, age, due>>
redis == <<owner, ttl>>
vars == <<server, redis, stray, calm>>

Op == {"acquire", "renew", "release"}

TypeOK ==
  /\ phase \in [Server -> {"running", "stopping", "down"}]
  /\ held \in [Server -> BOOLEAN]
  /\ op \in [Server -> Op \cup {"none"}]
  /\ reply \in [Server -> {"none", "yes", "no"}]
  /\ asked \in [Server -> 0..TTL]
  /\ age \in [Server -> 0..TTL]
  /\ due \in [Server -> BOOLEAN]
  /\ owner \in Server \cup {NoOne, Orphan}
  /\ ttl \in 0..TTL
  /\ (owner = NoOne) <=> (ttl = 0)
  /\ stray \subseteq (Server \cup {Orphan}) \X Op
  /\ calm \in BOOLEAN

Init ==
  /\ phase = [s \in Server |-> "running"]
  /\ held = [s \in Server |-> FALSE]
  /\ op = [s \in Server |-> "none"]
  /\ reply = [s \in Server |-> "none"]
  /\ asked = [s \in Server |-> 0]
  /\ age = [s \in Server |-> TTL]
  /\ due = [s \in Server |-> TRUE]
  /\ owner = NoOne
  /\ ttl = 0
  /\ stray = {}
  /\ calm = FALSE

-----------------------------------------------------------------------------
(***************************************************************************)
(* Redis: SET NX PX, renewLockScript and releaseLockScript.                *)
(***************************************************************************)
\* Bug: PEXPIRE without asking whose lock it is.
LockAfterBlindRenew(o, w) ==
  CASE o = "acquire" /\ owner = NoOne -> [owner |-> w, ttl |-> TTL, reply |-> "yes"]
    [] o = "renew" /\ owner # NoOne -> [owner |-> owner, ttl |-> TTL, reply |-> "yes"]
    [] o = "release" /\ owner = w -> [owner |-> NoOne, ttl |-> 0, reply |-> "yes"]
    [] OTHER -> [owner |-> owner, ttl |-> ttl, reply |-> "no"]

\* Bug: DEL without asking whose lock it is.
LockAfterBlindRelease(o, w) ==
  CASE o = "acquire" /\ owner = NoOne -> [owner |-> w, ttl |-> TTL, reply |-> "yes"]
    [] o = "renew" /\ owner = w -> [owner |-> w, ttl |-> TTL, reply |-> "yes"]
    [] o = "release" -> [owner |-> NoOne, ttl |-> 0, reply |-> "yes"]
    [] OTHER -> [owner |-> owner, ttl |-> ttl, reply |-> "no"]

\* The lock after w's call o, and the answer.
LockAfter(o, w) ==
  CASE o = "acquire" /\ owner = NoOne -> [owner |-> w, ttl |-> TTL, reply |-> "yes"]
    [] o = "renew" /\ owner = w -> [owner |-> w, ttl |-> TTL, reply |-> "yes"]
    [] o = "release" /\ owner = w -> [owner |-> NoOne, ttl |-> 0, reply |-> "yes"]
    [] OTHER -> [owner |-> owner, ttl |-> ttl, reply |-> "no"]

\* Redis executes the call s is waiting for.
Execute(s) ==
  /\ op[s] # "none" /\ reply[s] = "none"
  /\ LET r == LockAfter(op[s], s)
     IN /\ owner' = r.owner
        /\ ttl' = r.ttl
        /\ reply' = [reply EXCEPT ![s] = r.reply]
  /\ UNCHANGED <<phase, held, op, asked, age, due, stray, calm>>

\* Redis executes a call nobody waits for any more.
ExecuteStray(w, o) ==
  /\ <<w, o>> \in stray
  /\ stray' = stray \ {<<w, o>>}
  /\ owner' = LockAfter(o, w).owner
  /\ ttl' = LockAfter(o, w).ttl
  /\ UNCHANGED <<server, calm>>

-----------------------------------------------------------------------------
(***************************************************************************)
(* The leader goroutine.                                                   *)
(***************************************************************************)
Send(s, o) ==
  /\ op' = [op EXCEPT ![s] = o]
  /\ reply' = [reply EXCEPT ![s] = "none"]
  /\ asked' = [asked EXCEPT ![s] = 0]

\* s no longer waits for a call.
Done(s) ==
  /\ op' = [op EXCEPT ![s] = "none"]
  /\ reply' = [reply EXCEPT ![s] = "none"]
  /\ asked' = [asked EXCEPT ![s] = 0]

\* l.held becomes h; the lock it stands for was asked for a time ago.
SetHeld(s, h, a) ==
  /\ held' = [held EXCEPT ![s] = h]
  /\ age' = [age EXCEPT ![s] = IF h THEN a ELSE TTL]

\* A tick is taken: tryAcquire renews a lock it thinks it has, and otherwise
\* tries to take it.
Campaign(s) ==
  /\ phase[s] = "running" /\ op[s] = "none" /\ due[s]
  /\ due' = [due EXCEPT ![s] = FALSE]
  /\ Send(s, IF held[s] THEN "renew" ELSE "acquire")
  /\ UNCHANGED <<phase, held, age, redis, stray, calm>>

\* ctx is cancelled: release asks for the lock to be deleted if it is held.
Release(s) ==
  /\ phase[s] = "stopping" /\ op[s] = "none" /\ held[s]
  /\ Send(s, "release")
  /\ UNCHANGED <<phase, held, age, due, redis, stray, calm>>

\* Bug: a refused renewal is not noticed.
HeldAfterRefusalIgnored(s) == held[s] \/ reply[s] = "yes"

\* l.held once the answer to the call in flight is known.
HeldAfter(s) == op[s] # "release" /\ reply[s] = "yes"

\* The answer arrives.  After a release l.held is cleared whatever it was.
Receive(s) ==
  /\ op[s] # "none" /\ reply[s] # "none"
  /\ SetHeld(s, HeldAfter(s), asked[s])
  /\ Done(s)
  /\ UNCHANGED <<phase, due, redis, stray, calm>>

\* The call of s that Redis has not executed yet, if there is one.
Waiting(s) == IF op[s] # "none" /\ reply[s] = "none" THEN {<<s, op[s]>>} ELSE {}

\* The call fails.  An error leaves l.held alone, except after a release.
\* Redis may execute the call later, or may have executed it already.
TimeOut(s) ==
  /\ ~calm
  /\ op[s] # "none"
  /\ SetHeld(s, held[s] /\ op[s] # "release", age[s])
  /\ Done(s)
  /\ \E lost \in SUBSET Waiting(s) :
       /\ stray' = stray \cup (Waiting(s) \ lost)
       /\ Cardinality(stray') <= MaxStray
  /\ UNCHANGED <<phase, due, redis, calm>>

-----------------------------------------------------------------------------
(***************************************************************************)
(* The process.                                                            *)
(***************************************************************************)
\* SIGTERM cancels runCtx.  A tick taken after that is a call that fails at
\* once.
Shutdown(s) ==
  /\ ~calm
  /\ phase[s] = "running"
  /\ phase' = [phase EXCEPT ![s] = "stopping"]
  /\ due' = [due EXCEPT ![s] = FALSE]
  /\ UNCHANGED <<held, op, reply, asked, age, redis, stray, calm>>

\* The process is gone, and with it the ID it campaigned under.
Gone(s) ==
  /\ phase' = [phase EXCEPT ![s] = "down"]
  /\ SetHeld(s, FALSE, TTL)
  /\ Done(s)
  /\ due' = [due EXCEPT ![s] = FALSE]
  /\ owner' = IF owner = s THEN Orphan ELSE owner
  /\ \E lost \in SUBSET Waiting(s) :
       LET left == stray \cup (Waiting(s) \ lost)
       IN /\ Cardinality(left) <= MaxStray
          /\ stray' = {<<IF c[1] = s THEN Orphan ELSE c[1], c[2]>> : c \in left}
  /\ UNCHANGED <<ttl, calm>>

\* main returns once the HTTP server has shut down.  Nothing waits for the
\* leader goroutine.
Exit(s) == phase[s] = "stopping" /\ Gone(s)

Crash(s) == ~calm /\ phase[s] = "running" /\ Gone(s)

\* A new process: Run calls tryAcquire before its first tick.
Restart(s) ==
  /\ phase[s] = "down"
  /\ phase' = [phase EXCEPT ![s] = "running"]
  /\ due' = [due EXCEPT ![s] = TRUE]
  /\ UNCHANGED <<held, op, reply, asked, age, redis, stray, calm>>

-----------------------------------------------------------------------------
Older(n) == IF n < TTL THEN n + 1 ELSE n

\* Bug: SET NX without an expiry, so the key outlives its process.
TickWithoutExpiry ==
  /\ calm => \A s \in Server : phase[s] = "running" => ~due[s] /\ op[s] = "none"
  /\ ttl' = IF ttl = 0 THEN 0 ELSE ttl - 1
  /\ due' = [s \in Server |-> phase[s] = "running"]
  /\ asked' = [s \in Server |-> IF op[s] = "none" THEN 0 ELSE Older(asked[s])]
  /\ age' = [s \in Server |-> Older(age[s])]
  /\ UNCHANGED <<phase, held, op, reply, owner, stray, calm>>

\* A unit of time passes: tickers fire, and the lock may expire.  Once calm, a
\* running replica takes its tick and has its answer within the unit.
Tick ==
  /\ calm => \A s \in Server : phase[s] = "running" => ~due[s] /\ op[s] = "none"
  /\ ttl' = IF ttl = 0 THEN 0 ELSE ttl - 1
  /\ owner' = IF ttl <= 1 THEN NoOne ELSE owner
  /\ due' = [s \in Server |-> phase[s] = "running"]
  /\ asked' = [s \in Server |-> IF op[s] = "none" THEN 0 ELSE Older(asked[s])]
  /\ age' = [s \in Server |-> Older(age[s])]
  /\ UNCHANGED <<phase, held, op, reply, stray, calm>>

\* The last fault has happened.
Calm == ~calm /\ calm' = TRUE /\ UNCHANGED <<server, redis, stray>>

Step(s) ==
  \/ Campaign(s) \/ Release(s) \/ Execute(s) \/ Receive(s)

Next ==
  \/ \E s \in Server : Step(s)
  \/ \E s \in Server : TimeOut(s) \/ Shutdown(s) \/ Exit(s) \/ Crash(s) \/ Restart(s)
  \/ \E c \in stray : ExecuteStray(c[1], c[2])
  \/ Tick
  \/ Calm

Spec == Init /\ [][Next]_vars

\* The ticker fires and the goroutine runs, Redis executes and answers, time
\* passes, and faults stop at some time.
Fairness ==
  /\ \A s \in Server : WF_vars(Step(s))
  /\ WF_vars(Tick)
  /\ WF_vars(Calm)

FairSpec == Spec /\ Fairness

-----------------------------------------------------------------------------
(***************************************************************************)
(* Properties.                                                             *)
(***************************************************************************)
\* A running replica whose last successful acquire or renew was sent less than
\* LeaderLockTTL ago really has the lock.  So two replicas both think they
\* lead only after one of them went a whole TTL without a renewal: the
\* overlap leader.go concedes "under a network partition", and no other.
FreshLeaderOwnsLock ==
  \A s \in Server :
    (phase[s] = "running" /\ held[s] /\ age[s] < TTL) => owner = s

\* A replica's lock ends only when it expires, by a release of its own, or
\* with the replica: "a leader whose lock already expired" must not "delete
\* the lock a different process has since acquired".
LockEndsByOwnerOrExpiry ==
  [][\A s \in Server :
       (owner = s /\ owner' # s) =>
         \/ ttl = 1 /\ ttl' = 0
         \/ op[s] = "release" \/ <<s, "release">> \in stray
         \/ phase'[s] = "down"]_vars

\* If some replica keeps running, there is again and again a replica that leads
\* and has the lock: a crashed leader's lock, a lock whose SET NX reply was
\* lost, and a lock a stopped process left behind all get out of the way.
LeadershipRecovers ==
  (\E s \in Server : <>[](phase[s] = "running"))
    => []<>(\E s \in Server : phase[s] = "running" /\ held[s] /\ owner = s)

\* A replica that thinks it leads and does not have the lock finds out, though
\* renewals that fail with an error leave its flag set.
StaleLeaderStepsDown ==
  \A s \in Server : (held[s] /\ owner # s) ~> (~held[s] \/ owner = s)

\* leader.go, of Run: "campaigns for leadership until ctx is cancelled, then
\* releases the lock so a peer can take over immediately".  So a leader that
\* stops gracefully is out of the lock by the time its process ends.
GracefulExitLeavesNoLock ==
  [][\A s \in Server : (held[s] /\ Exit(s)) => owner # s]_vars
=============================================================================
