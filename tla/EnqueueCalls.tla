---------------------------- MODULE EnqueueCalls ----------------------------
(***************************************************************************)
(* An enqueue as its producer sees it: a request that may be given up and  *)
(* sent again, a handler (api.go, handleEnqueue) that draws an ID and runs *)
(* enqueueScript, and an answer.  The Redis client under the handler sends *)
(* a command again when the reply does not come: NewStore leaves           *)
(* redis.Options.MaxRetries at its default, so the script may run more     *)
(* than once with the same arguments.  For the other scripts that is one   *)
(* more call of an arbitrary caller, which JobStore has already.           *)
(***************************************************************************)
EXTENDS JobStore

CONSTANTS
  Producer,    \* producers that retry
  Wants,       \* what each one enqueues: a queue and an idempotency key
  NoJob,       \* no ID
  MaxSends,    \* bound: requests a producer sends for one job
  MaxResends   \* bound: how often the Redis client sends a command again

ASSUME EnqueueAssumption ==
  /\ Wants \in [Producer -> [queue : Queue, key : Key \cup {NoKey}]]
  /\ NoJob \notin Job
  /\ MaxSends \in Nat
  /\ MaxResends \in Nat

VARIABLE
  calls  \* the requests of each producer

\* A request: sent, run by Redis, or answered; whether the producer waits for
\* it; the ID it created a job with; and what the handler answers.
NoCall == [step |-> "none", waits |-> FALSE, made |-> NoJob, id |-> NoJob,
           created |-> FALSE, resent |-> 0]

CallRec == [step : {"none", "sent", "run", "answered"}, waits : BOOLEAN,
            made : Job \cup {NoJob}, id : Job \cup {NoJob}, created : BOOLEAN,
            resent : 0..MaxResends]

CallsOK ==
  /\ TypeOK
  /\ calls \in [Producer -> [1..MaxSends -> CallRec]]
  /\ \A p \in Producer, n \in 1..MaxSends :
       calls[p][n].step \in {"run", "answered"} <=> calls[p][n].id \in DOMAIN birth

CallsInit ==
  /\ Init
  /\ calls = [p \in Producer |-> [n \in 1..MaxSends |-> NoCall]]

-----------------------------------------------------------------------------
\* The producer sends its first request, or the next after a time-out.
Send(p, n) ==
  /\ calls[p][n].step = "none"
  /\ n > 1 => calls[p][n - 1].step \in {"sent", "run"} /\ ~calls[p][n - 1].waits
  /\ calls' = [calls EXCEPT ![p][n].step = "sent", ![p][n].waits = TRUE]
  /\ UNCHANGED vars

\* It stops waiting.  What it sent may still be executed.
TimeOut(p, n) ==
  /\ calls[p][n].waits /\ calls[p][n].step # "answered"
  /\ calls' = [calls EXCEPT ![p][n].waits = FALSE]
  /\ UNCHANGED vars

\* Bug: the script pushes before it looks at the marker.
HitAfterPush(k) ==
  /\ k \in DOMAIN idem
  /\ \E q \in Queue : pending' = [pending EXCEPT ![q] = Append(@, idem[k].id)]
  /\ UNCHANGED <<hash, leased, retry, dead, idem, now, historyVars>>

\* The script finds the key's marker and returns the ID in it.
Hit(k) ==
  /\ k \in DOMAIN idem
  /\ UNCHANGED vars

\* The script runs a second time with the ID j of a call without a key: HSET
\* writes the hash anew and LPUSH pushes the ID again.
PushAgain(q, j) ==
  /\ hash' = [x \in DOMAIN hash \cup {j} |->
                IF x = j THEN [queue |-> q, attempts |-> 0] ELSE hash[x]]
  /\ pending' = [pending EXCEPT ![q] = Append(@, j)]
  /\ UNCHANGED <<leased, retry, dead, idem, now, historyVars>>

\* Bug: a hit is answered with the ID the handler drew, which stands for a job
\* only if this request made one.
HitIDDrawn(k, made) == made

\* The ID a hit is answered with: what GET returns.
HitID(k, made) == idem[k].id

\* Redis executes a request, for the first time or again.  A request that is
\* sent again is sent within the window (a read times out after seconds).
Execute(p, n) ==
  LET c == calls[p][n]
      q == Wants[p].queue
      k == Wants[p].key
      again == c.step = "run"
      Ran(made, id, created) ==
        calls' = [calls EXCEPT ![p][n] =
                    [c EXCEPT !.step = "run", !.made = made, !.id = id,
                              !.created = created,
                              !.resent = IF again THEN @ + 1 ELSE @]]
  IN /\ c.step = "sent" \/ (again /\ c.resent < MaxResends)
     /\ \/ Hit(k) /\ Ran(c.made, HitID(k, c.made), FALSE)
        \/ \E j \in IF c.made = NoJob THEN Job \ DOMAIN birth ELSE {c.made} :
             /\ Enqueue(q, j, k) \/ (c.made = j /\ k = NoKey /\ PushAgain(q, j))
             /\ Ran(j, j, TRUE)

\* The answer reaches the producer.
Answer(p, n) ==
  /\ calls[p][n].step = "run" /\ calls[p][n].waits
  /\ calls' = [calls EXCEPT ![p][n].step = "answered", ![p][n].waits = FALSE]
  /\ UNCHANGED vars

\* Every other caller of the store, those who use the same key included.
Others == Next /\ UNCHANGED calls

CallsNext ==
  \/ \E p \in Producer, n \in 1..MaxSends :
       Send(p, n) \/ TimeOut(p, n) \/ Execute(p, n) \/ Answer(p, n)
  \/ Others

CallsSpec == CallsInit /\ [][CallsNext]_<<vars, calls>>

-----------------------------------------------------------------------------
(***************************************************************************)
(* Properties.                                                             *)
(***************************************************************************)
\* The requests of p that Redis has executed.
Executed(p) == {n \in 1..MaxSends : calls[p][n].step \in {"run", "answered"}}

\* PROTOCOL.md: "a repeated key within the configured window returns the
\* original job's ID [...] instead of creating a second job".  However often
\* a producer and the Redis client under the handler repeat a keyed enqueue,
\* and whichever of the requests are lost or late, all of them name a job that
\* was created with this key; two that name different jobs are a window apart;
\* and at most one of those that name the same job says it created it.
EnqueueAnswersAgree ==
  \A p \in Producer : Wants[p].key # NoKey =>
    \A m, n \in Executed(p) :
      LET a == calls[p][m]
          b == calls[p][n]
      IN /\ a.id \in DOMAIN birth
         /\ birth[a.id].key = Wants[p].key
         /\ (a.id # b.id /\ b.id \in DOMAIN birth /\ birth[a.id].no < birth[b.id].no)
              => birth[b.id].at >= birth[a.id].at + IdemWindow
         /\ (m # n /\ a.id = b.id) => ~(a.created /\ b.created)
=============================================================================
