--------------------------- MODULE EnqueueProofs ---------------------------
(***************************************************************************)
(* Proofs about EnqueueCalls: what a producer that repeats its requests    *)
(* may rely on, whichever of them are lost, late or executed twice.        *)
(***************************************************************************)
EXTENDS EnqueueCalls, JobStoreProofs

-----------------------------------------------------------------------------
(***************************************************************************)
(* Requests.                                                               *)
(***************************************************************************)
\* Redis has executed request n of p.
Ran(p, n) == calls[p][n].step \in {"run", "answered"}

\* An executed request names a job, one created with its key; one that has not
\* been executed names none.  A request that says it created a job created the
\* job it names.
Sound(p, n) ==
  /\ Ran(p, n) => calls[p][n].id \in DOMAIN birth
  /\ ~Ran(p, n) => calls[p][n].id = NoJob /\ calls[p][n].made = NoJob
  /\ (Ran(p, n) /\ Wants[p].key # NoKey) => birth[calls[p][n].id].key = Wants[p].key
  /\ calls[p][n].made # NoJob => calls[p][n].made \in DOMAIN birth
  /\ calls[p][n].created => calls[p][n].made # NoJob /\ calls[p][n].id = calls[p][n].made

\* Every request is sound, and no two requests created the same job.
AnswerInv ==
  /\ calls \in [Producer -> [1..MaxSends -> CallRec]]
  /\ \A p \in Producer, n \in 1..MaxSends : Sound(p, n)
  /\ \A p \in Producer, m, n \in 1..MaxSends :
       (m # n /\ calls[p][m].made # NoJob) => calls[p][m].made # calls[p][n].made

CallsInv == KeyInv /\ AnswerInv

\* No request has been sent.
LEMMA CallsInitInv ==
  ASSUME CallsInit
  PROVE  CallsInv
<1>1. KeyInv
  BY InitKeyInv DEF CallsInit
<1>2. AnswerInv
  BY EnqueueAssumption DEF CallsInit, AnswerInv, Sound, CallRec, NoCall, Ran
<1> QED
  BY <1>1, <1>2 DEF CallsInv

\* A step that leaves the requests alone may only add jobs, which keep what they
\* were created with.
BirthsKept ==
  /\ DOMAIN birth \subseteq DOMAIN birth'
  /\ \A j \in DOMAIN birth : birth'[j] = birth[j]

LEMMA StoreStepKeepsBirths ==
  ASSUME [Next]_vars
  PROVE  BirthsKept
<1>1. ASSUME NEW q \in Queue, NEW j \in Job, NEW k \in Key \cup {NoKey}, Enqueue(q, j, k)
      PROVE  BirthsKept
  BY <1>1 DEF Enqueue, PushNewJob, BirthsKept
<1>2. CASE birth' = birth
  BY <1>2 DEF BirthsKept
<1> QED
  BY <1>1, <1>2 DEF Next, Claim, Renew, Ack, Fail, Reap, DrainRetry, Tick, vars, historyVars

\* The invariant survives a step that replaces one request by a record with the
\* invariant's properties.
LEMMA RequestChanges ==
  ASSUME AnswerInv, BirthsKept,
         NEW p \in Producer, NEW n \in 1..MaxSends, NEW r \in CallRec,
         calls' = [calls EXCEPT ![p][n] = r],
         r.step \in {"run", "answered"} => r.id \in DOMAIN birth',
         r.step \notin {"run", "answered"} => r.id = NoJob /\ r.made = NoJob,
         (r.step \in {"run", "answered"} /\ Wants[p].key # NoKey)
           => birth'[r.id].key = Wants[p].key,
         r.made # NoJob => r.made \in DOMAIN birth',
         r.created => r.made # NoJob /\ r.id = r.made,
         r.made = calls[p][n].made \/ r.made \notin DOMAIN birth
  PROVE  AnswerInv'
<1>1. calls \in [Producer -> [1..MaxSends -> CallRec]]
  BY DEF AnswerInv
<1>2. /\ calls' \in [Producer -> [1..MaxSends -> CallRec]]
      /\ calls'[p][n] = r
      /\ \A x \in Producer, m \in 1..MaxSends :
           (x # p \/ m # n) => calls'[x][m] = calls[x][m]
  BY <1>1
<1>3. ASSUME NEW x \in Producer, NEW m \in 1..MaxSends
      PROVE  Sound(x, m)'
  <2>1. CASE x = p /\ m = n
    BY <1>2, <2>1 DEF Sound, Ran
  <2>2. CASE x # p \/ m # n
    <3>1. calls'[x][m] = calls[x][m]
      BY <1>2, <2>2
    <3>2. Sound(x, m)
      BY DEF AnswerInv
    <3> QED
      BY <3>1, <3>2 DEF Sound, Ran, BirthsKept
  <2> QED
    BY <2>1, <2>2
<1>4. ASSUME NEW x \in Producer, NEW l \in 1..MaxSends, NEW m \in 1..MaxSends,
             l # m, calls'[x][l].made # NoJob
      PROVE  calls'[x][l].made # calls'[x][m].made
  <2>1. /\ calls[x][l].made # NoJob => calls[x][l].made # calls[x][m].made
        /\ calls[x][m].made # NoJob => calls[x][l].made # calls[x][m].made
        /\ calls[x][l].made # NoJob => calls[x][l].made \in DOMAIN birth
        /\ calls[x][m].made # NoJob => calls[x][m].made \in DOMAIN birth
    BY <1>4 DEF AnswerInv, Sound
  <2>2. CASE x # p \/ (l # n /\ m # n)
    BY <1>2, <1>4, <2>1, <2>2
  <2>3. CASE x = p /\ l = n
    BY <1>2, <1>4, <2>1, <2>3
  <2>4. CASE x = p /\ m = n
    BY <1>2, <1>4, <2>1, <2>4
  <2> QED
    BY <2>2, <2>3, <2>4
<1> QED
  BY <1>2, <1>3, <1>4 DEF AnswerInv

\* A request that is given up keeps its step.
LEMMA WaitsField ==
  ASSUME NEW P, NEW N, NEW f \in [P -> [N -> CallRec]], NEW p \in P, NEW n \in N, NEW w
  PROVE  [f EXCEPT ![p][n].waits = w]
           = [f EXCEPT ![p][n] = [f[p][n] EXCEPT !.step = f[p][n].step, !.waits = w]]
<1>1. PICK c \in CallRec : c = f[p][n]
  OBVIOUS
<1>2. [c EXCEPT !.step = c.step] = c
  BY DEF CallRec
<1>3. [c EXCEPT !.step = c.step, !.waits = w] = [c EXCEPT !.waits = w]
  BY <1>2
<1> QED
  BY <1>1, <1>3

\* Sending, giving up and answering do not touch the store.
LEMMA QuietStepKeeps ==
  ASSUME CallsInv, NEW p \in Producer, NEW n \in 1..MaxSends,
         Send(p, n) \/ TimeOut(p, n) \/ Answer(p, n)
  PROVE  CallsInv'
<1> DEFINE c == calls[p][n]
<1>1. KeyInv /\ AnswerInv
  BY DEF CallsInv
<1>2. UNCHANGED <<idem, now, birth>> /\ BirthsKept
  BY DEF Send, TimeOut, Answer, vars, redisVars, historyVars, BirthsKept
<1>3. c \in CallRec /\ calls \in [Producer -> [1..MaxSends -> CallRec]]
  BY <1>1 DEF AnswerInv, Sound
<1>4. /\ Ran(p, n) => c.id \in DOMAIN birth
      /\ ~Ran(p, n) => c.id = NoJob /\ c.made = NoJob
      /\ (Ran(p, n) /\ Wants[p].key # NoKey) => birth[c.id].key = Wants[p].key
      /\ c.made # NoJob => c.made \in DOMAIN birth
      /\ c.created => c.made # NoJob /\ c.id = c.made
  BY <1>1 DEF AnswerInv, Sound
<1>5. PICK step \in {"none", "sent", "run", "answered"}, waits \in BOOLEAN :
        /\ calls' = [calls EXCEPT ![p][n] = [c EXCEPT !.step = step, !.waits = waits]]
        /\ step \in {"run", "answered"} <=> Ran(p, n)
  <2>1. CASE Send(p, n)
    <3>1. \E w \in BOOLEAN : calls' = [calls EXCEPT ![p][n].step = "sent", ![p][n].waits = w]
      BY <2>1, Zenon DEF Send
    <3>2. PICK w \in BOOLEAN : calls' = [calls EXCEPT ![p][n].step = "sent", ![p][n].waits = w]
      BY <3>1
    <3>3. calls' = [calls EXCEPT ![p][n] = [c EXCEPT !.step = "sent", !.waits = w]]
      BY <1>3, <3>2
    <3>4. "sent" \in {"run", "answered"} <=> Ran(p, n)
      BY <1>3, <2>1 DEF Send, Ran, CallRec
    <3> QED
      BY <3>3, <3>4
  <2>2. CASE TimeOut(p, n)
    <3>1. calls' = [calls EXCEPT ![p][n] = [c EXCEPT !.step = c.step, !.waits = FALSE]]
      BY <1>3, <2>2, WaitsField DEF TimeOut
    <3>2. /\ c.step \in {"none", "sent", "run", "answered"} /\ FALSE \in BOOLEAN
          /\ c.step \in {"run", "answered"} <=> Ran(p, n)
      BY <1>3, <2>2 DEF TimeOut, Ran, CallRec
    <3> QED
      BY <3>1, <3>2, Zenon
  <2>3. CASE Answer(p, n)
    <3>1. \E w \in BOOLEAN : calls' = [calls EXCEPT ![p][n].step = "answered", ![p][n].waits = w]
      BY <2>3, Zenon DEF Answer
    <3>2. PICK w \in BOOLEAN : calls' = [calls EXCEPT ![p][n].step = "answered", ![p][n].waits = w]
      BY <3>1
    <3>3. calls' = [calls EXCEPT ![p][n] = [c EXCEPT !.step = "answered", !.waits = w]]
      BY <1>3, <3>2
    <3>4. "answered" \in {"run", "answered"} <=> Ran(p, n)
      BY <1>3, <2>3 DEF Answer, Ran, CallRec
    <3> QED
      BY <3>3, <3>4
  <2> QED
    BY <2>1, <2>2, <2>3
<1> DEFINE r == [c EXCEPT !.step = step, !.waits = waits]
<1>6. /\ r \in CallRec /\ r.step = step
      /\ r.id = c.id /\ r.made = c.made /\ r.created = c.created
  BY <1>3 DEF CallRec
<1> HIDE DEF c, r
<1>7. AnswerInv'
  <2>1. calls' = [calls EXCEPT ![p][n] = r]
    BY <1>5 DEF r
  <2>2. r.made = calls[p][n].made \/ r.made \notin DOMAIN birth
    BY <1>6 DEF c
  <2>3. birth' = birth /\ r \in CallRec
    BY <1>2, <1>6
  <2>4. r.step \in {"run", "answered"} => r.id \in DOMAIN birth'
    BY <1>4, <1>5, <1>6, <2>3
  <2>5. r.step \notin {"run", "answered"} => r.id = NoJob /\ r.made = NoJob
    BY <1>4, <1>5, <1>6
  <2>6. (r.step \in {"run", "answered"} /\ Wants[p].key # NoKey)
          => birth'[r.id].key = Wants[p].key
    BY <1>4, <1>5, <1>6, <2>3
  <2>7. /\ r.made # NoJob => r.made \in DOMAIN birth'
        /\ r.created => r.made # NoJob /\ r.id = r.made
    BY <1>4, <1>6, <2>3
  <2> QED
    BY <1>1, <1>2, <2>1, <2>2, <2>3, <2>4, <2>5, <2>6, <2>7, RequestChanges, Zenon
<1> QED
  BY <1>1, <1>2, <1>7, FrameKeepsKeys DEF CallsInv

\* Executing a request keeps the invariant, for the first time and again.  One
\* that created a job cannot create another: the Redis client sends the same ID.
LEMMA ExecuteKeeps ==
  ASSUME CallsInv, NEW p \in Producer, NEW n \in 1..MaxSends, Execute(p, n)
  PROVE  CallsInv' /\ BirthsKept
<1> DEFINE c == calls[p][n]
           q == Wants[p].queue
           k == Wants[p].key
           r(made, id, created) ==
             [c EXCEPT !.step = "run", !.made = made, !.id = id, !.created = created,
                       !.resent = IF c.step = "run" THEN @ + 1 ELSE @]
<1>1. KeyInv /\ AnswerInv
  BY DEF CallsInv
<1>2. /\ c \in CallRec /\ q \in Queue /\ k \in Key \cup {NoKey}
      /\ NoJob \notin Job /\ NoKey \notin Key /\ MaxResends \in Nat
  BY <1>1, EnqueueAssumption, JobStoreAssumption DEF AnswerInv
<1>3. /\ c.step = "sent" \/ (c.step = "run" /\ c.resent < MaxResends)
      /\ c.step = "sent" => c.made = NoJob
      /\ c.made # NoJob => c.made \in DOMAIN birth
      /\ DOMAIN birth \subseteq Job
  BY <1>1 DEF Execute, AnswerInv, Sound, Ran, KeyInv, KeyTypeOK
<1>4. \/ Hit(k) /\ calls' = [calls EXCEPT ![p][n] = r(c.made, idem[k].id, FALSE)]
      \/ \E j \in Job : /\ Enqueue(q, j, k) \/ (c.made = j /\ k = NoKey /\ PushAgain(q, j))
                        /\ calls' = [calls EXCEPT ![p][n] = r(j, j, TRUE)]
  BY <1>3 DEF Execute, HitID
<1>6. PICK m \in 0..MaxResends : m = IF c.step = "run" THEN c.resent + 1 ELSE c.resent
  BY <1>2, <1>3 DEF CallRec
<1> HIDE DEF c, q, k, r
<1>7. CASE Hit(k) /\ calls' = [calls EXCEPT ![p][n] = r(c.made, idem[k].id, FALSE)]
  <2>1. UNCHANGED <<idem, now, birth>> /\ k \in DOMAIN idem /\ BirthsKept
    BY <1>7 DEF Hit, vars, redisVars, historyVars, BirthsKept
  <2>2. idem[k].id \in DOMAIN birth /\ birth[idem[k].id].key = k
    BY <1>1, <2>1 DEF KeyInv, MarkerNamesOriginal
  <2>3. PICK s \in CallRec : /\ s = r(c.made, idem[k].id, FALSE) /\ s.step = "run"
                             /\ s.made = c.made /\ s.id = idem[k].id /\ s.created = FALSE
    <3>1. c.made \in Job \cup {NoJob} /\ idem[k].id \in Job /\ FALSE \in BOOLEAN
      BY <1>3, <2>2
    <3>2. PICK s : s = r(c.made, idem[k].id, FALSE)
      OBVIOUS
    <3>3. s = [c EXCEPT !.step = "run", !.made = c.made, !.id = idem[k].id, !.created = FALSE,
                        !.resent = m]
      BY <1>2, <1>6, <3>2 DEF r, CallRec
    <3>4. s = [step |-> "run", waits |-> c.waits, made |-> c.made, id |-> idem[k].id,
              created |-> FALSE, resent |-> m]
      BY <1>2, <3>3 DEF CallRec
    <3>5. c.waits \in BOOLEAN
      BY <1>2 DEF CallRec
    <3>6. s \in CallRec
      BY <3>1, <3>4, <3>5 DEF CallRec
    <3>7. s.step = "run" /\ s.made = c.made /\ s.id = idem[k].id /\ s.created = FALSE
      BY <3>4
    <3> QED
      BY <3>2, <3>6, <3>7, Zenon
  <2>4. AnswerInv'
    <3>1. /\ calls' = [calls EXCEPT ![p][n] = s]
          /\ s.made = calls[p][n].made \/ s.made \notin DOMAIN birth
      BY <1>7, <2>3 DEF c
    <3>2. /\ s.step \in {"run", "answered"} => s.id \in DOMAIN birth'
          /\ s.step \notin {"run", "answered"} => s.id = NoJob /\ s.made = NoJob
          /\ (s.step \in {"run", "answered"} /\ Wants[p].key # NoKey)
               => birth'[s.id].key = Wants[p].key
          /\ s.made # NoJob => s.made \in DOMAIN birth'
          /\ s.created => s.made # NoJob /\ s.id = s.made
      BY <1>3, <2>1, <2>2, <2>3 DEF k
    <3> QED
      BY <1>1, <2>1, <3>1, <3>2, RequestChanges, Zenon
  <2> QED
    BY <1>1, <2>1, <2>4, FrameKeepsKeys DEF CallsInv
<1>8. ASSUME NEW j \in Job, Enqueue(q, j, k),
             calls' = [calls EXCEPT ![p][n] = r(j, j, TRUE)]
      PROVE  CallsInv' /\ BirthsKept
  <2>1. KeyInv'
    BY <1>1, <1>2, <1>8, EnqueueKeepsKeys
  <2>2. /\ BirthsKept /\ j \notin DOMAIN birth
        /\ j \in DOMAIN birth' /\ birth'[j].key = k
    BY <1>8 DEF Enqueue, PushNewJob, BirthsKept
  <2>3. PICK s \in CallRec : /\ s = r(j, j, TRUE) /\ s.step = "run"
                             /\ s.made = j /\ s.id = j /\ s.created = TRUE
    <3>1. j \in Job \cup {NoJob} /\ j \in Job /\ TRUE \in BOOLEAN
      OBVIOUS
    <3>2. PICK s : s = r(j, j, TRUE)
      OBVIOUS
    <3>3. s = [c EXCEPT !.step = "run", !.made = j, !.id = j, !.created = TRUE,
                        !.resent = m]
      BY <1>2, <1>6, <3>2 DEF r, CallRec
    <3>4. s = [step |-> "run", waits |-> c.waits, made |-> j, id |-> j,
              created |-> TRUE, resent |-> m]
      BY <1>2, <3>3 DEF CallRec
    <3>5. c.waits \in BOOLEAN
      BY <1>2 DEF CallRec
    <3>6. s \in CallRec
      BY <3>1, <3>4, <3>5 DEF CallRec
    <3>7. s.step = "run" /\ s.made = j /\ s.id = j /\ s.created = TRUE
      BY <3>4
    <3> QED
      BY <3>2, <3>6, <3>7, Zenon
  <2>4. AnswerInv'
    <3>1. /\ calls' = [calls EXCEPT ![p][n] = s]
          /\ s.made = calls[p][n].made \/ s.made \notin DOMAIN birth
      BY <1>8, <2>2, <2>3
    <3>2. /\ s.step \in {"run", "answered"} => s.id \in DOMAIN birth'
          /\ s.step \notin {"run", "answered"} => s.id = NoJob /\ s.made = NoJob
          /\ (s.step \in {"run", "answered"} /\ Wants[p].key # NoKey)
               => birth'[s.id].key = Wants[p].key
          /\ s.made # NoJob => s.made \in DOMAIN birth'
          /\ s.created => s.made # NoJob /\ s.id = s.made
      BY <1>2, <2>2, <2>3 DEF k
    <3> QED
      BY <1>1, <2>2, <3>1, <3>2, RequestChanges, Zenon
  <2> QED
    BY <2>1, <2>2, <2>4 DEF CallsInv
<1>9. ASSUME NEW j \in Job, c.made = j, k = NoKey, PushAgain(q, j),
             calls' = [calls EXCEPT ![p][n] = r(j, j, TRUE)]
      PROVE  CallsInv' /\ BirthsKept
  <2>1. UNCHANGED <<idem, now, birth>> /\ BirthsKept
    BY <1>9 DEF PushAgain, historyVars, BirthsKept
  <2>2. PICK s \in CallRec : /\ s = r(j, j, TRUE) /\ s.step = "run"
                             /\ s.made = j /\ s.id = j /\ s.created = TRUE
    <3>1. j \in Job \cup {NoJob} /\ j \in Job /\ TRUE \in BOOLEAN
      OBVIOUS
    <3>2. PICK s : s = r(j, j, TRUE)
      OBVIOUS
    <3>3. s = [c EXCEPT !.step = "run", !.made = j, !.id = j, !.created = TRUE,
                        !.resent = m]
      BY <1>2, <1>6, <3>2 DEF r, CallRec
    <3>4. s = [step |-> "run", waits |-> c.waits, made |-> j, id |-> j,
              created |-> TRUE, resent |-> m]
      BY <1>2, <3>3 DEF CallRec
    <3>5. c.waits \in BOOLEAN
      BY <1>2 DEF CallRec
    <3>6. s \in CallRec
      BY <3>1, <3>4, <3>5 DEF CallRec
    <3>7. s.step = "run" /\ s.made = j /\ s.id = j /\ s.created = TRUE
      BY <3>4
    <3> QED
      BY <3>2, <3>6, <3>7, Zenon
  <2>3. AnswerInv'
    <3>1. /\ calls' = [calls EXCEPT ![p][n] = s]
          /\ s.made = calls[p][n].made \/ s.made \notin DOMAIN birth
      BY <1>9, <2>2 DEF c
    <3>2. /\ s.step \in {"run", "answered"} => s.id \in DOMAIN birth'
          /\ s.step \notin {"run", "answered"} => s.id = NoJob /\ s.made = NoJob
          /\ (s.step \in {"run", "answered"} /\ Wants[p].key # NoKey)
               => birth'[s.id].key = Wants[p].key
          /\ s.made # NoJob => s.made \in DOMAIN birth'
          /\ s.created => s.made # NoJob /\ s.id = s.made
      BY <1>2, <1>3, <1>9, <2>1, <2>2 DEF k
    <3> QED
      BY <1>1, <2>1, <3>1, <3>2, RequestChanges, Zenon
  <2> QED
    BY <1>1, <2>1, <2>3, FrameKeepsKeys DEF CallsInv
<1> QED
  BY <1>4, <1>7, <1>8, <1>9

\* Other callers leave the requests alone, and the jobs they name.
LEMMA OthersKeep ==
  ASSUME CallsInv, [Next]_vars, UNCHANGED calls
  PROVE  CallsInv'
<1>1. KeyInv /\ AnswerInv /\ BirthsKept
  BY StoreStepKeepsBirths DEF CallsInv
<1>2. KeyInv'
  BY <1>1, StoreStepKeepsKeys
<1>3. AnswerInv'
  BY <1>1 DEF AnswerInv, Sound, Ran, BirthsKept
<1> QED
  BY <1>2, <1>3 DEF CallsInv

\* Every step of the producers and of the store keeps the invariant.
LEMMA CallsNextKeeps ==
  ASSUME CallsInv, [CallsNext]_<<vars, calls>>
  PROVE  CallsInv'
<1>1. ASSUME NEW p \in Producer, NEW n \in 1..MaxSends,
             Send(p, n) \/ TimeOut(p, n) \/ Execute(p, n) \/ Answer(p, n)
      PROVE  CallsInv'
  BY <1>1, QuietStepKeeps, ExecuteKeeps
<1>2. CASE Others
  BY <1>2, OthersKeep DEF Others
<1>3. CASE UNCHANGED <<vars, calls>>
  BY <1>3, OthersKeep
<1> QED
  BY <1>1, <1>2, <1>3 DEF CallsNext

\* What the invariant says of two executed requests of one producer.
LEMMA AnswersFollow ==
  ASSUME CallsInv
  PROVE  EnqueueAnswersAgree
<1> SUFFICES ASSUME NEW p \in Producer, Wants[p].key # NoKey,
                    NEW m \in Executed(p), NEW n \in Executed(p)
             PROVE  LET a == calls[p][m]
                        b == calls[p][n]
                    IN /\ a.id \in DOMAIN birth
                       /\ birth[a.id].key = Wants[p].key
                       /\ (a.id # b.id /\ b.id \in DOMAIN birth
                             /\ birth[a.id].no < birth[b.id].no)
                            => birth[b.id].at >= birth[a.id].at + IdemWindow
                       /\ (m # n /\ a.id = b.id) => ~(a.created /\ b.created)
  BY DEF EnqueueAnswersAgree
<1> DEFINE a == calls[p][m]
           b == calls[p][n]
<1>1. m \in 1..MaxSends /\ n \in 1..MaxSends /\ Ran(p, m) /\ Ran(p, n)
  BY DEF Executed, Ran
<1>2. /\ a.id \in DOMAIN birth /\ birth[a.id].key = Wants[p].key
      /\ b.id \in DOMAIN birth /\ birth[b.id].key = Wants[p].key
  BY <1>1 DEF CallsInv, AnswerInv, Sound
<1>3. /\ a.created => a.made # NoJob /\ a.id = a.made
      /\ b.created => b.made # NoJob /\ b.id = b.made
      /\ (m # n /\ a.made # NoJob) => a.made # b.made
  BY <1>1 DEF CallsInv, AnswerInv, Sound
<1>4. (a.id # b.id /\ birth[a.id].no < birth[b.id].no)
        => birth[b.id].at >= birth[a.id].at + IdemWindow
  BY <1>2 DEF CallsInv, KeyInv, KeysDedupedWithinWindow
<1> QED
  BY <1>2, <1>3, <1>4

\* However often a producer and the Redis client repeat a keyed enqueue, the
\* answers agree: the retries of one job within the window all name that job,
\* and at most one of them says that it created it.
THEOREM AnswersAgree ==
  CallsSpec => [](EnqueueAnswersAgree /\ KeysDedupedWithinWindow /\ MarkerNamesOriginal)
<1>1. CallsInit => CallsInv
  BY CallsInitInv
<1>2. CallsInv /\ [CallsNext]_<<vars, calls>> => CallsInv'
  BY CallsNextKeeps
<1>3. CallsInv => EnqueueAnswersAgree /\ KeysDedupedWithinWindow /\ MarkerNamesOriginal
  BY AnswersFollow DEF CallsInv, KeyInv
<1> QED
  BY <1>1, <1>2, <1>3, PTL DEF CallsSpec

-----------------------------------------------------------------------------
(***************************************************************************)
(* When a repeated enqueue is harmless to the job itself.                  *)
(***************************************************************************)
\* The Redis client repeats no command, or every producer uses a key.
SafeToRepeat == MaxResends = 0 \/ \A p \in Producer : Wants[p].key # NoKey

\* Then the second execution of a request pushes nothing: it finds the marker,
\* or the key is free again and the job is a window old.
LEMMA ExecuteKeepsStore ==
  ASSUME SafeToRepeat, IInv, CallsInv,
         NEW p \in Producer, NEW n \in 1..MaxSends, Execute(p, n)
  PROVE  IInv'
<1> DEFINE c == calls[p][n]
           q == Wants[p].queue
           k == Wants[p].key
<1>1. /\ c \in CallRec /\ q \in Queue /\ k \in Key \cup {NoKey}
      /\ NoJob \notin Job /\ MaxResends \in Nat
      /\ c.step = "sent" \/ (c.step = "run" /\ c.resent < MaxResends)
      /\ c.step = "sent" => c.made = NoJob
      /\ c.made # NoJob => c.made \in DOMAIN birth
      /\ DOMAIN birth \subseteq Job
  <2>1. /\ q \in Queue /\ k \in Key \cup {NoKey}
        /\ NoJob \notin Job /\ MaxResends \in Nat
    BY EnqueueAssumption
  <2>2. c \in CallRec /\ Sound(p, n) /\ DOMAIN birth \subseteq Job
    BY DEF CallsInv, AnswerInv, KeyInv, KeyTypeOK
  <2>3. c.step = "sent" \/ (c.step = "run" /\ c.resent < MaxResends)
    BY DEF Execute
  <2> QED
    BY <2>1, <2>2, <2>3 DEF Sound, Ran
<1>2. \/ Hit(k)
      \/ \E j \in Job : Enqueue(q, j, k) \/ (c.made = j /\ k = NoKey)
  BY <1>1 DEF Execute
<1>3. CASE Hit(k)
  BY <1>3, NextKeeps DEF Hit
<1>4. ASSUME NEW j \in Job, Enqueue(q, j, k) PROVE IInv'
  BY <1>1, <1>4, NextKeeps DEF Next
<1>5. \A j \in Job : ~(c.made = j /\ k = NoKey)
  BY <1>1 DEF SafeToRepeat, CallRec
<1> QED
  BY <1>2, <1>3, <1>4, <1>5

\* With keys, or with a client that repeats nothing, retrying producers lose no
\* job and duplicate none: the store keeps every promise it makes to callers
\* that enqueue once.
THEOREM RetriesKeepTheStore ==
  ASSUME SafeToRepeat
  PROVE  CallsSpec => [](CallsOK /\ OnePlace /\ NoJobLost)
<1>1. CallsInit => CallsInv /\ IInv
  BY CallsInitInv, InitIInv DEF CallsInit
<1>2. CallsInv /\ IInv /\ [CallsNext]_<<vars, calls>> => CallsInv' /\ IInv'
  <2> SUFFICES ASSUME CallsInv, IInv, [CallsNext]_<<vars, calls>> PROVE IInv'
    BY CallsNextKeeps
  <2>1. ASSUME NEW p \in Producer, NEW n \in 1..MaxSends, Execute(p, n) PROVE IInv'
    BY <2>1, ExecuteKeepsStore
  <2>2. ASSUME NEW p \in Producer, NEW n \in 1..MaxSends,
               Send(p, n) \/ TimeOut(p, n) \/ Answer(p, n)
        PROVE  UNCHANGED vars
    BY <2>2 DEF Send, TimeOut, Answer
  <2>3. [Next]_vars => IInv'
    BY NextKeeps
  <2> QED
    BY <2>1, <2>2, <2>3 DEF CallsNext, Others
<1>3. CallsInv /\ IInv => CallsOK /\ OnePlace /\ NoJobLost
  BY EnqueueAssumption DEF CallsInv, KeyInv, KeyTypeOK, AnswerInv, Sound, Ran, IInv, CallsOK
<1> QED
  BY <1>1, <1>2, <1>3, PTL DEF CallsSpec
=============================================================================
