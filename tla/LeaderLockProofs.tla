-------------------------- MODULE LeaderLockProofs --------------------------
(***************************************************************************)
(* Proofs about LeaderLock, for any set of replicas and any lock lifetime. *)
(***************************************************************************)
EXTENDS LeaderLock, TLAPS

-----------------------------------------------------------------------------
(***************************************************************************)
(* The inductive invariant.  That a fresh leader owns the lock is kept by  *)
(* the clock only if the lock also lives on for as long as the leader is   *)
(* fresh, and by an answer that arrives only if the answer is as good as   *)
(* the flag it sets.  It is kept by releases, in flight or given up, only  *)
(* because none of them is ever sent by a process that still runs.         *)
(***************************************************************************)
\* The lock is w's, and is left the rest of its lifetime from a ago on.
LockSince(w, a) == owner = w /\ ttl + a >= TTL

HeldIsGood ==
  \A s \in Server :
    (phase[s] = "running" /\ held[s] /\ age[s] < TTL) => LockSince(s, age[s])

ReplyIsGood ==
  \A s \in Server :
    (phase[s] = "running" /\ op[s] \in {"acquire", "renew"} /\ reply[s] = "yes"
      /\ asked[s] < TTL) => LockSince(s, asked[s])

ReleaseWhenStopping ==
  \A s \in Server :
    /\ op[s] = "release" => phase[s] = "stopping"
    /\ <<s, "release">> \in stray => phase[s] # "running"

\* Nothing in Redis or on its way there has the ID of a process that is gone.
DownLeavesNothing ==
  \A s \in Server : phase[s] = "down" =>
    /\ ~held[s] /\ op[s] = "none" /\ owner # s
    /\ \A o \in Op : <<s, o>> \notin stray

LockInv ==
  /\ TypeOK
  /\ HeldIsGood
  /\ ReplyIsGood
  /\ ReleaseWhenStopping
  /\ DownLeavesNothing

\* Nobody holds anything at the start.
LEMMA InitLockInv ==
  ASSUME Init
  PROVE  LockInv
<1>1. TypeOK
  <2>1. 0 \in 0..TTL /\ TTL \in 0..TTL
    BY LeaderAssumption
  <2> QED
    BY <2>1 DEF Init, TypeOK, Op
<1> QED
  BY <1>1 DEF Init, LockInv, HeldIsGood, ReplyIsGood, ReleaseWhenStopping, DownLeavesNothing

\* What the lock scripts can do: give a free lock away, extend the caller's,
\* free the caller's, or nothing.
LEMMA LockAfterView ==
  ASSUME TypeOK, NEW o \in Op, NEW w \in Server \cup {Orphan}
  PROVE  LET r == LockAfter(o, w)
         IN /\ r.reply \in {"yes", "no"}
            /\ \/ /\ o = "acquire" /\ owner = NoOne
                  /\ r.owner = w /\ r.ttl = TTL /\ r.reply = "yes"
               \/ /\ o = "renew" /\ owner = w
                  /\ r.owner = w /\ r.ttl = TTL /\ r.reply = "yes"
               \/ /\ o = "release" /\ owner = w
                  /\ r.owner = NoOne /\ r.ttl = 0 /\ r.reply = "yes"
               \/ r.owner = owner /\ r.ttl = ttl /\ r.reply = "no"
BY DEF LockAfter, Op

\* The lock that a call leaves behind is well-formed, and a lock that w had
\* since a ago is still w's, unless w itself released it.
LEMMA LockAfterKeeps ==
  ASSUME TypeOK, NEW o \in Op, NEW w \in Server \cup {Orphan},
         owner' = LockAfter(o, w).owner, ttl' = LockAfter(o, w).ttl
  PROVE  /\ owner' \in Server \cup {NoOne, Orphan}
         /\ ttl' \in 0..TTL
         /\ (owner' = NoOne) <=> (ttl' = 0)
         /\ \A x \in Server, a \in 0..TTL :
              (LockSince(x, a) /\ (o = "release" => x # w)) => owner' = x /\ ttl' + a >= TTL
<1>1. /\ TTL \in Nat \ {0} /\ NoOne \notin Server /\ NoOne # Orphan
      /\ owner \in Server \cup {NoOne, Orphan} /\ ttl \in 0..TTL
      /\ (owner = NoOne) <=> (ttl = 0)
  BY LeaderAssumption DEF TypeOK
<1>2. CASE owner' = w /\ ttl' = TTL /\ (owner = NoOne \/ owner = w)
  BY <1>1, <1>2 DEF LockSince
<1>3. CASE o = "release" /\ owner = w /\ owner' = NoOne /\ ttl' = 0
  BY <1>1, <1>3 DEF LockSince
<1>4. CASE owner' = owner /\ ttl' = ttl
  BY <1>1, <1>4 DEF LockSince
<1> QED
  BY <1>2, <1>3, <1>4, LockAfterView

\* Redis executes a call that is waited for.
LEMMA ExecuteKeeps ==
  ASSUME LockInv, NEW s \in Server, Execute(s)
  PROVE  LockInv'
<1>1. /\ TypeOK /\ HeldIsGood /\ ReplyIsGood /\ ReleaseWhenStopping /\ DownLeavesNothing
      /\ op[s] \in Op /\ TTL \in Nat
  BY LeaderAssumption DEF LockInv, Execute, TypeOK
<1> DEFINE r == LockAfter(op[s], s)
<1>2. /\ owner' = r.owner /\ ttl' = r.ttl /\ reply' = [reply EXCEPT ![s] = r.reply]
      /\ UNCHANGED <<phase, held, op, asked, age, due, stray, calm>>
  BY DEF Execute
<1>3. /\ owner' \in Server \cup {NoOne, Orphan}
      /\ ttl' \in 0..TTL
      /\ (owner' = NoOne) <=> (ttl' = 0)
      /\ \A x \in Server, a \in 0..TTL :
           (LockSince(x, a) /\ (op[s] = "release" => x # s)) => owner' = x /\ ttl' + a >= TTL
  BY <1>1, <1>2, LockAfterKeeps
<1>4. /\ r.reply \in {"yes", "no"}
      /\ (r.reply = "yes" /\ op[s] \in {"acquire", "renew"}) => r.owner = s /\ r.ttl = TTL
      /\ r.owner \in {owner, s, NoOne}
  BY <1>1, LockAfterView
<1> HIDE DEF r
<1>5. TypeOK'
  BY <1>1, <1>2, <1>3, <1>4 DEF TypeOK
<1>6. \A x \in Server : phase[x] = "running" => (op[s] = "release" => x # s)
  BY <1>1 DEF ReleaseWhenStopping
<1>7. HeldIsGood'
  BY <1>1, <1>2, <1>3, <1>6 DEF HeldIsGood, LockSince, TypeOK
<1>8. ReplyIsGood'
  <2> SUFFICES ASSUME NEW x \in Server, phase[x] = "running", op[x] \in {"acquire", "renew"},
                      reply'[x] = "yes", asked[x] < TTL
               PROVE  owner' = x /\ ttl' + asked[x] >= TTL
    BY <1>2 DEF ReplyIsGood, LockSince
  <2>1. CASE x = s
    BY <1>1, <1>2, <1>4, <2>1 DEF TypeOK
  <2>2. CASE x # s
    <3>1. reply[x] = "yes" /\ asked[x] \in 0..TTL
      BY <1>1, <1>2, <2>2 DEF TypeOK
    <3> QED
      BY <1>1, <1>3, <2>2, <3>1 DEF ReplyIsGood
  <2> QED
    BY <2>1, <2>2
<1>9. DownLeavesNothing'
  <2>1. phase[s] # "down"
    BY <1>1 DEF DownLeavesNothing, Op
  <2> QED
    BY <1>1, <1>2, <1>4, <2>1, LeaderAssumption DEF DownLeavesNothing
<1> QED
  BY <1>1, <1>2, <1>5, <1>7, <1>8, <1>9 DEF LockInv, ReleaseWhenStopping

\* Redis executes a call that was given up on.
LEMMA ExecuteStrayKeeps ==
  ASSUME LockInv, NEW w, NEW o, ExecuteStray(w, o)
  PROVE  LockInv'
<1>1. /\ TypeOK /\ HeldIsGood /\ ReplyIsGood /\ ReleaseWhenStopping /\ DownLeavesNothing
      /\ TTL \in Nat
  BY LeaderAssumption DEF LockInv
<1>2. /\ <<w, o>> \in stray /\ stray' = stray \ {<<w, o>>}
      /\ w \in Server \cup {Orphan} /\ o \in Op
      /\ owner' = LockAfter(o, w).owner /\ ttl' = LockAfter(o, w).ttl
      /\ UNCHANGED <<phase, held, op, reply, asked, age, due, calm>>
  BY <1>1 DEF ExecuteStray, server, TypeOK
<1>3. /\ owner' \in Server \cup {NoOne, Orphan}
      /\ ttl' \in 0..TTL
      /\ (owner' = NoOne) <=> (ttl' = 0)
      /\ \A x \in Server, a \in 0..TTL :
           (LockSince(x, a) /\ (o = "release" => x # w)) => owner' = x /\ ttl' + a >= TTL
  BY <1>1, <1>2, LockAfterKeeps
<1>4. owner' \in {owner, w, NoOne}
  BY <1>1, <1>2, LockAfterView
<1>5. \A x \in Server : phase[x] = "running" => (o = "release" => x # w)
  BY <1>1, <1>2 DEF ReleaseWhenStopping
<1>6. TypeOK'
  BY <1>1, <1>2, <1>3 DEF TypeOK
<1>7. HeldIsGood' /\ ReplyIsGood'
  BY <1>1, <1>2, <1>3, <1>5 DEF HeldIsGood, ReplyIsGood, LockSince, TypeOK
<1>8. DownLeavesNothing'
  <2>1. \A x \in Server : phase[x] = "down" => x # w
    BY <1>1, <1>2 DEF DownLeavesNothing
  <2> QED
    BY <1>1, <1>2, <1>4, <2>1, LeaderAssumption DEF DownLeavesNothing
<1> QED
  BY <1>1, <1>2, <1>6, <1>7, <1>8 DEF LockInv, ReleaseWhenStopping

\* The goroutine's own steps leave the lock alone.
LEMMA GoroutineKeeps ==
  ASSUME LockInv, NEW s \in Server,
         Campaign(s) \/ Release(s) \/ Receive(s) \/ TimeOut(s)
  PROVE  LockInv'
<1>1. /\ TypeOK /\ HeldIsGood /\ ReplyIsGood /\ ReleaseWhenStopping /\ DownLeavesNothing
      /\ TTL \in Nat
  BY LeaderAssumption DEF LockInv
<1>2. CASE Campaign(s)
  <2>1. /\ phase[s] = "running" /\ due' = [due EXCEPT ![s] = FALSE]
        /\ \E o \in {"renew", "acquire"} : op' = [op EXCEPT ![s] = o]
        /\ reply' = [reply EXCEPT ![s] = "none"] /\ asked' = [asked EXCEPT ![s] = 0]
        /\ UNCHANGED <<phase, held, age, owner, ttl, stray, calm>>
    BY <1>2 DEF Campaign, Send, redis
  <2>2. TypeOK'
    BY <1>1, <2>1 DEF TypeOK, Op
  <2>3. HeldIsGood' /\ ReplyIsGood' /\ ReleaseWhenStopping' /\ DownLeavesNothing'
    BY <1>1, <2>1 DEF HeldIsGood, ReplyIsGood, ReleaseWhenStopping, DownLeavesNothing,
                      LockSince, TypeOK
  <2> QED
    BY <2>2, <2>3 DEF LockInv
<1>3. CASE Release(s)
  <2>1. /\ phase[s] = "stopping" /\ op' = [op EXCEPT ![s] = "release"]
        /\ reply' = [reply EXCEPT ![s] = "none"] /\ asked' = [asked EXCEPT ![s] = 0]
        /\ UNCHANGED <<phase, held, age, due, owner, ttl, stray, calm>>
    BY <1>3 DEF Release, Send, redis
  <2>2. TypeOK'
    BY <1>1, <2>1 DEF TypeOK, Op
  <2>3. HeldIsGood' /\ ReplyIsGood' /\ ReleaseWhenStopping' /\ DownLeavesNothing'
    BY <1>1, <2>1 DEF HeldIsGood, ReplyIsGood, ReleaseWhenStopping, DownLeavesNothing,
                      LockSince, TypeOK
  <2> QED
    BY <2>2, <2>3 DEF LockInv
<1>4. CASE Receive(s)
  <2> DEFINE h == HeldAfter(s)
  <2>1. /\ op[s] # "none" /\ held' = [held EXCEPT ![s] = h]
        /\ age' = [age EXCEPT ![s] = IF h THEN asked[s] ELSE TTL]
        /\ op' = [op EXCEPT ![s] = "none"]
        /\ reply' = [reply EXCEPT ![s] = "none"] /\ asked' = [asked EXCEPT ![s] = 0]
        /\ UNCHANGED <<phase, due, owner, ttl, stray, calm>>
    BY <1>4 DEF Receive, SetHeld, Done, redis
  <2>2. /\ h \in BOOLEAN
        /\ h => op[s] \in {"acquire", "renew"} /\ reply[s] = "yes"
    BY <1>1, <2>1 DEF HeldAfter, TypeOK, Op
  <2> HIDE DEF h
  <2>3. TypeOK'
    BY <1>1, <2>1, <2>2 DEF TypeOK, Op
  <2>4. HeldIsGood'
    <3> SUFFICES ASSUME NEW x \in Server, phase[x] = "running", held'[x], age'[x] < TTL
                 PROVE  owner = x /\ ttl + age'[x] >= TTL
      BY <2>1 DEF HeldIsGood, LockSince
    <3>1. CASE x = s
      BY <1>1, <2>1, <2>2, <3>1 DEF ReplyIsGood, LockSince, TypeOK
    <3>2. CASE x # s
      BY <1>1, <2>1, <3>2 DEF HeldIsGood, LockSince, TypeOK
    <3> QED
      BY <3>1, <3>2
  <2>5. phase[s] # "down"
    BY <1>1, <2>1 DEF DownLeavesNothing
  <2>6. ReplyIsGood' /\ ReleaseWhenStopping' /\ DownLeavesNothing'
    BY <1>1, <2>1, <2>5 DEF ReplyIsGood, ReleaseWhenStopping, DownLeavesNothing, LockSince, TypeOK
  <2> QED
    BY <2>3, <2>4, <2>6 DEF LockInv
<1>5. CASE TimeOut(s)
  <2> DEFINE h == held[s] /\ op[s] # "release"
  <2>1. /\ op[s] # "none" /\ held' = [held EXCEPT ![s] = h]
        /\ age' = [age EXCEPT ![s] = IF h THEN age[s] ELSE TTL]
        /\ op' = [op EXCEPT ![s] = "none"]
        /\ reply' = [reply EXCEPT ![s] = "none"] /\ asked' = [asked EXCEPT ![s] = 0]
        /\ UNCHANGED <<phase, due, owner, ttl, calm>>
        /\ stray \subseteq stray' /\ stray' \subseteq stray \cup {<<s, op[s]>>}
    BY <1>5 DEF TimeOut, SetHeld, Done, redis, Waiting
  <2>2. h \in BOOLEAN /\ (h => held[s])
    BY <1>1 DEF TypeOK
  <2> HIDE DEF h
  <2>3. TypeOK'
    BY <1>1, <2>1, <2>2 DEF TypeOK, Op
  <2>4. HeldIsGood'
    <3> SUFFICES ASSUME NEW x \in Server, phase[x] = "running", held'[x], age'[x] < TTL
                 PROVE  owner = x /\ ttl + age'[x] >= TTL
      BY <2>1 DEF HeldIsGood, LockSince
    <3>1. held[x] /\ age'[x] = age[x]
      BY <1>1, <2>1, <2>2 DEF TypeOK
    <3> QED
      BY <1>1, <3>1 DEF HeldIsGood, LockSince
  <2>5. phase[s] # "down"
    BY <1>1, <2>1 DEF DownLeavesNothing
  <2>6. ReplyIsGood' /\ ReleaseWhenStopping' /\ DownLeavesNothing'
    BY <1>1, <2>1, <2>5 DEF ReplyIsGood, ReleaseWhenStopping, DownLeavesNothing, LockSince, TypeOK
  <2> QED
    BY <2>3, <2>4, <2>6 DEF LockInv
<1> QED
  BY <1>2, <1>3, <1>4, <1>5

\* A process that is gone takes its ID with it.
LEMMA GoneKeeps ==
  ASSUME LockInv, NEW s \in Server, Gone(s)
  PROVE  LockInv'
<1>1. /\ TypeOK /\ HeldIsGood /\ ReplyIsGood /\ ReleaseWhenStopping /\ DownLeavesNothing
      /\ TTL \in Nat /\ NoOne \notin Server /\ Orphan \notin Server /\ NoOne # Orphan
  BY LeaderAssumption DEF LockInv
<1>2. /\ phase' = [phase EXCEPT ![s] = "down"] /\ due' = [due EXCEPT ![s] = FALSE]
      /\ held' = [held EXCEPT ![s] = FALSE] /\ age' = [age EXCEPT ![s] = TTL]
      /\ op' = [op EXCEPT ![s] = "none"]
      /\ reply' = [reply EXCEPT ![s] = "none"] /\ asked' = [asked EXCEPT ![s] = 0]
      /\ owner' = IF owner = s THEN Orphan ELSE owner
      /\ UNCHANGED <<ttl, calm>>
  BY DEF Gone, SetHeld, Done
<1>3. PICK left \in SUBSET (stray \cup {<<s, op[s]>>}) :
        /\ (op[s] = "none" => left \subseteq stray)
        /\ stray' = {<<IF c[1] = s THEN Orphan ELSE c[1], c[2]>> : c \in left}
  BY DEF Gone, Waiting
<1>4. \A c \in left : c \in (Server \cup {Orphan}) \X Op
  BY <1>1, <1>3 DEF TypeOK
<1>5. stray' \subseteq (Server \cup {Orphan}) \X Op
  BY <1>3, <1>4
<1>6. \A x \in Server, o \in Op : <<x, o>> \in stray' => x # s /\ <<x, o>> \in stray
  <2> SUFFICES ASSUME NEW x \in Server, NEW o \in Op, <<x, o>> \in stray'
               PROVE  x # s /\ <<x, o>> \in stray
    OBVIOUS
  <2>1. PICK c \in left : <<x, o>> = <<IF c[1] = s THEN Orphan ELSE c[1], c[2]>>
    BY <1>3
  <2>2. c[1] # s /\ x = c[1] /\ o = c[2]
    BY <1>1, <2>1
  <2>3. c = <<x, o>>
    BY <1>4, <2>2
  <2> QED
    BY <1>3, <2>2, <2>3
<1>7. TypeOK'
  BY <1>1, <1>2, <1>5 DEF TypeOK, Op
<1>8. \A x \in Server \ {s} : /\ phase'[x] = phase[x] /\ held'[x] = held[x] /\ age'[x] = age[x]
                              /\ op'[x] = op[x] /\ reply'[x] = reply[x] /\ asked'[x] = asked[x]
                              /\ owner' = x <=> owner = x
  BY <1>1, <1>2 DEF TypeOK
<1>9. phase'[s] = "down" /\ ~held'[s] /\ op'[s] = "none" /\ owner' # s
  BY <1>1, <1>2 DEF TypeOK
<1>10. HeldIsGood'
  BY <1>1, <1>2, <1>8, <1>9 DEF HeldIsGood, LockSince
<1>11. ReplyIsGood'
  BY <1>1, <1>2, <1>8, <1>9 DEF ReplyIsGood, LockSince
<1>12. "release" \in Op
  BY DEF Op
<1>13. ReleaseWhenStopping'
  BY <1>1, <1>6, <1>8, <1>9, <1>12 DEF ReleaseWhenStopping
<1>14. DownLeavesNothing'
  BY <1>1, <1>6, <1>8, <1>9 DEF DownLeavesNothing
<1> QED
  BY <1>7, <1>10, <1>11, <1>13, <1>14 DEF LockInv

\* Starting and stopping a process leave the lock alone.
LEMMA ProcessKeeps ==
  ASSUME LockInv, NEW s \in Server, Shutdown(s) \/ Restart(s)
  PROVE  LockInv'
<1>1. /\ TypeOK /\ HeldIsGood /\ ReplyIsGood /\ ReleaseWhenStopping /\ DownLeavesNothing
      /\ "release" \in Op
  BY DEF LockInv, Op
<1>2. /\ UNCHANGED <<held, op, reply, asked, age, owner, ttl, stray, calm>>
      /\ \E d \in BOOLEAN : due' = [due EXCEPT ![s] = d]
      /\ \/ phase[s] = "running" /\ phase' = [phase EXCEPT ![s] = "stopping"]
         \/ phase[s] = "down" /\ phase' = [phase EXCEPT ![s] = "running"]
  BY DEF Shutdown, Restart, redis
<1>3. TypeOK'
  BY <1>1, <1>2 DEF TypeOK
<1>4. HeldIsGood' /\ ReplyIsGood'
  BY <1>1, <1>2 DEF HeldIsGood, ReplyIsGood, DownLeavesNothing, LockSince, TypeOK
<1>5. ReleaseWhenStopping' /\ DownLeavesNothing'
  BY <1>1, <1>2 DEF ReleaseWhenStopping, DownLeavesNothing, TypeOK
<1> QED
  BY <1>3, <1>4, <1>5 DEF LockInv

\* A leader and its lock grow old together.
LEMMA TickKeeps ==
  ASSUME LockInv, Tick
  PROVE  LockInv'
<1>1. /\ TypeOK /\ HeldIsGood /\ ReplyIsGood /\ ReleaseWhenStopping /\ DownLeavesNothing
      /\ TTL \in Nat \ {0} /\ NoOne \notin Server
      /\ ttl \in 0..TTL /\ (owner = NoOne <=> ttl = 0)
  BY LeaderAssumption DEF LockInv, TypeOK
<1>2. /\ ttl' = IF ttl = 0 THEN 0 ELSE ttl - 1
      /\ owner' = IF ttl <= 1 THEN NoOne ELSE owner
      /\ due' = [s \in Server |-> phase[s] = "running"]
      /\ asked' = [s \in Server |-> IF op[s] = "none" THEN 0 ELSE Older(asked[s])]
      /\ age' = [s \in Server |-> Older(age[s])]
      /\ UNCHANGED <<phase, held, op, reply, stray, calm>>
  BY DEF Tick
<1>3. \A n \in 0..TTL : /\ Older(n) \in 0..TTL
                        /\ Older(n) < TTL => Older(n) = n + 1 /\ n < TTL
  BY <1>1 DEF Older
<1>4. TypeOK'
  <2>1. asked' \in [Server -> 0..TTL] /\ age' \in [Server -> 0..TTL]
    BY <1>1, <1>2, <1>3 DEF TypeOK
  <2> QED
    BY <1>1, <1>2, <2>1 DEF TypeOK
<1>5. \A x \in Server, a \in 0..TTL :
        (a + 1 < TTL /\ LockSince(x, a)) => owner' = x /\ ttl' + (a + 1) >= TTL
  BY <1>1, <1>2 DEF LockSince
<1>6. HeldIsGood'
  BY <1>1, <1>2, <1>3, <1>5 DEF HeldIsGood, LockSince, TypeOK
<1>7. ReplyIsGood'
  BY <1>1, <1>2, <1>3, <1>5 DEF ReplyIsGood, LockSince, TypeOK
<1>8. ReleaseWhenStopping' /\ DownLeavesNothing'
  BY <1>1, <1>2 DEF ReleaseWhenStopping, DownLeavesNothing
<1> QED
  BY <1>4, <1>6, <1>7, <1>8 DEF LockInv

\* Every step keeps the invariant.
LEMMA NextKeepsLock ==
  ASSUME LockInv, [Next]_vars
  PROVE  LockInv'
<1>1. ASSUME NEW s \in Server, Step(s) \/ TimeOut(s) PROVE LockInv'
  BY <1>1, GoroutineKeeps, ExecuteKeeps DEF Step
<1>2. ASSUME NEW s \in Server, Shutdown(s) \/ Exit(s) \/ Crash(s) \/ Restart(s) PROVE LockInv'
  BY <1>2, ProcessKeeps, GoneKeeps DEF Exit, Crash
<1>3. ASSUME NEW c \in stray, ExecuteStray(c[1], c[2]) PROVE LockInv'
  BY <1>3, ExecuteStrayKeeps
<1>4. CASE Tick
  BY <1>4, TickKeeps
<1>5. CASE Calm \/ UNCHANGED vars
  <2>1. UNCHANGED <<phase, held, op, reply, asked, age, due, owner, ttl, stray>> /\ calm' \in BOOLEAN
    BY <1>5 DEF Calm, vars, server, redis, LockInv, TypeOK
  <2> QED
    BY <2>1 DEF LockInv, TypeOK, HeldIsGood, ReplyIsGood, ReleaseWhenStopping,
                DownLeavesNothing, LockSince
<1> QED
  BY <1>1, <1>2, <1>3, <1>4, <1>5 DEF Next

-----------------------------------------------------------------------------
(***************************************************************************)
(* The theorems.                                                           *)
(***************************************************************************)
\* The inductive invariant holds always, whatever faults happen.
THEOREM LockInvAlways == Spec => []LockInv
<1>1. Init => LockInv
  BY InitLockInv
<1>2. LockInv /\ [Next]_vars => LockInv'
  BY NextKeepsLock
<1> QED
  BY <1>1, <1>2, PTL DEF Spec

\* The replicas, the lock and the calls under way stay well-formed.
THEOREM LockTypeCorrect == Spec => []TypeOK
<1>1. LockInv => TypeOK
  BY DEF LockInv
<1> QED
  BY <1>1, LockInvAlways, PTL

\* A running replica that was told it has the lock less than a lifetime after it
\* asked has it: two replicas both think they lead only after a whole lifetime
\* without a renewal.
THEOREM FreshLeadersOwnTheLock == Spec => []FreshLeaderOwnsLock
<1>1. LockInv => FreshLeaderOwnsLock
  BY DEF LockInv, HeldIsGood, LockSince, FreshLeaderOwnsLock
<1> QED
  BY <1>1, LockInvAlways, PTL

\* No step of another replica, in time or late, ends a replica's lock.
THEOREM OnlyOwnerOrExpiryEndsLock == Spec => LockEndsByOwnerOrExpiry
<1> DEFINE Ends(s) == \/ ttl = 1 /\ ttl' = 0
                      \/ op[s] = "release" \/ <<s, "release">> \in stray
                      \/ phase'[s] = "down"
<1>1. ASSUME LockInv, [Next]_vars, NEW s \in Server, owner = s, owner' # s
      PROVE  Ends(s)
  <2>1. TypeOK /\ NoOne \notin Server
    BY <1>1, LeaderAssumption DEF LockInv
  <2>2. ASSUME NEW x \in Server, Execute(x) PROVE Ends(s)
    <3>1. op[x] \in Op /\ owner' = LockAfter(op[x], x).owner
      BY <2>1, <2>2 DEF Execute, TypeOK
    <3>2. op[x] = "release" /\ owner = x
      BY <1>1, <2>1, <3>1, LockAfterView
    <3> QED
      BY <1>1, <3>2
  <2>3. ASSUME NEW c \in stray, ExecuteStray(c[1], c[2]) PROVE Ends(s)
    <3>1. /\ c[1] \in Server \cup {Orphan} /\ c[2] \in Op
          /\ owner' = LockAfter(c[2], c[1]).owner /\ <<c[1], c[2]>> \in stray
      BY <2>1, <2>3 DEF ExecuteStray, TypeOK
    <3>2. c[2] = "release" /\ owner = c[1]
      BY <1>1, <2>1, <3>1, LockAfterView
    <3> QED
      BY <1>1, <3>1, <3>2
  <2>4. ASSUME NEW x \in Server, Gone(x) PROVE Ends(s)
    BY <1>1, <2>1, <2>4 DEF Gone, TypeOK
  <2>5. CASE Tick
    BY <1>1, <2>1, <2>5 DEF Tick, TypeOK
  <2>6. CASE owner' = owner
    BY <1>1, <2>6
  <2>7. ASSUME NEW x \in Server, \/ Campaign(x) \/ Release(x) \/ Receive(x) \/ TimeOut(x)
                                 \/ Shutdown(x) \/ Restart(x)
        PROVE  owner' = owner
    BY <2>7 DEF Campaign, Release, Receive, TimeOut, Shutdown, Restart, redis
  <2>8. Calm \/ UNCHANGED vars => owner' = owner
    BY DEF Calm, vars, redis
  <2> HIDE DEF Ends
  <2> QED
    BY <1>1, <2>2, <2>3, <2>4, <2>5, <2>6, <2>7, <2>8 DEF Next, Step, Exit, Crash
<1>2. LockInv /\ [Next]_vars =>
        [\A s \in Server : (owner = s /\ owner' # s) => Ends(s)]_vars
  BY <1>1
<1> QED
  BY <1>2, LockInvAlways, PTL DEF Spec, LockEndsByOwnerOrExpiry
=============================================================================
