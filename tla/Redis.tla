------------------------------- MODULE Redis -------------------------------
(***************************************************************************)
(* The Redis data types Cogs builds on, as far as its Lua scripts use      *)
(* them.  Redis itself is external: these operators say what the commands  *)
(* named in the comments do, and a script is atomic because Redis runs one *)
(* command, or one script, at a time.                                      *)
(*                                                                         *)
(*  - A sorted set (queue:{q}:leased, queue:{q}:retry, schedules) is a     *)
(*    function from its members to their scores.                           *)
(*  - A list (queue:{q}:pending, queue:{q}:dead) is a sequence written     *)
(*    from the end RPOP takes from: LPUSH appends, RPOP takes the head.    *)
(***************************************************************************)
EXTENDS Naturals, Sequences, FiniteSets, Functions

Lesser(a, b) == IF a <= b THEN a ELSE b

\* z is a sorted set whose members are elements of M.
IsZSet(z, M) == DOMAIN z \subseteq M /\ z \in [DOMAIN z -> Nat]

EmptyZSet == [x \in {} |-> 0]

\* ZADD of every element of S with the same score: added, or rescored.
ZAdd(z, score, S) ==
  [x \in DOMAIN z \cup S |-> IF x \in S THEN score ELSE z[x]]

\* ZREM of the elements of S (those that are members).
ZRem(z, S) == [x \in DOMAIN z \ S |-> z[x]]

\* The members ZRANGEBYSCORE z -inf t finds.
DueBy(z, t) == {x \in DOMAIN z : z[x] <= t}

\* What ZRANGEBYSCORE z -inf t LIMIT 0 limit may return, as a set: the limit
\* lowest scores.  Equal scores are ordered by member, and members are random
\* identifiers, so any of the tied ones may come first.
LowestDue(z, t, limit) ==
  {S \in SUBSET DueBy(z, t) :
     /\ Cardinality(S) = Lesser(limit, Cardinality(DueBy(z, t)))
     /\ \A x \in S, y \in DueBy(z, t) \ S : z[x] <= z[y]}

\* The orders in which a loop over a range reply visits the members S of z.
ScoreOrders(z, S) ==
  {s \in Bijection(1..Cardinality(S), S) :
     \A a, b \in 1..Cardinality(S) : a < b => z[s[a]] <= z[s[b]]}
=============================================================================
