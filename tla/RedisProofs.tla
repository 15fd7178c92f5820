---------------------------- MODULE RedisProofs ----------------------------
(***************************************************************************)
(* What a Redis command does to the SET of members of a structure: the     *)
(* lemmas that let the proofs about jobs and schedules reason about sets   *)
(* and never about positions in a list.                                    *)
(***************************************************************************)
EXTENDS Redis, SequenceTheorems, FiniteSetTheorems, TLAPS

\* ZADD keeps a sorted set a sorted set and adds exactly the given members.
LEMMA ZAddView ==
  ASSUME NEW M, NEW z, IsZSet(z, M), NEW score \in Nat, NEW S \in SUBSET M
  PROVE  /\ IsZSet(ZAdd(z, score, S), M)
         /\ DOMAIN ZAdd(z, score, S) = DOMAIN z \cup S
BY DEF IsZSet, ZAdd

\* ZREM keeps a sorted set a sorted set and removes exactly the given members.
LEMMA ZRemView ==
  ASSUME NEW M, NEW z, IsZSet(z, M), NEW S
  PROVE  /\ IsZSet(ZRem(z, S), M)
         /\ DOMAIN ZRem(z, S) = DOMAIN z \ S
BY DEF IsZSet, ZRem

\* A range read returns members only.
LEMMA LowestDueView ==
  ASSUME NEW z, NEW t, NEW limit, NEW S \in LowestDue(z, t, limit)
  PROVE  S \subseteq DOMAIN z
BY DEF LowestDue, DueBy

\* The loop over a range reply visits every member once.
LEMMA ScoreOrdersView ==
  ASSUME NEW z, NEW S, IsFiniteSet(S), NEW s \in ScoreOrders(z, S)
  PROVE  /\ s \in Seq(S)
         /\ Range(s) = S
         /\ IsInjective(s)
<1>1. Cardinality(S) \in Nat
  BY FS_CardinalityType
<1>2. /\ s \in [1..Cardinality(S) -> S]
      /\ \A a, b \in 1..Cardinality(S) : s[a] = s[b] => a = b
      /\ \A y \in S : \E a \in 1..Cardinality(S) : s[a] = y
  BY DEF ScoreOrders, Bijection, Injection, Surjection, IsInjective
<1>3. s \in Seq(S)
  BY <1>1, <1>2, SeqDef
<1>4. DOMAIN s = 1..Cardinality(S)
  BY <1>2
<1> QED
  BY <1>2, <1>3, <1>4 DEF Range, IsInjective

\* A function made of two injective halves with no common value is injective.
LEMMA HalvesInjective ==
  ASSUME NEW m \in Nat, NEW n \in Nat, NEW c, NEW s, NEW t,
         \A i \in 1..(m + n) : c[i] = IF i <= m THEN s[i] ELSE t[i - m],
         \A i, k \in 1..m : s[i] = s[k] => i = k,
         \A i, k \in 1..n : t[i] = t[k] => i = k,
         \A i \in 1..m, k \in 1..n : s[i] # t[k]
  PROVE  \A i, k \in 1..(m + n) : c[i] = c[k] => i = k
<1> SUFFICES ASSUME NEW i \in 1..(m + n), NEW k \in 1..(m + n), c[i] = c[k]
             PROVE  i = k
  OBVIOUS
<1>1. CASE i <= m /\ k <= m
  BY <1>1
<1>2. CASE i <= m /\ k > m
  <2>1. k - m \in 1..n /\ c[k] = t[k - m] /\ i \in 1..m /\ c[i] = s[i]
    BY <1>2
  <2> QED
    BY <2>1
<1>3. CASE i > m /\ k <= m
  <2>1. i - m \in 1..n /\ c[i] = t[i - m] /\ k \in 1..m /\ c[k] = s[k]
    BY <1>3
  <2> QED
    BY <2>1
<1>4. CASE i > m /\ k > m
  <2>1. /\ i - m \in 1..n /\ c[i] = t[i - m]
        /\ k - m \in 1..n /\ c[k] = t[k - m]
    BY <1>4
  <2>2. i - m = k - m
    BY <2>1
  <2> QED
    BY <2>2
<1> QED
  BY <1>1, <1>2, <1>3, <1>4

\* LPUSH adds its ID, and repeats nothing if the ID was not there.
LEMMA AppendView ==
  ASSUME NEW S, NEW s \in Seq(S), NEW e \in S
  PROVE  /\ Append(s, e) \in Seq(S)
         /\ Range(Append(s, e)) = Range(s) \cup {e}
         /\ (IsInjective(s) /\ e \notin Range(s)) => IsInjective(Append(s, e))
<1> DEFINE a == Append(s, e)
<1>1. /\ a \in Seq(S)
      /\ DOMAIN s = 1..Len(s)
      /\ DOMAIN a = 1..(Len(s) + 1)
      /\ \A i \in 1..Len(s) : a[i] = s[i]
      /\ a[Len(s) + 1] = e
      /\ Len(s) \in Nat
  BY AppendProperties, LenProperties
<1>2. Range(a) = Range(s) \cup {e}
  <2>1. Range(a) \subseteq Range(s) \cup {e}
    BY <1>1, SMT DEF Range
  <2>2. Range(s) \subseteq Range(a)
    BY <1>1, SMT DEF Range
  <2>3. e \in Range(a)
    BY <1>1, SMT DEF Range
  <2> QED
    BY <2>1, <2>2, <2>3
<1>3. ASSUME IsInjective(s), e \notin Range(s)
      PROVE  IsInjective(a)
  BY <1>1, <1>3, SMT DEF IsInjective, Range
<1> QED
  BY <1>1, <1>2, <1>3

\* Pushing several IDs adds exactly those, and repeats nothing if they were
\* distinct and not there.
LEMMA ConcatView ==
  ASSUME NEW S, NEW s \in Seq(S), NEW t \in Seq(S)
  PROVE  /\ s \o t \in Seq(S)
         /\ Range(s \o t) = Range(s) \cup Range(t)
         /\ (IsInjective(s) /\ IsInjective(t) /\ Range(s) \cap Range(t) = {})
              => IsInjective(s \o t)
<1> DEFINE c == s \o t
<1>1. /\ c \in Seq(S)
      /\ DOMAIN s = 1..Len(s)
      /\ DOMAIN t = 1..Len(t)
      /\ DOMAIN c = 1..(Len(s) + Len(t))
      /\ \A i \in 1..(Len(s) + Len(t)) :
           c[i] = IF i <= Len(s) THEN s[i] ELSE t[i - Len(s)]
      /\ Len(s) \in Nat /\ Len(t) \in Nat
  BY ConcatProperties, LenProperties
<1>2. Range(c) = Range(s) \cup Range(t)
  BY RangeConcatenation
<1>3. ASSUME IsInjective(s), IsInjective(t), Range(s) \cap Range(t) = {}
      PROVE  IsInjective(c)
  <2>1. \A m \in 1..Len(s), n \in 1..Len(t) : s[m] # t[n]
    BY <1>1, <1>3 DEF Range
  <2>2. /\ \A m, n \in 1..Len(s) : s[m] = s[n] => m = n
        /\ \A m, n \in 1..Len(t) : t[m] = t[n] => m = n
    BY <1>1, <1>3 DEF IsInjective
  <2>3. \A i, k \in 1..(Len(s) + Len(t)) : c[i] = c[k] => i = k
    <3> DEFINE m == Len(s)
               n == Len(t)
    <3>1. /\ m \in Nat /\ n \in Nat
          /\ \A i \in 1..(m + n) : c[i] = IF i <= m THEN s[i] ELSE t[i - m]
          /\ \A i, k \in 1..m : s[i] = s[k] => i = k
          /\ \A i, k \in 1..n : t[i] = t[k] => i = k
          /\ \A i \in 1..m, k \in 1..n : s[i] # t[k]
      BY <1>1, <2>1, <2>2
    <3> HIDE DEF c, m, n
    <3>2. \A i, k \in 1..(m + n) : c[i] = c[k] => i = k
      BY <3>1, HalvesInjective
    <3> QED
      BY <3>2 DEF m, n
  <2> QED
    BY <1>1, <2>3 DEF IsInjective
<1> QED
  BY <1>1, <1>2, <1>3

\* RPOPs split a list in two: where its elements go.
LEMMA SplitPositions ==
  ASSUME NEW S, NEW s \in Seq(S), NEW m \in 0..Len(s)
  PROVE  LET front == SubSeq(s, 1, m)
             back == SubSeq(s, m + 1, Len(s))
         IN /\ front \in Seq(S) /\ Len(front) = m
            /\ \A i \in 1..m : front[i] = s[i]
            /\ back \in Seq(S) /\ Len(back) = Len(s) - m
            /\ \A i \in 1..(Len(s) - m) : back[i] = s[m + i]
<1> DEFINE front == SubSeq(s, 1, m)
           back == SubSeq(s, m + 1, Len(s))
<1>0. Len(s) \in Nat /\ DOMAIN s = 1..Len(s)
  BY LenProperties
<1>1. /\ front \in Seq(S) /\ Len(front) = m
      /\ \A i \in 1..m : front[i] = s[i]
  <2>1. 1 \in Int /\ m \in Int /\ \A i \in 1..m : s[i] \in S
    BY <1>0, ElementOfSeq
  <2>2. /\ front \in Seq(S)
        /\ Len(front) = IF 1 <= m THEN m - 1 + 1 ELSE 0
        /\ \A i \in 1..(m - 1 + 1) : front[i] = s[1 + i - 1]
    BY <2>1, SubSeqProperties
  <2> HIDE DEF front
  <2>3. m - 1 + 1 = m /\ \A i \in 1..m : 1 + i - 1 = i
    OBVIOUS
  <2> QED
    BY <2>2, <2>3, <1>0
<1>2. /\ back \in Seq(S) /\ Len(back) = Len(s) - m
      /\ \A i \in 1..(Len(s) - m) : back[i] = s[m + i]
  <2>1. m + 1 \in Int /\ Len(s) \in Int /\ \A i \in (m + 1)..Len(s) : s[i] \in S
    BY <1>0, ElementOfSeq
  <2>2. /\ back \in Seq(S)
        /\ Len(back) = IF m + 1 <= Len(s) THEN Len(s) - (m + 1) + 1 ELSE 0
        /\ \A i \in 1..(Len(s) - (m + 1) + 1) : back[i] = s[m + 1 + i - 1]
    BY <2>1, SubSeqProperties
  <2> DEFINE n == Len(s)
  <2>3. /\ n \in Nat /\ m \in 0..n
        /\ Len(back) = IF m + 1 <= n THEN n - (m + 1) + 1 ELSE 0
        /\ \A i \in 1..(n - (m + 1) + 1) : back[i] = s[m + 1 + i - 1]
    BY <1>0, <2>2
  <2> HIDE DEF back, n
  <2>4. /\ Len(back) = n - m
        /\ \A i \in 1..(n - m) : back[i] = s[m + i]
    BY <2>3
  <2> QED
    BY <2>2, <2>4 DEF n
<1> QED
  BY <1>1, <1>2

\* RPOPs split a list in two, with nothing in both halves if nothing repeats.
LEMMA SplitView ==
  ASSUME NEW S, NEW s \in Seq(S), NEW m \in 0..Len(s), IsInjective(s)
  PROVE  LET front == SubSeq(s, 1, m)
             back == SubSeq(s, m + 1, Len(s))
         IN /\ front \in Seq(S) /\ back \in Seq(S)
            /\ IsInjective(back)
            /\ Range(back) = Range(s) \ Range(front)
            /\ Range(front) \subseteq Range(s)
<1> DEFINE front == SubSeq(s, 1, m)
           back == SubSeq(s, m + 1, Len(s))
<1>0. Len(s) \in Nat /\ DOMAIN s = 1..Len(s)
  BY LenProperties
<1>1. /\ front \in Seq(S) /\ Len(front) = m
      /\ \A i \in 1..m : front[i] = s[i]
  BY SplitPositions
<1>2. /\ back \in Seq(S) /\ Len(back) = Len(s) - m
      /\ \A i \in 1..(Len(s) - m) : back[i] = s[m + i]
  BY SplitPositions
<1>3. DOMAIN front = 1..m /\ DOMAIN back = 1..(Len(s) - m)
  BY <1>1, <1>2, LenProperties
<1> HIDE DEF front, back
<1>4. IsInjective(back)
  <2> SUFFICES ASSUME NEW i \in 1..(Len(s) - m), NEW k \in 1..(Len(s) - m),
                      back[i] = back[k]
               PROVE  i = k
    BY <1>3 DEF IsInjective
  <2>1. m + i \in 1..Len(s) /\ m + k \in 1..Len(s) /\ s[m + i] = s[m + k]
    BY <1>0, <1>2
  <2>2. m + i = m + k
    BY <1>0, <2>1 DEF IsInjective
  <2> QED
    BY <1>0, <2>2
<1>5. Range(front) \subseteq Range(s)
  BY <1>0, <1>1, <1>3, SMT DEF Range
<1>6. Range(back) \subseteq Range(s) \ Range(front)
  <2> SUFFICES ASSUME NEW i \in DOMAIN back
               PROVE  back[i] \in Range(s) /\ back[i] \notin Range(front)
    BY DEF Range
  <2>1. m + i \in 1..Len(s) /\ back[i] = s[m + i] /\ m + i > m
    BY <1>0, <1>2, <1>3, SMT
  <2>2. \A k \in 1..m : front[k] # back[i]
    BY <1>0, <1>1, <2>1, SMT DEF IsInjective
  <2> QED
    BY <1>0, <1>3, <2>1, <2>2 DEF Range
<1>7. Range(s) \ Range(front) \subseteq Range(back)
  <2> SUFFICES ASSUME NEW i \in 1..Len(s), s[i] \notin Range(front)
               PROVE  s[i] \in Range(back)
    BY <1>0 DEF Range
  <2>1. i > m
    BY <1>0, <1>1, <1>3, SMT DEF Range
  <2>2. i - m \in 1..(Len(s) - m) /\ back[i - m] = s[i]
    BY <1>0, <1>2, <2>1, SMT
  <2> QED
    BY <1>3, <2>2 DEF Range
<1> QED
  BY <1>1, <1>2, <1>4, <1>5, <1>6, <1>7 DEF front, back

\* A loop over a reply takes its members one by one.
LEMMA TailView ==
  ASSUME NEW S, NEW s \in Seq(S), s # <<>>, IsInjective(s)
  PROVE  /\ Tail(s) \in Seq(S) /\ IsInjective(Tail(s))
         /\ Head(s) \in S
         /\ Range(s) = {Head(s)} \cup Range(Tail(s))
         /\ Head(s) \notin Range(Tail(s))
<1>1. /\ Len(s) \in Nat \ {0} /\ DOMAIN s = 1..Len(s)
      /\ \A i \in 1..Len(s) : s[i] \in S
  BY LenProperties, EmptySeq, ElementOfSeq
<1>2. /\ Tail(s) \in Seq(S) /\ Len(Tail(s)) = Len(s) - 1
      /\ \A i \in 1..Len(Tail(s)) : Tail(s)[i] = s[i + 1]
      /\ Head(s) = s[1]
  BY HeadTailProperties
<1>3. DOMAIN Tail(s) = 1..(Len(s) - 1)
  BY <1>2, LenProperties
<1> DEFINE t == Tail(s)
           n == Len(s)
<1>4. /\ n \in Nat \ {0} /\ DOMAIN s = 1..n /\ DOMAIN t = 1..(n - 1)
      /\ \A i \in 1..(n - 1) : t[i] = s[i + 1]
  BY <1>1, <1>2, <1>3
<1> HIDE DEF t, n
<1>5. IsInjective(t)
  <2> SUFFICES ASSUME NEW i \in 1..(n - 1), NEW k \in 1..(n - 1), t[i] = t[k]
               PROVE  i = k
    BY <1>4 DEF IsInjective
  <2>1. i + 1 \in 1..n /\ k + 1 \in 1..n /\ s[i + 1] = s[k + 1]
    BY <1>4
  <2>2. i + 1 = k + 1
    BY <1>4, <2>1 DEF IsInjective
  <2> QED
    BY <2>2
<1>6. s[1] \notin Range(t)
  <2> SUFFICES ASSUME NEW i \in 1..(n - 1), t[i] = s[1] PROVE FALSE
    BY <1>4 DEF Range
  <2>1. i + 1 \in 1..n /\ 1 \in 1..n /\ s[i + 1] = s[1] /\ i + 1 # 1
    BY <1>4
  <2> QED
    BY <1>4, <2>1 DEF IsInjective
<1>7. Range(s) \subseteq {s[1]} \cup Range(t)
  <2> SUFFICES ASSUME NEW i \in 1..n, i # 1 PROVE s[i] \in Range(t)
    BY <1>4 DEF Range
  <2>1. i - 1 \in 1..(n - 1) /\ t[i - 1] = s[i]
    BY <1>4
  <2> QED
    BY <1>4, <2>1 DEF Range
<1>8. {s[1]} \cup Range(t) \subseteq Range(s)
  <2>1. 1 \in 1..n /\ \A i \in 1..(n - 1) : i + 1 \in 1..n
    BY <1>4
  <2> QED
    BY <1>4, <2>1 DEF Range
<1> QED
  BY <1>1, <1>2, <1>5, <1>6, <1>7, <1>8 DEF t
=============================================================================
