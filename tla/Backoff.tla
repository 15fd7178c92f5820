------------------------------ MODULE Backoff ------------------------------
(***************************************************************************)
(* Backoff of internal/cogs/loops.go, and its use in Store.Fail: the delay *)
(* before a failed job is retried.  A time.Duration is a signed integer of *)
(* Width bits that counts nanoseconds; the code's 64 bits, shift of 20 and *)
(* 10^6 ns are scaled down.                                                *)
(***************************************************************************)
EXTENDS Integers

CONSTANTS
  Width,        \* bits of a time.Duration
  MaxShift,     \* the cap on the shift
  Millisecond,  \* nanoseconds in one
  BackoffBase,  \* cfg.BackoffBase, in nanoseconds
  MaxBase       \* bound: the largest base the reference is checked for

ASSUME BackoffAssumption ==
  /\ Width \in Nat \ {0}
  /\ MaxShift \in Nat
  /\ Millisecond \in Nat \ {0}
  /\ BackoffBase \in Nat
  /\ MaxBase \in Nat

\* What is left of n in a signed integer of Width bits.
ToDuration(n) ==
  LET half == 2^(Width - 1)
  IN ((n + half) % (2 * half)) - half

\* Bug: the shift has no cap.
ShiftUncapped(attempt) == IF attempt < 0 THEN 0 ELSE attempt

\* The attempt, clamped to 0 and to the cap.
ShiftOf(attempt) ==
  IF attempt < 0 THEN 0
  ELSE IF attempt > MaxShift THEN MaxShift ELSE attempt

Nominal(base, attempt) == ToDuration(base * 2^ShiftOf(attempt))

\* Division that rounds towards zero, as Go's does.
Quotient(n, d) == IF n >= 0 THEN n \div d ELSE -((-n) \div d)

\* The milliseconds Fail may add to the clock: jitter takes the nominal delay
\* down to as little as half.  Float64 is below 1, but the sum of the jitter
\* may round to 1.
Delays(base, attempt) ==
  LET n == Nominal(base, attempt)
      half == Quotient(n, 2)
      ns == IF n >= 0 THEN half..n ELSE n..half
  IN {Quotient(d, Millisecond) : d \in ns}

\* The delays of any attempt a request may carry: all others are clamped to
\* one of these.
BackoffDelays == UNION {Delays(BackoffBase, attempt) : attempt \in 0..MaxShift}

-----------------------------------------------------------------------------
\* The attempt numbers the reference is checked for.
SomeAttempts == (-2)..(MaxShift + Width)

\* For each attempt, whether the code agrees with what Backoff's comment says,
\* in exact numbers: the delay is between half of base * 2^attempt, the attempt
\* capped, and all of it, up to the rounding to milliseconds; and no attempt
\* waits less than the attempt before it.  The base is any whose longest delay
\* fits a time.Duration.
InBand ==
  [attempt \in SomeAttempts |->
     \A base \in 0..MaxBase, shift \in 0..MaxShift :
       (\A s \in 0..MaxShift : s <= shift <=> s <= attempt \/ s = 0) =>
         \A ms \in Delays(base, attempt) :
           /\ base * 2^shift < 2 * Millisecond * (ms + 1)
           /\ Millisecond * ms <= base * 2^shift
           /\ attempt \in 0..(MaxShift - 1) =>
                \A longer \in Delays(base, attempt + 1) : ms <= longer]
=============================================================================
