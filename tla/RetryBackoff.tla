---------------------------- MODULE RetryBackoff ----------------------------
(***************************************************************************)
(* The job store with the delays that Backoff computes: Store.Fail calls   *)
(* Backoff with the attempt of the worker's request, and adds the delay to *)
(* the clock for the score of the retry.                                   *)
(***************************************************************************)
EXTENDS JobStore, Backoff

\* The delays Fail may add: the store is instantiated with them.
RetryDelays == BackoffDelays

\* The delay of a failure comes from the attempt number in the worker's request,
\* which nobody compares with the job's: a worker may be stale, or send anything.
\* Whatever it sends, Backoff keeps the delay within its band, for every base that
\* fits; and no job in retry is ever further from being due than the longest delay,
\* by the fastest clock that may have failed it.
BackoffInBand ==
  /\ \A sent \in SomeAttempts : InBand[sent]
  /\ \A q \in Queue : \A j \in DOMAIN retry[q] :
       Millisecond * retry[q][j]
         <= Millisecond * (now + MaxSkew) + BackoffBase * 2^MaxShift
=============================================================================
