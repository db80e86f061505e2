------------------------------ MODULE Backoff -------------------------------
(***************************************************************************)
(* backoffDuration (internal/controller): how long a failed job waits.  A  *)
(* time.Duration counts nanoseconds in a signed 64-bit word, here the set  *)
(* of its bits that are 1.                                                 *)
(***************************************************************************)
EXTENDS Integers

CONSTANT RetryCounts  \* the retry counters to compute waits for

ASSUME BackoffAssumption == RetryCounts \subseteq Nat

base == {9, 12, 13, 14, 15, 16, 18, 25, 27, 29, 32}                          \* 5s
maxBackoff == {11, 12, 14, 16, 17, 18, 22, 27, 28, 29, 30, 31, 32, 34, 35}   \* 60s

negative(d) == 63 \in d
greater(d, e) == \E i \in d \ e : \A j \in e \ d : j < i

\* base << k: what leaves the word is lost, and the sign bit may be set.
shl(k) == {i \in 0 .. 63 : i - k \in base}

\* Mutation: the cap is missed when the shift overflows.
backoffWraps(k) ==
  LET d == shl(k) IN IF ~ negative(d) /\ greater(d, maxBackoff) THEN maxBackoff ELSE d

backoffDuration(k) ==
  LET d == shl(k)
  IN  IF (~ negative(d) /\ greater(d, maxBackoff)) \/ negative(d) \/ d = {}
      THEN maxBackoff ELSE d

\* The retry counters at which the wait is between 5s and 60s and no longer
\* than the next one.
Sane(k) ==
  LET d == backoffDuration(k)
  IN  /\ ~ negative(d) /\ ~ greater(base, d) /\ ~ greater(d, maxBackoff)
      /\ ~ greater(d, backoffDuration(k + 1))
SaneCounts == {k \in RetryCounts : Sane(k)}
=============================================================================
