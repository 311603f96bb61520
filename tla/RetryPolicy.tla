----------------------------- MODULE RetryPolicy -----------------------------
(***************************************************************************)
(* compute_retry_delay (src/aioq/retry.py): how long a failed job waits     *)
(* before its next attempt, in units of time.  Its power of two is an       *)
(* integer without a bound; the product with the delay, a float, is not.    *)
(***************************************************************************)
EXTENDS Integers

CONSTANT FloatExp   \* the least power of two that has no float: 1024

ASSUME FloatExpAssumption == FloatExp \in Nat

Smaller(x, y) == IF x <= y THEN x ELSE y

\* attempt is 1-based, and taken to be 1 if it is less.
Exponent(attempt) == IF attempt < 1 THEN 0 ELSE attempt - 1

\* Python raises OverflowError for the product, before min is asked.
Overflows(base, attempt, backoff) == base > 0 /\ backoff /\ Exponent(attempt) >= FloatExp

\* Mutation: no cap.
MutFullDelay(base, attempt, backoff, cap) ==
    IF base <= 0 THEN 0 ELSE IF backoff THEN base * 2^Exponent(attempt) ELSE base

\* The delay before any jitter.
FullDelay(base, attempt, backoff, cap) ==
    IF base <= 0 THEN 0
    ELSE IF backoff THEN Smaller(base * 2^Exponent(attempt), cap) ELSE base

\* "Full jitter": anything up to the full delay, if it grows.
RetryDelays(base, attempt, backoff, cap) ==
    LET full == FullDelay(base, attempt, backoff, cap)
    IN  IF base > 0 /\ backoff THEN 0 .. full ELSE {full}
===============================================================================
