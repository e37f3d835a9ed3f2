---------------------------- MODULE MCTimedRetry ----------------------------
(***************************************************************************)
(* TimedRetry for TLC: every nesting of the two deadlines, four attempts,  *)
(* two cancellations by others, and backoffs that reach their cap,         *)
(* overflow beyond it or short of it, and have a base delay of 0.          *)
(***************************************************************************)
EXTENDS TimedRetry

Backoff(base, max, multiplier, jitter) ==
  [base |-> base, max |-> max, multiplier |-> multiplier, jitter |-> jitter]

MCBackoffs == {
  Backoff(1, 3, 2, FALSE),  \* 1, 2, 3
  Backoff(1, 4, 5, FALSE),  \* overflows at the third delay
  Backoff(1, 40, 5, FALSE), \* the same, with a product short of the cap
  Backoff(0, 2, 5, TRUE)}   \* the same from a base of 0

\* The operation's own TimeoutError is retried, or leaves the loop.
MCLayouts ==
  {[total |-> t, each |-> e, sync |-> FALSE, retryOn |-> r] :
     t \in BOOLEAN, e \in BOOLEAN,
     r \in {{"error", "each_expired"}, {"error", "timeout"}}}
  \cup
  {[total |-> FALSE, each |-> FALSE, sync |-> TRUE, retryOn |-> {"error", "timeout"}]}
=============================================================================
