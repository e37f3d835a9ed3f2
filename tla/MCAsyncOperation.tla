-------------------------- MODULE MCAsyncOperation --------------------------
(***************************************************************************)
(* AsyncOperation for TLC: a few combinations of policies, chosen so that  *)
(* retries, rate-limit waits, validation and a two-candidate fallback      *)
(* chain meet in one run.                                                  *)
(***************************************************************************)
EXTENDS AsyncOperation

Everything == [
  retry |-> TRUE, maxAttempts |-> 2, retryOn |-> {"error", "timeout", "open"},
  rateLimit |-> TRUE, validation |-> TRUE,
  candidates |-> 2, fallbackOn |-> Classes, sinks |-> 2,
  raises |-> Classes \ {"extraction"},
  candidateRaises |-> {"error", "invalid", "timeout"}]

MCConfigs == {
  Everything,
  \* A chain that goes on after invalid results only.
  [Everything EXCEPT !.fallbackOn = {"invalid", "extraction"}],
  \* One attempt, no retry policy.
  [Everything EXCEPT !.retry = FALSE, !.maxAttempts = 1],
  \* A long run without a fallback, and with three sinks.
  [Everything EXCEPT !.maxAttempts = 3, !.candidates = 0, !.sinks = 3],
  \* Invalid results are retried, and rate limits are ordinary failures.
  [Everything EXCEPT !.retryOn = Classes, !.rateLimit = FALSE, !.candidates = 1],
  \* Nothing is validated, and nobody listens.
  [Everything EXCEPT !.validation = FALSE, !.sinks = 0, !.raises = @ \ {"invalid"},
                     !.candidateRaises = {"error"}]}
=============================================================================
