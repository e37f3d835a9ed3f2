--------------------------- MODULE ResilientOptions ---------------------------
(***************************************************************************)
(* The keyword arguments of relprim.resilient() and the configuration they *)
(* become: which combinations and values are refused, in the order of the  *)
(* code's checks, and which policies the accepted ones stand for.          *)
(*                                                                         *)
(* An argument is None or a value with its Python type.  A number carries  *)
(* its value as n; "nonfinite" is a float nan or inf, "huge" an int that   *)
(* no float can hold, "other" a value of any further type.  A tuple of     *)
(* exception types is the set of the classes of Errors it matches, "bad"   *)
(* a tuple with a member that is no Exception subclass.                    *)
(***************************************************************************)
EXTENDS Integers, Sequences

CONSTANTS
  DefaultTTL,      \* 3600 seconds, in the unit of the clocks
  DefaultMaxWait   \* 60 seconds, in that unit

\* The exceptions of an attempt, by what the policies tell apart: "limited"
\* ones come from an overloaded provider, "open" is CircuitBreakerOpenError.
Errors == {"error", "limited", "open"}

None == [type |-> "none"]
Given(x) == x.type # "none"

Number(type, n) == [type |-> type, n |-> n]
Tuple(on) == [type |-> "tuple", on |-> on]
RetryPolicy(max, on) == [type |-> "policy", maxAttempts |-> max, retryOn |-> on]
TimeoutPolicy(s) == [type |-> "policy", seconds |-> s]
FallbackChain(on) == [type |-> "chain", fallbackOn |-> on]
StoreObject(s) == [type |-> "store", id |-> s]
IdempotencyPolicy(s, ttl) == [type |-> "policy", store |-> s, ttl |-> ttl]
RateLimitPolicy(on, wait) == [type |-> "policy", limitOn |-> on, maxWait |-> wait]
Callable == [type |-> "callable"]
Breaker == [type |-> "breaker"]
Emitter == [type |-> "emitter"]
Text(blank) == [type |-> "str", blank |-> blank]

\* resilient() without arguments.
NoOptions == [
  name |-> None, events |-> None, circuitBreaker |-> None,
  retries |-> None, retryOn |-> None, retry |-> None,
  timeout |-> None, fallback |-> None, fallbacks |-> None,
  idempotency |-> None, idempotencyKey |-> None,
  idempotencyStore |-> None, idempotencyTTL |-> None,
  rateLimit |-> None, rateLimitOn |-> None, retryAfter |-> None,
  maxRateLimitWait |-> None ]

-----------------------------------------------------------------------------
(* The checks, each the exceptions it would raise, in order                *)

Raise(condition, error) == IF condition THEN <<error>> ELSE <<>>

\* check_seconds(); math.isfinite() itself fails on an int beyond a float.
CheckSeconds(x, allowZero) ==
     Raise(x.type \notin {"int", "float", "nonfinite", "huge"}, "TypeError")
  \o Raise(x.type = "huge", "OverflowError")
  \o Raise(x.type = "nonfinite", "ValueError")
  \o Raise(x.type \in {"int", "float"} /\ (x.n < 0 \/ (x.n = 0 /\ ~allowZero)), "ValueError")

\* check_exception_types()
CheckExceptionTypes(x) ==
     Raise(x.type \notin {"tuple", "bad"}, "TypeError")
  \o Raise(x.type = "tuple" /\ x.on = {}, "ValueError")
  \o Raise(x.type = "bad", "TypeError")

CheckRetries(o) ==
     Raise(o.retries.type # "int" /\ o.retries.type # "huge", "TypeError")
  \o Raise(o.retries.type \in {"int", "huge"} /\ o.retries.n < 0, "ValueError")
  \o IF Given(o.retryOn) THEN CheckExceptionTypes(o.retryOn) ELSE <<>>

RetryErrors(o) ==
     Raise(Given(o.retry) /\ (Given(o.retries) \/ Given(o.retryOn)), "ValueError")
  \o Raise(~Given(o.retry) /\ ~Given(o.retries) /\ Given(o.retryOn), "ValueError")
  \o IF Given(o.retries) THEN CheckRetries(o) ELSE <<>>

TimeoutErrors(o) ==
  IF o.timeout.type \in {"none", "policy"} THEN <<>> ELSE CheckSeconds(o.timeout, FALSE)

FallbackErrors(o) == Raise(Given(o.fallback) /\ Given(o.fallbacks), "ValueError")

SimpleIdempotency(o) ==
  Given(o.idempotencyKey) \/ Given(o.idempotencyStore) \/ Given(o.idempotencyTTL)

IdempotencyErrors(o) ==
     Raise(SimpleIdempotency(o) /\ (Given(o.idempotency) \/ ~Given(o.idempotencyKey)),
           "ValueError")
  \o IF Given(o.idempotencyTTL) THEN CheckSeconds(o.idempotencyTTL, FALSE) ELSE <<>>

SimpleRateLimit(o) ==
  Given(o.rateLimitOn) \/ Given(o.retryAfter) \/ Given(o.maxRateLimitWait)

\* Fault: a maximum wait without rate_limit_on is not noticed.
FaultRateLimitErrors(o) ==
     Raise(SimpleRateLimit(o) /\ Given(o.rateLimit), "ValueError")
  \o Raise(Given(o.retryAfter) /\ ~Given(o.rateLimitOn), "ValueError")
  \o (IF Given(o.maxRateLimitWait) THEN CheckSeconds(o.maxRateLimitWait, TRUE) ELSE <<>>)
  \o (IF Given(o.rateLimitOn) THEN CheckExceptionTypes(o.rateLimitOn) ELSE <<>>)

\* The wait is checked first, then RateLimitPolicy checks the types.
RateLimitErrors(o) ==
     Raise(SimpleRateLimit(o) /\ (Given(o.rateLimit) \/ ~Given(o.rateLimitOn)), "ValueError")
  \o (IF Given(o.maxRateLimitWait) THEN CheckSeconds(o.maxRateLimitWait, TRUE) ELSE <<>>)
  \o (IF Given(o.rateLimitOn) THEN CheckExceptionTypes(o.rateLimitOn) ELSE <<>>)

\* What resilient() would raise; it raises the first.
OptionErrors(o) ==
     Raise(Given(o.name) /\ o.name.blank, "ValueError")
  \o RetryErrors(o) \o TimeoutErrors(o) \o FallbackErrors(o)
  \o IdempotencyErrors(o) \o RateLimitErrors(o)

-----------------------------------------------------------------------------
(* The policies of accepted arguments                                      *)

\* Fault: retries is taken for the number of attempts.
FaultResolvedRetry(o) ==
  IF Given(o.retry) THEN o.retry
  ELSE IF ~Given(o.retries) \/ o.retries.n = 0 THEN None
  ELSE RetryPolicy(o.retries.n, IF Given(o.retryOn) THEN o.retryOn.on ELSE Errors)

\* _retry_policy_from(): a policy, or None
ResolvedRetry(o) ==
  IF Given(o.retry) THEN o.retry
  ELSE IF ~Given(o.retries) \/ o.retries.n = 0 THEN None
  ELSE RetryPolicy(o.retries.n + 1, IF Given(o.retryOn) THEN o.retryOn.on ELSE Errors)

ResolvedTimeout(o) ==
  IF o.timeout.type \in {"none", "policy"} THEN o.timeout ELSE TimeoutPolicy(o.timeout.n)

\* FallbackChain.from_operations() takes the default FallbackPolicy.
ResolvedFallback(o) == IF Given(o.fallback) THEN FallbackChain(Errors) ELSE o.fallbacks

\* own: the InMemoryIdempotencyStore that idempotency_policy() creates when
\* it gets none, here within the call of resilient().
ResolvedIdempotency(o, own) ==
  IF ~Given(o.idempotencyKey) THEN o.idempotency
  ELSE IdempotencyPolicy(
         IF Given(o.idempotencyStore) THEN o.idempotencyStore.id ELSE own,
         IF Given(o.idempotencyTTL) THEN o.idempotencyTTL.n ELSE DefaultTTL)

ResolvedRateLimit(o) ==
  IF ~Given(o.rateLimitOn) THEN o.rateLimit
  ELSE RateLimitPolicy(o.rateLimitOn.on,
         IF Given(o.maxRateLimitWait) THEN o.maxRateLimitWait.n ELSE DefaultMaxWait)

Resolved(o, own) == [
  retry |-> ResolvedRetry(o), timeout |-> ResolvedTimeout(o),
  fallback |-> ResolvedFallback(o), idempotency |-> ResolvedIdempotency(o, own),
  rateLimit |-> ResolvedRateLimit(o), breaker |-> o.circuitBreaker,
  events |-> o.events ]
=============================================================================
