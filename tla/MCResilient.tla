----------------------------- MODULE MCResilient -----------------------------
(***************************************************************************)
(* Resilient for TLC.  The trial programs decorate nothing: they are there *)
(* to put every combination of one option group, and some of two, before   *)
(* resilient().  The others are called by tasks and share one breaker.     *)
(***************************************************************************)
EXTENDS Resilient, TLC

CONSTANTS d1, d2, f1, f2, shared

\* Numbers of every type, with the boundaries, and no number at all.
Numbers ==
  {None, Number("bool", 1), Number("other", 0), Number("nonfinite", 0), Number("huge", 99),
   Number("huge", -99), TimeoutPolicy(5)}
    \cup {Number(t, n) : t \in {"int", "float"}, n \in {-1, 0, 2}}
Tuples == {None, [type |-> "other"], [type |-> "bad"], Tuple({}), Tuple({"limited"})}
Maybe(x) == {None, x}

RetryTrials ==
  {[NoOptions EXCEPT !.retries = n, !.retryOn = t, !.retry = p] :
     n \in Numbers, t \in Tuples, p \in Maybe(RetryPolicy(2, Errors))}
IdempotencyTrials ==
  {[NoOptions EXCEPT !.idempotencyTTL = n, !.idempotencyKey = k, !.idempotencyStore = s,
                     !.idempotency = p] :
     n \in Numbers, k \in Maybe(Callable), s \in Maybe(StoreObject(shared)),
     p \in Maybe(IdempotencyPolicy(shared, 2))}
RateLimitTrials ==
  {[NoOptions EXCEPT !.maxRateLimitWait = n, !.rateLimitOn = t, !.retryAfter = r,
                     !.rateLimit = p] :
     n \in Numbers, t \in Tuples, r \in Maybe(Callable),
     p \in Maybe(RateLimitPolicy({"limited"}, 60))}
OtherTrials ==
  {[NoOptions EXCEPT !.timeout = n, !.fallback = f, !.fallbacks = c, !.name = t] :
     n \in Numbers, f \in Maybe(Callable),
     c \in Maybe(FallbackChain(Errors)), t \in {None, Text(TRUE), Text(FALSE)}}

Trials ==
  {[options |-> (d1 :> o @@ d2 :> NoOptions),
    decorates |-> (f1 :> NoDecorator @@ f2 :> NoDecorator)] :
     o \in RetryTrials \cup IdempotencyTrials \cup RateLimitTrials \cup OtherTrials}

Both == f1 :> d1 @@ f2 :> d2
Keyed == [NoOptions EXCEPT !.retries = Number("int", 1), !.circuitBreaker = Breaker,
                           !.idempotencyKey = Callable, !.events = Emitter]

\* Default stores; f2 waits for rate limits and falls back.
DefaultStores ==
  [options |-> (d1 :> Keyed @@
     d2 :> [Keyed EXCEPT !.fallback = Callable, !.rateLimitOn = Tuple({"limited"})]),
   decorates |-> Both]

\* One store for both, with policies instead of simple options.
SharedStore ==
  [options |-> (d1 :> [Keyed EXCEPT !.idempotencyStore = StoreObject(shared)] @@
     d2 :> [NoOptions EXCEPT !.retry = RetryPolicy(3, {"open"}), !.circuitBreaker = Breaker,
              !.idempotency = IdempotencyPolicy(shared, 1), !.timeout = Number("float", 5)]),
   decorates |-> Both]

\* f2 has no key, and its failures are retried at once.
PlainAndKeyed ==
  [options |-> (d1 :> Keyed @@ d2 :> [NoOptions EXCEPT !.retries = Number("int", 2),
                                         !.circuitBreaker = Breaker]),
   decorates |-> Both]

\* One decorator for two functions, as resilient() returns it.
OneDecorator ==
  [options |-> (d1 :> Keyed @@ d2 :> NoOptions), decorates |-> (f1 :> d1 @@ f2 :> d1)]

MCPrograms == Trials \cup {DefaultStores, SharedStore, PlainAndKeyed, OneDecorator}
OneProgram == {OneDecorator}
=============================================================================
