--------------------------- MODULE AsyncOperation ---------------------------
(***************************************************************************)
(* relprim.AsyncOperation: one run() without idempotency, from             *)
(* operation.started to the returned OperationResult or the raised error.  *)
(*                                                                         *)
(* run() is straight-line code between awaits, and nearly every line of it *)
(* awaits a sink: an event may be delivered, refused (the sink raises) or  *)
(* interrupted (the task is cancelled).  So the state holds the rest of    *)
(* the run, `todo`: the awaits still ahead on the path taken, with the     *)
(* records appended and the ends reached between them.  The outcome of an  *)
(* awaited operation or candidate decides what comes next.                 *)
(*                                                                         *)
(* The breaker, the timeout and the validators act inside an attempt; here *)
(* they are the classes of exception an attempt may end with.  An emitter  *)
(* awaits its sinks one after the other.                                   *)
(***************************************************************************)
EXTENDS Naturals, FiniteSets, Sequences, SequencesExt

CONSTANTS Configs   \* the policies of the operation: see ConfigType

\* Classes of exceptions: "limited" ones match rate_limit_on, and
\* "extraction" is RetryAfterExtractionError.
Classes == {"error", "timeout", "invalid", "open", "limited", "extraction"}

\* The delay for a rate-limited failure: the provider's hint, within the
\* maximum wait ("short"), beyond it ("long"), unusable ("bad"), or an int
\* too large for float() ("huge"); without a hint the backoff delay, within
\* the maximum wait ("none") or beyond it ("slow").
Hints == {"none", "slow", "short", "long", "bad", "huge"}

ConfigType == [
  retry : BOOLEAN,               \* _retry_policy is not None
  maxAttempts : Nat \ {0},       \* 1 without a retry policy
  retryOn : SUBSET Classes,      \* retry_on
  rateLimit : BOOLEAN,           \* _rate_limit_policy is not None
  validation : BOOLEAN,          \* _validation_policy is not None
  candidates : Nat,              \* of the fallback chain; 0 without one
  fallbackOn : SUBSET Classes,   \* fallback_on
  sinks : Nat,                   \* of the event emitter; 0 without one
  raises : SUBSET Classes,       \* what an attempt may raise
  candidateRaises : SUBSET Classes ]

ASSUME ConfigAssumption ==
  \A g \in Configs :
    /\ g \in ConfigType
    /\ ~g.retry => g.maxAttempts = 1
    /\ "extraction" \notin g.raises \cup g.candidateRaises

VARIABLES
  cfg,        \* the operation's configuration
  todo,       \* the rest of the run on the path taken so far
  attempts,   \* the ExecutionAttempts recorded so far
  failures,   \* the failures of the fallback candidates tried so far
  limits,     \* rate_limit_encountered, _wait_exceeded, and the number of
              \* delays in _wait_seconds
  result,     \* how run() ended, with the report if it made one
  sink,       \* the next sink of the event at hand
  received,   \* the events each sink has stored
  accepted,   \* history: an attempt or a candidate returned a valid result
  invalid     \* history: results that failed validation

vars == <<cfg, todo, attempts, failures, limits, result, sink, received, accepted, invalid>>
emitter == <<sink, received>>

-----------------------------------------------------------------------------
(* The items of todo                                                       *)

Ev(type, n) == [type |-> type, n |-> n]
Scheduled(n, limited) == [type |-> "retry.scheduled", n |-> n, limited |-> limited]
Sleep(n, limited) == [type |-> "sleep", n |-> n, limited |-> limited]
CallAttempt(n) == [type |-> "call", n |-> n]
Candidate(i) == [type |-> "candidate", n |-> i]
Record(a) == [type |-> "append", attempt |-> a]
Stop(kind) == [type |-> kind]

Awaits == {"sleep", "call", "candidate"}
Ends == {"returned", "failed"}

\* The metadata of an attempt: the verdict on its result ("none" without
\* one) and the flags circuit_breaker_open, rate_limited and
\* rate_limit_wait_exceeded.
Meta(verdict, flags) == [verdict |-> verdict, flags |-> flags]

Attempt(n, status, retryable, fallback, meta) ==
  [number |-> n, status |-> status, retryable |-> retryable, fallback |-> fallback,
   meta |-> meta]

When(condition, item) == IF condition THEN <<item>> ELSE <<>>

Running == result.kind = "running"
Ended(kind) == [kind |-> kind]

\* _report_status_for_attempt_status
ReportStatus(status) == IF status = "timed_out" THEN "timed_out" ELSE "failed"

\* The attempts that are no fallback; retry_count does not count the first.
Primaries(as) == {i \in DOMAIN as : ~as[i].fallback}
RetryCount(as) == IF Primaries(as) = {} THEN 0 ELSE Cardinality(Primaries(as)) - 1

\* _build_report; the constructor of ExecutionReport refuses a status that
\* its last attempt contradicts.  The code builds the report just before it
\* emits operation.succeeded or operation.failed, and nothing the report is
\* built from changes in between.
Report(kind) ==
  LET last == Last(attempts).status
      status == IF kind = "returned" THEN "succeeded" ELSE ReportStatus(last)
  IN IF attempts = <<>> \/ (status = "succeeded") # (last = "succeeded")
     THEN Ended("value_error")
     ELSE [kind |-> kind, attempts |-> attempts, limits |-> limits,
           status |-> status, retries |-> RetryCount(attempts)]

\* The synchronous code up to the next await.
Continue(steps) ==
  LET first == Head(steps)
  IN IF first.type = "append"
     THEN /\ attempts' = Append(attempts, first.attempt)
          /\ todo' = Tail(steps)
          /\ UNCHANGED result
     ELSE IF first.type \in Ends
     THEN /\ result' = Report(first.type)
          /\ todo' = <<>>
          /\ UNCHANGED attempts
     ELSE /\ todo' = steps
          /\ UNCHANGED <<attempts, result>>

Init ==
  /\ cfg \in Configs
  /\ todo = <<Ev("operation.started", 0), Ev("attempt.started", 1), CallAttempt(1)>>
  /\ attempts = <<>>
  /\ failures = <<>>
  /\ limits = [encountered |-> FALSE, exceeded |-> FALSE, waits |-> 0]
  /\ result = Ended("running")
  /\ sink = 1
  /\ received = [s \in 1..cfg.sinks |-> <<>>]
  /\ accepted = FALSE
  /\ invalid = 0

At(type) == Running /\ todo # <<>> /\ Head(todo).type = type
AtEvent == Running /\ todo # <<>> /\ Head(todo).type \notin Awaits

-----------------------------------------------------------------------------
(* _emit_event(): the sinks store the event in order; if one raises,       *)
(* nothing of run() handles its exception and the later ones never get it. *)

Stored(s) == received' = [received EXCEPT ![s] = Append(@, Head(todo))]

\* Fault: a sink error is swallowed and the event lost.
FaultSwallowsSinkError ==
  /\ AtEvent
  /\ sink' = 1
  /\ Continue(Tail(todo))
  /\ UNCHANGED <<cfg, failures, limits, received, accepted, invalid>>

\* Fault: an event goes to the sinks in reverse order.
FaultLastSinkFirst ==
  /\ AtEvent
  /\ IF cfg.sinks > 0 THEN Stored(cfg.sinks + 1 - sink) ELSE UNCHANGED received
  /\ IF sink < cfg.sinks
     THEN sink' = sink + 1 /\ UNCHANGED <<todo, attempts, result>>
     ELSE sink' = 1 /\ Continue(Tail(todo))
  /\ UNCHANGED <<cfg, failures, limits, accepted, invalid>>

Deliver ==
  /\ AtEvent
  /\ \/ /\ sink < cfg.sinks
        /\ Stored(sink)
        /\ sink' = sink + 1
        /\ UNCHANGED <<todo, attempts, result>>
     \/ /\ sink = cfg.sinks
        /\ Stored(sink)
        /\ sink' = 1
        /\ Continue(Tail(todo))
     \/ /\ cfg.sinks = 0
        /\ Continue(Tail(todo))
        /\ UNCHANGED emitter
  /\ UNCHANGED <<cfg, failures, limits, accepted, invalid>>

\* The run is left at an await.  A sink that is left while it stores the
\* event may store it all the same: a cancelled SQLiteEventStore.emit()
\* leaves its thread running.
Abandon(kind) ==
  /\ result' = Ended(kind)
  /\ todo' = <<>>
  /\ \/ UNCHANGED received
     \/ AtEvent /\ Stored(sink)
  /\ UNCHANGED <<cfg, attempts, failures, limits, sink, accepted, invalid>>

\* Fault: an error of a sink is handled as a failure of the attempt.
FaultRetriesSinkError ==
  /\ AtEvent
  /\ cfg.sinks > 0
  /\ todo' = <<CallAttempt(Len(attempts) + 1)>>
  /\ UNCHANGED <<cfg, attempts, failures, limits, result, emitter, accepted, invalid>>

SinkRaises == AtEvent /\ cfg.sinks > 0 /\ Abandon("sink_error")

\* asyncio.CancelledError, at any await of the run
Cancel ==
  /\ Running
  /\ AtEvent => cfg.sinks > 0
  /\ Abandon("cancelled")

-----------------------------------------------------------------------------
(* The retry plan of a failed attempt: _retry_plan_for_exception and       *)
(* _rate_limit_retry_plan                                                  *)

Error(class, hint) == [class |-> class, hint |-> hint]

\* What RateLimitPolicy.evaluate finds; a hint is only read with a policy.
Limited(e) == cfg.rateLimit /\ e.class = "limited"
Unusable(e) == Limited(e) /\ e.hint = "bad"
Overflows(e) == Limited(e) /\ e.hint = "huge"

\* The outcome of RateLimitPolicy.evaluate and of the retry policy together.
Eligible(e) == cfg.retry /\ (Limited(e) \/ e.class \in cfg.retryOn)

\* Where the delay before the next attempt comes from.
DelaySource(e) == IF Limited(e) /\ e.hint \in {"short", "long"} THEN "provider" ELSE "backoff"

\* Fault: the failure is only retried while two attempts are left.
FaultPlanStopsEarly(e, n) ==
  [limited |-> Limited(e), exceeded |-> FALSE, retryable |-> Eligible(e),
   delay |-> IF Eligible(e) /\ n + 1 < cfg.maxAttempts THEN DelaySource(e) ELSE "none"]

\* A delay is only selected when another attempt is available.
Plan(e, n) ==
  LET attemptsLeft == n < cfg.maxAttempts
      exceeded == Limited(e) /\ cfg.retry /\ attemptsLeft /\ e.hint \in {"long", "slow"}
  IN [limited |-> Limited(e),
      exceeded |-> exceeded,
      retryable |-> Eligible(e) /\ ~exceeded,
      delay |-> IF Eligible(e) /\ attemptsLeft THEN DelaySource(e) ELSE "none"]

NoPlan == [limited |-> FALSE, exceeded |-> FALSE, retryable |-> FALSE, delay |-> "none"]

\* What _RetryPlan's constructor checks.
ValidPlan(p) ==
  IF p.exceeded
  THEN p.limited /\ ~p.retryable /\ p.delay # "none"
  ELSE p.retryable \/ p.delay = "none"

WillRetry(p) == p.retryable /\ p.delay # "none"

\* _attempt_status_for_exception
StatusOf(e) == IF e.class = "timeout" THEN "timed_out" ELSE "failed"

\* Fault: a failure counts as rate-limited only if it is retried.
FaultMetaOfRetries(e, p) ==
  Meta(IF e.class = "invalid" THEN "invalid" ELSE "none",
       {f \in {"open", "limited", "exceeded"} :
          CASE f = "open" -> e.class = "open"
            [] f = "limited" -> p.limited /\ WillRetry(p)
            [] f = "exceeded" -> p.exceeded})

\* _primary_failure_metadata
FailureMeta(e, p) ==
  Meta(IF e.class = "invalid" THEN "invalid" ELSE "none",
       {f \in {"open", "limited", "exceeded"} :
          CASE f = "open" -> e.class = "open"
            [] f = "limited" -> p.limited
            [] f = "exceeded" -> p.exceeded})

\* The events of a failed attempt, up to attempt.failed.
FailureEvents(e, n, p) ==
     When(p.limited, Ev("rate_limit.detected", n))
  \o When(p.exceeded, Ev("rate_limit.wait_exceeded", n))
  \o When(e.class = "invalid", Ev("validation.failed", n))
  \o When(e.class = "open", Ev("circuit_breaker.rejected", n))
  \o <<Record(Attempt(n, StatusOf(e), p.retryable, FALSE, FailureMeta(e, p))),
       Ev("attempt.failed", n)>>

\* What follows: a delay and the next attempt, the fallback chain, or the
\* end.  The fallback attempt is numbered after the attempts recorded by then.
AfterFailure(e, n, p) ==
  IF WillRetry(p)
  THEN <<Scheduled(n, p.limited), Sleep(n, p.limited)>>
  ELSE IF cfg.candidates > 0 /\ e.class \in cfg.fallbackOn
  THEN <<Ev("fallback.started", Len(attempts) + 2), Candidate(1)>>
  ELSE <<Ev("operation.failed", n), Stop("failed")>>

-----------------------------------------------------------------------------
(* One attempt                                                             *)

\* The verdict of the validation policy on a result that is accepted.
Accepted == IF cfg.validation THEN "valid" ELSE "none"

SuccessSteps(n) ==
     When(cfg.validation, Ev("validation.succeeded", n))
  \o <<Record(Attempt(n, "succeeded", FALSE, FALSE, Meta(Accepted, {}))),
       Ev("attempt.succeeded", n),
       Ev("operation.succeeded", n), Stop("returned")>>

AttemptSucceeds ==
  /\ At("call")
  /\ accepted' = TRUE
  /\ Continue(SuccessSteps(Head(todo).n))
  /\ UNCHANGED <<cfg, failures, limits, emitter, invalid>>

\* The exception is the attempt's, or replaced by RetryAfterExtractionError.
Recorded(e, p) ==
  LET n == Head(todo).n
  IN /\ limits' = [limits EXCEPT !.encountered = @ \/ p.limited,
                                 !.exceeded = @ \/ p.exceeded]
     /\ IF ValidPlan(p)
        THEN Continue(FailureEvents(e, n, p) \o AfterFailure(e, n, p))
        ELSE result' = Ended("value_error") /\ todo' = <<>> /\ UNCHANGED attempts

AttemptFails(e) ==
  /\ At("call")
  /\ ~Overflows(e)
  /\ IF Unusable(e)
     THEN Recorded(Error("extraction", "none"), NoPlan)
     ELSE Recorded(e, Plan(e, Head(todo).n))
  /\ invalid' = IF e.class = "invalid" THEN invalid + 1 ELSE invalid
  /\ UNCHANGED <<cfg, failures, emitter, accepted>>

\* float(value) raises OverflowError inside the except block: neither the
\* handler for RetryAfterExtractionError nor any other sees it.
PlanningRaises(e) ==
  /\ At("call")
  /\ Overflows(e)
  /\ result' = Ended("planning_error")
  /\ todo' = <<>>
  /\ UNCHANGED <<cfg, attempts, failures, limits, emitter, accepted, invalid>>

\* _sleep_before_retry and the next turn of the loop
Wake ==
  /\ At("sleep")
  /\ LET s == Head(todo)
     IN /\ limits' = [limits EXCEPT !.waits = IF s.limited THEN @ + 1 ELSE @]
        /\ Continue(<<Ev("attempt.started", s.n + 1), CallAttempt(s.n + 1)>>)
  /\ UNCHANGED <<cfg, failures, emitter, accepted, invalid>>

-----------------------------------------------------------------------------
(* The fallback chain, whose candidates validate their own results         *)

\* One event for each invalid result among the failures.
InvalidEvents(fs, n) ==
  [i \in 1..Cardinality({j \in DOMAIN fs : fs[j] = "invalid"}) |-> Ev("validation.failed", n)]

CandidateSucceeds ==
  /\ At("candidate")
  /\ accepted' = TRUE
  /\ LET n == Len(attempts) + 1
     IN Continue(   InvalidEvents(failures, n)
                 \o When(cfg.validation, Ev("validation.succeeded", n))
                 \o <<Record(Attempt(n, "succeeded", FALSE, TRUE, Meta(Accepted, {}))),
                      Ev("fallback.succeeded", n), Ev("attempt.succeeded", n),
                      Ev("operation.succeeded", n), Stop("returned")>>)
  /\ UNCHANGED <<cfg, failures, limits, emitter, invalid>>

\* _fallback_failure_metadata: of a FallbackChainError, the verdict of the
\* last failure; of an exception that left the chain, its own.
FallbackMeta(class, exhausted) ==
  Meta(IF class = "invalid" THEN "invalid" ELSE "none",
       IF class = "open" /\ ~exhausted THEN {"open"} ELSE {})

\* The chain raises: FallbackChainError with all failures in order, or the
\* exception that is not to be fallen back from.
FallbackFails(status, meta, invalidEvents) ==
  LET n == Len(attempts) + 1
  IN Continue(   invalidEvents
              \o <<Record(Attempt(n, status, FALSE, TRUE, meta)),
                   Ev("fallback.failed", n), Ev("attempt.failed", n),
                   Ev("operation.failed", n), Stop("failed")>>)

\* Fault: after its last candidate the chain starts over at the first.
FaultChainWraps(class) ==
  /\ At("candidate")
  /\ Continue(<<Candidate((Head(todo).n % cfg.candidates) + 1)>>)
  /\ UNCHANGED <<cfg, failures, limits, emitter, accepted, invalid>>

CandidateFails(class) ==
  /\ At("candidate")
  /\ LET i == Head(todo).n
         n == Len(attempts) + 1
     IN \/ /\ class \in cfg.fallbackOn
           /\ failures' = Append(failures, class)
           /\ IF i < cfg.candidates
              THEN Continue(<<Candidate(i + 1)>>)
              ELSE FallbackFails("failed", FallbackMeta(class, TRUE),
                                 InvalidEvents(Append(failures, class), n))
        \/ /\ class \notin cfg.fallbackOn
           /\ FallbackFails(StatusOf(Error(class, "none")),
                            FallbackMeta(class, FALSE),
                            When(class = "invalid", Ev("validation.failed", n)))
           /\ UNCHANGED failures
  /\ invalid' = IF class = "invalid" THEN invalid + 1 ELSE invalid
  /\ UNCHANGED <<cfg, limits, emitter, accepted>>

-----------------------------------------------------------------------------

Errors ==
       {Error(c, "none") : c \in cfg.raises}
  \cup {Error("limited", h) : h \in IF "limited" \in cfg.raises THEN Hints ELSE {}}

Progress ==
  \/ Deliver
  \/ AttemptSucceeds
  \/ \E e \in Errors : AttemptFails(e) \/ PlanningRaises(e)
  \/ Wake
  \/ CandidateSucceeds
  \/ \E class \in cfg.candidateRaises : CandidateFails(class)

Next == Progress \/ SinkRaises \/ Cancel

Spec == Init /\ [][Next]_vars

\* Everything the run awaits comes to an end.
FairSpec == Spec /\ WF_vars(Progress)

-----------------------------------------------------------------------------
(* Properties                                                              *)

Sinks == 1..cfg.sinks

AttemptEnds == {"attempt.failed", "attempt.succeeded"}
OperationEnds == {"operation.failed", "operation.succeeded"}

\* Where among the events es, which a sink has stored, those of some types are.
Positions(es, types) == {p \in DOMAIN es : es[p].type \in types}

Has(es, type, n) == \E p \in Positions(es, {type}) : es[p].n = n

\* Among es are events of these types for exactly these numbers, each once
\* and in order.
OnceEach(es, types, numbers) ==
  /\ {es[p].n : p \in Positions(es, types)} = numbers
  /\ \A p, q \in Positions(es, types) : p < q => es[p].n < es[q].n

\* Sinks are awaited in order, and an error of one is not handled: each sink
\* holds what the sinks before it hold, at most one event behind, however
\* the run is interrupted, and no event twice or out of order.
SinksInOrder ==
  \A s \in Sinks \ {1} :
    /\ IsPrefix(received[s], received[s - 1])
    /\ \A t \in 1..(s - 1) : Len(received[t]) <= Len(received[s]) + 1

\* The metadata of a told attempt says what the events before it said: a
\* verdict for validation.*, a flag for each detected rate limit, rejected
\* wait and breaker rejection, and retry.scheduled is marked as the failed
\* attempt is.  Of a fallback attempt only the verdict is comparable: the
\* events of its earlier candidates come under the same number.
ToldAlike(es, i, a) ==
  /\ a.meta.verdict = "valid" <=> Has(es, "validation.succeeded", i)
  /\ a.meta.verdict = "invalid" => Has(es, "validation.failed", i)
  /\ ~a.fallback =>
       /\ Has(es, "validation.failed", i) => a.meta.verdict = "invalid"
       /\ "open" \in a.meta.flags <=> Has(es, "circuit_breaker.rejected", i)
       /\ "limited" \in a.meta.flags <=> Has(es, "rate_limit.detected", i)
       /\ "exceeded" \in a.meta.flags <=> Has(es, "rate_limit.wait_exceeded", i)
       /\ \A p \in Positions(es, {"retry.scheduled"}) : es[p].n = i =>
            a.retryable /\ (es[p].limited <=> "limited" \in a.meta.flags)

\* The attempt.* events among es are about the recorded attempts, one after
\* the other, of which at most the last one is still to be told.
Follow(es, as) ==
  /\ \E m \in {Len(as), Len(as) - 1} : OnceEach(es, AttemptEnds, 1..m)
  /\ \A p \in Positions(es, AttemptEnds) :
       LET i == es[p].n
       IN /\ es[p].type = "attempt.succeeded" <=> as[i].status = "succeeded"
          /\ ToldAlike(es, i, as[i])

\* The events of every sink tell the same story as the report, at every
\* moment and however the run is interrupted: the i-th attempt.* event is
\* about the i-th recorded attempt, its status and its metadata, attempts are
\* numbered 1, 2, ..., and at most the last one is still to be told.
EventsFollowAttempts ==
  /\ \A i \in DOMAIN attempts : attempts[i].number = i
  /\ \A s \in Sinks : Follow(received[s], attempts)

\* What a report r of n attempts, `primary` of them primary, has in common
\* with the events es.
Agrees(es, r, n, primary) ==
  /\ OnceEach(es, {"attempt.started"}, 1..primary)
  /\ OnceEach(es, {"retry.scheduled"}, 1..r.retries)
  /\ OnceEach(es, AttemptEnds, 1..n)
  /\ Positions(es, OperationEnds) = {Len(es)}
  /\ Last(es).type = "operation.succeeded" <=> r.status = "succeeded"
  /\ r.limits.encountered <=> Positions(es, {"rate_limit.detected"}) # {}
  /\ r.limits.exceeded <=> Positions(es, {"rate_limit.wait_exceeded"}) # {}
  /\ r.limits.waits = Cardinality({p \in Positions(es, {"retry.scheduled"}) : es[p].limited})

\* run() never fails in the checks of its own records, and a report that
\* reaches the caller agrees with the events of every sink, and has at most
\* max_attempts primary attempts followed by at most one fallback attempt;
\* only its last attempt may have succeeded.  Its rate-limit summary is what
\* the events say: a limit was met, a wait was rejected, and one wait for
\* each rate-limited retry.
ReportAgrees ==
  /\ result.kind # "value_error"
  /\ result.kind \in Ends =>
       LET as == result.attempts
           primary == Cardinality(Primaries(as))
       IN /\ \A i \in 1..(Len(as) - 1) : as[i].status # "succeeded" /\ ~as[i].fallback
          /\ primary \in 1..cfg.maxAttempts
          /\ \A s \in Sinks : Agrees(received[s], result, Len(as), primary)

\* Once a result has been accepted, nothing runs again: the awaits left are
\* sinks, and if one of them raises the operation is neither retried nor
\* sent to its fallbacks.
AcceptedIsFinal ==
  accepted =>
    /\ \A i \in DOMAIN todo : todo[i].type \notin Awaits
    /\ result.kind # "failed"

\* Before the fallback chain starts or the run fails, the retries are used
\* up: the last primary failure is one that may not be retried, or no
\* attempt is left; every earlier primary failure was retryable, and after a
\* rejected wait there is no attempt and no delay.
RetriesComeFirst ==
  /\ \A i, j \in Primaries(attempts) : i < j => attempts[i].retryable
  /\ (   \/ At("candidate")
        \/ result.kind = "failed"
        \/ \E s \in Sinks :
             Positions(received[s], {"fallback.started", "operation.failed"}) # {})
     => \E n \in 1..cfg.maxAttempts :
          /\ Primaries(attempts) = 1..n
          /\ ~attempts[n].retryable \/ n = cfg.maxAttempts
  /\ limits.exceeded => \A i \in DOMAIN todo : todo[i].type \notin {"call", "sleep"}

\* The documented outcomes of run(): a result, OperationExecutionError, a
\* cancellation, or a sink's own exception.
RaisesAsDocumented ==
  result.kind \in {"running", "returned", "failed", "cancelled", "sink_error"}

\* validation.failed is "emitted when a result failed validation": by the
\* time a report is made, once for each such result.
InvalidResultsReported ==
  result.kind \in Ends =>
    \A s \in Sinks : Cardinality(Positions(received[s], {"validation.failed"})) = invalid

\* Every run comes to an end.
Terminates == <>(~Running)
=============================================================================
