----------------------------- MODULE TimedRetry -----------------------------
(***************************************************************************)
(* relprim.RetryPolicy and relprim.TimeoutPolicy around one another: a     *)
(* total deadline around a retry loop, and a deadline around each attempt. *)
(*                                                                         *)
(* Everything happens in one asyncio task.  A deadline and a caller both   *)
(* end its wait in the same way, with Task.cancel(), and each layer must   *)
(* tell from task.cancelling() whose cancellation it sees.  The task runs  *)
(* without interruption from one await to the next, so one step takes it   *)
(* through every layer its exception passes; deadlines and callers strike  *)
(* between steps, and the wake-up then turns into a CancelledError.        *)
(*                                                                         *)
(* asyncio.timeout() is modelled as CPython 3.11 and later implement it.   *)
(***************************************************************************)
EXTENDS Integers, Sequences

CONSTANTS
  Layouts,     \* how the policies are nested: see LayoutType
  Backoffs,    \* values of ExponentialBackoff: see BackoffType
  MaxAttempts, \* max_attempts
  FloatMax,    \* the largest finite float
  MaxCancels   \* bound: cancel() calls by others

\* "error" and "fatal" are two exceptions of the operation, "timeout" is a
\* TimeoutError of its own, "each_expired" OperationTimeoutError.
Exceptions == {"error", "fatal", "timeout", "each_expired"}

\* sync stands for RetryPolicy.run(), which knows neither deadlines nor
\* cancellation.
LayoutType ==
  [total : BOOLEAN, each : BOOLEAN, sync : BOOLEAN, retryOn : SUBSET Exceptions]

\* Delays are counted in a unit of time as small as the base delays ask for,
\* multipliers and their powers in ones.
BackoffType == [base : Nat, max : Nat, multiplier : Nat, jitter : BOOLEAN]

\* What the constructors of ExponentialBackoff and RetryPolicy accept.
ValidBackoff(b) == b.multiplier >= 1 /\ b.base <= b.max

ASSUME TimedRetryAssumption ==
  /\ \A l \in Layouts : l \in LayoutType /\ (l.sync => ~l.total /\ ~l.each)
  /\ \A b \in Backoffs : b \in BackoffType /\ ValidBackoff(b)
  /\ MaxAttempts \in Nat \ {0} /\ MaxCancels \in Nat /\ FloatMax \in Nat

VARIABLES
  layout,      \* the nesting of this run
  backoff,     \* its ExponentialBackoff
  at,          \* the await the task is suspended in: "operation" or "sleep";
               \* "done" when the outermost run is over
  attempt,     \* attempt_number
  last,        \* last_exception
  cancelling,  \* Task.cancelling()
  pending,     \* the next step of the task starts with a CancelledError
  total,       \* the deadline around the retries
  each,        \* the deadline around the present or latest attempt
  outcome,     \* how the outermost run ended
  delays,      \* history: the delays slept
  raised,      \* history: what the operation did at the end of the latest
               \* attempt, until the loop goes on
  requests,    \* history: Task.cancelling() before the run, and cancel()
               \* calls since then
  owed,        \* history: the operation has caught a CancelledError
  swallowed    \* history: an operation ended otherwise than with the
               \* CancelledError of a caller or of the total deadline

task == <<cancelling, pending>>
vars == <<layout, backoff, at, attempt, last, task, total, each, outcome, delays,
          raised, requests, owed, swallowed>>

\* asyncio.timeout(): its state and task.cancelling() when it was entered.
Deadline(state, entry) == [state |-> state, entry |-> entry]
Entered(present, count) == Deadline(IF present THEN "active" ELSE "none", count)

Init ==
  /\ layout \in Layouts
  /\ backoff \in Backoffs
  /\ at = "operation"
  /\ attempt = 1
  /\ last = "none"
  /\ cancelling \in IF layout.sync THEN {0} ELSE 0..MaxCancels
  /\ pending = FALSE
  /\ total = Entered(layout.total, cancelling)
  /\ each = Entered(layout.each, cancelling)
  /\ outcome = "running"
  /\ delays = <<>>
  /\ raised = "none"
  /\ requests = cancelling
  /\ owed = FALSE
  /\ swallowed = FALSE

-----------------------------------------------------------------------------
(* The deadlines and the callers                                           *)

TaskCancel == cancelling' = cancelling + 1 /\ pending' = TRUE

EachFires ==
  /\ at = "operation"
  /\ each.state = "active"
  /\ each' = [each EXCEPT !.state = "expiring"]
  /\ TaskCancel
  /\ UNCHANGED <<layout, backoff, at, attempt, last, total, outcome, delays,
                 raised, requests, owed, swallowed>>

TotalFires ==
  /\ at # "done"
  /\ total.state = "active"
  /\ total' = [total EXCEPT !.state = "expiring"]
  /\ TaskCancel
  /\ UNCHANGED <<layout, backoff, at, attempt, last, each, outcome, delays,
                 raised, requests, owed, swallowed>>

CancelCall ==
  /\ at # "done"
  /\ ~layout.sync
  /\ requests < MaxCancels
  /\ requests' = requests + 1
  /\ TaskCancel
  /\ UNCHANGED <<layout, backoff, at, attempt, last, total, each, outcome, delays,
                 raised, owed, swallowed>>

-----------------------------------------------------------------------------
(* TimeoutPolicy.run_async                                                 *)

\* Fault: an expired deadline leaves its cancellation counted.
FaultKeepsCount(d, count) == count

\* Timeout.__aexit__: an expired deadline takes its own cancellation back,
\* and answers for a CancelledError if it was the only one.
UncancelledBy(d, count) == IF d.state = "expiring" THEN count - 1 ELSE count

ExitState(d) ==
  CASE d.state = "expiring" -> "expired"
    [] d.state = "active" -> "exited"
    [] OTHER -> d.state

Raised(d, x, count) ==
  IF d.state = "expiring" /\ x = "cancelled" /\ count - 1 <= d.entry
  THEN "timeout" ELSE x

\* Fault: every TimeoutError is taken for an expiry.
FaultAnyTimeout(d, x, count, expiry) ==
  IF d.state # "none" /\ Raised(d, x, count) = "timeout" THEN expiry ELSE Raised(d, x, count)

\* Fault: a cancellation that finds the deadline expired is taken for it.
FaultExpiryFirst(d, x, count, expiry) ==
  IF d.state = "expiring" /\ x \in {"cancelled", "timeout"} THEN expiry ELSE x

\* except TimeoutError: an expiry becomes OperationTimeoutError.
AfterDeadline(d, x, count, expiry) ==
  IF d.state = "expiring" /\ Raised(d, x, count) = "timeout"
  THEN expiry ELSE Raised(d, x, count)

-----------------------------------------------------------------------------
(* ExponentialBackoff.delay_for_retry                                      *)

AtMost(x, limit) == IF x <= limit THEN x ELSE limit

\* The powers of a multiplier, as the products they stand for.
Power(m) ==
  LET p[n \in 0..MaxAttempts] == IF n = 0 THEN 1 ELSE p[n - 1] * m
  IN p

\* Fault: the second retry still waits for the base delay only.
FaultSlowStart(b, n) ==
  AtMost(IF n <= 2 THEN b.base ELSE b.base * Power(b.multiplier)[n - 2], b.max)

\* multiplier ** (n - 1) raises OverflowError beyond the largest float; a
\* product beyond it is an infinity, which min() caps like any other.
FullDelay(b, n) ==
  IF Power(b.multiplier)[n - 1] > FloatMax
  THEN b.max
  ELSE AtMost(b.base * Power(b.multiplier)[n - 1], b.max)

DelaysFor(b, n) == IF b.jitter THEN 0..FullDelay(b, n) ELSE {FullDelay(b, n)}

-----------------------------------------------------------------------------
(* RetryPolicy.run_async and, with no deadline around it, RetryPolicy.run  *)

\* The outermost run ends with a result or an exception, through the total
\* deadline where there is one.
Finish(x, count) ==
  /\ at' = "done"
  /\ outcome' = AfterDeadline(total, x, count, "total_expired")
  /\ total' = [total EXCEPT !.state = ExitState(total)]
  /\ cancelling' = UncancelledBy(total, count)
  /\ UNCHANGED delays

\* Fault: the loop sleeps once more after its last attempt.
FaultSleepsAfterLast(x, count) ==
  IF x \notin layout.retryOn \/ attempt > MaxAttempts
  THEN Finish(IF x \in layout.retryOn THEN "exhausted" ELSE x, count)
  ELSE /\ at' = "sleep"
       /\ \E delay \in DelaysFor(backoff, attempt) : delays' = Append(delays, delay)
       /\ cancelling' = count
       /\ UNCHANGED <<outcome, total>>

\* Fault: the loop retries a cancelled attempt as well.
FaultRetriesCancelled(x, count) ==
  IF x \notin layout.retryOn \cup {"cancelled"} \/ attempt >= MaxAttempts
  THEN Finish(IF x \in layout.retryOn THEN "exhausted" ELSE x, count)
  ELSE /\ at' = "sleep"
       /\ \E delay \in DelaysFor(backoff, attempt) : delays' = Append(delays, delay)
       /\ cancelling' = count
       /\ UNCHANGED <<outcome, total>>

\* A result, or an exception that is not to be retried, leaves the loop; any
\* other is retried after a delay, unless it was the last attempt's.
AfterAttempt(x, count) ==
  IF x \notin layout.retryOn
  THEN Finish(x, count)
  ELSE IF attempt >= MaxAttempts
  THEN Finish("exhausted", count)
  ELSE /\ at' = "sleep"
       /\ \E delay \in DelaysFor(backoff, attempt) : delays' = Append(delays, delay)
       /\ cancelling' = count
       /\ UNCHANGED <<outcome, total>>

\* The run as a whole has been cancelled, by a caller or its total deadline.
RunCancelled == requests > total.entry \/ total.state = "expiring"

\* The operation ends: it returns, or raises an exception of its own or the
\* CancelledError it was sent.
Results == {"value", "error", "fatal", "timeout", "cancelled"}

OperationEnds(x) ==
  /\ at = "operation"
  /\ x = "cancelled" => pending \/ owed
  /\ LET y == AfterDeadline(each, x, cancelling, "each_expired")
     IN /\ last' = IF y \in layout.retryOn THEN y ELSE last
        /\ AfterAttempt(y, UncancelledBy(each, cancelling))
  /\ each' = [each EXCEPT !.state = ExitState(each)]
  /\ raised' = x
  /\ pending' = FALSE
  /\ owed' = FALSE
  /\ swallowed' = (swallowed \/ (RunCancelled /\ x # "cancelled"))
  /\ UNCHANGED <<layout, backoff, attempt, requests>>

\* The operation catches a CancelledError and awaits something else.
OperationCleansUp ==
  /\ at = "operation"
  /\ pending
  /\ pending' = FALSE
  /\ owed' = TRUE
  /\ UNCHANGED <<layout, backoff, at, attempt, last, cancelling, total, each,
                 outcome, delays, raised, requests, swallowed>>

\* Fault: only the first attempt gets a deadline.
FaultDeadlineOnce ==
  /\ at = "sleep"
  /\ IF pending
     THEN Finish("cancelled", cancelling) /\ UNCHANGED <<attempt, each>>
     ELSE /\ at' = "operation"
          /\ attempt' = attempt + 1
          /\ UNCHANGED <<outcome, total, each, cancelling, delays>>
  /\ raised' = "none"
  /\ pending' = FALSE
  /\ UNCHANGED <<layout, backoff, last, requests, owed, swallowed>>

\* The end of a delay: the next attempt, or the cancellation of the sleep.
Wake ==
  /\ at = "sleep"
  /\ IF pending
     THEN Finish("cancelled", cancelling) /\ UNCHANGED <<attempt, each>>
     ELSE /\ at' = "operation"
          /\ attempt' = attempt + 1
          /\ each' = Entered(layout.each, cancelling)
          /\ UNCHANGED <<outcome, total, cancelling, delays>>
  /\ raised' = "none"
  /\ pending' = FALSE
  /\ UNCHANGED <<layout, backoff, last, requests, owed, swallowed>>

-----------------------------------------------------------------------------
Next ==
  \/ EachFires
  \/ TotalFires
  \/ CancelCall
  \/ \E x \in Results : OperationEnds(x)
  \/ OperationCleansUp
  \/ Wake

Spec == Init /\ [][Next]_vars

\* An operation that was sent a CancelledError ends, one way or another.
Unwind == (pending \/ owed) /\ \E x \in Results : OperationEnds(x)

\* Deadlines pass and sleeps end.  An operation that nobody cancels need not
\* end by itself.
FairSpec ==
  Spec /\ WF_vars(EachFires) /\ WF_vars(TotalFires) /\ WF_vars(Wake) /\ WF_vars(Unwind)
-----------------------------------------------------------------------------
(* Properties                                                              *)

TypeOK ==
  /\ layout \in Layouts /\ backoff \in Backoffs
  /\ at \in {"operation", "sleep", "done"}
  /\ attempt \in 1..MaxAttempts
  /\ last \in layout.retryOn \cup {"none"}
  /\ cancelling \in 0..(MaxCancels + 2)
  /\ {pending, owed, swallowed} \subseteq BOOLEAN
  /\ {total, each} \subseteq
       [state : {"none", "active", "expiring", "expired", "exited"}, entry : 0..(MaxCancels + 1)]
  /\ outcome \in {"running", "exhausted", "total_expired"} \cup Exceptions \cup Results
  /\ raised \in Results \cup {"none"}
  /\ requests \in 0..MaxCancels

\* "Only expiry of this policy's own deadline raises OperationTimeoutError":
\* never the other layer's deadline, nor a cancellation by others while it
\* still runs.  A total deadline that expires does end the run with it, also
\* while an attempt's deadline is expiring or the loop sleeps, unless others
\* cancel or an operation swallows the cancellation.  And what the operation
\* does by itself, raise a TimeoutError for one, passes all layers unchanged as
\* long as no deadline has passed.  A TimeoutError of the operation that comes
\* while a deadline is expiring does become OperationTimeoutError, although
\* the docstring lets it propagate unchanged in any case.
ExpiryToldByItsOwn ==
  /\ outcome = "total_expired" => total.state = "expired"
  /\ outcome = "each_expired" => each.state = "expired"
  /\ at = "sleep" /\ last = "each_expired" => each.state = "expired"
  /\ at = "done" /\ total.state = "expired" /\ requests = total.entry /\ ~swallowed
       => outcome = "total_expired"
  /\ at = "done" /\ raised # "none" /\ "expired" \notin {total.state, each.state}
       => outcome = IF raised \in layout.retryOn THEN "exhausted" ELSE raised

\* "Cancellation of the surrounding task propagates as CancelledError": a
\* run that others have cancelled ends cancelled, however many deadlines
\* expire before, with or after it, unless an operation swallows it.
CancellationPropagates ==
  at = "done" /\ requests > total.entry /\ ~swallowed => outcome = "cancelled"

\* Every layer takes back the cancellations it made and no others, so that
\* task.cancelling() is again what the callers made it, swallowed or not.
CancellingRestored == at = "done" => cancelling = requests

\* The retry loop: one sleep between two attempts and none after the last;
\* RetryError only when every attempt failed in a way to be retried, and an
\* exception to be retried never escapes instead of it.
RetriesAgree ==
  /\ Len(delays) \in {attempt - 1, attempt}
  /\ at = "operation" => Len(delays) = attempt - 1
  /\ at = "done" /\ Len(delays) = attempt => outcome \in {"cancelled", "total_expired"}
  /\ outcome = "exhausted" => attempt = MaxAttempts
  /\ at = "done" => outcome \notin layout.retryOn

\* The documented delay: the base delay at first, multiplied each time,
\* capped at the maximum.
Documented(b) ==
  LET f[n \in 1..MaxAttempts] ==
        IF n = 1 THEN b.base ELSE AtMost(f[n - 1] * b.multiplier, b.max)
  IN f

Agrees(delay, documented) == IF backoff.jitter THEN delay <= documented ELSE delay = documented

\* "The first retry waits for `base_delay_seconds`.  Every subsequent retry
\* multiplies the delay by `multiplier`, capped at `max_delay_seconds`", and
\* jitter takes a delay "between 0 and the calculated delay".
DelaysAsDocumented == \A n \in DOMAIN delays : Agrees(delays[n], Documented(backoff)[n])

\* The delays the code does get right: all before the power overflows, and
\* all after it if the base delay is large enough for the product to reach
\* the cap by then.  A smaller one, 0 among them, may jump to the cap early,
\* but no delay ever exceeds it.
DelaysRightOrCapped ==
  \A n \in DOMAIN delays :
    /\ delays[n] <= backoff.max
    /\ \/ Power(backoff.multiplier)[n - 1] <= FloatMax
       \/ backoff.base * FloatMax >= backoff.max
       => Agrees(delays[n], Documented(backoff)[n])

\* No attempt starts once others have cancelled the run or the total
\* deadline has passed, unless an operation swallowed the cancellation.
NoAttemptAfterCancel ==
  [][RunCancelled => attempt' = attempt \/ swallowed']_vars

\* A run with a deadline always ends, also when its operation hangs: with a
\* deadline around each attempt in any case, with a total one unless an
\* operation swallows its cancellation.
RunsEnd == <>(\/ at = "done"
              \/ ~layout.each /\ (~layout.total \/ swallowed))
=============================================================================
