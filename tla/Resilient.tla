------------------------------ MODULE Resilient ------------------------------
(***************************************************************************)
(* Functions decorated by relprim.resilient(), called by asyncio tasks:    *)
(* the composition of operation, circuit breaker and idempotency stores.   *)
(*                                                                         *)
(* A call with an idempotency policy runs its whole lifecycle inside       *)
(* execute() of its store, under one key; every attempt of the lifecycle   *)
(* goes through the breaker, if there is one.  Breaker and stores are      *)
(* shared by tasks and by functions, so CircuitBreaker and                 *)
(* InMemoryIdempotency take the steps here that a run makes them take.     *)
(* The stores are one InMemoryIdempotency over pairs of store and key.     *)
(*                                                                         *)
(* Of AsyncOperation a run keeps its attempts and where it is; the awaits  *)
(* of events and delays between two attempts, and those before its end,    *)
(* are one phase each.  Timeout and validation act inside an attempt and   *)
(* show as errors.                                                         *)
(***************************************************************************)
EXTENDS ResilientOptions, FiniteSets

CONSTANTS
  Callers,      \* asyncio tasks
  Functions,    \* the functions that get decorated
  Decorators,   \* calls of resilient()
  Stores,       \* InMemoryIdempotencyStore objects the program makes itself
  CallKeys,     \* what the key factories return
  TTLs,         \* the times to live the programs use
  Programs,     \* records [options, decorates]: the arguments of each call
                \* of resilient(), and the decorator of each function
  Hints,        \* retry-after hints, in the unit of DefaultMaxWait
  RecordOn,     \* record_failure_on of the breaker
  FailureThreshold, RecoveryTimeout,
  NoCall, NoKey, NoValue, NoDecorator

\* What a program can pass to one call of resilient(): numbers are numbers,
\* retry policies have passed their own check, and the only store objects
\* it can name are those it makes itself.
Passable(o) ==
  /\ \A s \in {"retries", "timeout", "idempotencyTTL", "maxRateLimitWait"} :
       o[s].type \in {"int", "float", "huge"} => o[s].n \in Int
  /\ Given(o.retry) => o.retry.maxAttempts \in Nat \ {0}
  /\ Given(o.idempotencyStore) => o.idempotencyStore.id \in Stores
  /\ Given(o.idempotency) => o.idempotency.store \in Stores

ASSUME ResilientAssumption ==
  /\ RecordOn \subseteq Errors
  /\ DefaultTTL \in TTLs
  /\ Stores \cap Decorators = {} /\ NoKey \notin Stores /\ NoDecorator \notin Decorators
  /\ \A p \in Programs :
       /\ DOMAIN p.options = Decorators
       /\ \A d \in Decorators : Passable(p.options[d])
       /\ p.decorates \in [Functions -> Decorators \cup {NoDecorator}]

\* The stores of the program, those that resilient() creates among them.
StoreKeys == (Stores \cup Decorators) \X CallKeys

\* What CircuitBreaker and InMemoryIdempotency assume of their constants.
ASSUME ComponentAssumption ==
  /\ FailureThreshold \in Nat \ {0} /\ RecoveryTimeout \in Nat \ {0}
  /\ TTLs \subseteq Nat \ {0}
  /\ NoCall \notin Callers /\ NoKey \notin StoreKeys /\ NoValue \notin Functions
  /\ (Functions \cup {NoValue}) \cap {"failed", "cancelled", "reentry"} = {}

VARIABLES
  program,   \* one of Programs
  config,    \* what each call of resilient() came to
  fn,        \* the function each task called last
  phase,     \* where its run is, "idle" without one
  attempt,   \* attempt_number of its run
  entries, pc, key, on, wake, result,              \* InMemoryIdempotency
  state, failureCount, openedAge, probeInFlight,   \* CircuitBreaker, and
  call, current, freed                             \* its callers and history

store == <<entries, pc, key, on, wake, result>>
breaker == <<state, failureCount, openedAge, probeInFlight, call, current, freed>>
run == <<fn, phase, attempt>>
vars == <<program, config, run, store, breaker>>

Store == INSTANCE InMemoryIdempotency WITH
  Calls <- Callers, TaskOf <- [c \in Callers |-> c], ParentOf <- [c \in Callers |-> NoCall],
  Keys <- StoreKeys, MayNest <- {}, Values <- Functions

CB == INSTANCE CircuitBreaker WITH
  Outcomes <- {"success", "recorded", "ignored", "cancelled"}

Ready(d) == config[d].status = "ready"
Decorated(f) == program.decorates[f] # NoDecorator /\ Ready(program.decorates[f])

\* The policies of the AsyncOperation behind a decorated function.
Of(f) == config[program.decorates[f]].policies
Idempotent(f) == Given(Of(f).idempotency)
Guarded(f) == Given(Of(f).breaker)

Init ==
  /\ program \in Programs
  /\ config = [d \in Decorators |-> [status |-> "new"]]
  /\ fn = [c \in Callers |-> NoValue]
  /\ phase = [c \in Callers |-> "idle"]
  /\ attempt = [c \in Callers |-> 0]
  /\ Store!Init
  /\ CB!Init

Enter(c, p) == phase' = [phase EXCEPT ![c] = p]

-----------------------------------------------------------------------------
\* Fault: every policy made without a store gets the same default one.
FaultOneDefaultStore(d) ==
  /\ config[d].status = "new"
  /\ LET errors == OptionErrors(program.options[d])
         own == CHOOSE e \in Decorators : TRUE
     IN config' = [config EXCEPT ![d] =
          IF errors # <<>> THEN [status |-> "refused", error |-> Head(errors)]
          ELSE [status |-> "ready", policies |-> Resolved(program.options[d], own)]]
  /\ UNCHANGED <<program, run, store, breaker>>

\* resilient(): refused, or a decorator that builds operations from the
\* same policy objects each time it is applied.
Resilient(d) ==
  /\ config[d].status = "new"
  /\ LET errors == OptionErrors(program.options[d])
     IN config' = [config EXCEPT ![d] =
          IF errors # <<>> THEN [status |-> "refused", error |-> Head(errors)]
          ELSE [status |-> "ready", policies |-> Resolved(program.options[d], d)]]
  /\ UNCHANGED <<program, run, store, breaker>>

-----------------------------------------------------------------------------
(* Calling a decorated function                                            *)

\* The run begins at operation.started; as the owner of a key it does so
\* inside execute().
Begin(c) ==
  /\ Enter(c, "between")
  /\ attempt' = [attempt EXCEPT ![c] = 1]

\* run() with an idempotency policy: the task owns the key, joins another
\* task's run or replays a result.  A key that _validate_key() refuses ends
\* the call before anything happens.
CallIdempotent(c, f, k) ==
  /\ phase[c] = "idle"
  /\ Decorated(f) /\ Idempotent(f)
  /\ Store!Execute(c, <<Of(f).idempotency.store, k>>)
  /\ fn' = [fn EXCEPT ![c] = f]
  /\ IF pc'[c] = "running" THEN Begin(c) ELSE UNCHANGED <<phase, attempt>>
  /\ UNCHANGED <<program, config, breaker>>

CallPlain(c, f) ==
  /\ phase[c] = "idle" /\ pc[c] = "idle"
  /\ Decorated(f) /\ ~Idempotent(f)
  /\ fn' = [fn EXCEPT ![c] = f]
  /\ Begin(c)
  /\ UNCHANGED <<program, config, store, breaker>>

\* A joined task runs again; it may have to become the owner.
Resume(c) ==
  /\ Store!Resume(c)
  /\ IF pc'[c] = "running" THEN Begin(c) ELSE UNCHANGED <<phase, attempt>>
  /\ UNCHANGED <<program, config, fn, breaker>>

-----------------------------------------------------------------------------
(* One attempt                                                             *)

MaxAttempts(f) == IF Given(Of(f).retry) THEN Of(f).retry.maxAttempts ELSE 1

Limited(f, e) == Given(Of(f).rateLimit) /\ e \in Of(f).rateLimit.limitOn

\* Another attempt follows: _retry_plan_for_exception, where a rate-limited
\* failure waits as long as the provider says.  A hint that cannot be used
\* counts as one that is too long.
WillRetry(f, e, hint, n) ==
  /\ Given(Of(f).retry)
  /\ n < MaxAttempts(f)
  /\ IF Limited(f, e) THEN hint <= Of(f).rateLimit.maxWait ELSE e \in Of(f).retry.retryOn

FallsBack(f, e) == Given(Of(f).fallback) /\ e \in Of(f).fallback.fallbackOn

AttemptFails(c, e) ==
  \E hint \in Hints :
    IF WillRetry(fn[c], e, hint, attempt[c])
    THEN /\ Enter(c, "between")
         /\ attempt' = [attempt EXCEPT ![c] = @ + 1]
    ELSE /\ Enter(c, IF FallsBack(fn[c], e) THEN "fallback" ELSE "failing")
         /\ UNCHANGED attempt

\* Fault: the breaker is only asked before the first attempt.
FaultAsksOnce(c) ==
  /\ phase[c] = "between"
  /\ \/ /\ attempt[c] > 1 \/ ~Guarded(fn[c])
        /\ Enter(c, "running")
        /\ call' = [call EXCEPT ![c] = IF Guarded(fn[c]) THEN "normal" ELSE @]
        /\ UNCHANGED <<attempt, state, failureCount, openedAge, probeInFlight, current, freed>>
     \/ /\ attempt[c] = 1 /\ Guarded(fn[c])
        /\ CB!Admit(c) \/ CB!AdmitProbe(c)
        /\ Enter(c, "running")
        /\ UNCHANGED attempt
     \/ /\ attempt[c] = 1 /\ Guarded(fn[c])
        /\ CB!Reject(c)
        /\ AttemptFails(c, "open")
  /\ UNCHANGED <<program, config, fn, store>>

\* _run_single_attempt() up to the call of the function.
BeginAttempt(c) ==
  /\ phase[c] = "between"
  /\ \/ /\ ~Guarded(fn[c])
        /\ Enter(c, "running")
        /\ UNCHANGED <<attempt, breaker>>
     \/ /\ Guarded(fn[c])
        /\ CB!Admit(c) \/ CB!AdmitProbe(c)
        /\ Enter(c, "running")
        /\ UNCHANGED attempt
     \/ /\ Guarded(fn[c])
        /\ CB!Reject(c)
        /\ AttemptFails(c, "open")
  /\ UNCHANGED <<program, config, fn, store>>

AttemptReturns(c) ==
  /\ phase[c] = "running"
  /\ IF Guarded(fn[c]) THEN CB!AfterSuccess(c) ELSE UNCHANGED breaker
  /\ Enter(c, "accepted")
  /\ UNCHANGED <<program, config, fn, attempt, store>>

\* The function raises, times out or returns an invalid result.
AttemptRaises(c, e) ==
  /\ phase[c] = "running"
  /\ IF ~Guarded(fn[c]) THEN UNCHANGED breaker
     ELSE IF e \in RecordOn THEN CB!AfterRecordedFailure(c)
     ELSE CB!AfterIgnoredFailure(c)
  /\ AttemptFails(c, e)
  /\ UNCHANGED <<program, config, fn, store>>

\* The candidates of the chain run outside breaker and timeout.
FallbackEnds(c) ==
  /\ phase[c] = "fallback"
  /\ Enter(c, "accepted") \/ Enter(c, "failing")
  /\ UNCHANGED <<program, config, fn, attempt, store, breaker>>

-----------------------------------------------------------------------------
(* The end of a run                                                        *)

Leave(c) ==
  /\ Enter(c, "idle")
  /\ attempt' = [attempt EXCEPT ![c] = 0]
  /\ UNCHANGED <<program, config, fn>>

\* Fault: a run that ends in a failure is published like one that succeeds.
FaultPublishesAll(c) ==
  /\ phase[c] \in {"accepted", "failing"}
  /\ IF Idempotent(fn[c])
     THEN Store!Succeed(c) /\ result'[c] = fn[c]
     ELSE UNCHANGED store
  /\ Leave(c)
  /\ UNCHANGED breaker

\* The OperationResult is returned, and published under the key.
Succeeds(c) ==
  /\ phase[c] = "accepted"
  /\ IF Idempotent(fn[c])
     THEN /\ Store!Succeed(c)
          /\ result'[c] = fn[c]
          /\ entries'[key[c]].left = Of(fn[c]).idempotency.ttl
     ELSE UNCHANGED store
  /\ Leave(c)
  /\ UNCHANGED breaker

\* The awaits of a run outside its attempts may be those of a sink.
Emitting(c) ==
  /\ phase[c] \notin {"idle", "running"}
  /\ Given(Of(fn[c]).events)

\* Fault: an error of a sink ends the run without telling the store.
FaultSinkErrorEscapes(c) ==
  /\ phase[c] = "failing" \/ Emitting(c)
  /\ IF Idempotent(fn[c]) /\ phase[c] = "failing" THEN Store!Fail(c) ELSE UNCHANGED store
  /\ Leave(c)
  /\ UNCHANGED breaker

\* OperationExecutionError, or the exception of a sink at one of the events
\* between the attempts and before the end.
Fails(c) ==
  /\ phase[c] = "failing" \/ Emitting(c)
  /\ IF Idempotent(fn[c]) THEN Store!Fail(c) ELSE UNCHANGED store
  /\ Leave(c)
  /\ UNCHANGED breaker

\* Fault: the breaker does not hear of the cancellation.
FaultCancelRun(c) ==
  /\ phase[c] # "idle"
  /\ IF phase[c] = "running" /\ Guarded(fn[c])
     THEN /\ call' = [call EXCEPT ![c] = "idle"]
          /\ current' = current \ {c}
          /\ UNCHANGED <<state, failureCount, openedAge, probeInFlight, freed>>
     ELSE UNCHANGED breaker
  /\ IF Idempotent(fn[c]) THEN Store!CancelOwner(c) ELSE UNCHANGED store
  /\ Leave(c)

\* The task is cancelled at an await of its run: breaker and store hear of
\* it in one step, since neither of their handlers awaits.
CancelRun(c) ==
  /\ phase[c] # "idle"
  /\ IF phase[c] = "running" /\ Guarded(fn[c]) THEN CB!Cancelled(c) ELSE UNCHANGED breaker
  /\ IF Idempotent(fn[c]) THEN Store!CancelOwner(c) ELSE UNCHANGED store
  /\ Leave(c)

CancelJoined(c) ==
  /\ Store!CancelJoined(c)
  /\ UNCHANGED <<program, config, run, breaker>>

\* time.monotonic(), the clock of breaker and stores
Tick ==
  /\ Store!Tick
  /\ CB!Tick \/ (openedAge >= RecoveryTimeout /\ UNCHANGED breaker)
  /\ UNCHANGED <<program, config, run>>

-----------------------------------------------------------------------------
AttemptEnds(c) == AttemptReturns(c) \/ \E e \in {"error", "limited"} : AttemptRaises(c, e)
Proceed(c) == BeginAttempt(c) \/ AttemptEnds(c) \/ FallbackEnds(c) \/ Succeeds(c) \/ Fails(c)

Next ==
  \/ \E d \in Decorators : Resilient(d)
  \/ \E c \in Callers, f \in Functions, k \in CallKeys : CallIdempotent(c, f, k)
  \/ \E c \in Callers, f \in Functions : CallPlain(c, f)
  \/ \E c \in Callers : Resume(c) \/ Proceed(c) \/ CancelRun(c) \/ CancelJoined(c)
  \/ Tick

Spec == Init /\ [][Next]_vars

\* Awaited functions, candidates, sinks and delays end, and the event loop
\* runs every task it can.
Fairness == \A c \in Callers : WF_vars(Proceed(c)) /\ WF_vars(Resume(c))

FairSpec == Spec /\ Fairness

-----------------------------------------------------------------------------
(* Properties                                                              *)

\* The docstring of resilient(), as sets of options: a simple option goes
\* neither with its advanced counterpart nor without the option it refines.
OptionGroups == {
  [simple |-> {"retries", "retryOn"}, main |-> "retries", advanced |-> "retry"],
  [simple |-> {"fallback"}, main |-> "fallback", advanced |-> "fallbacks"],
  [simple |-> {"idempotencyKey", "idempotencyStore", "idempotencyTTL"},
   main |-> "idempotencyKey", advanced |-> "idempotency"],
  [simple |-> {"rateLimitOn", "retryAfter", "maxRateLimitWait"},
   main |-> "rateLimitOn", advanced |-> "rateLimit"] }

Conflicting(o) ==
  \E g \in OptionGroups :
    /\ \E s \in g.simple : Given(o[s])
    /\ Given(o[g.advanced]) \/ ~Given(o[g.main])

Malformed(o) ==
  \/ Given(o.name) /\ o.name.blank
  \/ Given(o.retries) /\ ~(o.retries.type \in {"int", "huge"} /\ o.retries.n >= 0)
  \/ \E t \in {"retryOn", "rateLimitOn"} : Given(o[t]) /\ ~(o[t].type = "tuple" /\ o[t].on # {})
  \/ \E s \in {"timeout", "idempotencyTTL", "maxRateLimitWait"} :
       /\ Given(o[s]) /\ ~(s = "timeout" /\ o[s].type = "policy")
       /\ ~(/\ o[s].type \in {"int", "float"}
            /\ o[s].n > 0 \/ (s = "maxRateLimitWait" /\ o[s].n = 0))

\* An int that no float can hold, where seconds are expected.
TooLarge(o) == \E s \in {"timeout", "idempotencyTTL", "maxRateLimitWait"} : o[s].type = "huge"

DocumentedErrors == {"ValueError", "TypeError"}

\* Of all combinations of options exactly those are refused that conflict or
\* hold an invalid value, before any function is decorated, however the
\* checks of the groups shadow one another.  "Invalid or conflicting
\* configuration raises ValueError or TypeError" is true but for one case: a
\* duration too large for a float may raise OverflowError.
RefusesInvalidOptions ==
  \A d \in Decorators :
    LET o == program.options[d]
    IN config[d].status # "new" =>
         /\ config[d].status = "refused" <=> Conflicting(o) \/ Malformed(o)
         /\ config[d].status = "refused" =>
              \/ config[d].error \in DocumentedErrors
              \/ config[d].error = "OverflowError" /\ TooLarge(o)

\* The attempts an option set allows, from the docstring: "retries=N means N
\* retries after the initial attempt".
Allowed(o) ==
  IF Given(o.retry) THEN o.retry.maxAttempts
  ELSE IF Given(o.retries) THEN o.retries.n + 1 ELSE 1

\* The attempts of a run, rejected ones included, stay within what the
\* options say, whatever owners are cancelled and whichever task takes the
\* key over; and where every failure is retried, a run gives up only after
\* all of them.
AttemptsAsConfigured ==
  \A c \in Callers : phase[c] # "idle" =>
    LET o == program.options[program.decorates[fn[c]]]
        retriesAll == ~Given(o.retryOn) /\ ~Given(o.retry)
                      /\ ~Given(o.rateLimit) /\ ~Given(o.rateLimitOn)
    IN /\ attempt[c] \in 1..Allowed(o)
       /\ phase[c] \in {"fallback", "failing"} /\ retriesAll /\ ~Given(o.fallback) =>
            attempt[c] = Allowed(o)

\* "the entire operation lifecycle is coordinated under one idempotency
\* key" (run()): a task executes a key exactly as long as its run lasts,
\* over all attempts, rejections, delays and fallbacks; so two runs of one
\* key never overlap, and none runs while a result of the key is valid.
LifecycleUnderKey ==
  \A c \in Callers :
    LET owns == pc[c] = "running"
    IN /\ owns <=> phase[c] # "idle" /\ Idempotent(fn[c])
       /\ owns => /\ key[c] \in {Of(fn[c]).idempotency.store} \X CallKeys
                  /\ entries[key[c]] = Store!Pending(c)

\* What a key replays was accepted as the result of a run: neither a
\* rejection by the open breaker nor a failure or an error of a sink after
\* the result was accepted is ever cached.
OnlyAcceptedCached ==
  [][\A k \in StoreKeys :
       entries'[k].status = "done" /\ entries[k].status # "done" =>
         \E c \in Callers : entries[k].owner = c /\ phase[c] = "accepted"
                            /\ entries'[k].value = fn[c]]_vars

\* Two functions get at each other's results only through one decorator or a
\* store object their options name both.
NamedStore(o) ==
  IF Given(o.idempotencyStore) THEN o.idempotencyStore.id
  ELSE IF Given(o.idempotency) THEN o.idempotency.store ELSE NoKey

ResultsStayInStore ==
  \A c \in Callers :
    fn[c] # NoValue /\ result[c] \in Functions /\ Idempotent(fn[c]) =>
      LET d == program.decorates[fn[c]]
          e == program.decorates[result[c]]
          named == NamedStore(program.options[d])
      IN d = e \/ (named # NoKey /\ named = NamedStore(program.options[e]))

\* "Each decorated function gets its own store" when the options name none.
OwnStoreEach ==
  \A c \in Callers :
    fn[c] # NoValue /\ result[c] \in Functions /\ Idempotent(fn[c]) =>
      LET o == program.options[program.decorates[fn[c]]]
      IN NamedStore(o) = NoKey => result[c] = fn[c]

\* The promise of the breaker, seen from the functions behind it: whatever
\* tasks retry, wait for a rate limit or take a key over, no guarded function
\* is called while the breaker is open and its timeout runs.
Promise == INSTANCE BreakerPromise WITH
  mode <- state,
  age <- IF state = CB!OPEN THEN openedAge ELSE 0,
  inFlight <- {c \in Callers : phase[c] = "running" /\ Guarded(fn[c])}

FunctionsKeepPromise == Promise!PSpec

\* A run that holds the probe slot gives it back, although it may be
\* cancelled, retried, or waiting with others for its key.
SlotReleased == probeInFlight ~> ~probeInFlight

\* Every call of a decorated function ends once owners are no longer
\* cancelled: joined tasks are served by the run that owns their key, and a
\* run ends, also when the breaker rejects all of its attempts.
NoRunCancelled == \A c \in Callers : ~CancelRun(c)

RunsAndJoinersEnd ==
  <>[][NoRunCancelled]_vars =>
    \A c \in Callers :
      (phase[c] # "idle" \/ pc[c] # "idle") ~> (phase[c] = "idle" /\ pc[c] = "idle")
=============================================================================
