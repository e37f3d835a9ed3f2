# A TLA+ verification project for relprim

relprim is a Python library of reliability primitives for asyncio programs:
retries, timeouts, fallbacks, a circuit breaker, idempotent execution,
rate-limit handling, result validation, structured events and a SQLite event
store, composed by `AsyncOperation` and the `resilient` decorator. This
directory holds TLA+ modules of its stateful parts, the TLC configurations
that check them on small instances, and proofs for every instance.

Run from this directory:

    tlc -workers 2 -config MCCircuitBreaker.cfg MCCircuitBreaker
    tlapm CircuitBreakerProofs.tla

`PROJECT.json` lists the runs with what each expects, the source lines every
definition stands for, the hazards of the code with the properties that watch
them, and for each property a deliberate bug (a definition named `Fault...`,
used by no action) that makes its run fail.

## Inventory

All paths are under `src/src/relprim/`.

| Component | State | Operations | What makes it hard | What makes it correct |
| --- | --- | --- | --- | --- |
| `circuit_breaker.py` | state, failure count, opening time, half-open probe slot | `run_async`, `reset`, `snapshot` | calls overlap; outcomes arrive late and in any state; cancellation cleans up without the lock | fields agree, the slot is never leaked, rejection lasts exactly the recovery timeout, the breaker recovers |
| `idempotency.py` (store) | entries: key, future, owner task, expiry | `execute`, `purge_expired`, `entry_count` | owners cancelled while others join; retries; lazy expiry; nesting | one execution per key, no stranded key, no lost wake-up, replay only within the TTL |
| `idempotency.py` (policy) | its store and TTL | `run` | the store may be shared by policies, and one policy by functions | a whole lifecycle runs under one key |
| `operation.py`, `report.py` | one run: attempts, rate-limit summary, the point reached | `run` | an await, hence a failing sink or a cancellation, between any two updates | events, attempts and report agree; retries, then fallback, then the end; an accepted result is final |
| `rate_limit.py` | none | `evaluate` | unusable or extreme hints | an unusable hint becomes an attempt's failure |
| `fallback.py` | failures of one run of the chain | `run` | the chain may stop half-way | candidates in order, failures reported |
| `sqlite_events.py` | initialized flag and lock per store; the file: journal mode, schema version, rows, ids | `initialize`, `emit`, `history`, `delete_before` | worker threads that outlive a cancelled task; several processes; crashes; busy database | no statement before the schema, truthful `emit`, ids in real-time order, gapless paging |
| `events.py` | in-memory sink's list | `emit`, `events`, `clear` | the sinks of one event are awaited in turn | in order, and nothing after a failure |
| `retry.py` | none between runs | `run`, `run_async`, `delay_for_retry` | overflow of the power; a cancelled sleep or attempt | delays as documented, no attempt too many, none after a cancellation |
| `timeout.py` | one deadline per call | `run_async` | deadline, answer and cancellation race; deadlines inside deadlines cancel the same task | only its own expiry becomes `OperationTimeoutError`, a cancellation stays one |
| `validation.py` | none | `validate` | none | first failure wins |
| `decorators.py` | the policies made by one call of `resilient` | `resilient`, the decorator, the decorated function | many combinations of arguments; policies and breakers shared by functions | refused as documented, the policies the arguments mean, lifecycles under their keys |
| `_checks.py` | none | `check_seconds`, `check_exception_types` | numbers no float can hold | the options refused are the invalid ones |
| `result.py`, `errors.py` | none | constructors | none | out of scope |
| `jsonschema.py`, `pydantic.py`, `opentelemetry.py` | none | adapters | third-party code | out of scope |

How they interact: an operation asks the idempotency store for its key, then
runs attempts; an attempt is the operation under the timeout, followed by the
validators, all of it inside the circuit breaker; a failed attempt is
classified by the rate-limit and retry policies and followed by a delay,
the fallback chain or the end; every stage sends events through the emitter to
its sinks, of which the SQLite store is one. Breakers, idempotency stores and
event stores are shared by tasks; everything else belongs to one run.

## Modules

| Module | Role |
| --- | --- |
| `CircuitBreaker` | the breaker shared by tasks |
| `BreakerPromise` | what a breaker promises; `CircuitBreaker` refines it |
| `CircuitBreakerProofs` | theorems about `CircuitBreaker` |
| `InMemoryIdempotency` | the store shared by tasks, with nested calls |
| `IdempotencyContract` | what a store promises; `InMemoryIdempotency` refines it |
| `InMemoryIdempotencyProofs` | theorems about `InMemoryIdempotency` |
| `AsyncOperation` | one run of an operation, with retry plan, rate limits, validation, fallback chain and several sinks |
| `AsyncOperationProofs` | theorems about `AsyncOperation`: its paths, its sinks, its end |
| `OperationStoryProofs` | theorems about `AsyncOperation`: its events, attempts and report |
| `TimedRetry` | the retry loop and the deadlines around it and inside it, over `Task.cancel()` |
| `TimedRetryProofs` | theorems about `TimedRetry` |
| `ResilientOptions` | the arguments of `resilient()` and the policies they become |
| `Resilient` | decorated functions called by tasks: composes runs, `CircuitBreaker`, `InMemoryIdempotency` and `ResilientOptions` |
| `ResilientProofs` | theorems about `Resilient`, from those about the store and the breaker |
| `SQLiteEventStore` | several stores on one database file |
| `SQLiteEventStoreProofs` | theorems about `SQLiteEventStore` |
| `MC...` | constants for TLC |

### CircuitBreaker

`run_async()` has two critical sections around one await. `_before_call()` is
`Admit`, `AdmitProbe` or `Reject`; the handler of the outcome is
`AfterSuccess`, `AfterRecordedFailure`, `AfterIgnoredFailure` (an exception
outside `record_failure_on`) or `Cancelled` (any other BaseException). No
critical section awaits, so each is one action. A task that has not yet got the
lock has changed nothing, and a call or outcome waiting for it is the same
state as one that has not happened. What the lock adds is delay, with one
exception that is not modelled: a task cancelled while it waits for the lock in
`_after_failure()` or `_after_success()` leaves without recording its outcome.
The lock is never held across an await, so the wait only exists if another
task was already queued for it.

`openedAge` is the age of `_opened_at`, saturated at the recovery timeout,
because the code compares the elapsed time with that timeout and nothing else.
`current` and `freed` are history variables, the probes admitted in the present
half-open period and whether the slot was given back in it; nothing reads them
but properties.

### InMemoryIdempotency

`execute()` is `Execute`, whose lookup under the lock has four branches: `Own`
a new entry, `Reenter` (the error for the owning task), `Join` the owner's
future, or `Replay` a resolved one. An owner ends with `Succeed`, `Fail` or
`CancelOwner`; each publishes and, unless it succeeded, releases the key in
the same step, because the code does not await in between. Resolving a future
and running a task that waited for it are two steps (`Resolve`, then `Retry`
or `Deliver`), and a cancellation (`CancelJoined`) may come in between. An
unfinished future is named by its owner, which has only one. `Purge` stands
for `purge_expired()` and `entry_count()`. `left` is the time to `expires_at`.

A call nested in the operation of another one is pending only while that
operation runs and holds it up. `MayNest` says which keys may be used inside
which.

`IdempotencyContract` has no entries, futures or purges: a key is executing or
not, and has a result for so many more ticks or not. The refinement maps an
expired entry that is still in the dictionary to no result at all, so a replay
of it would be a step the contract does not have.

### AsyncOperation

`run()` is straight-line code between awaits, and nearly every line awaits a
sink. `todo` is the rest of the path: events to send, a delay, an attempt or a
candidate to await, and between them the records appended and the ends
reached. `Deliver` gives the event at hand to the next sink (`sink`) and, after
the last one, executes the code up to the next await; `SinkRaises` and `Cancel`
end the run there, which may leave some sinks with the event and others without.
`AttemptFails` computes the retry plan (`Plan`) and the metadata of the attempt
(`FailureMeta`) and puts the events of the failure and what follows it on
`todo`; `AttemptSucceeds`, `CandidateSucceeds` and `CandidateFails` do the same
for their outcomes. Exceptions are classes, because the code only asks which
policy they match; a rate-limit hint is a class as well (within the maximum
wait, beyond it, unusable, too large for a float, or none with the backoff delay
in its place). The classes are disjoint: an exception that is both, say,
rate-limited and a timeout is not modelled. Of the metadata the model keeps what
is derived at one line and told at another: the verdict of the validation, the
flags of rate limits and of the open breaker, and whether a failure is marked
as retryable.

`received`, `accepted` and `invalid` are history variables.

### TimedRetry

One task, one step from an await to the next. `OperationEnds` takes an exception
through every layer: the deadline of the attempt, the retry loop with its delay
or its end, the total deadline. `Wake` ends a delay. `EachFires`, `TotalFires`
and `CancelCall` strike in between; each counts one cancellation in
`cancelling` and leaves a `CancelledError` on its way (`pending`), however many
there are. `OperationCleansUp` is an operation that catches its
`CancelledError` and awaits something else before it ends (`owed`); it may then
end with it, with an error, or with a value, and `swallowed` records the ends
that hide a cancellation.

`asyncio.timeout()` is code of CPython, modelled from its documented protocol:
it notes `Task.cancelling()` on entry, cancels the task when it expires, takes
that back on exit, and answers for a `CancelledError` only if no more than the
noted count is left. Layouts without deadlines stand for the plain loop, and with
`sync` for `RetryPolicy.run()`. Times are not modelled: a deadline may fire at
any await. `raised` is a history variable: what the operation did at the end of
the latest attempt, before any layer saw it. Delays are natural numbers, in a
unit as fine as one likes, so fractions of seconds are among them; powers are
plain numbers, and `FloatMax` is where a power overflows. A base delay may
therefore be so small that its product with `FloatMax` is still below the cap.
The rounding of floats is left out.

### ResilientOptions and Resilient

An option is `None` or a value with its Python type, as far as a check asks for
it. `OptionErrors` is the sequence of errors the checks of `resilient()` would
raise, in their order, of which the first one is raised; `Resolved` is the
configuration of an accepted call.

`Resilient(d)` is a call of `resilient()`. A task calls a decorated function
with a key (`CallIdempotent`, the lookup of the store) or without one
(`CallPlain`); `Begin` marks the tasks that now own a run. `BeginAttempt` asks
the breaker, which admits the attempt or rejects it; `AttemptReturns` and
`AttemptRaises` give the outcome to the breaker and decide with `AttemptFails`
between another attempt, the fallback and the failure; `Succeeds` and `Fails` end
the run and resolve its key in the same step, for the code does not await in
between. `CancelRun` ends a run at any await. Breaker and store are the modules
above: their actions are conjuncts of the actions here, so a step of a run
includes the whole critical section of the breaker or store it enters. Stores and
keys are pairs, since no step of the store involves two keys.

Between two attempts of a run lie events and a delay, which are one phase;
`AsyncOperation` looks inside of it, for one run alone.

### SQLiteEventStore

A call is a task (`pc`) and its worker thread (`thread`). `Call` and `Acquire`
are `_ensure_initialized()` with the double check around the lock; a newcomer
does not overtake waiters. The thread walks through `_initialize_sync()`: the
look at the journal mode, the switch to WAL, `BEGIN IMMEDIATE`, the migration
and its commit; or through one statement. `Cancel` drops a queued thread and
leaves a started one running, which is what `asyncio.to_thread` does.
`ThreadFails` is any `sqlite3` error, before or within a transaction, with
rollback and close; `Crash` ends the process of a store.

From SQLite the model takes one write lock, transactions that are all or
nothing, ids that `AUTOINCREMENT` does not reuse, and readers that WAL does not
hold up. These are guarantees of SQLite, not of this code, and are the
external part of the model. The reader is the documented pagination loop: it
passes the last sequence id of a page to the next call.

## Runs

| Run | Instance | Shows |
| --- | --- | --- |
| `breaker` | 4 tasks, threshold 3, timeout 2 ticks, all outcomes | fields agree, the slot is not leaked, no second probe unless the slot was given back, the promise is kept, the breaker recovers |
| `breaker_probe` | 3 tasks, all outcomes | two probes at once (violation) |
| `idempotency` | 3 tasks, a nested call, 2 keys, 1 result, TTL 1 or 2 | safety, the contract, and that every call is served |
| `operation` | 6 configurations, 1 to 3 attempts, 0 to 2 candidates, 0 to 3 sinks | sinks, events, metadata, report and order of a run; it ends |
| `operation_raises` | the same | an error of the planning code escapes (violation) |
| `operation_invalid` | the same | an invalid result without its event (violation) |
| `timed_retry` | 9 nestings, 4 backoffs, 4 attempts, 2 cancellations | each layer answers for its own deadline, cancellations propagate, delays are right short of the overflow and never beyond the cap, hanging operations are ended |
| `timed_retry_delays` | the same | a delay jumps to the maximum when the power overflows (violation) |
| `functions` | 647 combinations of options; 4 programs of 2 functions, 2 tasks, 1 breaker, 3 stores | exactly the invalid options are refused; lifecycles under their keys, only accepted results replayed, the breaker's promise, every call ends |
| `functions_store` | one decorator on two functions | they share the default store (violation) |
| `event_store` | 2 processes, 2 emits, a reader with pages of 1, a deletion, a new or a newer file | schema, write lock, truth of `emit`, ids, paging |
| `event_store_live` | the same without deletion, new file | every call ends |

Why the bounds are enough:

- Breaker: 4 tasks let a late call, a probe, a second probe and a newcomer meet
  in one half-open period; with threshold 3 failures accumulate across
  overlapping calls; more ticks only repeat "not yet". The safety results
  are proved for all values.
- Idempotency: an owner, a call that joined it and a newcomer are needed for
  every race of the loop; the nested call adds re-entry and a second key. TTLs 1
  and 2 differ by the tick that matters. One result is enough to tell an answer
  from none; that an answer is stale shows in the contract's time to live and not
  in its value. Safety and the contract are proved for all values, any number
  of results included.
- Operation: 3 attempts show a first, a middle and a last one; 2 candidates a
  next one and a last one; 2 sinks one that has the event and one that does not.
  The configurations turn each policy off once and make fallback and retry apply
  to some classes only.
- TimedRetry: `MaxCancels` 2 allows a cancellation before the run, which shifts
  every count, and one during it, or two during it. Four attempts have three
  delays: before, at and beyond the cap or the overflow. The backoffs reach
  their cap, overflow beyond it, overflow short of it, and start from 0. The
  safety results are proved for all values.
- Functions: two tasks are an owner and a joiner of one key, or two probes of one
  breaker; threshold and timeout 2 let a run open the breaker by its own retries
  and let it be rejected before and admitted after the timeout. The programs
  differ in what is shared: default stores, a store named by both, one function
  without a key, one decorator for both. The trial programs take every
  combination of an option group, with numbers below, at and above each boundary
  and of each type, and decorate nothing.
- Event store: an id is reused wrongly, and a page skips a row wrongly, with two
  events, one deletion and one reader; each store has a second call that waits
  for the initialization. The safety results
  are proved for all values.

Calls of the event store are made once and a run of an operation or of a retry
loop ends, so these models stop by design and deadlock is not checked there.

### Fairness

- Breaker: the clock runs, protected operations end, and tasks keep calling
  (weak fairness). Without callers an open breaker stays open: the code has no
  timer of its own. `Recovers` assumes strong fairness of "a probe of the
  present period succeeds": the dependency has recovered. `reset()` is never
  assumed.
- Idempotency: an operation ends (strong fairness, because each nested call it
  makes disables its end for a while) and the event loop runs woken tasks.
  `CallersServed` holds for behaviours in which owners are cancelled finitely
  often; if every new owner is cancelled, a waiter can go round for ever.
- Operation: whatever a run awaits ends.
- TimedRetry: deadlines fire, sleeps end, and an operation that was sent a
  `CancelledError` ends. That an operation ends by itself is not assumed: the
  deadlines are there for those that hang.
- Functions: a task whose run can go on goes on (attempts, fallbacks and sinks
  end), the event loop runs woken tasks, and nothing makes a task call a
  function. `RunsAndJoinersEnd` holds for behaviours in which runs are cancelled finitely
  often.
- Event store: the event loop resumes tasks, and a thread moves on or fails. The
  latter is the busy timeout: without it a thread that waits for the write lock
  could be overtaken for ever by initializations that crash and start again.

## What is proved

Every theorem holds for all values of the constants that satisfy the named
assumption of the model. Each model has one inductive invariant, `IInv`, with
`InitIInv`, and `StepIInv` with one step or lemma per action; further invariants
(`SInv`, `RInv`) are inductive relative to it.

`CircuitBreakerProofs`, from `BreakerAssumption` (positive threshold and
timeout):

- `TypeCorrect`, `CoherentAlways`, `SlotNeverLeaks`. The inductive invariant
  adds to the type invariant, `Coherent` and `SlotHasProbe` that the probes of
  `current` are running probes and that there are none outside half-open
  (`CurrentOK`): the end of a call may leave the slot taken only because the
  call that ends is not the one the slot stands for. `OpenIInv` and
  `CloseIInv` say that the two setters re-establish the invariant from any
  state.
- `SingleProbeAlways`: a half-open breaker has its slot taken unless it was
  given back in this period (`SlotInv`), so only then a second probe can be
  admitted. `SingleProbeWhenPlain` follows: where calls only succeed or fail as
  recorded, nothing ever gives the slot back.
- `BreakerKeepsPromise`: the refinement of `BreakerPromise`, from `IInv`.

`InMemoryIdempotencyProofs`, from `IdempotencyAssumption` (the null values are
not values, results are not names of exceptions):

- `TypeCorrect`, `AtMostOneExecution`, `NoKeyStranded`, `NoLostWakeup`.
  `OneExecution` is not inductive. The invariant links executing calls and
  entries in both directions: an executing call still holds the entry it made
  (`OwnerHolds`: the test `entry.future is future` of the code never fails),
  and an unfinished entry has an executing owner. `BystanderStep` and
  `ResolveStep` cover the two ways a step changes the state, and the critical
  section is one lemma, `LookupStep`, used for new calls and retries.
- `StoreKeepsContract`: the refinement of `IdempotencyContract`. Beside `IInv` it
  needs that calls leave nothing behind when they end (`CallsClean`). Each of
  `LookupContract` and `FinishContract` compares the four functions of the
  refinement mapping before and after a step; `PurgeUnseen` is why lazy purging
  is correct.

`TimedRetryProofs`, from `TimedRetryAssumption` (layouts, backoffs and bounds are
what the constructors accept):

- `TypeCorrect`, `CancellingAlwaysRestored`, `ExpiryAlwaysToldByItsOwn`,
  `CancellationAlwaysPropagates`, `RetriesAlwaysAgree`,
  `NeverAttemptedAfterCancel`. The core is `Counted`: `task.cancelling()` is at
  all times the number of cancellations by others plus one for each deadline
  that is expiring. `Sent` adds that a cancelled run has its `CancelledError` on
  the way until someone swallows it, and that until then both deadlines were
  entered at the same count: that lets the inner deadline leave an outer
  cancellation alone. `Nested` says which deadline is live where, and `Paced`
  ties the delays to the attempts.
- `DelaysAlwaysRightOrCapped`: every delay is one computed for its retry (`Slept`,
  inductive with the above), and what is computed is the documented delay or, with
  a base delay too small for the overflow, at most the cap (`DelayIs`,
  `SleptRight`), for any backoff and any number of retries. The documented delay
  caps after each multiplication and the code once, after a power; that this is
  the same (`DocumentedIs`) rests on `CapAgain`, and that the handler of an
  overflow may take the cap on the documented delay having reached it by then
  (`CapReached`, from `ProductGrows`).
  `UpTo` is induction along the numbers below a bound, from the library's
  well-founded order, with a set in place of the predicate; it also shows that
  the recursions of `Power` and `Documented` have a solution (`PowerIs`).
- What `ExpiryAlwaysToldByItsOwn` says of an operation's own `TimeoutError` ends
  where a deadline has passed; there the code and its docstring part (see below).

`AsyncOperationProofs`, from `ConfigAssumption` (configurations the builder makes):

- `SinksAlwaysInOrder`: while a run goes on, the sinks before `sink` have the event
  at hand and nothing else tells one sink from another (`OnItsWay`). `InOrder` is
  the fact about sequences behind it.
- `AcceptedAlwaysFinal`: after an accepted result `todo` holds neither an await nor
  the failed end (`Final`).
- Both need that `todo` is a path (`Path`, `Suspended`): events and records up to
  one await or one end, so that there is always a next step. `SuccessPath`,
  `RescuedPath`, `FailurePath` and `FallbackFailsPath` show it of every piece of
  code between two awaits.

`OperationStoryProofs`, from the same assumption and `IInv`:

- `EventsAlwaysFollow`, `ReportAlwaysAgrees`, `RetriesAlwaysFirst`. The three are
  parts of one invariant (`SInv`), since each is needed for the next step of the
  others. Its core (`Telling`) is that what a sink has received and what lies
  ahead of it on `todo` are the two halves of one story about `A`, the attempts
  recorded with the one that `todo` is about to record:
  `Ran` says what sequence of attempts `A` may be, `Course` where `todo` leads from
  there and what it announces on the way, `Tale` and `Waited` what a sink has
  been told of `A` so far, with `Once` for the events that come once for each
  number. Each conjunct is about the path of a run and not about its
  properties, which follow from it for any moment (`TaleFollows`, `TaleAgrees`,
  `RetriesOf`).
- The delivery of an event moves it from one half to the other (`EventMoves`,
  `EventCounts`), and a record moves to the attempts (`RecordMoves`), which
  changes neither `A` nor the story: `DeliverTells` and `LeftAsTold`, the lemma of
  every way to leave a run. Only the end of an await adds a chapter
  (`NewChapter`): what is told of the new attempt before its record (`Opening`),
  its record, and what follows (`Closing`). Each outcome of an attempt or a
  candidate has its opening and closing: `AttemptSucceedsTells`, `FailureTells`,
  `FallbackTells`.
- `PlanIs`: a retry plan is never one its constructor refuses, and it retries
  exactly the failures that may be retried, while attempts are left.

`ResilientProofs`, from `ResilientAssumption` (what a program can pass to
`resilient()`: numbers are numbers, retry policies have passed their own check,
stores it names are stores it made) and `ComponentAssumption` (those of breaker
and store):

- `PartsAsSpecified`: the composition refines `InMemoryIdempotency` and
  `CircuitBreaker`. Its invariant `RInv` begins with the invariants of the two;
  the proof modules of both are instantiated here, and `StepIInv` of each is used
  as it stands, because every step of a decorated function is a step of the
  store or leaves it alone, and likewise of the breaker. That needs the rest of
  `RInv`: the breaker knows exactly the attempts it guards (`CallsMatch`), so an
  attempt that ends is one it admitted, and owners, joined and woken calls use
  the store of their own function (`KeysMatch`). `StoresStaySafe` carries the
  results about the store over.
- `RunsUnderTheirKey`: from `KeysMatch`, whose third part is that a task that
  executes a key has a run. The end of an attempt and the end of a key meet in
  no action but those that end the run.
- `FunctionsBehindPromise`: as `BreakerKeepsPromise`, with the calls in flight
  taken from the runs; `CallsMatch` makes them the same.
- `CachedWasAccepted`, an action property, from `RInv`.
- `ResultsStayHome`: `ResultsMatch` follows a result from the function that
  published it to the entry, to the calls that wait for it and to their
  callers; each holds a result of a function whose policy has that very store.
  It is inductive relative to `RInv`, and options that passed the checks
  (`PoliciesOf`) tell where the store came from.
- `AttemptsBounded`: `AttemptsMatch`, relative to `RInv`, bounds the number of an
  attempt by the policy; `AttemptsOf` says what the options have to do with it.
- `InvalidOptionsRefused`: `RetryPasses`, `IdempotencyPasses`, ... give for
  each group of options the condition under which its checks pass, and
  `OptionsPass` puts them together. `OptionsDocumented` says the same of the
  errors: without a duration too large for a float only `ValueError` and
  `TypeError` are raised; with one, `OverflowError` may be.

`SQLiteEventStoreProofs`, from `StoreAssumption` (the kinds of calls are
disjoint, pages are not empty, schema versions are positive):

- `SchemaAlwaysReady`: the invariant (`Migrated`) says it of a thread about to
  return from the initialization too. `WriterAlwaysAtWork` is inductive with
  `ThreadsFollow`, which ties a thread to the await of its task: a task that does
  not wait for a thread has none, unless it was cancelled.
- `EmitTellsTheTruth`: an event has an id exactly from its commit on, and then
  its thread, its return or a cancellation or crash can be seen (`Told`).
- `IdsFollowRealTime`: an emit that counts as earlier has returned for good
  (`EarlierReturned`), and a new id is larger than all before it.
- `PagingIsComplete`: a page that was fetched has no gap after the cursor it was
  fetched for (`PageMissesNothing`). `FirstPageHasNoGap` proves it for any page
  size and filters from the definition of the query, and `MaxIs` that a page has
  a last row, by the library's well-founded induction on the integers.

Only model-checked: all liveness, which the proof system cannot do under
fairness, and the properties that the code violates, of course. Every invariant
and every action property of a passing run is a theorem.

## Where code and documentation differ

With a run that shows it:

- `breaker_probe`: the docstring allows "a single probe call" in the half-open
  state. An ignored exception of any call frees the slot, and so does a
  cancelled probe of an earlier period, so two probes can run at once.
- `operation_raises`: an integer hint too large for `float()` makes `run()`
  raise `OverflowError` where the docs announce `RetryAfterExtractionError`
  as the attempt's failure.
- `operation_invalid`: a candidate's invalid result has no `validation.failed`
  event when a later candidate ends the chain with an exception the policy does
  not fall back from.
- `functions_store`: the default store belongs to the call of `resilient()`, so a
  decorator applied to two functions lets them answer each other's calls;
  `docs/idempotency.md:264` gives each function its own.
- `timed_retry_delays`: when the power overflows, `delay_for_retry` returns the
  maximum delay whatever the base delay is; from a base delay of 0, or one so
  small that its product has not reached the cap, the documented delay is less
  (`retry.py:25-27`).

Stated as an exception in the property of a passing run:

- `RefusesInvalidOptions`: `resilient(timeout=10**400)`, and any other duration no
  float can hold, may raise `OverflowError`; the docstring (`decorators.py:337`)
  and `docs/api-reference.md:57` announce `ValueError` or `TypeError`.
- `ExpiryToldByItsOwn`: a `TimeoutError` that an operation raises by itself while
  a deadline around it is expiring becomes `OperationTimeoutError`; the docstring
  (`timeout.py:27-29`) lets it propagate unchanged.

Met while modelling, without a run:

- `retries=0` makes no retry policy, which the report tells from
  `RetryPolicy(max_attempts=1)`: `retry_enabled` is false.
- An operation that raises a `BaseException` other than `CancelledError` leaves
  its idempotency key occupied, and calls that join it wait for ever. asyncio
  lets `KeyboardInterrupt` and `SystemExit` end the event loop; any other such
  exception just ends the task, and the key stays. The model has none of them.

## Not modelled

- Durations and timestamps (but for the order the event store filters by), the
  values of delays in a run, and the encoding of rows: data that no property
  tells apart. Of the metadata, see `AsyncOperation` above.
- `snapshot()`, `events()` and other reads without effect; `clear()` of the
  in-memory sink, a tool for tests.
- The loop over validators, results, errors and the adapters to optional
  libraries: pure functions and carriers of values.
- Cancellation while a task queues for the breaker's or the idempotency store's
  lock (see `CircuitBreaker` above).
- Stores of different releases on one file: all stores of the model have the same
  `SchemaVersion`; the file they find may be new, of that release or of a newer
  one.
- Exceptions that belong to several classes at once; the name inferred for a
  decorated function.

## What is left

An abstract event log that `SQLiteEventStore` refines, and an abstract run
(attempts, then candidates, then one end) that `AsyncOperation` refines, with the
proofs of both refinements.
