--------------------------- MODULE ResilientProofs ---------------------------
(***************************************************************************)
(* The safety of Resilient for any tasks, functions, decorators, stores,   *)
(* keys and programs: the composition lets the breaker and the stores take *)
(* only steps of their own specifications, so what is proved of each of    *)
(* them alone holds behind every decorated function, and the properties of *)
(* whole runs follow from how the states of the parts are tied together.   *)
(***************************************************************************)
EXTENDS Resilient, TLAPS

\* The theorems about the stores and about the breaker.
SP == INSTANCE InMemoryIdempotencyProofs WITH
  Calls <- Callers, TaskOf <- [c \in Callers |-> c], ParentOf <- [c \in Callers |-> NoCall],
  Keys <- StoreKeys, MayNest <- {}, Values <- Functions

CP == INSTANCE CircuitBreakerProofs WITH
  Outcomes <- {"success", "recorded", "ignored", "cancelled"}

-----------------------------------------------------------------------------
(* The inductive invariant                                                 *)

\* resilient() either refuses its options or keeps what they resolve to.
ConfigOK ==
  /\ program \in Programs
  /\ config = [d \in Decorators |-> config[d]]
  /\ \A d \in Decorators :
       LET o == program.options[d]
       IN \/ config[d].status = "new"
          \/ /\ config[d].status = "refused"
             /\ OptionErrors(o) # <<>>
             /\ config[d].error = Head(OptionErrors(o))
          \/ /\ config[d].status = "ready"
             /\ OptionErrors(o) = <<>>
             /\ config[d].policies = Resolved(o, d)

\* A task only ever calls decorated functions.
RunsOK ==
  /\ fn \in [Callers -> Functions \cup {NoValue}]
  /\ phase \in [Callers -> {"idle", "between", "running", "accepted", "fallback", "failing"}]
  /\ attempt \in [Callers -> Nat]
  /\ \A c \in Callers :
       /\ fn[c] # NoValue => Decorated(fn[c])
       /\ phase[c] # "idle" \/ pc[c] # "idle" => fn[c] # NoValue

\* The breaker knows exactly the attempts that it guards.
CallsMatch ==
  \A c \in Callers : call[c] # "idle" <=> phase[c] = "running" /\ Guarded(fn[c])

\* Owning, joined and woken calls alike use the store of their function; an
\* unfinished entry holds nothing but its owner.
KeysMatch ==
  /\ \A c \in Callers : pc[c] # "idle" =>
       /\ Idempotent(fn[c])
       /\ key[c] \in {Of(fn[c]).idempotency.store} \X CallKeys
  /\ \A c \in Callers : phase[c] # "idle" /\ Idempotent(fn[c]) => pc[c] = "running"
  /\ \A c \in Callers : pc[c] = "running" => phase[c] # "idle"
  /\ \A k \in StoreKeys :
       entries[k].status = "pending" => entries[k] = Store!Pending(entries[k].owner)

\* f publishes its results in store s.
Publishes(f, s) ==
  f \in Functions /\ Decorated(f) /\ Idempotent(f) /\ Of(f).idempotency.store = s

\* Results move only from a function to its store and from there to calls
\* of functions with that store.
ResultsMatch ==
  /\ \A k \in StoreKeys :
       entries[k].status = "done" => Publishes(entries[k].value, k[1])
  /\ \A c \in Callers :
       wake[c] \in Functions => pc[c] = "woken" /\ Publishes(wake[c], key[c][1])
  /\ \A c \in Callers :
       fn[c] # NoValue /\ result[c] \in Functions /\ Idempotent(fn[c]) =>
         Publishes(result[c], Of(fn[c]).idempotency.store)

\* Every failure of f is retried while attempts are left.
RetriesAll(f) ==
  Given(Of(f).retry) => Errors \subseteq Of(f).retry.retryOn /\ ~Given(Of(f).rateLimit)

AttemptsMatch ==
  \A c \in Callers : phase[c] # "idle" =>
    /\ attempt[c] \in 1..MaxAttempts(fn[c])
    /\ phase[c] \in {"fallback", "failing"} /\ RetriesAll(fn[c]) =>
         attempt[c] = MaxAttempts(fn[c])

RInv ==
  /\ SP!IInv /\ CP!IInv
  /\ ConfigOK /\ RunsOK /\ CallsMatch /\ KeysMatch

-----------------------------------------------------------------------------
(* The parts.  Store and SP, and CB and CP, are the same specifications,   *)
(* the second one with its theorems.                                       *)

\* What the parts assume of their constants.
LEMMA PartAssumptions == SP!IdempotencyAssumption /\ CP!BreakerAssumption
BY ComponentAssumption DEF SP!IdempotencyAssumption, CP!BreakerAssumption

\* The store of the composition is the store that the theorems are about.
LEMMA SameStore ==
  /\ Store!Init <=> SP!Init
  /\ Store!Next <=> SP!Next
  /\ Store!vars = SP!vars
<1>1. Store!vars = SP!vars
  BY DEF Store!vars, SP!vars
<1>2. Store!Init <=> SP!Init
  BY DEF Store!Init, SP!Init, Store!Absent, SP!Absent
<1>3. \A c \in Callers, k \in StoreKeys : Store!Lookup(c, k) <=> SP!Lookup(c, k)
  BY DEF Store!Lookup, SP!Lookup, Store!Own, SP!Own, Store!Reenter, SP!Reenter,
         Store!Join, SP!Join, Store!Replay, SP!Replay, Store!Leave, SP!Leave,
         Store!Purged, SP!Purged, Store!Absent, SP!Absent, Store!Pending, SP!Pending
<1>4. \A c \in Callers : Store!Finish(c) <=> SP!Finish(c)
  BY DEF Store!Finish, SP!Finish, Store!Succeed, SP!Succeed, Store!Fail, SP!Fail,
         Store!CancelOwner, SP!CancelOwner, Store!Children, SP!Children,
         Store!Resolve, SP!Resolve, Store!Release, SP!Release, Store!Holds, SP!Holds,
         Store!Done, SP!Done, Store!Absent, SP!Absent
<1>5. \A c \in Callers : Store!CancelJoined(c) <=> SP!CancelJoined(c)
  BY DEF Store!CancelJoined, SP!CancelJoined, Store!Leave, SP!Leave
<1>6. \A c \in Callers : Store!Resume(c) <=> SP!Resume(c)
  BY <1>3 DEF Store!Resume, SP!Resume, Store!Retry, SP!Retry, Store!Deliver, SP!Deliver,
              Store!Leave, SP!Leave
<1>7. \A c \in Callers, k \in StoreKeys : Store!Execute(c, k) <=> SP!Execute(c, k)
  BY <1>3 DEF Store!Execute, SP!Execute
<1>8. (Store!Purge <=> SP!Purge) /\ (Store!Tick <=> SP!Tick)
  BY DEF Store!Purge, SP!Purge, Store!Tick, SP!Tick, Store!Purged, SP!Purged,
         Store!Absent, SP!Absent
<1> QED
  BY <1>1, <1>2, <1>4, <1>5, <1>6, <1>7, <1>8 DEF Store!Next, SP!Next

\* So is the breaker.
LEMMA SameBreaker ==
  /\ CB!Init <=> CP!Init
  /\ CB!Next <=> CP!Next
  /\ CB!vars = CP!vars
<1> USE DEF CB!CLOSED, CP!CLOSED, CB!OPEN, CP!OPEN, CB!HALF_OPEN, CP!HALF_OPEN,
            CB!Never, CP!Never, CB!history, CP!history, CB!breaker, CP!breaker
<1>1. CB!vars = CP!vars
  BY DEF CB!vars, CP!vars
<1>2. CB!Init <=> CP!Init
  BY DEF CB!Init, CP!Init
<1>3. \A c \in Callers : CB!BeforeCall(c) <=> CP!BeforeCall(c)
  BY DEF CB!BeforeCall, CP!BeforeCall, CB!Admit, CP!Admit, CB!AdmitProbe, CP!AdmitProbe,
         CB!vars, CP!vars, CB!Reject, CP!Reject, CB!Running, CP!Running,
         CB!ProbeAdmitted, CP!ProbeAdmitted, CB!Elapsed, CP!Elapsed
<1>4. \A c \in Callers : CB!Finish(c) <=> CP!Finish(c)
  BY DEF CB!Finish, CP!Finish, CB!AfterSuccess, CP!AfterSuccess,
         CB!AfterRecordedFailure, CP!AfterRecordedFailure,
         CB!AfterIgnoredFailure, CP!AfterIgnoredFailure, CB!Cancelled, CP!Cancelled,
         CB!Return, CP!Return, CB!Running, CP!Running, CB!Open, CP!Open, CB!Close, CP!Close
<1>5. (CB!Reset <=> CP!Reset) /\ (CB!Tick <=> CP!Tick)
  BY DEF CB!Reset, CP!Reset, CB!Tick, CP!Tick, CB!Close, CP!Close
<1> QED BY <1>1, <1>2, <1>3, <1>4, <1>5 DEF CB!Next, CP!Next

-----------------------------------------------------------------------------
(* What the configuration means for a decorated function                   *)

\* A decorated function has the policies that its options resolve to.
LEMMA PoliciesOf ==
  ASSUME ConfigOK, NEW f \in Functions, Decorated(f)
  PROVE  \E d \in Decorators :
           /\ program.decorates[f] = d
           /\ OptionErrors(program.options[d]) = <<>>
           /\ Passable(program.options[d])
           /\ Of(f) = Resolved(program.options[d], d)
<1>1. PICK d \in Decorators : program.decorates[f] = d /\ config[d].status = "ready"
  BY ResilientAssumption DEF ConfigOK, Decorated, Ready
<1>2. /\ OptionErrors(program.options[d]) = <<>>
      /\ config[d].policies = Resolved(program.options[d], d)
  BY <1>1 DEF ConfigOK
<1>3. Passable(program.options[d])
  BY ResilientAssumption DEF ConfigOK
<1> QED BY <1>1, <1>2, <1>3 DEF Of

\* The store of an idempotent function is one of the program's.
LEMMA StoreOf ==
  ASSUME ConfigOK, NEW f \in Functions, Decorated(f), Idempotent(f)
  PROVE  Of(f).idempotency.store \in Stores \cup Decorators
<1>1. PICK d \in Decorators :
        /\ Passable(program.options[d])
        /\ Of(f) = Resolved(program.options[d], d)
  BY PoliciesOf
<1>2. Of(f).idempotency = ResolvedIdempotency(program.options[d], d)
  BY <1>1 DEF Resolved
<1> QED
  BY <1>1, <1>2 DEF Idempotent, ResolvedIdempotency, IdempotencyPolicy, Passable

\* Calls of resilient() do not touch functions that are decorated already.
LEMMA ResilientStep ==
  ASSUME ConfigOK, NEW d \in Decorators, Resilient(d)
  PROVE  /\ ConfigOK'
         /\ \A f \in Functions : Decorated(f) => Decorated(f)' /\ Of(f)' = Of(f)
<1>1. /\ program' = program
      /\ config' = [config EXCEPT ![d] = config'[d]]
      /\ config[d].status = "new"
  BY DEF Resilient, ConfigOK
<1>2. \/ /\ OptionErrors(program.options[d]) # <<>>
         /\ config'[d].status = "refused"
         /\ config'[d].error = Head(OptionErrors(program.options[d]))
      \/ /\ OptionErrors(program.options[d]) = <<>>
         /\ config'[d].status = "ready"
         /\ config'[d].policies = Resolved(program.options[d], d)
  BY DEF Resilient, ConfigOK
<1>3. \A e \in Decorators \ {d} : config'[e] = config[e]
  BY <1>1 DEF ConfigOK
<1>4. config' = [e \in Decorators |-> config'[e]]
  BY <1>1 DEF ConfigOK
<1>5. ConfigOK'
  BY <1>1, <1>2, <1>3, <1>4 DEF ConfigOK
<1>6. ASSUME NEW f \in Functions, Decorated(f)
      PROVE  Decorated(f)' /\ Of(f)' = Of(f)
  <2>1. PICK e \in Decorators : program.decorates[f] = e /\ config[e].status = "ready"
    BY <1>6, ResilientAssumption DEF ConfigOK, Decorated, Ready
  <2>2. config'[e] = config[e] /\ program'.decorates[f] = e
    BY <1>1, <1>3, <2>1
  <2> QED BY <1>6, <2>1, <2>2 DEF Decorated, Ready, Of
<1> QED BY <1>5, <1>6

-----------------------------------------------------------------------------
(* The parts take only steps of their own.                                 *)

\* Whatever a run does, its store takes a step of InMemoryIdempotency.
LEMMA StoreStep ==
  ASSUME RInv, [Next]_vars
  PROVE  [Store!Next]_(Store!vars)
<1> USE DEF store, Store!vars, Store!Next, Store!Finish
<1>1. ASSUME NEW d \in Decorators, Resilient(d) PROVE [Store!Next]_(Store!vars)
  BY <1>1 DEF Resilient
<1>2. ASSUME NEW c \in Callers, NEW f \in Functions, NEW k \in CallKeys, CallIdempotent(c, f, k)
      PROVE  [Store!Next]_(Store!vars)
  <2>1. PICK s \in Stores \cup Decorators : Of(f).idempotency.store = s
    BY <1>2, StoreOf DEF CallIdempotent, RInv
  <2>2. <<s, k>> \in StoreKeys
    BY DEF StoreKeys
  <2> QED BY <1>2, <2>1, <2>2 DEF CallIdempotent
<1>3. ASSUME NEW c \in Callers, NEW f \in Functions, CallPlain(c, f)
      PROVE  [Store!Next]_(Store!vars)
  BY <1>3 DEF CallPlain
<1>4. ASSUME NEW c \in Callers, Resume(c) PROVE [Store!Next]_(Store!vars)
  BY <1>4 DEF Resume
<1>5. ASSUME NEW c \in Callers, BeginAttempt(c) \/ AttemptEnds(c) \/ FallbackEnds(c)
      PROVE  [Store!Next]_(Store!vars)
  BY <1>5 DEF BeginAttempt, AttemptEnds, AttemptReturns, AttemptRaises, FallbackEnds
<1>6. ASSUME NEW c \in Callers, Succeeds(c) PROVE [Store!Next]_(Store!vars)
  BY <1>6 DEF Succeeds
<1>7. ASSUME NEW c \in Callers, Fails(c) PROVE [Store!Next]_(Store!vars)
  BY <1>7 DEF Fails
<1>8. ASSUME NEW c \in Callers, CancelRun(c) PROVE [Store!Next]_(Store!vars)
  BY <1>8 DEF CancelRun
<1>9. ASSUME NEW c \in Callers, CancelJoined(c) PROVE [Store!Next]_(Store!vars)
  BY <1>9 DEF CancelJoined
<1>10. ASSUME Tick PROVE [Store!Next]_(Store!vars)
  BY <1>10 DEF Tick
<1>11. CASE UNCHANGED vars
  BY <1>11 DEF vars
<1> QED
  BY <1>1, <1>2, <1>3, <1>4, <1>5, <1>6, <1>7, <1>8, <1>9, <1>10, <1>11 DEF Next, Proceed

\* Whatever a run does, the breaker takes a step of CircuitBreaker.
LEMMA BreakerStep ==
  ASSUME [Next]_vars
  PROVE  [CB!Next]_(CB!vars)
<1> USE DEF breaker, CB!vars, CB!Next, CB!BeforeCall, CB!Finish
<1>1. ASSUME NEW d \in Decorators, Resilient(d) PROVE [CB!Next]_(CB!vars)
  BY <1>1 DEF Resilient
<1>2. ASSUME NEW c \in Callers, NEW f \in Functions, NEW k \in CallKeys, CallIdempotent(c, f, k)
      PROVE  [CB!Next]_(CB!vars)
  BY <1>2 DEF CallIdempotent
<1>3. ASSUME NEW c \in Callers, NEW f \in Functions, CallPlain(c, f)
      PROVE  [CB!Next]_(CB!vars)
  BY <1>3 DEF CallPlain
<1>4. ASSUME NEW c \in Callers, Resume(c) \/ CancelJoined(c) \/ FallbackEnds(c)
      PROVE  [CB!Next]_(CB!vars)
  BY <1>4 DEF Resume, CancelJoined, FallbackEnds
<1>5. ASSUME NEW c \in Callers, BeginAttempt(c) PROVE [CB!Next]_(CB!vars)
  BY <1>5 DEF BeginAttempt
<1>6. ASSUME NEW c \in Callers, AttemptEnds(c) PROVE [CB!Next]_(CB!vars)
  BY <1>6 DEF AttemptEnds, AttemptReturns, AttemptRaises
<1>7. ASSUME NEW c \in Callers, Succeeds(c) \/ Fails(c) PROVE [CB!Next]_(CB!vars)
  BY <1>7 DEF Succeeds, Fails
<1>8. ASSUME NEW c \in Callers, CancelRun(c) PROVE [CB!Next]_(CB!vars)
  BY <1>8 DEF CancelRun
<1>9. ASSUME Tick PROVE [CB!Next]_(CB!vars)
  BY <1>9 DEF Tick
<1>10. CASE UNCHANGED vars
  BY <1>10 DEF vars
<1> QED
  BY <1>1, <1>2, <1>3, <1>4, <1>5, <1>6, <1>7, <1>8, <1>9, <1>10 DEF Next, Proceed

\* So the invariants of the parts are kept.
LEMMA PartsStep ==
  ASSUME RInv, [Next]_vars
  PROVE  SP!IInv' /\ CP!IInv'
<1>1. [SP!Next]_(SP!vars)
  BY StoreStep, SameStore DEF Store!vars, SP!vars
<1>2. [CP!Next]_(CP!vars)
  BY BreakerStep, SameBreaker DEF CB!vars, CP!vars
<1> QED
  BY <1>1, <1>2, PartAssumptions, SP!StepIInv, CP!StepIInv DEF RInv

-----------------------------------------------------------------------------
(* What the steps of the stores do, call by call and key by key            *)

\* The head of execute(): the call becomes the owner, joins one or ends, and
\* expired entries go; no other call notices.
LEMMA LookupEffect ==
  ASSUME SP!IInv, NEW c \in Callers, NEW k \in StoreKeys, Store!Lookup(c, k)
  PROVE  /\ pc'[c] \in {"idle", "running", "waiting"}
         /\ pc'[c] # "idle" => key'[c] = k
         /\ pc'[c] = "running" => entries'[k] = Store!Pending(c)
         /\ wake'[c] = NoValue
         /\ \/ result'[c] \in {NoValue, "reentry"}
            \/ entries[k].status = "done" /\ result'[c] = entries[k].value
         /\ \A d \in Callers \ {c} :
              pc'[d] = pc[d] /\ key'[d] = key[d] /\ wake'[d] = wake[d] /\ result'[d] = result[d]
         /\ \A j \in StoreKeys :
              \/ entries'[j] = entries[j]
              \/ entries'[j] = Store!Absent
              \/ j = k /\ entries'[j] = Store!Pending(c)
<1> USE DEF SP!IInv, SP!TypeOK
<1>1. \A j \in StoreKeys :
        /\ Store!Purged[j] = entries[j] \/ Store!Purged[j] = Store!Absent
        /\ Store!Purged[j].status = "done" => Store!Purged[j] = entries[j]
  BY DEF Store!Purged, Store!Absent
<1>2. DOMAIN Store!Purged = StoreKeys /\ Store!Purged = [j \in StoreKeys |-> Store!Purged[j]]
  BY DEF Store!Purged
<1>3. CASE Store!Own(c, k)
  BY <1>1, <1>2, <1>3 DEF Store!Own
<1>4. CASE Store!Reenter(c, k)
  BY <1>1, <1>4 DEF Store!Reenter, Store!Leave
<1>5. CASE Store!Join(c, k)
  BY <1>1, <1>5 DEF Store!Join
<1>6. CASE Store!Replay(c, k)
  BY <1>1, <1>6 DEF Store!Replay, Store!Leave
<1> QED BY <1>3, <1>4, <1>5, <1>6 DEF Store!Lookup

\* A call that gives up what it waits for, or takes what it was given.
LEMMA LeaveEffect ==
  ASSUME SP!IInv, NEW c \in Callers, NEW r, Store!Leave(c, r)
  PROVE  /\ pc'[c] = "idle" /\ wake'[c] = NoValue /\ result'[c] = r
         /\ \A d \in Callers \ {c} :
              pc'[d] = pc[d] /\ key'[d] = key[d] /\ wake'[d] = wake[d] /\ result'[d] = result[d]
BY DEF SP!IInv, SP!TypeOK, Store!Leave

\* The end of an execution changes one entry and wakes the calls that joined.
LEMMA ResolveEffect ==
  ASSUME SP!IInv, NEW c \in Callers, pc[c] = "running", NEW outcome, NEW r,
         Store!Resolve(c, outcome, r)
  PROVE  /\ pc'[c] = "idle" /\ wake'[c] = wake[c] /\ result'[c] = r
         /\ \A d \in Callers \ {c} :
              /\ key'[d] = key[d] /\ result'[d] = result[d]
              /\ \/ pc'[d] = pc[d] /\ wake'[d] = wake[d]
                 \/ /\ pc[d] = "waiting" /\ pc'[d] = "woken"
                    /\ wake'[d] = outcome /\ key[d] = key[c]
<1> USE DEF SP!IInv, SP!TypeOK
<1>1. pc'[c] = "idle" /\ wake'[c] = wake[c] /\ result'[c] = r
  BY DEF Store!Resolve
<1>2. ASSUME NEW d \in Callers \ {c}
      PROVE  /\ key'[d] = key[d] /\ result'[d] = result[d]
             /\ \/ pc'[d] = pc[d] /\ wake'[d] = wake[d]
                \/ /\ pc[d] = "waiting" /\ pc'[d] = "woken"
                   /\ wake'[d] = outcome /\ key[d] = key[c]
  BY DEF Store!Resolve, SP!WaiterHasOwner
<1> QED BY <1>1, <1>2

\* The owner's own entry is the one that its end replaces.
LEMMA ReleaseEffect ==
  ASSUME SP!IInv, NEW c \in Callers, pc[c] = "running", NEW e,
         entries' = IF Store!Holds(c) THEN [entries EXCEPT ![key[c]] = e] ELSE entries
  PROVE  /\ key[c] \in StoreKeys
         /\ entries[key[c]].owner = c /\ entries[key[c]].status = "pending"
         /\ entries'[key[c]] = e
         /\ \A j \in StoreKeys \ {key[c]} : entries'[j] = entries[j]
BY DEF SP!IInv, SP!TypeOK, SP!OwnerHolds, SP!Holds, Store!Holds

-----------------------------------------------------------------------------
(* The inductive invariant: each part of it, for every step                *)

\* The steps other than calls of resilient() leave the configuration alone.
LEMMA SamePolicies ==
  ASSUME UNCHANGED <<program, config>>
  PROVE  /\ ConfigOK <=> ConfigOK'
         /\ \A f : (Decorated(f) <=> Decorated(f)') /\ Of(f)' = Of(f)
BY DEF ConfigOK, Decorated, Ready, Of

\* resilient() keeps its promise and tasks call what it decorated.
LEMMA ConfigStep ==
  ASSUME ConfigOK, [Next]_vars
  PROVE  ConfigOK'
<1>1. ASSUME NEW d \in Decorators, Resilient(d) PROVE ConfigOK'
  BY <1>1, ResilientStep
<1>2. CASE UNCHANGED <<program, config>>
  BY <1>2, SamePolicies
<1>3. \/ \E d \in Decorators : Resilient(d)
      \/ UNCHANGED <<program, config>>
  BY DEF Next, vars, CallIdempotent, CallPlain, Resume, Proceed, BeginAttempt, AttemptEnds,
         AttemptReturns, AttemptRaises, FallbackEnds, Succeeds, Fails, Leave, CancelRun,
         CancelJoined, Tick
<1> QED BY <1>1, <1>2, <1>3

\* A failed attempt ends in one of three places.
LEMMA AttemptFailsEffect ==
  ASSUME RunsOK, NEW c \in Callers, NEW e, AttemptFails(c, e)
  PROVE  /\ phase'[c] \in {"between", "fallback", "failing"}
         /\ phase' = [phase EXCEPT ![c] = phase'[c]]
         /\ attempt' \in [Callers -> Nat]
         /\ \A d \in Callers \ {c} : attempt'[d] = attempt[d]
<1>1. PICK hint \in Hints :
        IF WillRetry(fn[c], e, hint, attempt[c])
        THEN /\ Enter(c, "between")
             /\ attempt' = [attempt EXCEPT ![c] = @ + 1]
        ELSE /\ Enter(c, IF FallsBack(fn[c], e) THEN "fallback" ELSE "failing")
             /\ UNCHANGED attempt
  BY DEF AttemptFails
<1> QED BY <1>1 DEF RunsOK, Enter

\* Calls of resilient(), and ticks, leave every run and every call where it
\* is; the part about the entries has to be shown for each.
LEMMA RunsUntouched ==
  ASSUME RInv, UNCHANGED <<run, pc, key, call>>,
         \A f \in Functions : Decorated(f) => Decorated(f)' /\ Of(f)' = Of(f),
         \A k \in StoreKeys : entries'[k].status = "pending" => entries'[k] = entries[k]
  PROVE  RunsOK' /\ CallsMatch' /\ KeysMatch'
<1> USE DEF RInv, run
<1>1. ASSUME NEW c \in Callers, fn[c] # NoValue
      PROVE  /\ Decorated(fn[c])'
             /\ Guarded(fn[c])' <=> Guarded(fn[c])
             /\ Idempotent(fn[c])' <=> Idempotent(fn[c])
             /\ Of(fn[c])' = Of(fn[c])
  <2>1. PICK f \in Functions : fn[c] = f
    BY <1>1 DEF RunsOK
  <2>2. Of(f)' = Of(f) /\ Decorated(f)'
    BY <1>1, <2>1 DEF RunsOK
  <2>3. Of(fn[c])' = Of(f)' /\ Of(fn[c]) = Of(f) /\ (Decorated(fn[c])' <=> Decorated(f)')
    BY <2>1 DEF Of, Decorated, Ready
  <2> QED BY <1>1, <2>2, <2>3 DEF Guarded, Idempotent
<1>2. RunsOK'
  BY <1>1 DEF RunsOK
<1>3. CallsMatch'
  BY <1>1 DEF CallsMatch, RunsOK
<1>4. KeysMatch'
  BY <1>1 DEF KeysMatch, RunsOK, Store!Pending
<1> QED BY <1>2, <1>3, <1>4

\* While a task stays with its function, it stays with its policies.
LEMMA SameFunction ==
  ASSUME UNCHANGED <<program, config>>, NEW c \in Callers, fn'[c] = fn[c]
  PROVE  /\ Of(fn[c])' = Of(fn[c])
         /\ Decorated(fn[c])' <=> Decorated(fn[c])
         /\ Idempotent(fn[c])' <=> Idempotent(fn[c])
         /\ Guarded(fn[c])' <=> Guarded(fn[c])
BY DEF Of, Decorated, Ready, Idempotent, Guarded

\* One task moves; others are at most woken, and an entry that becomes
\* unfinished is that of the task.
LEMMA TaskMoves ==
  ASSUME RInv, NEW c \in Callers, UNCHANGED <<program, config>>,
         fn' \in [Callers -> Functions \cup {NoValue}],
         phase' \in [Callers -> {"idle", "between", "running", "accepted", "fallback", "failing"}],
         attempt' \in [Callers -> Nat],
         \A d \in Callers \ {c} :
           /\ fn'[d] = fn[d] /\ phase'[d] = phase[d] /\ call'[d] = call[d] /\ key'[d] = key[d]
           /\ pc'[d] = pc[d] \/ (pc[d] = "waiting" /\ pc'[d] = "woken"),
         fn'[c] # NoValue => Decorated(fn[c])',
         phase'[c] # "idle" \/ pc'[c] # "idle" => fn'[c] # NoValue,
         call'[c] # "idle" <=> phase'[c] = "running" /\ Guarded(fn[c])',
         pc'[c] # "idle" =>
           Idempotent(fn[c])' /\ key'[c] \in {Of(fn[c])'.idempotency.store} \X CallKeys,
         phase'[c] # "idle" /\ Idempotent(fn[c])' => pc'[c] = "running",
         pc'[c] = "running" => phase'[c] # "idle",
         \A k \in StoreKeys : entries'[k].status = "pending" =>
           entries'[k] = entries[k] \/ entries'[k] = Store!Pending(c)
  PROVE  RunsOK' /\ CallsMatch' /\ KeysMatch'
<1> USE DEF RInv
<1>1. ASSUME NEW d \in Callers \ {c}
      PROVE  /\ Of(fn[d])' = Of(fn[d])
             /\ Decorated(fn[d])' <=> Decorated(fn[d])
             /\ Idempotent(fn[d])' <=> Idempotent(fn[d])
             /\ Guarded(fn[d])' <=> Guarded(fn[d])
  BY SameFunction
<1>2. RunsOK'
  BY <1>1 DEF RunsOK
<1>3. CallsMatch'
  BY <1>1 DEF CallsMatch
<1>4. ASSUME NEW d \in Callers
      PROVE  /\ pc'[d] # "idle" =>
                  /\ Idempotent(fn[d])'
                  /\ key'[d] \in {Of(fn[d])'.idempotency.store} \X CallKeys
             /\ phase'[d] # "idle" /\ Idempotent(fn[d])' => pc'[d] = "running"
             /\ pc'[d] = "running" => phase'[d] # "idle"
  <2>1. CASE d = c
    BY <2>1
  <2>2. CASE d # c
    <3>1. pc[d] = "waiting" => phase[d] = "idle" \/ ~Idempotent(fn[d])
      BY DEF KeysMatch
    <3> QED BY <1>1, <2>2, <3>1 DEF KeysMatch
  <2> QED BY <2>1, <2>2
<1>5. ASSUME NEW k \in StoreKeys, entries'[k].status = "pending"
      PROVE  entries'[k] = Store!Pending(entries'[k].owner)
  <2>1. CASE entries'[k] = entries[k]
    BY <1>5, <2>1 DEF KeysMatch
  <2>2. CASE entries'[k] = Store!Pending(c)
    BY <2>2 DEF Store!Pending
  <2> QED BY <1>5, <2>1, <2>2
<1>6. KeysMatch'
  <2>1. \A k \in StoreKeys : entries'[k].status = "pending" =>
          entries'[k] = Store!Pending(entries[k].owner)'
    BY <1>5 DEF Store!Pending
  <2> QED BY <1>4, <2>1 DEF KeysMatch
<1> QED BY <1>2, <1>3, <1>6

\* A task begins to call a function with an idempotency policy.
LEMMA CallStep ==
  ASSUME RInv, NEW c \in Callers, NEW f \in Functions, NEW k \in CallKeys, CallIdempotent(c, f, k)
  PROVE  RunsOK' /\ CallsMatch' /\ KeysMatch'
<1> USE DEF RInv
<1>1. /\ UNCHANGED <<program, config, breaker>>
      /\ phase[c] = "idle" /\ Decorated(f) /\ Idempotent(f)
      /\ fn' = [fn EXCEPT ![c] = f]
      /\ Of(f)' = Of(f) /\ Decorated(f)'
  BY SamePolicies DEF CallIdempotent
<1>2. /\ fn' \in [Callers -> Functions \cup {NoValue}]
      /\ fn'[c] = f /\ \A d \in Callers \ {c} : fn'[d] = fn[d]
  BY <1>1 DEF RunsOK
<1>3. Of(fn[c])' = Of(f) /\ Decorated(fn[c])' /\ Idempotent(fn[c])'
  BY <1>1, <1>2 DEF Of, Decorated, Ready, Idempotent
<1>4. call'[c] = "idle" /\ call' = call
  BY <1>1 DEF CallsMatch, breaker
<1>5. PICK s \in Stores \cup Decorators : Of(f).idempotency.store = s
  BY <1>1, StoreOf
<1>6. <<s, k>> \in StoreKeys /\ <<s, k>> \in {Of(f).idempotency.store} \X CallKeys
  BY <1>5 DEF StoreKeys
<1>7. Store!Lookup(c, <<s, k>>)
  BY <1>5 DEF CallIdempotent, Store!Execute
<1>8. /\ pc'[c] \in {"idle", "running", "waiting"}
      /\ pc'[c] # "idle" => key'[c] = <<s, k>>
      /\ \A d \in Callers \ {c} : pc'[d] = pc[d] /\ key'[d] = key[d]
      /\ \A j \in StoreKeys :
           entries'[j] = entries[j] \/ entries'[j] = Store!Absent \/ entries'[j] = Store!Pending(c)
  BY <1>6, <1>7, LookupEffect
<1>9. /\ phase' \in [Callers -> {"idle", "between", "running", "accepted", "fallback", "failing"}]
      /\ attempt' \in [Callers -> Nat]
      /\ phase'[c] = IF pc'[c] = "running" THEN "between" ELSE "idle"
      /\ \A d \in Callers \ {c} : phase'[d] = phase[d]
  BY <1>1 DEF CallIdempotent, RunsOK, Begin, Enter
<1>10. \A j \in StoreKeys : entries'[j].status = "pending" =>
         entries'[j] = entries[j] \/ entries'[j] = Store!Pending(c)
  BY <1>8 DEF Store!Absent
<1>11. f # NoValue
  BY ComponentAssumption
<1> QED BY <1>1, <1>2, <1>3, <1>4, <1>6, <1>8, <1>9, <1>10, <1>11, TaskMoves

\* A task begins to call a function without one.
LEMMA PlainStep ==
  ASSUME RInv, NEW c \in Callers, NEW f \in Functions, CallPlain(c, f)
  PROVE  RunsOK' /\ CallsMatch' /\ KeysMatch'
<1> USE DEF RInv
<1>1. /\ UNCHANGED <<program, config, breaker, store>>
      /\ phase[c] = "idle" /\ pc[c] = "idle" /\ Decorated(f) /\ ~Idempotent(f)
      /\ fn' = [fn EXCEPT ![c] = f]
      /\ Decorated(f)'
  BY SamePolicies DEF CallPlain
<1>2. /\ fn' \in [Callers -> Functions \cup {NoValue}]
      /\ fn'[c] = f /\ \A d \in Callers \ {c} : fn'[d] = fn[d]
  BY <1>1 DEF RunsOK
<1>3. Decorated(fn[c])' /\ ~Idempotent(fn[c])'
  BY <1>1, <1>2 DEF Of, Decorated, Ready, Idempotent
<1>4. call'[c] = "idle" /\ call' = call
  BY <1>1 DEF CallsMatch, breaker
<1>5. /\ phase' \in [Callers -> {"idle", "between", "running", "accepted", "fallback", "failing"}]
      /\ attempt' \in [Callers -> Nat]
      /\ phase'[c] = "between"
      /\ \A d \in Callers \ {c} : phase'[d] = phase[d]
  BY DEF CallPlain, RunsOK, Begin, Enter
<1>6. f # NoValue
  BY ComponentAssumption
<1> QED BY <1>1, <1>2, <1>3, <1>4, <1>5, <1>6, TaskMoves DEF store

\* A joined task runs again.
LEMMA ResumeStep ==
  ASSUME RInv, NEW c \in Callers, Resume(c)
  PROVE  RunsOK' /\ CallsMatch' /\ KeysMatch'
<1> USE DEF RInv
<1>1. /\ UNCHANGED <<program, config, fn, breaker>>
      /\ pc[c] = "woken"
      /\ IF pc'[c] = "running" THEN Begin(c) ELSE UNCHANGED <<phase, attempt>>
  BY DEF Resume, Store!Resume, Store!Retry, Store!Deliver
<1>2. /\ Of(fn[c])' = Of(fn[c]) /\ (Decorated(fn[c])' <=> Decorated(fn[c]))
      /\ Idempotent(fn[c])' <=> Idempotent(fn[c])
      /\ Guarded(fn[c])' <=> Guarded(fn[c])
  BY <1>1, SameFunction
<1>3. /\ Idempotent(fn[c]) /\ key[c] \in {Of(fn[c]).idempotency.store} \X CallKeys
      /\ phase[c] = "idle" /\ call[c] = "idle"
      /\ fn[c] # NoValue /\ Decorated(fn[c])
  BY <1>1 DEF KeysMatch, CallsMatch, RunsOK
<1>4. /\ pc'[c] \in {"idle", "running", "waiting"}
      /\ pc'[c] # "idle" => key'[c] = key[c]
      /\ \A d \in Callers \ {c} : pc'[d] = pc[d] /\ key'[d] = key[d]
      /\ \A j \in StoreKeys :
           entries'[j] = entries[j] \/ entries'[j] = Store!Absent \/ entries'[j] = Store!Pending(c)
  <2>1. CASE Store!Retry(c)
    <3>1. PICK k \in StoreKeys : key[c] = k /\ Store!Lookup(c, k)
      BY <2>1 DEF Store!Retry
    <3> QED BY <3>1, LookupEffect
  <2>2. CASE Store!Deliver(c)
    <3>1. PICK r : r = wake[c]
      OBVIOUS
    <3>2. Store!Leave(c, r) /\ UNCHANGED entries
      BY <2>2, <3>1 DEF Store!Deliver
    <3> QED BY <3>2, LeaveEffect
  <2> QED BY <2>1, <2>2 DEF Resume, Store!Resume
<1>5. /\ phase' \in [Callers -> {"idle", "between", "running", "accepted", "fallback", "failing"}]
      /\ attempt' \in [Callers -> Nat]
      /\ phase'[c] = IF pc'[c] = "running" THEN "between" ELSE "idle"
      /\ \A d \in Callers \ {c} : phase'[d] = phase[d]
  BY <1>1, <1>3 DEF RunsOK, Begin, Enter
<1>6. \A j \in StoreKeys : entries'[j].status = "pending" =>
        entries'[j] = entries[j] \/ entries'[j] = Store!Pending(c)
  BY <1>4 DEF Store!Absent
<1>7. fn' \in [Callers -> Functions \cup {NoValue}] /\ UNCHANGED call
  BY <1>1 DEF RunsOK, breaker
<1> QED BY <1>1, <1>2, <1>3, <1>4, <1>5, <1>6, <1>7, TaskMoves

\* An attempt begins, ends or is rejected, or the fallback chain ends.
LEMMA ProceedStep ==
  ASSUME RInv, NEW c \in Callers, BeginAttempt(c) \/ AttemptEnds(c) \/ FallbackEnds(c)
  PROVE  RunsOK' /\ CallsMatch' /\ KeysMatch'
<1> USE DEF RInv
<1>1. /\ UNCHANGED <<program, config, fn, store>>
      /\ phase[c] # "idle"
  BY DEF BeginAttempt, AttemptEnds, AttemptReturns, AttemptRaises, FallbackEnds
<1>2. /\ Of(fn[c])' = Of(fn[c]) /\ (Decorated(fn[c])' <=> Decorated(fn[c]))
      /\ Idempotent(fn[c])' <=> Idempotent(fn[c])
      /\ Guarded(fn[c])' <=> Guarded(fn[c])
  BY <1>1, SameFunction
<1>3. /\ fn[c] # NoValue /\ Decorated(fn[c])
      /\ pc[c] # "idle" =>
           Idempotent(fn[c]) /\ key[c] \in {Of(fn[c]).idempotency.store} \X CallKeys
      /\ Idempotent(fn[c]) => pc[c] = "running"
  BY <1>1 DEF KeysMatch, RunsOK
<1>4. /\ phase'[c] # "idle"
      /\ phase' = [phase EXCEPT ![c] = phase'[c]]
      /\ phase'[c] \in {"between", "running", "accepted", "fallback", "failing"}
      /\ attempt' \in [Callers -> Nat]
      /\ \A d \in Callers \ {c} : call'[d] = call[d]
      /\ call'[c] # "idle" <=> phase'[c] = "running" /\ Guarded(fn[c])
  <2> USE DEF CP!IInv, CP!TypeOK, breaker
  <2>1. CASE BeginAttempt(c)
    <3>1. phase[c] = "between" /\ call[c] = "idle"
      BY <2>1 DEF BeginAttempt, CallsMatch
    <3>2. CASE /\ Enter(c, "running")
               /\ UNCHANGED attempt
               /\ IF Guarded(fn[c]) THEN CB!Admit(c) \/ CB!AdmitProbe(c) ELSE UNCHANGED breaker
      BY <3>1, <3>2 DEF Enter, RunsOK, CB!Admit, CB!AdmitProbe
    <3>3. CASE CB!Reject(c) /\ AttemptFails(c, "open")
      BY <3>1, <3>3, AttemptFailsEffect DEF CB!Reject, CB!vars
    <3> QED BY <2>1, <3>2, <3>3 DEF BeginAttempt
  <2>2. CASE AttemptReturns(c)
    <3>1. phase[c] = "running" /\ (Guarded(fn[c]) <=> call[c] # "idle")
      BY <2>2 DEF AttemptReturns, CallsMatch
    <3> QED BY <2>2, <3>1 DEF AttemptReturns, Enter, RunsOK, CB!AfterSuccess, CB!Return
  <2>3. ASSUME NEW e \in {"error", "limited"}, AttemptRaises(c, e)
        PROVE  <1>4!:
    <3>1. phase[c] = "running" /\ (Guarded(fn[c]) <=> call[c] # "idle")
      BY <2>3 DEF AttemptRaises, CallsMatch
    <3>2. /\ call'[c] = "idle"
          /\ \A d \in Callers \ {c} : call'[d] = call[d]
      BY <2>3, <3>1 DEF AttemptRaises, CB!AfterRecordedFailure, CB!AfterIgnoredFailure, CB!Return
    <3>3. AttemptFails(c, e)
      BY <2>3 DEF AttemptRaises
    <3> QED BY <3>2, <3>3, AttemptFailsEffect
  <2>4. CASE FallbackEnds(c)
    <3>1. phase[c] = "fallback" /\ call[c] = "idle"
      BY <2>4 DEF FallbackEnds, CallsMatch
    <3> QED BY <2>4, <3>1 DEF FallbackEnds, Enter, RunsOK
  <2> QED BY <2>1, <2>2, <2>3, <2>4 DEF AttemptEnds
<1>5. /\ phase' \in [Callers -> {"idle", "between", "running", "accepted", "fallback", "failing"}]
      /\ \A d \in Callers \ {c} : phase'[d] = phase[d]
  BY <1>4 DEF RunsOK
<1>6. fn' \in [Callers -> Functions \cup {NoValue}] /\ UNCHANGED <<entries, pc, key>>
  BY <1>1 DEF RunsOK, store
<1> QED BY <1>1, <1>2, <1>3, <1>4, <1>5, <1>6, TaskMoves

\* What an ended execution leaves behind.
LEMMA FinishEffect ==
  ASSUME SP!IInv, NEW c \in Callers, Store!Succeed(c) \/ Store!Fail(c) \/ Store!CancelOwner(c)
  PROVE  /\ pc[c] = "running" /\ pc'[c] = "idle"
         /\ \A d \in Callers \ {c} :
              /\ key'[d] = key[d]
              /\ pc'[d] = pc[d] \/ (pc[d] = "waiting" /\ pc'[d] = "woken")
         /\ \A j \in StoreKeys : entries'[j].status = "pending" => entries'[j] = entries[j]
<1>1. PICK e, v, r :
        /\ pc[c] = "running" /\ e.status # "pending"
        /\ entries' = IF Store!Holds(c) THEN [entries EXCEPT ![key[c]] = e] ELSE entries
        /\ Store!Resolve(c, v, r)
  <2>1. CASE Store!Succeed(c)
    <3>1. PICK v \in Functions, ttl \in TTLs :
            /\ entries' = IF Store!Holds(c)
                          THEN [entries EXCEPT ![key[c]] = Store!Done(c, v, ttl)]
                          ELSE entries
            /\ Store!Resolve(c, v, v)
      BY <2>1 DEF Store!Succeed
    <3>2. Store!Done(c, v, ttl).status # "pending"
      BY DEF Store!Done
    <3> QED BY <2>1, <3>1, <3>2 DEF Store!Succeed
  <2>2. Store!Absent.status # "pending"
    BY DEF Store!Absent
  <2>3. CASE Store!Fail(c)
    BY <2>2, <2>3 DEF Store!Fail, Store!Release
  <2>4. CASE Store!CancelOwner(c)
    BY <2>2, <2>4 DEF Store!CancelOwner, Store!Release
  <2> QED BY <2>1, <2>3, <2>4
<1>2. \A j \in StoreKeys : entries'[j].status = "pending" => entries'[j] = entries[j]
  BY <1>1, ReleaseEffect
<1> QED BY <1>1, <1>2, ResolveEffect

\* A run ends: with a result, in a failure, or by a cancellation.
LEMMA EndStep ==
  ASSUME RInv, NEW c \in Callers, Succeeds(c) \/ Fails(c) \/ CancelRun(c)
  PROVE  RunsOK' /\ CallsMatch' /\ KeysMatch'
<1> USE DEF RInv
<1>1. /\ UNCHANGED <<program, config, fn>>
      /\ phase[c] # "idle"
      /\ Enter(c, "idle") /\ attempt' = [attempt EXCEPT ![c] = 0]
      /\ IF Idempotent(fn[c])
         THEN Store!Succeed(c) \/ Store!Fail(c) \/ Store!CancelOwner(c)
         ELSE UNCHANGED store
  BY DEF Succeeds, Fails, CancelRun, Leave, Emitting
<1>2. /\ Of(fn[c])' = Of(fn[c]) /\ (Decorated(fn[c])' <=> Decorated(fn[c]))
      /\ fn[c] # NoValue /\ Decorated(fn[c])
  BY <1>1, SameFunction DEF RunsOK
<1>3. call'[c] = "idle" /\ \A d \in Callers \ {c} : call'[d] = call[d]
  <2>1. CASE CancelRun(c) /\ phase[c] = "running" /\ Guarded(fn[c])
    BY <2>1 DEF CancelRun, CB!Cancelled, CB!Return, CP!IInv, CP!TypeOK
  <2>2. CASE ~(CancelRun(c) /\ phase[c] = "running" /\ Guarded(fn[c]))
    <3>1. UNCHANGED breaker /\ ~(phase[c] = "running" /\ Guarded(fn[c]))
      BY <2>2 DEF CancelRun, Succeeds, Fails, Emitting
    <3> QED BY <3>1 DEF CallsMatch, breaker
  <2> QED BY <2>1, <2>2
<1>4. /\ pc'[c] = "idle"
      /\ \A d \in Callers \ {c} :
           /\ key'[d] = key[d]
           /\ pc'[d] = pc[d] \/ (pc[d] = "waiting" /\ pc'[d] = "woken")
      /\ \A j \in StoreKeys : entries'[j].status = "pending" => entries'[j] = entries[j]
  <2>1. CASE Idempotent(fn[c])
    BY <1>1, <2>1, FinishEffect
  <2>2. CASE ~Idempotent(fn[c])
    BY <1>1, <2>2 DEF store, KeysMatch
  <2> QED BY <2>1, <2>2
<1>5. /\ phase' \in [Callers -> {"idle", "between", "running", "accepted", "fallback", "failing"}]
      /\ attempt' \in [Callers -> Nat]
      /\ fn' \in [Callers -> Functions \cup {NoValue}]
      /\ phase'[c] = "idle"
      /\ \A d \in Callers \ {c} : phase'[d] = phase[d]
  BY <1>1 DEF RunsOK, Enter
<1> QED BY <1>1, <1>2, <1>3, <1>4, <1>5, TaskMoves

\* The clock does not touch an unfinished entry.
LEMMA TickStep ==
  ASSUME RInv, Tick
  PROVE  RunsOK' /\ CallsMatch' /\ KeysMatch'
<1> USE DEF RInv
<1>1. \A f \in Functions : Decorated(f) => Decorated(f)' /\ Of(f)' = Of(f)
  BY SamePolicies DEF Tick
<1>2. UNCHANGED <<run, pc, key, call>>
  BY DEF Tick, Store!Tick, CB!Tick, CB!history, breaker
<1>3. ASSUME NEW k \in StoreKeys, entries'[k].status = "pending"
      PROVE  entries'[k] = entries[k]
  <2>1. entries'[k] = [entries[k] EXCEPT !.left = IF @ > 0 THEN @ - 1 ELSE 0]
    BY DEF Tick, Store!Tick
  <2>2. entries[k] = Store!Pending(entries[k].owner)
    BY <1>3, <2>1 DEF SP!IInv, SP!TypeOK, KeysMatch
  <2>3. PICK o : entries[k] = Store!Pending(o)
    BY <2>2
  <2> QED BY <2>1, <2>3 DEF Store!Pending
<1> QED BY <1>1, <1>2, <1>3, RunsUntouched

\* Every step of every task keeps the parts tied together.
LEMMA StepRInv == RInv /\ [Next]_vars => RInv'
<1> SUFFICES ASSUME RInv, [Next]_vars PROVE RInv'
  OBVIOUS
<1>1. ASSUME NEW d \in Decorators, Resilient(d) PROVE RunsOK' /\ CallsMatch' /\ KeysMatch'
  <2>1. \A f \in Functions : Decorated(f) => Decorated(f)' /\ Of(f)' = Of(f)
    BY <1>1, ResilientStep DEF RInv
  <2> QED BY <1>1, <2>1, RunsUntouched DEF Resilient, store, breaker
<1>2. ASSUME NEW c \in Callers, CancelJoined(c) PROVE RunsOK' /\ CallsMatch' /\ KeysMatch'
  <2>1. UNCHANGED <<program, config, run, breaker, entries>> /\ Store!Leave(c, "cancelled")
    BY <1>2 DEF CancelJoined, Store!CancelJoined
  <2>2. /\ pc'[c] = "idle"
        /\ \A d \in Callers \ {c} : pc'[d] = pc[d] /\ key'[d] = key[d]
    BY <2>1, LeaveEffect DEF RInv
  <2>3. pc[c] # "running" /\ pc[c] # "idle"
    BY <1>2 DEF CancelJoined, Store!CancelJoined
  <2>4. /\ phase'[c] = "idle" \/ ~Idempotent(fn[c])'
        /\ Of(fn[c])' = Of(fn[c]) /\ (Decorated(fn[c])' <=> Decorated(fn[c]))
        /\ Guarded(fn[c])' <=> Guarded(fn[c])
    BY <2>1, <2>3, SameFunction DEF RInv, KeysMatch, run
  <2> QED BY <2>1, <2>2, <2>4, TaskMoves DEF RInv, RunsOK, CallsMatch, run, breaker
<1>3. ASSUME UNCHANGED vars PROVE RunsOK' /\ CallsMatch' /\ KeysMatch'
  <2>1. \A f \in Functions : Decorated(f) => Decorated(f)' /\ Of(f)' = Of(f)
    BY <1>3, SamePolicies DEF vars
  <2> QED BY <1>3, <2>1, RunsUntouched DEF vars, store, breaker
<1>4. RunsOK' /\ CallsMatch' /\ KeysMatch'
  <2>1. ASSUME NEW c \in Callers, NEW f \in Functions, NEW k \in CallKeys,
               CallIdempotent(c, f, k)
        PROVE  RunsOK' /\ CallsMatch' /\ KeysMatch'
    BY <2>1, CallStep
  <2>2. ASSUME NEW c \in Callers, NEW f \in Functions, CallPlain(c, f)
        PROVE  RunsOK' /\ CallsMatch' /\ KeysMatch'
    BY <2>2, PlainStep
  <2>3. ASSUME NEW c \in Callers, Resume(c) \/ Proceed(c) \/ CancelRun(c)
        PROVE  RunsOK' /\ CallsMatch' /\ KeysMatch'
    BY <2>3, ResumeStep, ProceedStep, EndStep DEF Proceed
  <2>4. CASE Tick
    BY <2>4, TickStep
  <2>5. CASE Next
    BY <1>1, <1>2, <2>1, <2>2, <2>3, <2>4, <2>5 DEF Next
  <2> QED BY <1>3, <2>5
<1> QED BY <1>4, PartsStep, ConfigStep DEF RInv

\* Nothing is decorated, called or stored at the beginning.
LEMMA InitRInv == Init => RInv
<1> SUFFICES ASSUME Init PROVE RInv
  OBVIOUS
<1>1. SP!IInv
  BY PartAssumptions, SameStore, SP!InitIInv DEF Init
<1>2. CP!IInv
  BY PartAssumptions, SameBreaker, CP!InitIInv DEF Init
<1>3. ConfigOK /\ RunsOK
  BY DEF Init, ConfigOK, RunsOK, Store!Init
<1>4. CallsMatch /\ KeysMatch
  BY DEF Init, CallsMatch, KeysMatch, Store!Init, CB!Init, Store!Absent
<1> QED BY <1>1, <1>2, <1>3, <1>4 DEF RInv

\* A task executes a key exactly as long as its run lasts.
THEOREM RunsUnderTheirKey == Spec => []LifecycleUnderKey
<1>1. RInv => LifecycleUnderKey
  <2> SUFFICES ASSUME RInv, NEW c \in Callers
               PROVE  /\ pc[c] = "running" <=> phase[c] # "idle" /\ Idempotent(fn[c])
                      /\ pc[c] = "running" =>
                           /\ key[c] \in {Of(fn[c]).idempotency.store} \X CallKeys
                           /\ entries[key[c]] = Store!Pending(c)
    BY DEF LifecycleUnderKey
  <2>1. pc[c] = "running" => key[c] \in StoreKeys /\ entries[key[c]] = Store!Pending(c)
    BY DEF RInv, SP!IInv, SP!OwnerHolds, SP!Holds, KeysMatch
  <2> QED BY <2>1 DEF RInv, KeysMatch
<1> QED BY <1>1, InitRInv, StepRInv, PTL DEF Spec

-----------------------------------------------------------------------------
(* What holds of the parts holds of them in the composition.               *)

\* Behind decorated functions, the stores and the breaker behave as they are
\* specified and proved to: a run never takes them where they cannot go.
THEOREM PartsAsSpecified == Spec => Store!Spec /\ CB!Spec
<1>1. Init => Store!Init /\ CB!Init
  BY DEF Init
<1>2. RInv /\ [Next]_vars => [Store!Next]_(Store!vars) /\ [CB!Next]_(CB!vars)
  BY StoreStep, BreakerStep
<1> QED BY <1>1, <1>2, InitRInv, StepRInv, PTL DEF Spec, Store!Spec, CB!Spec

\* So executions of one key never overlap and no key is left occupied,
\* whatever runs do between entering and leaving execute().
THEOREM StoresStaySafe == Spec => [](Store!OneExecution /\ Store!KeyNeverStranded)
<1>1. SP!IInv => Store!OneExecution /\ Store!KeyNeverStranded
  BY DEF SP!IInv, SP!OwnerHolds, SP!Holds, SP!KeyNeverStranded,
         Store!OneExecution, Store!KeyNeverStranded
<1> QED BY <1>1, InitRInv, StepRInv, PTL DEF Spec, RInv

\* No guarded function is called while the breaker is open and its timeout
\* runs, however tasks retry, wait and take keys over.
THEOREM FunctionsBehindPromise == Spec => FunctionsKeepPromise
<1>1. Init => Promise!PInit
  BY DEF Init, CB!Init, Promise!PInit, CB!CLOSED, CB!OPEN
<1>2. RInv /\ [Next]_vars => [Promise!PNext]_(Promise!pvars)
  <2> SUFFICES ASSUME RInv, [Next]_vars PROVE [Promise!PNext]_(Promise!pvars)
    OBVIOUS
  <2>1. [CP!Promise!PNext]_(CP!Promise!pvars)
    BY PartAssumptions, BreakerStep, SameBreaker, CP!StepPromise DEF RInv, CB!vars, CP!vars
  <2>2. {c \in Callers : CP!Running(c)} = {c \in Callers : phase[c] = "running" /\ Guarded(fn[c])}
    BY DEF RInv, CallsMatch, CP!Running
  <2>3. {c \in Callers : CP!Running(c)}'
          = {c \in Callers : phase[c] = "running" /\ Guarded(fn[c])}'
    BY StepRInv DEF RInv, CallsMatch, CP!Running
  <2> QED
    BY <2>1, <2>2, <2>3
       DEF Promise!PNext, CP!Promise!PNext, Promise!pvars, CP!Promise!pvars,
           Promise!Pass, CP!Promise!Pass, Promise!Trial, CP!Promise!Trial,
           Promise!End, CP!Promise!End, Promise!Clear, CP!Promise!Clear,
           Promise!Elapse, CP!Promise!Elapse, CB!OPEN, CP!OPEN
<1> QED
  BY <1>1, <1>2, InitRInv, StepRInv, PTL DEF Spec, FunctionsKeepPromise, Promise!PSpec

\* Nothing but the accepted result of a run is ever cached.
THEOREM CachedWasAccepted == Spec => OnlyAcceptedCached
<1> DEFINE Accepted(k) ==
      entries'[k].status = "done" /\ entries[k].status # "done" =>
        \E c \in Callers : entries[k].owner = c /\ phase[c] = "accepted"
                           /\ entries'[k].value = fn[c]
<1>1. ASSUME RInv, [Next]_vars, NEW k \in StoreKeys PROVE Accepted(k)
  <2> SUFFICES ASSUME entries'[k].status = "done", entries[k].status # "done"
               PROVE  \E c \in Callers : entries[k].owner = c /\ phase[c] = "accepted"
                                         /\ entries'[k].value = fn[c]
    OBVIOUS
  <2>1. SP!IInv /\ ConfigOK
    BY <1>1 DEF RInv
  <2>2. ASSUME NEW c \in Callers, Store!Succeed(c), result'[c] = fn[c], phase[c] = "accepted"
        PROVE  entries[k].owner = c /\ phase[c] = "accepted" /\ entries'[k].value = fn[c]
    <3>1. PICK v \in Functions, ttl \in TTLs :
            /\ entries' = IF Store!Holds(c)
                          THEN [entries EXCEPT ![key[c]] = Store!Done(c, v, ttl)]
                          ELSE entries
            /\ Store!Resolve(c, v, v)
      BY <2>2 DEF Store!Succeed
    <3>2. pc[c] = "running"
      BY <2>2 DEF Store!Succeed
    <3>3. /\ entries[key[c]].owner = c
          /\ entries'[key[c]] = Store!Done(c, v, ttl)
          /\ \A j \in StoreKeys \ {key[c]} : entries'[j] = entries[j]
      BY <2>1, <3>1, <3>2, ReleaseEffect
    <3>4. k = key[c]
      BY <3>3
    <3>5. result'[c] = v
      BY <2>1, <3>1, <3>2, ResolveEffect
    <3>6. Store!Done(c, v, ttl).value = v
      BY DEF Store!Done
    <3> QED BY <2>2, <3>3, <3>4, <3>5, <3>6
  <2>3. ASSUME NEW c \in Callers, Store!Fail(c) \/ Store!CancelOwner(c) PROVE FALSE
    <3>1. /\ pc[c] = "running"
          /\ entries' = IF Store!Holds(c) THEN [entries EXCEPT ![key[c]] = Store!Absent]
                        ELSE entries
      BY <2>3 DEF Store!Fail, Store!CancelOwner, Store!Release
    <3> QED BY <2>1, <3>1, ReleaseEffect DEF Store!Absent
  <2>4. ASSUME NEW c \in Callers, NEW j \in StoreKeys, Store!Lookup(c, j) PROVE FALSE
    <3>1. \/ entries'[k] = entries[k]
          \/ entries'[k] = Store!Absent
          \/ entries'[k] = Store!Pending(c)
      BY <2>1, <2>4, LookupEffect
    <3> QED BY <3>1 DEF Store!Absent, Store!Pending
  <2>5. entries' # entries
    OBVIOUS
  <2>6. ~Store!Tick
    BY <2>1 DEF Store!Tick, SP!IInv, SP!TypeOK
  <2>7. ASSUME NEW c \in Callers, Store!Resume(c) \/ Store!CancelJoined(c) PROVE FALSE
    BY <2>4, <2>5, <2>7 DEF Store!Resume, Store!Retry, Store!Deliver, Store!CancelJoined
  <2>8. ASSUME NEW c \in Callers, NEW f \in Functions, NEW j \in CallKeys,
               CallIdempotent(c, f, j)
        PROVE  FALSE
    <3>1. PICK s \in Stores \cup Decorators : Of(f).idempotency.store = s
      BY <2>1, <2>8, StoreOf DEF CallIdempotent
    <3>2. <<s, j>> \in StoreKeys /\ Store!Lookup(c, <<s, j>>)
      BY <2>8, <3>1 DEF CallIdempotent, Store!Execute, StoreKeys
    <3> QED BY <2>4, <3>2
  <2>9. PICK c \in Callers : Succeeds(c) \/ Fails(c) \/ CancelRun(c)
    <3>1. ASSUME NEW c \in Callers, BeginAttempt(c) \/ AttemptEnds(c) \/ FallbackEnds(c)
          PROVE  FALSE
      BY <2>5, <3>1
         DEF store, BeginAttempt, AttemptEnds, AttemptReturns, AttemptRaises, FallbackEnds
    <3>2. ~(\E d \in Decorators : Resilient(d))
      BY <2>5 DEF store, Resilient
    <3>3. ~(\E c \in Callers, f \in Functions : CallPlain(c, f))
      BY <2>5 DEF store, CallPlain
    <3>4. ~(\E c \in Callers : Resume(c) \/ CancelJoined(c)) /\ ~Tick
      BY <2>6, <2>7 DEF Resume, CancelJoined, Tick
    <3> QED BY <1>1, <2>5, <2>8, <3>1, <3>2, <3>3, <3>4 DEF Next, Proceed, vars, store
  <2>10. entries' # entries => ~UNCHANGED store
    BY DEF store
  <2> QED BY <2>2, <2>3, <2>5, <2>9, <2>10 DEF Succeeds, Fails, CancelRun
<1>2. RInv /\ [Next]_vars => [\A k \in StoreKeys : Accepted(k)]_vars
  BY <1>1
<1> QED BY <1>2, InitRInv, StepRInv, PTL DEF Spec, OnlyAcceptedCached

-----------------------------------------------------------------------------
(* Which options are refused                                               *)

\* The exceptions of the checks.
ErrorNames == {"TypeError", "ValueError", "OverflowError"}

\* Checks one after another pass only together.
LEMMA BothPass ==
  ASSUME NEW s \in Seq(ErrorNames), NEW t \in Seq(ErrorNames)
  PROVE  s \o t \in Seq(ErrorNames) /\ (s \o t = <<>> <=> s = <<>> /\ t = <<>>)
<1>1. s \o t \in Seq(ErrorNames) /\ Len(s \o t) = Len(s) + Len(t)
  OBVIOUS
<1>2. \A u \in Seq(ErrorNames) : u = <<>> <=> Len(u) = 0
  OBVIOUS
<1> QED BY <1>1, <1>2

\* A check raises exactly on its condition.
LEMMA RaisePasses ==
  ASSUME NEW condition, NEW error \in ErrorNames
  PROVE  /\ Raise(condition, error) \in Seq(ErrorNames)
         /\ Raise(condition, error) = <<>> <=> ~condition
BY DEF Raise

\* A duration passes as an int or a float on the right side of zero.
LEMMA CheckSecondsPasses ==
  ASSUME NEW x, NEW allowZero
  PROVE  /\ CheckSeconds(x, allowZero) \in Seq(ErrorNames)
         /\ CheckSeconds(x, allowZero) = <<>> <=>
              x.type \in {"int", "float"} /\ ~(x.n < 0 \/ (x.n = 0 /\ ~allowZero))
<1> DEFINE a == Raise(x.type \notin {"int", "float", "nonfinite", "huge"}, "TypeError")
           b == Raise(x.type = "huge", "OverflowError")
           c == Raise(x.type = "nonfinite", "ValueError")
           d == Raise(x.type \in {"int", "float"} /\ (x.n < 0 \/ (x.n = 0 /\ ~allowZero)),
                      "ValueError")
<1>1. /\ a \in Seq(ErrorNames)
      /\ a = <<>> <=> x.type \in {"int", "float", "nonfinite", "huge"}
  BY RaisePasses DEF ErrorNames
<1>2. b \in Seq(ErrorNames) /\ (b = <<>> <=> x.type # "huge")
  BY RaisePasses DEF ErrorNames
<1>3. c \in Seq(ErrorNames) /\ (c = <<>> <=> x.type # "nonfinite")
  BY RaisePasses DEF ErrorNames
<1>4. /\ d \in Seq(ErrorNames)
      /\ d = <<>> <=> ~(x.type \in {"int", "float"} /\ (x.n < 0 \/ (x.n = 0 /\ ~allowZero)))
  BY RaisePasses DEF ErrorNames
<1>5. CheckSeconds(x, allowZero) = a \o b \o c \o d
  BY DEF CheckSeconds
<1> HIDE DEF a, b, c, d
<1>6. a \o b \in Seq(ErrorNames) /\ (a \o b = <<>> <=> a = <<>> /\ b = <<>>)
  BY <1>1, <1>2, BothPass
<1>7. a \o b \o c \in Seq(ErrorNames) /\ (a \o b \o c = <<>> <=> a \o b = <<>> /\ c = <<>>)
  BY <1>3, <1>6, BothPass
<1>8. /\ a \o b \o c \o d \in Seq(ErrorNames)
      /\ a \o b \o c \o d = <<>> <=> a \o b \o c = <<>> /\ d = <<>>
  BY <1>4, <1>7, BothPass
<1>9. CheckSeconds(x, allowZero) = <<>> <=> a = <<>> /\ b = <<>> /\ c = <<>> /\ d = <<>>
  BY <1>5, <1>6, <1>7, <1>8
<1>10. (a = <<>> /\ b = <<>> /\ c = <<>> /\ d = <<>>) <=>
         x.type \in {"int", "float"} /\ ~(x.n < 0 \/ (x.n = 0 /\ ~allowZero))
  BY <1>1, <1>2, <1>3, <1>4
<1> QED BY <1>5, <1>8, <1>9, <1>10

\* Exception types pass as a tuple of some.
LEMMA CheckTypesPasses ==
  ASSUME NEW x
  PROVE  /\ CheckExceptionTypes(x) \in Seq(ErrorNames)
         /\ CheckExceptionTypes(x) = <<>> <=> x.type = "tuple" /\ x.on # {}
<1> DEFINE a == Raise(x.type \notin {"tuple", "bad"}, "TypeError")
           b == Raise(x.type = "tuple" /\ x.on = {}, "ValueError")
           c == Raise(x.type = "bad", "TypeError")
<1>1. a \in Seq(ErrorNames) /\ (a = <<>> <=> x.type \in {"tuple", "bad"})
  BY RaisePasses DEF ErrorNames
<1>2. b \in Seq(ErrorNames) /\ (b = <<>> <=> ~(x.type = "tuple" /\ x.on = {}))
  BY RaisePasses DEF ErrorNames
<1>3. c \in Seq(ErrorNames) /\ (c = <<>> <=> x.type # "bad")
  BY RaisePasses DEF ErrorNames
<1>4. CheckExceptionTypes(x) = a \o b \o c
  BY DEF CheckExceptionTypes
<1> HIDE DEF a, b, c
<1>5. a \o b \in Seq(ErrorNames) /\ (a \o b = <<>> <=> a = <<>> /\ b = <<>>)
  BY <1>1, <1>2, BothPass
<1>6. a \o b \o c \in Seq(ErrorNames) /\ (a \o b \o c = <<>> <=> a \o b = <<>> /\ c = <<>>)
  BY <1>3, <1>5, BothPass
<1> QED BY <1>1, <1>2, <1>3, <1>4, <1>5, <1>6

\* The retry options pass.
LEMMA RetryPasses ==
  ASSUME NEW o
  PROVE  /\ RetryErrors(o) \in Seq(ErrorNames)
         /\ RetryErrors(o) = <<>> <=>
              /\ ~(Given(o.retry) /\ (Given(o.retries) \/ Given(o.retryOn)))
              /\ ~(~Given(o.retry) /\ ~Given(o.retries) /\ Given(o.retryOn))
              /\ Given(o.retries) =>
                   /\ o.retries.type \in {"int", "huge"} /\ ~(o.retries.n < 0)
                   /\ Given(o.retryOn) => o.retryOn.type = "tuple" /\ o.retryOn.on # {}
<1> DEFINE a == Raise(Given(o.retry) /\ (Given(o.retries) \/ Given(o.retryOn)), "ValueError")
           b == Raise(~Given(o.retry) /\ ~Given(o.retries) /\ Given(o.retryOn), "ValueError")
           c == Raise(o.retries.type # "int" /\ o.retries.type # "huge", "TypeError")
           d == Raise(o.retries.type \in {"int", "huge"} /\ o.retries.n < 0, "ValueError")
           e == IF Given(o.retryOn) THEN CheckExceptionTypes(o.retryOn) ELSE <<>>
           f == IF Given(o.retries) THEN CheckRetries(o) ELSE <<>>
<1>1. /\ a \in Seq(ErrorNames)
      /\ a = <<>> <=> ~(Given(o.retry) /\ (Given(o.retries) \/ Given(o.retryOn)))
  BY RaisePasses DEF ErrorNames
<1>2. /\ b \in Seq(ErrorNames)
      /\ b = <<>> <=> ~(~Given(o.retry) /\ ~Given(o.retries) /\ Given(o.retryOn))
  BY RaisePasses DEF ErrorNames
<1>3. c \in Seq(ErrorNames) /\ (c = <<>> <=> o.retries.type \in {"int", "huge"})
  BY RaisePasses DEF ErrorNames
<1>4. /\ d \in Seq(ErrorNames)
      /\ d = <<>> <=> ~(o.retries.type \in {"int", "huge"} /\ o.retries.n < 0)
  BY RaisePasses DEF ErrorNames
<1>5. /\ e \in Seq(ErrorNames)
      /\ e = <<>> <=> (Given(o.retryOn) => o.retryOn.type = "tuple" /\ o.retryOn.on # {})
  BY CheckTypesPasses
<1>6. CheckRetries(o) = c \o d \o e
  BY DEF CheckRetries
<1>7. RetryErrors(o) = a \o b \o f
  BY DEF RetryErrors
<1> HIDE DEF a, b, c, d, e
<1>8. c \o d \in Seq(ErrorNames) /\ (c \o d = <<>> <=> c = <<>> /\ d = <<>>)
  BY <1>3, <1>4, BothPass
<1>9. c \o d \o e \in Seq(ErrorNames) /\ (c \o d \o e = <<>> <=> c \o d = <<>> /\ e = <<>>)
  BY <1>5, <1>8, BothPass
<1>10. /\ f \in Seq(ErrorNames)
       /\ f = <<>> <=> (Given(o.retries) => c = <<>> /\ d = <<>> /\ e = <<>>)
  BY <1>6, <1>8, <1>9
<1> HIDE DEF f
<1>11. a \o b \in Seq(ErrorNames) /\ (a \o b = <<>> <=> a = <<>> /\ b = <<>>)
  BY <1>1, <1>2, BothPass
<1>12. a \o b \o f \in Seq(ErrorNames) /\ (a \o b \o f = <<>> <=> a \o b = <<>> /\ f = <<>>)
  BY <1>10, <1>11, BothPass
<1>13. RetryErrors(o) = <<>> <=> a = <<>> /\ b = <<>> /\ f = <<>>
  BY <1>7, <1>11, <1>12
<1>14. f = <<>> <=> (Given(o.retries) =>
                       /\ o.retries.type \in {"int", "huge"} /\ ~(o.retries.n < 0)
                       /\ Given(o.retryOn) => o.retryOn.type = "tuple" /\ o.retryOn.on # {})
  BY <1>3, <1>4, <1>5, <1>10
<1>15. RetryErrors(o) \in Seq(ErrorNames)
  BY <1>7, <1>12
<1> QED BY <1>1, <1>2, <1>13, <1>14, <1>15

\* The timeout and the fallback options pass.
LEMMA TimeoutFallbackPass ==
  ASSUME NEW o
  PROVE  /\ TimeoutErrors(o) \in Seq(ErrorNames)
         /\ TimeoutErrors(o) = <<>> <=>
              \/ o.timeout.type \in {"none", "policy"}
              \/ o.timeout.type \in {"int", "float"} /\ ~(o.timeout.n < 0 \/ o.timeout.n = 0)
         /\ FallbackErrors(o) \in Seq(ErrorNames)
         /\ FallbackErrors(o) = <<>> <=> ~(Given(o.fallback) /\ Given(o.fallbacks))
<1>1. /\ CheckSeconds(o.timeout, FALSE) \in Seq(ErrorNames)
      /\ CheckSeconds(o.timeout, FALSE) = <<>> <=>
           o.timeout.type \in {"int", "float"} /\ ~(o.timeout.n < 0 \/ o.timeout.n = 0)
  BY CheckSecondsPasses
<1>2. <<>> \in Seq(ErrorNames)
  OBVIOUS
<1> QED BY <1>1, <1>2, RaisePasses DEF TimeoutErrors, FallbackErrors, ErrorNames

\* The idempotency options pass.
LEMMA IdempotencyPasses ==
  ASSUME NEW o
  PROVE  /\ IdempotencyErrors(o) \in Seq(ErrorNames)
         /\ IdempotencyErrors(o) = <<>> <=>
              /\ ~(SimpleIdempotency(o) /\ (Given(o.idempotency) \/ ~Given(o.idempotencyKey)))
              /\ Given(o.idempotencyTTL) =>
                   /\ o.idempotencyTTL.type \in {"int", "float"}
                   /\ ~(o.idempotencyTTL.n < 0 \/ o.idempotencyTTL.n = 0)
<1> DEFINE a == Raise(SimpleIdempotency(o) /\ (Given(o.idempotency) \/ ~Given(o.idempotencyKey)),
                      "ValueError")
           b == IF Given(o.idempotencyTTL) THEN CheckSeconds(o.idempotencyTTL, FALSE) ELSE <<>>
<1>1. /\ a \in Seq(ErrorNames)
      /\ a = <<>> <=>
           ~(SimpleIdempotency(o) /\ (Given(o.idempotency) \/ ~Given(o.idempotencyKey)))
  BY RaisePasses DEF ErrorNames
<1>2. /\ b \in Seq(ErrorNames)
      /\ b = <<>> <=>
           (Given(o.idempotencyTTL) =>
              /\ o.idempotencyTTL.type \in {"int", "float"}
              /\ ~(o.idempotencyTTL.n < 0 \/ o.idempotencyTTL.n = 0))
  <2>1. /\ CheckSeconds(o.idempotencyTTL, FALSE) \in Seq(ErrorNames)
        /\ CheckSeconds(o.idempotencyTTL, FALSE) = <<>> <=>
             /\ o.idempotencyTTL.type \in {"int", "float"}
             /\ ~(o.idempotencyTTL.n < 0 \/ o.idempotencyTTL.n = 0)
    BY CheckSecondsPasses
  <2>2. <<>> \in Seq(ErrorNames)
    OBVIOUS
  <2> QED BY <2>1, <2>2
<1>3. IdempotencyErrors(o) = a \o b
  BY DEF IdempotencyErrors
<1> HIDE DEF a, b
<1>4. a \o b \in Seq(ErrorNames) /\ (a \o b = <<>> <=> a = <<>> /\ b = <<>>)
  BY <1>1, <1>2, BothPass
<1> QED BY <1>1, <1>2, <1>3, <1>4

\* The rate-limit options pass.
LEMMA RateLimitPasses ==
  ASSUME NEW o
  PROVE  /\ RateLimitErrors(o) \in Seq(ErrorNames)
         /\ RateLimitErrors(o) = <<>> <=>
              /\ ~(SimpleRateLimit(o) /\ (Given(o.rateLimit) \/ ~Given(o.rateLimitOn)))
              /\ Given(o.maxRateLimitWait) =>
                   /\ o.maxRateLimitWait.type \in {"int", "float"}
                   /\ ~(o.maxRateLimitWait.n < 0)
              /\ Given(o.rateLimitOn) => o.rateLimitOn.type = "tuple" /\ o.rateLimitOn.on # {}
<1> DEFINE a == Raise(SimpleRateLimit(o) /\ (Given(o.rateLimit) \/ ~Given(o.rateLimitOn)),
                      "ValueError")
           b == IF Given(o.maxRateLimitWait) THEN CheckSeconds(o.maxRateLimitWait, TRUE) ELSE <<>>
           c == IF Given(o.rateLimitOn) THEN CheckExceptionTypes(o.rateLimitOn) ELSE <<>>
<1>1. /\ a \in Seq(ErrorNames)
      /\ a = <<>> <=> ~(SimpleRateLimit(o) /\ (Given(o.rateLimit) \/ ~Given(o.rateLimitOn)))
  BY RaisePasses DEF ErrorNames
<1>2. /\ b \in Seq(ErrorNames)
      /\ b = <<>> <=>
           (Given(o.maxRateLimitWait) =>
              o.maxRateLimitWait.type \in {"int", "float"} /\ ~(o.maxRateLimitWait.n < 0))
  <2>1. /\ CheckSeconds(o.maxRateLimitWait, TRUE) \in Seq(ErrorNames)
        /\ CheckSeconds(o.maxRateLimitWait, TRUE) = <<>> <=>
             o.maxRateLimitWait.type \in {"int", "float"} /\ ~(o.maxRateLimitWait.n < 0)
    BY CheckSecondsPasses
  <2>2. <<>> \in Seq(ErrorNames)
    OBVIOUS
  <2> QED BY <2>1, <2>2
<1>3. /\ c \in Seq(ErrorNames)
      /\ c = <<>> <=>
           (Given(o.rateLimitOn) => o.rateLimitOn.type = "tuple" /\ o.rateLimitOn.on # {})
  BY CheckTypesPasses
<1>4. RateLimitErrors(o) = a \o b \o c
  BY DEF RateLimitErrors
<1> HIDE DEF a, b, c
<1>5. a \o b \in Seq(ErrorNames) /\ (a \o b = <<>> <=> a = <<>> /\ b = <<>>)
  BY <1>1, <1>2, BothPass
<1>6. a \o b \o c \in Seq(ErrorNames) /\ (a \o b \o c = <<>> <=> a \o b = <<>> /\ c = <<>>)
  BY <1>3, <1>5, BothPass
<1> QED BY <1>1, <1>2, <1>3, <1>4, <1>5, <1>6

\* resilient() accepts what passes all of its checks.
LEMMA OptionsPass ==
  ASSUME NEW o
  PROVE  /\ OptionErrors(o) \in Seq(ErrorNames)
         /\ OptionErrors(o) = <<>> <=>
              /\ ~(Given(o.name) /\ o.name.blank)
              /\ RetryErrors(o) = <<>> /\ TimeoutErrors(o) = <<>> /\ FallbackErrors(o) = <<>>
              /\ IdempotencyErrors(o) = <<>> /\ RateLimitErrors(o) = <<>>
<1> DEFINE n == Raise(Given(o.name) /\ o.name.blank, "ValueError")
           a == RetryErrors(o)
           b == TimeoutErrors(o)
           c == FallbackErrors(o)
           d == IdempotencyErrors(o)
           e == RateLimitErrors(o)
<1>1. n \in Seq(ErrorNames) /\ (n = <<>> <=> ~(Given(o.name) /\ o.name.blank))
  BY RaisePasses DEF ErrorNames
<1>2. /\ a \in Seq(ErrorNames) /\ b \in Seq(ErrorNames) /\ c \in Seq(ErrorNames)
      /\ d \in Seq(ErrorNames) /\ e \in Seq(ErrorNames)
  BY RetryPasses, TimeoutFallbackPass, IdempotencyPasses, RateLimitPasses
<1>3. OptionErrors(o) = n \o a \o b \o c \o d \o e
  BY DEF OptionErrors
<1> HIDE DEF n, a, b, c, d, e
<1>4. n \o a \in Seq(ErrorNames) /\ (n \o a = <<>> <=> n = <<>> /\ a = <<>>)
  BY <1>1, <1>2, BothPass
<1>5. n \o a \o b \in Seq(ErrorNames) /\ (n \o a \o b = <<>> <=> n \o a = <<>> /\ b = <<>>)
  BY <1>2, <1>4, BothPass
<1>6. /\ n \o a \o b \o c \in Seq(ErrorNames)
      /\ n \o a \o b \o c = <<>> <=> n \o a \o b = <<>> /\ c = <<>>
  BY <1>2, <1>5, BothPass
<1>7. /\ n \o a \o b \o c \o d \in Seq(ErrorNames)
      /\ n \o a \o b \o c \o d = <<>> <=> n \o a \o b \o c = <<>> /\ d = <<>>
  BY <1>2, <1>6, BothPass
<1>8. /\ n \o a \o b \o c \o d \o e \in Seq(ErrorNames)
      /\ n \o a \o b \o c \o d \o e = <<>> <=> n \o a \o b \o c \o d = <<>> /\ e = <<>>
  BY <1>2, <1>7, BothPass
<1>9. OptionErrors(o) = <<>> <=>
        n = <<>> /\ a = <<>> /\ b = <<>> /\ c = <<>> /\ d = <<>> /\ e = <<>>
  BY <1>3, <1>4, <1>5, <1>6, <1>7, <1>8
<1>10. OptionErrors(o) \in Seq(ErrorNames)
  BY <1>3, <1>8
<1> QED BY <1>1, <1>9, <1>10 DEF a, b, c, d, e

\* A set of options is refused exactly when it conflicts or is malformed.
LEMMA RefusedExactly ==
  ASSUME NEW o, Passable(o)
  PROVE  OptionErrors(o) # <<>> <=> Conflicting(o) \/ Malformed(o)
<1>1. Conflicting(o) <=>
        \/ (Given(o.retries) \/ Given(o.retryOn)) /\ (Given(o.retry) \/ ~Given(o.retries))
        \/ Given(o.fallback) /\ (Given(o.fallbacks) \/ ~Given(o.fallback))
        \/ SimpleIdempotency(o) /\ (Given(o.idempotency) \/ ~Given(o.idempotencyKey))
        \/ SimpleRateLimit(o) /\ (Given(o.rateLimit) \/ ~Given(o.rateLimitOn))
  BY DEF Conflicting, OptionGroups, SimpleIdempotency, SimpleRateLimit
<1>2. Malformed(o) <=>
        \/ Given(o.name) /\ o.name.blank
        \/ Given(o.retries) /\ ~(o.retries.type \in {"int", "huge"} /\ o.retries.n >= 0)
        \/ Given(o.retryOn) /\ ~(o.retryOn.type = "tuple" /\ o.retryOn.on # {})
        \/ Given(o.rateLimitOn) /\ ~(o.rateLimitOn.type = "tuple" /\ o.rateLimitOn.on # {})
        \/ /\ o.timeout.type \notin {"none", "policy"}
           /\ ~(o.timeout.type \in {"int", "float"} /\ o.timeout.n > 0)
        \/ /\ Given(o.idempotencyTTL)
           /\ ~(o.idempotencyTTL.type \in {"int", "float"} /\ o.idempotencyTTL.n > 0)
        \/ /\ Given(o.maxRateLimitWait)
           /\ ~(/\ o.maxRateLimitWait.type \in {"int", "float"}
                /\ o.maxRateLimitWait.n > 0 \/ o.maxRateLimitWait.n = 0)
  BY DEF Malformed, Given
<1>3. /\ o.retries.type \in {"int", "float", "huge"} => o.retries.n \in Int
      /\ o.timeout.type \in {"int", "float", "huge"} => o.timeout.n \in Int
      /\ o.idempotencyTTL.type \in {"int", "float", "huge"} => o.idempotencyTTL.n \in Int
      /\ o.maxRateLimitWait.type \in {"int", "float", "huge"} => o.maxRateLimitWait.n \in Int
  BY DEF Passable
<1>4. /\ \A n \in Int : ~(n < 0) <=> n >= 0
      /\ \A n \in Int : ~(n < 0 \/ n = 0) <=> n > 0
      /\ \A n \in Int : ~(n < 0) <=> n > 0 \/ n = 0
  OBVIOUS
<1>5. /\ o.retries.type \in {"int", "huge"} => (~(o.retries.n < 0) <=> o.retries.n >= 0)
      /\ o.timeout.type \in {"int", "float"} =>
           (~(o.timeout.n < 0 \/ o.timeout.n = 0) <=> o.timeout.n > 0)
      /\ o.idempotencyTTL.type \in {"int", "float"} =>
           (~(o.idempotencyTTL.n < 0 \/ o.idempotencyTTL.n = 0) <=> o.idempotencyTTL.n > 0)
      /\ o.maxRateLimitWait.type \in {"int", "float"} =>
           (~(o.maxRateLimitWait.n < 0) <=>
              o.maxRateLimitWait.n > 0 \/ o.maxRateLimitWait.n = 0)
  BY <1>3, <1>4
<1>6. RetryErrors(o) # <<>> <=>
        \/ (Given(o.retries) \/ Given(o.retryOn)) /\ (Given(o.retry) \/ ~Given(o.retries))
        \/ Given(o.retries) /\ ~(o.retries.type \in {"int", "huge"} /\ o.retries.n >= 0)
        \/ Given(o.retryOn) /\ ~(o.retryOn.type = "tuple" /\ o.retryOn.on # {})
  BY <1>5, RetryPasses
<1>7. TimeoutErrors(o) # <<>> <=>
        /\ o.timeout.type \notin {"none", "policy"}
        /\ ~(o.timeout.type \in {"int", "float"} /\ o.timeout.n > 0)
  BY <1>5, TimeoutFallbackPass
<1>8. FallbackErrors(o) # <<>> <=>
        Given(o.fallback) /\ (Given(o.fallbacks) \/ ~Given(o.fallback))
  BY TimeoutFallbackPass
<1>9. IdempotencyErrors(o) # <<>> <=>
        \/ SimpleIdempotency(o) /\ (Given(o.idempotency) \/ ~Given(o.idempotencyKey))
        \/ /\ Given(o.idempotencyTTL)
           /\ ~(o.idempotencyTTL.type \in {"int", "float"} /\ o.idempotencyTTL.n > 0)
  BY <1>5, IdempotencyPasses
<1>10. RateLimitErrors(o) # <<>> <=>
        \/ SimpleRateLimit(o) /\ (Given(o.rateLimit) \/ ~Given(o.rateLimitOn))
        \/ /\ Given(o.maxRateLimitWait)
           /\ ~(/\ o.maxRateLimitWait.type \in {"int", "float"}
                /\ o.maxRateLimitWait.n > 0 \/ o.maxRateLimitWait.n = 0)
        \/ Given(o.rateLimitOn) /\ ~(o.rateLimitOn.type = "tuple" /\ o.rateLimitOn.on # {})
  BY <1>5, RateLimitPasses
<1> QED BY <1>1, <1>2, <1>6, <1>7, <1>8, <1>9, <1>10, OptionsPass

\* A check with a documented error raises no other.
LEMMA RaiseDocumented ==
  ASSUME NEW condition, NEW error \in DocumentedErrors
  PROVE  Raise(condition, error) \in Seq(DocumentedErrors)
BY DEF Raise

\* Neither do two checks one after another.
LEMMA BothDocumented ==
  ASSUME NEW s \in Seq(DocumentedErrors), NEW t \in Seq(DocumentedErrors)
  PROVE  s \o t \in Seq(DocumentedErrors)
OBVIOUS

\* Only an int beyond a float makes the check of a duration raise another.
LEMMA SecondsDocumented ==
  ASSUME NEW x, x.type # "huge", NEW allowZero
  PROVE  CheckSeconds(x, allowZero) \in Seq(DocumentedErrors)
<1> DEFINE a == Raise(x.type \notin {"int", "float", "nonfinite", "huge"}, "TypeError")
           b == Raise(x.type = "huge", "OverflowError")
           c == Raise(x.type = "nonfinite", "ValueError")
           d == Raise(x.type \in {"int", "float"} /\ (x.n < 0 \/ (x.n = 0 /\ ~allowZero)),
                      "ValueError")
<1>1. /\ a \in Seq(DocumentedErrors)
      /\ c \in Seq(DocumentedErrors)
      /\ d \in Seq(DocumentedErrors)
  BY RaiseDocumented DEF DocumentedErrors
<1>2. b \in Seq(DocumentedErrors)
  BY DEF Raise
<1>3. CheckSeconds(x, allowZero) = a \o b \o c \o d
  BY DEF CheckSeconds
<1> HIDE DEF a, b, c, d
<1>4. a \o b \in Seq(DocumentedErrors)
  BY <1>1, <1>2, BothDocumented
<1>5. a \o b \o c \in Seq(DocumentedErrors)
  BY <1>1, <1>4, BothDocumented
<1> QED BY <1>1, <1>3, <1>5, BothDocumented

\* The check of a tuple raises only documented errors.
LEMMA TypesDocumented ==
  ASSUME NEW x
  PROVE  CheckExceptionTypes(x) \in Seq(DocumentedErrors)
<1> DEFINE a == Raise(x.type \notin {"tuple", "bad"}, "TypeError")
           b == Raise(x.type = "tuple" /\ x.on = {}, "ValueError")
           c == Raise(x.type = "bad", "TypeError")
<1>1. /\ a \in Seq(DocumentedErrors)
      /\ b \in Seq(DocumentedErrors)
      /\ c \in Seq(DocumentedErrors)
  BY RaiseDocumented DEF DocumentedErrors
<1>2. CheckExceptionTypes(x) = a \o b \o c
  BY DEF CheckExceptionTypes
<1> HIDE DEF a, b, c
<1>3. a \o b \in Seq(DocumentedErrors)
  BY <1>1, BothDocumented
<1> QED BY <1>1, <1>2, <1>3, BothDocumented

\* So do the checks of the retry options.
LEMMA RetryDocumented ==
  ASSUME NEW o
  PROVE  RetryErrors(o) \in Seq(DocumentedErrors)
<1> DEFINE a == Raise(Given(o.retry) /\ (Given(o.retries) \/ Given(o.retryOn)), "ValueError")
           b == Raise(~Given(o.retry) /\ ~Given(o.retries) /\ Given(o.retryOn), "ValueError")
           c == Raise(o.retries.type # "int" /\ o.retries.type # "huge", "TypeError")
           d == Raise(o.retries.type \in {"int", "huge"} /\ o.retries.n < 0, "ValueError")
           e == IF Given(o.retryOn) THEN CheckExceptionTypes(o.retryOn) ELSE <<>>
           f == IF Given(o.retries) THEN CheckRetries(o) ELSE <<>>
<1>1. /\ a \in Seq(DocumentedErrors) /\ b \in Seq(DocumentedErrors)
      /\ c \in Seq(DocumentedErrors) /\ d \in Seq(DocumentedErrors)
  BY RaiseDocumented DEF DocumentedErrors
<1>2. <<>> \in Seq(DocumentedErrors)
  OBVIOUS
<1>3. e \in Seq(DocumentedErrors)
  BY <1>2, TypesDocumented
<1>4. CheckRetries(o) = c \o d \o e
  BY DEF CheckRetries
<1>5. RetryErrors(o) = a \o b \o f
  BY DEF RetryErrors
<1> HIDE DEF a, b, c, d, e
<1>6. c \o d \in Seq(DocumentedErrors)
  BY <1>1, BothDocumented
<1>7. c \o d \o e \in Seq(DocumentedErrors)
  BY <1>3, <1>6, BothDocumented
<1>8. f \in Seq(DocumentedErrors)
  BY <1>2, <1>4, <1>7
<1> HIDE DEF f
<1>9. a \o b \in Seq(DocumentedErrors)
  BY <1>1, BothDocumented
<1> QED BY <1>5, <1>8, <1>9, BothDocumented

\* resilient() raises a documented error unless a duration is too large.
LEMMA OptionsDocumented ==
  ASSUME NEW o, ~TooLarge(o)
  PROVE  OptionErrors(o) \in Seq(DocumentedErrors)
<1> DEFINE n == Raise(Given(o.name) /\ o.name.blank, "ValueError")
           a == RetryErrors(o)
           b == TimeoutErrors(o)
           c == FallbackErrors(o)
           d == IdempotencyErrors(o)
           e == RateLimitErrors(o)
<1>1. /\ o.timeout.type # "huge"
      /\ o.idempotencyTTL.type # "huge"
      /\ o.maxRateLimitWait.type # "huge"
  BY DEF TooLarge
<1>2. <<>> \in Seq(DocumentedErrors)
  OBVIOUS
<1>3. n \in Seq(DocumentedErrors) /\ c \in Seq(DocumentedErrors)
  BY RaiseDocumented DEF DocumentedErrors, FallbackErrors
<1>4. a \in Seq(DocumentedErrors)
  BY RetryDocumented
<1>5. b \in Seq(DocumentedErrors)
  BY <1>1, <1>2, SecondsDocumented DEF TimeoutErrors
<1>6. d \in Seq(DocumentedErrors)
  <2> DEFINE r == Raise(SimpleIdempotency(o) /\ (Given(o.idempotency) \/ ~Given(o.idempotencyKey)),
                        "ValueError")
             t == IF Given(o.idempotencyTTL) THEN CheckSeconds(o.idempotencyTTL, FALSE) ELSE <<>>
  <2>1. r \in Seq(DocumentedErrors)
    BY RaiseDocumented DEF DocumentedErrors
  <2>2. t \in Seq(DocumentedErrors)
    BY <1>1, <1>2, SecondsDocumented
  <2>3. d = r \o t
    BY DEF IdempotencyErrors
  <2> HIDE DEF r, t, d
  <2> QED BY <2>1, <2>2, <2>3, BothDocumented
<1>7. e \in Seq(DocumentedErrors)
  <2> DEFINE r == Raise(SimpleRateLimit(o) /\ (Given(o.rateLimit) \/ ~Given(o.rateLimitOn)),
                        "ValueError")
             w == IF Given(o.maxRateLimitWait)
                  THEN CheckSeconds(o.maxRateLimitWait, TRUE) ELSE <<>>
             t == IF Given(o.rateLimitOn) THEN CheckExceptionTypes(o.rateLimitOn) ELSE <<>>
  <2>1. r \in Seq(DocumentedErrors)
    BY RaiseDocumented DEF DocumentedErrors
  <2>2. w \in Seq(DocumentedErrors)
    BY <1>1, <1>2, SecondsDocumented
  <2>3. t \in Seq(DocumentedErrors)
    BY <1>2, TypesDocumented
  <2>4. e = r \o w \o t
    BY DEF RateLimitErrors
  <2> HIDE DEF r, w, t, e
  <2>5. r \o w \in Seq(DocumentedErrors)
    BY <2>1, <2>2, BothDocumented
  <2> QED BY <2>3, <2>4, <2>5, BothDocumented
<1>8. OptionErrors(o) = n \o a \o b \o c \o d \o e
  BY DEF OptionErrors
<1> HIDE DEF n, a, b, c, d, e
<1>9. n \o a \in Seq(DocumentedErrors)
  BY <1>3, <1>4, BothDocumented
<1>10. n \o a \o b \in Seq(DocumentedErrors)
  BY <1>5, <1>9, BothDocumented
<1>11. n \o a \o b \o c \in Seq(DocumentedErrors)
  BY <1>3, <1>10, BothDocumented
<1>12. n \o a \o b \o c \o d \in Seq(DocumentedErrors)
  BY <1>6, <1>11, BothDocumented
<1> QED BY <1>7, <1>8, <1>12, BothDocumented

\* resilient() refuses exactly the options that conflict or hold an invalid
\* value, for every combination of them: no check lets one pass that another
\* group should have stopped, and none is too strict.  It raises ValueError
\* or TypeError, or OverflowError if a duration is an int no float can hold.
THEOREM InvalidOptionsRefused == Spec => []RefusesInvalidOptions
<1>1. ASSUME ConfigOK, NEW d \in Decorators
      PROVE  LET o == program.options[d]
             IN config[d].status # "new" =>
                  /\ config[d].status = "refused" <=> Conflicting(o) \/ Malformed(o)
                  /\ config[d].status = "refused" =>
                       \/ config[d].error \in DocumentedErrors
                       \/ config[d].error = "OverflowError" /\ TooLarge(o)
  <2> DEFINE o == program.options[d]
  <2>1. OptionErrors(o) # <<>> <=> Conflicting(o) \/ Malformed(o)
    BY <1>1, RefusedExactly, ResilientAssumption DEF ConfigOK
  <2>2. config[d].status = "refused" <=> config[d].status # "new" /\ OptionErrors(o) # <<>>
    BY <1>1 DEF ConfigOK
  <2>3. ASSUME config[d].status = "refused"
        PROVE  \/ config[d].error \in DocumentedErrors
               \/ config[d].error = "OverflowError" /\ TooLarge(o)
    <3>1. config[d].error = Head(OptionErrors(o)) /\ OptionErrors(o) # <<>>
      BY <1>1, <2>3 DEF ConfigOK
    <3>2. CASE TooLarge(o)
      <4>1. OptionErrors(o) \in Seq(ErrorNames)
        BY OptionsPass
      <4>2. \A s \in Seq(ErrorNames) : s # <<>> => Head(s) \in ErrorNames
        OBVIOUS
      <4> QED BY <3>1, <3>2, <4>1, <4>2 DEF ErrorNames, DocumentedErrors
    <3>3. CASE ~TooLarge(o)
      <4>1. OptionErrors(o) \in Seq(DocumentedErrors)
        BY <3>3, OptionsDocumented
      <4>2. \A s \in Seq(DocumentedErrors) : s # <<>> => Head(s) \in DocumentedErrors
        OBVIOUS
      <4> QED BY <3>1, <4>1, <4>2
    <3> QED BY <3>2, <3>3
  <2> QED BY <2>1, <2>2, <2>3
<1>2. ConfigOK => RefusesInvalidOptions
  BY <1>1 DEF RefusesInvalidOptions
<1> QED BY <1>2, InitRInv, StepRInv, PTL DEF Spec, RInv

-----------------------------------------------------------------------------
(* Where results go                                                        *)

\* What a function publishes it publishes for good.
LEMMA PublishesKept ==
  ASSUME ConfigOK, [Next]_vars, NEW f, NEW s, Publishes(f, s)
  PROVE  Publishes(f, s)'
<1>1. ASSUME NEW d \in Decorators, Resilient(d) PROVE Publishes(f, s)'
  BY <1>1, ResilientStep DEF Publishes, Idempotent
<1>2. CASE UNCHANGED <<program, config>>
  BY <1>2, SamePolicies DEF Publishes, Idempotent
<1>3. \/ \E d \in Decorators : Resilient(d)
      \/ UNCHANGED <<program, config>>
  BY DEF Next, vars, CallIdempotent, CallPlain, Resume, Proceed, BeginAttempt, AttemptEnds,
         AttemptReturns, AttemptRaises, FallbackEnds, Succeeds, Fails, Leave, CancelRun,
         CancelJoined, Tick
<1> QED BY <1>1, <1>2, <1>3

\* A decorated function that a task has called keeps its policies.
LEMMA PoliciesKept ==
  ASSUME ConfigOK, RunsOK, [Next]_vars, NEW c \in Callers, fn[c] # NoValue, fn'[c] = fn[c]
  PROVE  /\ Of(fn[c])' = Of(fn[c])
         /\ Idempotent(fn[c])' <=> Idempotent(fn[c])
<1>1. PICK f \in Functions : fn[c] = f /\ Decorated(f)
  BY DEF RunsOK
<1>2. Of(f)' = Of(f)
  <2>1. ASSUME NEW d \in Decorators, Resilient(d) PROVE Of(f)' = Of(f)
    BY <1>1, <2>1, ResilientStep
  <2>2. CASE UNCHANGED <<program, config>>
    BY <2>2, SamePolicies
  <2>3. \/ \E d \in Decorators : Resilient(d)
        \/ UNCHANGED <<program, config>>
    BY DEF Next, vars, CallIdempotent, CallPlain, Resume, Proceed, BeginAttempt, AttemptEnds,
           AttemptReturns, AttemptRaises, FallbackEnds, Succeeds, Fails, Leave, CancelRun,
           CancelJoined, Tick
  <2> QED BY <2>1, <2>2, <2>3
<1>3. Of(fn[c])' = Of(f)' /\ Of(fn[c]) = Of(f)
  BY <1>1 DEF Of
<1> QED BY <1>2, <1>3 DEF Idempotent

\* It is enough that the new results are published now.
LEMMA ResultsCarry ==
  ASSUME ConfigOK, [Next]_vars,
         \A k \in StoreKeys : entries'[k].status = "done" => Publishes(entries'[k].value, k[1]),
         \A d \in Callers :
           wake'[d] \in Functions => pc'[d] = "woken" /\ Publishes(wake'[d], key'[d][1]),
         \A d \in Callers :
           fn'[d] # NoValue /\ result'[d] \in Functions /\ Idempotent(fn[d])' =>
             \E s : Of(fn[d])'.idempotency.store = s /\ Publishes(result'[d], s)
  PROVE  ResultsMatch'
<1>1. ASSUME NEW k \in StoreKeys, entries'[k].status = "done"
      PROVE  Publishes(entries[k].value, k[1])'
  <2>1. PICK v, s : v = entries'[k].value /\ s = k[1]
    OBVIOUS
  <2>2. Publishes(v, s)'
    BY <1>1, <2>1, PublishesKept
  <2> QED BY <2>1, <2>2
<1>2. ASSUME NEW d \in Callers, wake'[d] \in Functions
      PROVE  pc'[d] = "woken" /\ Publishes(wake[d], key[d][1])'
  <2>1. PICK v, s : v = wake'[d] /\ s = key'[d][1]
    OBVIOUS
  <2>2. pc'[d] = "woken" /\ Publishes(v, s)'
    BY <1>2, <2>1, PublishesKept
  <2> QED BY <2>1, <2>2
<1>3. ASSUME NEW d \in Callers, fn'[d] # NoValue, result'[d] \in Functions, Idempotent(fn[d])'
      PROVE  Publishes(result[d], Of(fn[d]).idempotency.store)'
  <2>1. PICK v, s : v = result'[d] /\ s = Of(fn[d])'.idempotency.store
    OBVIOUS
  <2>2. Publishes(v, s)'
    BY <1>3, <2>1, PublishesKept
  <2> QED BY <2>1, <2>2
<1> QED BY <1>1, <1>2, <1>3 DEF ResultsMatch

\* One task moves; others are at most given a result of their store.
LEMMA ResultsMove ==
  ASSUME RInv, ResultsMatch, [Next]_vars, NEW c \in Callers,
         \A d \in Callers \ {c} :
           /\ fn'[d] = fn[d] /\ result'[d] = result[d] /\ key'[d] = key[d]
           /\ \/ pc'[d] = pc[d] /\ wake'[d] = wake[d]
              \/ /\ pc'[d] = "woken"
                 /\ wake'[d] \in Functions => Publishes(wake'[d], key[d][1]),
         wake'[c] \notin Functions,
         fn'[c] # NoValue /\ result'[c] \in Functions /\ Idempotent(fn[c])' =>
           \E s : Of(fn[c])'.idempotency.store = s /\ Publishes(result'[c], s),
         \A k \in StoreKeys : entries'[k].status = "done" => Publishes(entries'[k].value, k[1])
  PROVE  ResultsMatch'
<1>1. ConfigOK /\ RunsOK
  BY DEF RInv
<1>2. \A d \in Callers :
        wake'[d] \in Functions => pc'[d] = "woken" /\ Publishes(wake'[d], key'[d][1])
  BY DEF ResultsMatch
<1>3. ASSUME NEW d \in Callers \ {c}, fn'[d] # NoValue, result'[d] \in Functions,
             Idempotent(fn[d])'
      PROVE  \E s : Of(fn[d])'.idempotency.store = s /\ Publishes(result'[d], s)
  BY <1>1, <1>3, PoliciesKept DEF ResultsMatch
<1> QED BY <1>1, <1>2, <1>3, ResultsCarry

\* Nobody's results change where the stores are left alone.
LEMMA ResultsUntouched ==
  ASSUME RInv, ResultsMatch, [Next]_vars, UNCHANGED <<fn, pc, key, wake, result>>,
         \A k \in StoreKeys :
           entries'[k].status = entries[k].status /\ entries'[k].value = entries[k].value
  PROVE  ResultsMatch'
<1>1. ConfigOK /\ RunsOK
  BY DEF RInv
<1>2. ASSUME NEW d \in Callers, fn'[d] # NoValue, result'[d] \in Functions, Idempotent(fn[d])'
      PROVE  \E s : Of(fn[d])'.idempotency.store = s /\ Publishes(result'[d], s)
  BY <1>1, <1>2, PoliciesKept DEF ResultsMatch
<1>3. /\ \A k \in StoreKeys : entries'[k].status = "done" => Publishes(entries'[k].value, k[1])
      /\ \A d \in Callers :
           wake'[d] \in Functions => pc'[d] = "woken" /\ Publishes(wake'[d], key'[d][1])
  BY DEF ResultsMatch
<1> QED BY <1>1, <1>2, <1>3, ResultsCarry

\* A lookup replays only what belongs to the store it looks into.
LEMMA LookupResults ==
  ASSUME RInv, ResultsMatch, [Next]_vars, NEW c \in Callers, NEW k \in StoreKeys,
         Store!Lookup(c, k), \A d \in Callers \ {c} : fn'[d] = fn[d],
         Of(fn[c])'.idempotency.store = k[1]
  PROVE  ResultsMatch'
<1>1. SP!IInv
  BY DEF RInv
<1>2. /\ wake'[c] = NoValue
      /\ \/ result'[c] \in {NoValue, "reentry"}
         \/ entries[k].status = "done" /\ result'[c] = entries[k].value
      /\ \A d \in Callers \ {c} :
           pc'[d] = pc[d] /\ key'[d] = key[d] /\ wake'[d] = wake[d] /\ result'[d] = result[d]
      /\ \A j \in StoreKeys :
           \/ entries'[j] = entries[j]
           \/ entries'[j] = Store!Absent
           \/ entries'[j] = Store!Pending(c)
  BY <1>1, LookupEffect
<1>3. wake'[c] \notin Functions /\ (result'[c] \in Functions => Publishes(result'[c], k[1]))
  BY <1>2, ComponentAssumption DEF ResultsMatch
<1>4. \A j \in StoreKeys : entries'[j].status = "done" => Publishes(entries'[j].value, j[1])
  BY <1>2 DEF ResultsMatch, Store!Absent, Store!Pending
<1> QED BY <1>2, <1>3, <1>4, ResultsMove

\* The end of an execution gives its result to its key, to the calls that
\* joined and to its own caller, and a failure to none as a result.
LEMMA EndResults ==
  ASSUME RInv, ResultsMatch, [Next]_vars, NEW c \in Callers, UNCHANGED fn, fn[c] # NoValue,
         Idempotent(fn[c]),
         \/ Store!Succeed(c) /\ result'[c] = fn[c]
         \/ Store!Fail(c) \/ Store!CancelOwner(c)
  PROVE  ResultsMatch'
<1>1. SP!IInv
  BY DEF RInv
<1>2. /\ pc[c] = "running"
      /\ wake[c] \notin Functions
      /\ key[c] \in StoreKeys /\ key[c][1] = Of(fn[c]).idempotency.store
      /\ Publishes(fn[c], key[c][1])
  <2>1. pc[c] = "running"
    BY DEF Store!Succeed, Store!Fail, Store!CancelOwner
  <2>2. key[c] \in StoreKeys /\ key[c][1] = Of(fn[c]).idempotency.store
    BY <2>1 DEF RInv, KeysMatch, SP!IInv, SP!OwnerHolds
  <2>3. fn[c] \in Functions /\ Decorated(fn[c])
    BY DEF RInv, RunsOK
  <2> QED BY <2>1, <2>2, <2>3 DEF ResultsMatch, Publishes
<1>3. PICK e, v :
        /\ v \in Functions => v = fn[c]
        /\ e.status = "done" => v = fn[c] /\ e.value = v
        /\ entries' = IF Store!Holds(c) THEN [entries EXCEPT ![key[c]] = e] ELSE entries
        /\ Store!Resolve(c, v, v)
  <2>1. CASE Store!Succeed(c) /\ result'[c] = fn[c]
    <3>1. PICK v \in Functions, ttl \in TTLs :
            /\ entries' = IF Store!Holds(c)
                          THEN [entries EXCEPT ![key[c]] = Store!Done(c, v, ttl)]
                          ELSE entries
            /\ Store!Resolve(c, v, v)
      BY <2>1 DEF Store!Succeed
    <3>2. v = fn[c]
      BY <1>1, <1>2, <2>1, <3>1, ResolveEffect
    <3>3. Store!Done(c, v, ttl).value = v
      BY DEF Store!Done
    <3> QED BY <3>1, <3>2, <3>3
  <2>2. Store!Absent.status = "absent"
    BY DEF Store!Absent
  <2>3. CASE Store!Fail(c)
    BY <2>2, <2>3, ComponentAssumption DEF Store!Fail, Store!Release
  <2>4. CASE Store!CancelOwner(c)
    BY <2>2, <2>4, ComponentAssumption DEF Store!CancelOwner, Store!Release
  <2> QED BY <2>1, <2>3, <2>4
<1>4. /\ entries'[key[c]] = e
      /\ \A j \in StoreKeys \ {key[c]} : entries'[j] = entries[j]
  BY <1>1, <1>2, <1>3, ReleaseEffect
<1>5. /\ wake'[c] = wake[c] /\ result'[c] = v
      /\ \A d \in Callers \ {c} :
           /\ key'[d] = key[d] /\ result'[d] = result[d]
           /\ \/ pc'[d] = pc[d] /\ wake'[d] = wake[d]
              \/ /\ pc[d] = "waiting" /\ pc'[d] = "woken"
                 /\ wake'[d] = v /\ key[d] = key[c]
  BY <1>1, <1>2, <1>3, ResolveEffect
<1>6. \A j \in StoreKeys : entries'[j].status = "done" => Publishes(entries'[j].value, j[1])
  BY <1>2, <1>3, <1>4 DEF ResultsMatch
<1>7. Of(fn[c])' = Of(fn[c])
  BY PoliciesKept DEF RInv
<1>8. \A d \in Callers \ {c} :
        /\ fn'[d] = fn[d] /\ result'[d] = result[d] /\ key'[d] = key[d]
        /\ \/ pc'[d] = pc[d] /\ wake'[d] = wake[d]
           \/ /\ pc'[d] = "woken"
              /\ wake'[d] \in Functions => Publishes(wake'[d], key[d][1])
  BY <1>2, <1>3, <1>5
<1>9. fn'[c] # NoValue /\ result'[c] \in Functions /\ Idempotent(fn[c])' =>
        \E s : Of(fn[c])'.idempotency.store = s /\ Publishes(result'[c], s)
  BY <1>2, <1>3, <1>5, <1>7
<1> QED BY <1>2, <1>5, <1>6, <1>8, <1>9, ResultsMove

\* Every step of every task keeps results with their stores.
LEMMA StepResults == RInv /\ ResultsMatch /\ [Next]_vars => ResultsMatch'
<1> SUFFICES ASSUME RInv, ResultsMatch, [Next]_vars PROVE ResultsMatch'
  OBVIOUS
<1>1. SP!IInv /\ ConfigOK /\ RunsOK
  BY DEF RInv
<1>2. ASSUME UNCHANGED <<fn, store>> PROVE ResultsMatch'
  BY <1>2, ResultsUntouched DEF store
<1>3. ASSUME NEW c \in Callers, NEW f \in Functions, NEW k \in CallKeys, CallIdempotent(c, f, k)
      PROVE  ResultsMatch'
  <2>1. PICK s \in Stores \cup Decorators : Of(f).idempotency.store = s
    BY <1>1, <1>3, StoreOf DEF CallIdempotent
  <2>2. <<s, k>> \in StoreKeys /\ <<s, k>>[1] = s
    BY DEF StoreKeys
  <2>3. Store!Lookup(c, <<s, k>>)
    BY <1>3, <2>1 DEF CallIdempotent, Store!Execute
  <2>4. fn'[c] = f /\ \A d \in Callers \ {c} : fn'[d] = fn[d]
    BY <1>1, <1>3 DEF CallIdempotent, RunsOK
  <2>5. Of(fn[c])' = Of(f)
    BY <1>3, <2>4 DEF CallIdempotent, Of
  <2> QED BY <2>1, <2>2, <2>3, <2>4, <2>5, LookupResults
<1>4. ASSUME NEW c \in Callers, NEW f \in Functions, CallPlain(c, f) PROVE ResultsMatch'
  <2>1. /\ UNCHANGED <<program, config, entries, pc, key, wake, result>>
        /\ pc[c] = "idle" /\ ~Idempotent(f)
        /\ fn'[c] = f /\ \A d \in Callers \ {c} : fn'[d] = fn[d]
    BY <1>1, <1>4 DEF CallPlain, RunsOK, store
  <2>2. ~Idempotent(fn[c])'
    BY <2>1 DEF Idempotent, Of
  <2>3. wake'[c] \notin Functions
    BY <2>1 DEF ResultsMatch
  <2>4. \A k \in StoreKeys : entries'[k].status = "done" => Publishes(entries'[k].value, k[1])
    BY <2>1 DEF ResultsMatch
  <2> QED BY <2>1, <2>2, <2>3, <2>4, ResultsMove
<1>5. ASSUME NEW c \in Callers, Store!Retry(c), Resume(c) PROVE ResultsMatch'
  <2>1. PICK k \in StoreKeys : key[c] = k /\ Store!Lookup(c, k)
    BY <1>5 DEF Store!Retry
  <2>2. Of(fn[c])'.idempotency.store = k[1]
    <3>1. Of(fn[c])' = Of(fn[c])
      BY <1>5, SameFunction DEF Resume
    <3>2. key[c] \in {Of(fn[c]).idempotency.store} \X CallKeys
      BY <1>5 DEF Store!Retry, RInv, KeysMatch
    <3> QED BY <2>1, <3>1, <3>2
  <2> QED BY <1>5, <2>1, <2>2, LookupResults DEF Resume
<1>6. ASSUME NEW c \in Callers, NEW r, Store!Leave(c, r),
             UNCHANGED <<program, config, fn, entries>>,
             pc[c] # "idle", r \in Functions => Publishes(r, key[c][1])
      PROVE  ResultsMatch'
  <2>1. /\ pc'[c] = "idle" /\ wake'[c] = NoValue /\ result'[c] = r
        /\ \A d \in Callers \ {c} :
             pc'[d] = pc[d] /\ key'[d] = key[d] /\ wake'[d] = wake[d] /\ result'[d] = result[d]
    BY <1>1, <1>6, LeaveEffect
  <2>2. Of(fn[c])'.idempotency.store = key[c][1]
    BY <1>6, SameFunction DEF RInv, KeysMatch
  <2>3. \A k \in StoreKeys : entries'[k].status = "done" => Publishes(entries'[k].value, k[1])
    BY <1>6 DEF ResultsMatch
  <2> QED BY <1>6, <2>1, <2>2, <2>3, ResultsMove, ComponentAssumption
<1>7. ASSUME NEW c \in Callers, Store!Deliver(c), Resume(c) PROVE ResultsMatch'
  <2>1. PICK r : r = wake[c]
    OBVIOUS
  <2>2. Store!Leave(c, r) /\ UNCHANGED entries /\ pc[c] = "woken"
    BY <1>7, <2>1 DEF Store!Deliver
  <2>3. r \in Functions => Publishes(r, key[c][1])
    BY <2>1 DEF ResultsMatch
  <2> QED BY <1>6, <1>7, <2>2, <2>3 DEF Resume
<1>8. ASSUME NEW c \in Callers, CancelJoined(c) PROVE ResultsMatch'
  <2>1. /\ Store!Leave(c, "cancelled") /\ UNCHANGED entries /\ pc[c] # "idle"
        /\ UNCHANGED <<program, config, fn>>
    BY <1>8 DEF CancelJoined, Store!CancelJoined, run
  <2> QED BY <1>6, <2>1, ComponentAssumption
<1>9. ASSUME NEW c \in Callers, Succeeds(c) \/ Fails(c) \/ CancelRun(c) PROVE ResultsMatch'
  <2>1. /\ UNCHANGED fn /\ phase[c] # "idle"
        /\ IF Idempotent(fn[c])
           THEN \/ Store!Succeed(c) /\ result'[c] = fn[c]
                \/ Store!Fail(c) \/ Store!CancelOwner(c)
           ELSE UNCHANGED store
    BY <1>9 DEF Succeeds, Fails, CancelRun, Emitting, Leave
  <2>2. fn[c] # NoValue
    BY <1>1, <2>1 DEF RunsOK
  <2> QED BY <1>2, <2>1, <2>2, EndResults
<1>10. ASSUME Tick PROVE ResultsMatch'
  <2>1. UNCHANGED <<fn, pc, key, wake, result>>
    BY <1>10 DEF Tick, Store!Tick, run
  <2>2. \A k \in StoreKeys :
          entries'[k].status = entries[k].status /\ entries'[k].value = entries[k].value
    BY <1>1, <1>10 DEF Tick, Store!Tick, SP!IInv, SP!TypeOK
  <2> QED BY <2>1, <2>2, ResultsUntouched
<1>11. \/ UNCHANGED <<fn, store>>
       \/ \E c \in Callers, f \in Functions, k \in CallKeys : CallIdempotent(c, f, k)
       \/ \E c \in Callers, f \in Functions : CallPlain(c, f)
       \/ \E c \in Callers :
            Resume(c) \/ CancelJoined(c) \/ Succeeds(c) \/ Fails(c) \/ CancelRun(c)
       \/ Tick
  BY DEF Next, vars, run, Resilient, Proceed, BeginAttempt, AttemptEnds, AttemptReturns,
         AttemptRaises, FallbackEnds
<1> QED
  BY <1>2, <1>3, <1>4, <1>5, <1>7, <1>8, <1>9, <1>10, <1>11 DEF Resume, Store!Resume

\* Results go from one function to another only through the one decorator of
\* both or through a store object that the options of both name.
THEOREM ResultsStayHome == Spec => []ResultsStayInStore
<1>1. Init => ResultsMatch
  BY ComponentAssumption DEF Init, Store!Init, Store!Absent, ResultsMatch
<1>2. ASSUME ConfigOK, NEW f \in Functions, Decorated(f), Idempotent(f)
      PROVE  \E d \in Decorators :
               /\ program.decorates[f] = d
               /\ Of(f).idempotency.store
                    = IF NamedStore(program.options[d]) = NoKey THEN d
                      ELSE NamedStore(program.options[d])
               /\ NamedStore(program.options[d]) \in Stores \cup {NoKey}
  <2>1. PICK d \in Decorators :
          /\ program.decorates[f] = d
          /\ OptionErrors(program.options[d]) = <<>>
          /\ Passable(program.options[d])
          /\ Of(f) = Resolved(program.options[d], d)
    BY <1>2, PoliciesOf
  <2>2. PICK o : o = program.options[d]
    OBVIOUS
  <2>3. Of(f).idempotency = ResolvedIdempotency(o, d) /\ Given(ResolvedIdempotency(o, d))
    BY <1>2, <2>1, <2>2 DEF Resolved, Idempotent
  <2>4. ~(SimpleIdempotency(o) /\ (Given(o.idempotency) \/ ~Given(o.idempotencyKey)))
    BY <2>1, <2>2, OptionsPass, IdempotencyPasses
  <2>5. CASE Given(o.idempotencyKey)
    BY <2>1, <2>2, <2>3, <2>4, <2>5, ResilientAssumption
       DEF ResolvedIdempotency, IdempotencyPolicy, NamedStore, Passable, SimpleIdempotency
  <2>6. CASE ~Given(o.idempotencyKey)
    BY <2>1, <2>2, <2>3, <2>4, <2>6, ResilientAssumption
       DEF ResolvedIdempotency, NamedStore, Passable, SimpleIdempotency
  <2> QED BY <2>5, <2>6
<1>3. RInv /\ ResultsMatch => ResultsStayInStore
  <2> SUFFICES ASSUME RInv, ResultsMatch, NEW c \in Callers,
                      fn[c] # NoValue, result[c] \in Functions, Idempotent(fn[c])
               PROVE  LET d == program.decorates[fn[c]]
                          e == program.decorates[result[c]]
                          named == NamedStore(program.options[d])
                      IN d = e \/ (named # NoKey /\ named = NamedStore(program.options[e]))
    BY DEF ResultsStayInStore
  <2>1. ConfigOK /\ RunsOK
    BY DEF RInv
  <2>2. PICK f, g : f = fn[c] /\ g = result[c]
    OBVIOUS
  <2>3. /\ f \in Functions /\ Decorated(f) /\ Idempotent(f)
        /\ g \in Functions /\ Decorated(g) /\ Idempotent(g)
        /\ Of(f).idempotency.store = Of(g).idempotency.store
    BY <2>1, <2>2 DEF RunsOK, ResultsMatch, Publishes
  <2>4. PICK d \in Decorators :
          /\ program.decorates[f] = d
          /\ Of(f).idempotency.store
               = IF NamedStore(program.options[d]) = NoKey THEN d
                 ELSE NamedStore(program.options[d])
          /\ NamedStore(program.options[d]) \in Stores \cup {NoKey}
    BY <1>2, <2>1, <2>3
  <2>5. PICK e \in Decorators :
          /\ program.decorates[g] = e
          /\ Of(g).idempotency.store
               = IF NamedStore(program.options[e]) = NoKey THEN e
                 ELSE NamedStore(program.options[e])
          /\ NamedStore(program.options[e]) \in Stores \cup {NoKey}
    BY <1>2, <2>1, <2>3
  <2>6. \/ d = e
        \/ /\ NamedStore(program.options[d]) # NoKey
           /\ NamedStore(program.options[d]) = NamedStore(program.options[e])
    <3>1. PICK m, n : m = NamedStore(program.options[d]) /\ n = NamedStore(program.options[e])
      OBVIOUS
    <3>2. /\ m \in Stores \cup {NoKey} /\ n \in Stores \cup {NoKey}
          /\ (IF m = NoKey THEN d ELSE m) = (IF n = NoKey THEN e ELSE n)
      BY <2>3, <2>4, <2>5, <3>1
    <3>3. d = e \/ (m # NoKey /\ m = n)
      BY <3>2, ResilientAssumption
    <3> QED BY <3>1, <3>3
  <2> QED BY <2>2, <2>4, <2>5, <2>6
<1> QED BY <1>1, <1>3, InitRInv, StepRInv, StepResults, PTL DEF Spec

-----------------------------------------------------------------------------
(* How many attempts a run makes                                           *)

\* What the options say about attempts is what the policies do.
LEMMA AttemptsOf ==
  ASSUME ConfigOK, NEW f \in Functions, Decorated(f)
  PROVE  /\ MaxAttempts(f) \in Nat \ {0}
         /\ MaxAttempts(f) = Allowed(program.options[program.decorates[f]])
         /\ LET o == program.options[program.decorates[f]]
            IN ~Given(o.retryOn) /\ ~Given(o.retry) /\ ~Given(o.rateLimit)
                 /\ ~Given(o.rateLimitOn) => RetriesAll(f)
<1>1. PICK d \in Decorators :
        /\ program.decorates[f] = d
        /\ OptionErrors(program.options[d]) = <<>>
        /\ Passable(program.options[d])
        /\ Of(f) = Resolved(program.options[d], d)
  BY PoliciesOf
<1>2. PICK o : o = program.options[program.decorates[f]]
  OBVIOUS
<1>3. /\ Of(f).retry = ResolvedRetry(o) /\ Of(f).rateLimit = ResolvedRateLimit(o)
      /\ RetryErrors(o) = <<>> /\ Passable(o)
  BY <1>1, <1>2, OptionsPass DEF Resolved
<1>4. Given(o.retries) => o.retries.n \in Nat
  <2>1. Given(o.retries) => o.retries.type \in {"int", "huge"} /\ ~(o.retries.n < 0)
    BY <1>3, RetryPasses
  <2>2. o.retries.type \in {"int", "float", "huge"} => o.retries.n \in Int
    BY <1>3 DEF Passable
  <2>3. \A n \in Int : ~(n < 0) => n \in Nat
    OBVIOUS
  <2> QED BY <2>1, <2>2, <2>3
<1>5. MaxAttempts(f) \in Nat \ {0} /\ MaxAttempts(f) = Allowed(o)
  <2>1. CASE Given(o.retry)
    BY <1>3, <2>1 DEF MaxAttempts, ResolvedRetry, Allowed, Passable
  <2>2. CASE ~Given(o.retry) /\ (Given(o.retries) => o.retries.n = 0)
    BY <1>3, <2>2 DEF MaxAttempts, ResolvedRetry, Allowed, Given, None
  <2>3. CASE ~Given(o.retry) /\ Given(o.retries) /\ o.retries.n # 0
    <3>1. PICK n \in Nat : n = o.retries.n
      BY <1>4, <2>3
    <3>2. Given(Of(f).retry) /\ Of(f).retry.maxAttempts = n + 1
      BY <1>3, <2>3, <3>1 DEF ResolvedRetry, RetryPolicy, Given
    <3>3. MaxAttempts(f) = n + 1 /\ Allowed(o) = n + 1
      BY <2>3, <3>1, <3>2 DEF MaxAttempts, Allowed
    <3> QED BY <3>1, <3>3
  <2> QED BY <2>1, <2>2, <2>3
<1>6. ASSUME ~Given(o.retryOn), ~Given(o.retry), ~Given(o.rateLimit), ~Given(o.rateLimitOn)
      PROVE  RetriesAll(f)
  BY <1>3, <1>6 DEF RetriesAll, ResolvedRetry, RetryPolicy, ResolvedRateLimit, Given, None
<1> QED BY <1>2, <1>5, <1>6

\* The number of an attempt moves only while its run does.
LEMMA AttemptsMove ==
  ASSUME RInv, AttemptsMatch, [Next]_vars, NEW c \in Callers,
         \A d \in Callers \ {c} :
           fn'[d] = fn[d] /\ phase'[d] = phase[d] /\ attempt'[d] = attempt[d],
         phase'[c] # "idle" =>
           /\ attempt'[c] \in 1..MaxAttempts(fn[c])'
           /\ phase'[c] \in {"fallback", "failing"} /\ RetriesAll(fn[c])' =>
                attempt'[c] = MaxAttempts(fn[c])'
  PROVE  AttemptsMatch'
<1>1. ConfigOK /\ RunsOK
  BY DEF RInv
<1>2. ASSUME NEW d \in Callers \ {c}, phase[d] # "idle"
      PROVE  MaxAttempts(fn[d])' = MaxAttempts(fn[d]) /\ (RetriesAll(fn[d])' <=> RetriesAll(fn[d]))
  <2>1. Of(fn[d])' = Of(fn[d])
    BY <1>1, <1>2, PoliciesKept DEF RunsOK
  <2> QED BY <2>1 DEF MaxAttempts, RetriesAll
<1> QED BY <1>2 DEF AttemptsMatch

\* A failed attempt is counted, or it was the last that its failure allows.
LEMMA FailedAttempt ==
  ASSUME RInv, AttemptsMatch, [Next]_vars, NEW c \in Callers, NEW e \in Errors,
         phase[c] # "idle", UNCHANGED <<program, config, fn>>, AttemptFails(c, e)
  PROVE  AttemptsMatch'
<1>1. ConfigOK /\ RunsOK
  BY DEF RInv
<1>2. PICK hint \in Hints :
        IF WillRetry(fn[c], e, hint, attempt[c])
        THEN /\ Enter(c, "between")
             /\ attempt' = [attempt EXCEPT ![c] = @ + 1]
        ELSE /\ Enter(c, IF FallsBack(fn[c], e) THEN "fallback" ELSE "failing")
             /\ UNCHANGED attempt
  BY DEF AttemptFails
<1>3. PICK f \in Functions : fn[c] = f /\ Decorated(f)
  BY <1>1 DEF RunsOK
<1>4. MaxAttempts(fn[c]) = MaxAttempts(f) /\ (RetriesAll(fn[c]) <=> RetriesAll(f))
  BY <1>3 DEF MaxAttempts, RetriesAll, Of
<1>5. /\ MaxAttempts(fn[c])' = MaxAttempts(fn[c])
      /\ RetriesAll(fn[c])' <=> RetriesAll(fn[c])
  BY DEF MaxAttempts, RetriesAll, Of
<1>6. PICK m \in Nat : m = MaxAttempts(f)
  BY <1>1, <1>3, AttemptsOf
<1>7. attempt[c] \in 1..m
  BY <1>4, <1>6 DEF AttemptsMatch
<1>8. \A d \in Callers \ {c} : phase'[d] = phase[d] /\ attempt'[d] = attempt[d]
  BY <1>1, <1>2 DEF RunsOK, Enter
<1>9. CASE WillRetry(fn[c], e, hint, attempt[c])
  <2>1. attempt[c] < m
    BY <1>3, <1>6, <1>9 DEF WillRetry
  <2>2. phase'[c] = "between" /\ attempt'[c] = attempt[c] + 1
    BY <1>1, <1>2, <1>9 DEF RunsOK, Enter
  <2>3. attempt'[c] \in 1..m
    BY <1>7, <2>1, <2>2
  <2> QED BY <1>4, <1>5, <1>6, <1>8, <2>2, <2>3, AttemptsMove
<1>10. CASE ~WillRetry(fn[c], e, hint, attempt[c])
  <2>1. UNCHANGED attempt
    BY <1>2, <1>10
  <2>2. RetriesAll(f) => attempt[c] = m
    <3>1. CASE Given(Of(f).retry)
      <4>1. RetriesAll(f) => e \in Of(f).retry.retryOn /\ ~Limited(f, e)
        BY <3>1 DEF RetriesAll, Limited
      <4>2. RetriesAll(f) => ~(attempt[c] < m)
        BY <1>3, <1>6, <1>10, <3>1, <4>1 DEF WillRetry
      <4> QED BY <1>7, <4>2
    <3>2. CASE ~Given(Of(f).retry)
      BY <1>6, <1>7, <3>2 DEF MaxAttempts
    <3> QED BY <3>1, <3>2
  <2> QED BY <1>4, <1>5, <1>6, <1>7, <1>8, <2>1, <2>2, AttemptsMove
<1> QED BY <1>9, <1>10


\* Steps that leave all runs alone.
LEMMA AttemptsUntouched ==
  ASSUME RInv, AttemptsMatch, [Next]_vars, UNCHANGED <<phase, attempt>>,
         \A c \in Callers : phase[c] # "idle" => fn'[c] = fn[c]
  PROVE  AttemptsMatch'
<1>1. ConfigOK /\ RunsOK
  BY DEF RInv
<1> SUFFICES ASSUME NEW c \in Callers, phase[c] # "idle"
             PROVE  /\ attempt'[c] \in 1..MaxAttempts(fn[c])'
                    /\ phase'[c] \in {"fallback", "failing"} /\ RetriesAll(fn[c])' =>
                         attempt'[c] = MaxAttempts(fn[c])'
  BY DEF AttemptsMatch
<1>2. Of(fn[c])' = Of(fn[c])
  BY <1>1, PoliciesKept DEF RunsOK
<1>3. MaxAttempts(fn[c])' = MaxAttempts(fn[c]) /\ (RetriesAll(fn[c])' <=> RetriesAll(fn[c]))
  BY <1>2 DEF MaxAttempts, RetriesAll
<1> QED BY <1>3 DEF AttemptsMatch

\* A run begins with its first attempt.
LEMMA FirstAttempt ==
  ASSUME RInv, AttemptsMatch, [Next]_vars, NEW c \in Callers, NEW f \in Functions,
         Decorated(f), UNCHANGED <<program, config>>, fn'[c] = f,
         \A d \in Callers \ {c} : fn'[d] = fn[d], Begin(c)
  PROVE  AttemptsMatch'
<1>1. ConfigOK /\ RunsOK
  BY DEF RInv
<1>2. MaxAttempts(f) \in Nat \ {0}
  BY <1>1, AttemptsOf
<1>3. MaxAttempts(fn[c])' = MaxAttempts(f)
  BY DEF MaxAttempts, Of
<1>4. /\ phase'[c] = "between" /\ attempt'[c] = 1
      /\ \A d \in Callers \ {c} : phase'[d] = phase[d] /\ attempt'[d] = attempt[d]
  BY <1>1 DEF RunsOK, Begin, Enter
<1>5. attempt'[c] \in 1..MaxAttempts(fn[c])'
  BY <1>2, <1>3, <1>4
<1> QED BY <1>4, <1>5, AttemptsMove

\* A run goes on without a new attempt.
LEMMA SameAttempt ==
  ASSUME RInv, AttemptsMatch, [Next]_vars, NEW c \in Callers, NEW p,
         UNCHANGED <<program, config, fn, attempt>>, phase[c] # "idle", Enter(c, p),
         p \in {"fallback", "failing"} => phase[c] \in {"fallback", "failing"}
  PROVE  AttemptsMatch'
<1>1. RunsOK
  BY DEF RInv
<1>2. phase'[c] = p /\ \A d \in Callers \ {c} : phase'[d] = phase[d]
  BY <1>1 DEF RunsOK, Enter
<1>3. MaxAttempts(fn[c])' = MaxAttempts(fn[c]) /\ (RetriesAll(fn[c])' <=> RetriesAll(fn[c]))
  BY DEF MaxAttempts, RetriesAll, Of
<1> QED BY <1>2, <1>3, AttemptsMove DEF AttemptsMatch

\* Every step of every task keeps the attempts within the policies.
LEMMA StepAttempts == RInv /\ AttemptsMatch /\ [Next]_vars => AttemptsMatch'
<1> SUFFICES ASSUME RInv, AttemptsMatch, [Next]_vars PROVE AttemptsMatch'
  OBVIOUS
<1>1. ConfigOK /\ RunsOK
  BY DEF RInv
<1>2. CASE UNCHANGED run
  BY <1>2, AttemptsUntouched DEF run
<1>3. ASSUME NEW c \in Callers, NEW f \in Functions, NEW k \in CallKeys, CallIdempotent(c, f, k)
      PROVE  AttemptsMatch'
  <2>1. /\ UNCHANGED <<program, config>> /\ Decorated(f) /\ phase[c] = "idle"
        /\ fn'[c] = f /\ \A d \in Callers \ {c} : fn'[d] = fn[d]
    BY <1>1, <1>3 DEF CallIdempotent, RunsOK
  <2>2. CASE Begin(c)
    BY <2>1, <2>2, FirstAttempt
  <2>3. CASE UNCHANGED <<phase, attempt>>
    BY <2>1, <2>3, AttemptsUntouched
  <2> QED BY <1>3, <2>2, <2>3 DEF CallIdempotent
<1>4. ASSUME NEW c \in Callers, NEW f \in Functions, CallPlain(c, f) PROVE AttemptsMatch'
  <2>1. /\ UNCHANGED <<program, config>> /\ Decorated(f) /\ Begin(c)
        /\ fn'[c] = f /\ \A d \in Callers \ {c} : fn'[d] = fn[d]
    BY <1>1, <1>4 DEF CallPlain, RunsOK
  <2> QED BY <2>1, FirstAttempt
<1>5. ASSUME NEW c \in Callers, Resume(c) PROVE AttemptsMatch'
  <2>1. UNCHANGED <<program, config, fn>>
    BY <1>5 DEF Resume
  <2>2. CASE Begin(c)
    <3>1. pc[c] # "idle"
      BY <1>5 DEF Resume, Store!Resume, Store!Deliver, Store!Retry
    <3>2. PICK f \in Functions : fn[c] = f /\ Decorated(f)
      BY <1>1, <3>1 DEF RunsOK
    <3> QED BY <2>1, <2>2, <3>2, FirstAttempt
  <2>3. CASE UNCHANGED <<phase, attempt>>
    BY <2>1, <2>3, AttemptsUntouched
  <2> QED BY <1>5, <2>2, <2>3 DEF Resume
<1>6. ASSUME NEW c \in Callers, BeginAttempt(c) PROVE AttemptsMatch'
  <2>1. /\ UNCHANGED <<program, config, fn>> /\ phase[c] = "between"
        /\ \/ Enter(c, "running") /\ UNCHANGED attempt
           \/ AttemptFails(c, "open")
    BY <1>6 DEF BeginAttempt
  <2>2. CASE Enter(c, "running") /\ UNCHANGED attempt
    BY <2>1, <2>2, SameAttempt
  <2>3. CASE AttemptFails(c, "open")
    BY <2>1, <2>3, FailedAttempt DEF Errors
  <2> QED BY <2>1, <2>2, <2>3
<1>7. ASSUME NEW c \in Callers, AttemptReturns(c) PROVE AttemptsMatch'
  BY <1>7, SameAttempt DEF AttemptReturns
<1>8. ASSUME NEW c \in Callers, NEW e \in {"error", "limited"}, AttemptRaises(c, e)
      PROVE  AttemptsMatch'
  BY <1>8, FailedAttempt DEF AttemptRaises, Errors
<1>9. ASSUME NEW c \in Callers, FallbackEnds(c) PROVE AttemptsMatch'
  <2>1. /\ UNCHANGED <<program, config, fn, attempt>> /\ phase[c] = "fallback"
        /\ Enter(c, "accepted") \/ Enter(c, "failing")
    BY <1>9 DEF FallbackEnds
  <2> QED BY <2>1, SameAttempt
<1>10. ASSUME NEW c \in Callers, Leave(c) PROVE AttemptsMatch'
  <2>1. /\ phase'[c] = "idle"
        /\ \A d \in Callers \ {c} :
             fn'[d] = fn[d] /\ phase'[d] = phase[d] /\ attempt'[d] = attempt[d]
    BY <1>1, <1>10 DEF RunsOK, Leave, Enter
  <2> QED BY <2>1, AttemptsMove
<1>11. \/ UNCHANGED run
       \/ \E c \in Callers, f \in Functions, k \in CallKeys : CallIdempotent(c, f, k)
       \/ \E c \in Callers, f \in Functions : CallPlain(c, f)
       \/ \E c \in Callers :
            \/ Resume(c) \/ BeginAttempt(c) \/ AttemptReturns(c) \/ FallbackEnds(c) \/ Leave(c)
            \/ \E e \in {"error", "limited"} : AttemptRaises(c, e)
  BY DEF Next, vars, Resilient, Proceed, AttemptEnds, Succeeds, Fails, CancelRun, CancelJoined,
         Tick
<1> QED
  BY <1>2, <1>3, <1>4, <1>5, <1>6, <1>7, <1>8, <1>9, <1>10, <1>11

\* A run makes at least one attempt and no more than its options allow, and
\* where they let every failure be retried, gives up only after all of them.
THEOREM AttemptsBounded == Spec => []AttemptsAsConfigured
<1>1. Init => AttemptsMatch
  BY DEF Init, AttemptsMatch
<1>2. RInv /\ AttemptsMatch => AttemptsAsConfigured
  <2> SUFFICES ASSUME RInv, AttemptsMatch, NEW c \in Callers, phase[c] # "idle"
               PROVE  LET o == program.options[program.decorates[fn[c]]]
                          retriesAll == ~Given(o.retryOn) /\ ~Given(o.retry)
                                        /\ ~Given(o.rateLimit) /\ ~Given(o.rateLimitOn)
                      IN /\ attempt[c] \in 1..Allowed(o)
                         /\ phase[c] \in {"fallback", "failing"} /\ retriesAll
                            /\ ~Given(o.fallback) => attempt[c] = Allowed(o)
    BY DEF AttemptsAsConfigured
  <2>1. ConfigOK /\ RunsOK
    BY DEF RInv
  <2>2. PICK f \in Functions : fn[c] = f /\ Decorated(f)
    BY <2>1 DEF RunsOK
  <2>3. /\ attempt[c] \in 1..MaxAttempts(f)
        /\ phase[c] \in {"fallback", "failing"} /\ RetriesAll(f) => attempt[c] = MaxAttempts(f)
    BY <2>2 DEF AttemptsMatch
  <2> QED BY <2>1, <2>2, <2>3, AttemptsOf
<1> QED BY <1>1, <1>2, InitRInv, StepRInv, StepAttempts, PTL DEF Spec
=============================================================================
