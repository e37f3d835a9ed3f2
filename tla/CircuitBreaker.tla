--------------------------- MODULE CircuitBreaker ---------------------------
(***************************************************************************)
(* relprim.CircuitBreaker: one breaker shared by several asyncio tasks.    *)
(*                                                                         *)
(* run_async() awaits the protected operation between _before_call() and   *)
(* the handler of its outcome, so any number of calls overlap and their    *)
(* outcomes arrive in any order and in any later state.  The asyncio lock  *)
(* is never held across an await, so each critical section is one atomic   *)
(* step and the cancellation handler, which takes no lock, is one too.     *)
(*                                                                         *)
(* Time is the age of _opened_at, saturating at the recovery timeout: the  *)
(* code only ever compares the elapsed time with that timeout.             *)
(***************************************************************************)
EXTENDS Naturals, FiniteSets

CONSTANTS
  Callers,           \* tasks that call run_async()
  FailureThreshold,  \* failure_threshold
  RecoveryTimeout,   \* recovery_timeout_seconds, in clock ticks
  Outcomes           \* how a protected operation may end (see below)

\* "recorded": an exception that matches record_failure_on; "ignored": one
\* that does not; "cancelled": a BaseException that is no Exception.
ASSUME BreakerAssumption ==
  /\ FailureThreshold \in Nat \ {0}
  /\ RecoveryTimeout \in Nat \ {0}
  /\ Outcomes \subseteq {"success", "recorded", "ignored", "cancelled"}

CLOSED == "closed"
OPEN == "open"
HALF_OPEN == "half_open"

\* opened_at is None.
Never == RecoveryTimeout + 1

VARIABLES
  state,         \* _state
  failureCount,  \* _failure_count
  openedAge,     \* clock() - _opened_at, saturated; Never for None
  probeInFlight, \* _half_open_probe_in_flight
  call,          \* the run_async() frame of each task: "idle", or awaiting
                 \* the operation with the local probe False or True
  current,       \* history: the probes admitted since the breaker last
                 \* became half-open; the code keeps no such record
  freed          \* history: in that period an ignored exception or a
                 \* cancellation has given the slot back

breaker == <<state, failureCount, openedAge, probeInFlight>>
history == <<current, freed>>
vars == <<state, failureCount, openedAge, probeInFlight, call, current, freed>>

TypeOK ==
  /\ state \in {CLOSED, OPEN, HALF_OPEN}
  /\ failureCount \in 0..FailureThreshold
  /\ openedAge \in 0..Never
  /\ probeInFlight \in BOOLEAN
  /\ call \in [Callers -> {"idle", "normal", "probe"}]
  /\ current \subseteq Callers
  /\ freed \in BOOLEAN

Init ==
  /\ state = CLOSED
  /\ failureCount = 0
  /\ openedAge = Never
  /\ probeInFlight = FALSE
  /\ call = [c \in Callers |-> "idle"]
  /\ current = {}
  /\ freed = FALSE

Running(c) == call[c] # "idle"

-----------------------------------------------------------------------------
(* The two state setters of the code.  A module-level definition named     *)
(* Fault... is a deliberate bug: no action uses it, and the properties     *)
(* below are shown to notice it.                                           *)

\* Fault: opening forgets to release the probe slot.
FaultOpenKeepsSlot ==
  /\ state' = OPEN
  /\ openedAge' = 0
  /\ current' = {}
  /\ freed' = FALSE
  /\ UNCHANGED probeInFlight

Open ==
  /\ state' = OPEN
  /\ openedAge' = 0
  /\ probeInFlight' = FALSE
  /\ current' = {}
  /\ freed' = FALSE

Close ==
  /\ state' = CLOSED
  /\ failureCount' = 0
  /\ openedAge' = Never
  /\ probeInFlight' = FALSE
  /\ current' = {}
  /\ freed' = FALSE

-----------------------------------------------------------------------------
(* _before_call()                                                          *)

\* Fault: an open breaker lets the first caller probe at once.
FaultElapsed == openedAge # Never

Elapsed == openedAge # Never /\ openedAge >= RecoveryTimeout

\* Fault: a half-open breaker admits everyone.
FaultNoSlot == (state = OPEN /\ Elapsed) \/ state = HALF_OPEN

\* The two branches of _before_call() that return True.
ProbeAdmitted ==
  \/ state = OPEN /\ Elapsed
  \/ state = HALF_OPEN /\ ~probeInFlight

Admit(c) ==
  /\ ~Running(c)
  /\ state = CLOSED
  /\ call' = [call EXCEPT ![c] = "normal"]
  /\ UNCHANGED <<breaker, history>>

AdmitProbe(c) ==
  /\ ~Running(c)
  /\ ProbeAdmitted
  /\ state' = HALF_OPEN
  /\ probeInFlight' = TRUE
  /\ call' = [call EXCEPT ![c] = "probe"]
  /\ current' = current \cup {c}
  /\ UNCHANGED <<failureCount, openedAge, freed>>

\* CircuitBreakerOpenError: the caller is back where it was.
Reject(c) ==
  /\ ~Running(c)
  /\ state # CLOSED
  /\ ~ProbeAdmitted
  /\ UNCHANGED vars

BeforeCall(c) == Admit(c) \/ AdmitProbe(c) \/ Reject(c)

-----------------------------------------------------------------------------
(* The outcomes of the protected operation                                 *)

Return(c) == Running(c) /\ call' = [call EXCEPT ![c] = "idle"]

\* Fault: a success in the half-open state only frees the slot.
FaultNeverCloses(c) ==
  /\ "success" \in Outcomes
  /\ Return(c)
  /\ failureCount' = IF state = CLOSED THEN 0 ELSE failureCount
  /\ probeInFlight' = FALSE
  /\ current' = current \ {c}
  /\ UNCHANGED <<state, openedAge, freed>>

AfterSuccess(c) ==
  /\ "success" \in Outcomes
  /\ Return(c)
  /\ \/ state = HALF_OPEN /\ Close
     \/ /\ state = CLOSED
        /\ failureCount' = 0
        /\ UNCHANGED <<state, openedAge, probeInFlight, history>>
     \/ state = OPEN /\ UNCHANGED <<breaker, history>>

\* Fault: a late failure is counted, and restarts the timer, whatever the state.
FaultCountsLate(c) ==
  /\ "recorded" \in Outcomes
  /\ Return(c)
  /\ failureCount' = failureCount + 1
  /\ IF failureCount + 1 >= FailureThreshold
     THEN Open
     ELSE UNCHANGED <<state, openedAge, probeInFlight, history>>

AfterRecordedFailure(c) ==
  /\ "recorded" \in Outcomes
  /\ Return(c)
  /\ \/ state = HALF_OPEN /\ Open /\ UNCHANGED failureCount
     \/ /\ state = CLOSED
        /\ failureCount' = failureCount + 1
        /\ IF failureCount + 1 >= FailureThreshold
           THEN Open
           ELSE UNCHANGED <<state, openedAge, probeInFlight, history>>
     \/ state = OPEN /\ UNCHANGED <<breaker, history>>

\* In a half-open breaker the slot is released whoever the caller is.
AfterIgnoredFailure(c) ==
  /\ "ignored" \in Outcomes
  /\ Return(c)
  /\ probeInFlight' = IF state = HALF_OPEN THEN FALSE ELSE probeInFlight
  /\ freed' = (freed \/ state = HALF_OPEN)
  /\ current' = current \ {c}
  /\ UNCHANGED <<state, failureCount, openedAge>>

\* Fault: a cancelled probe leaves the slot taken.
FaultCancelKeepsSlot(c) ==
  /\ "cancelled" \in Outcomes
  /\ Return(c)
  /\ current' = current \ {c}
  /\ UNCHANGED <<breaker, freed>>

\* except BaseException: a probe releases the slot, without the lock and
\* whatever state the breaker has reached since the probe was admitted.
Cancelled(c) ==
  /\ "cancelled" \in Outcomes
  /\ Return(c)
  /\ probeInFlight' = IF call[c] = "probe" THEN FALSE ELSE probeInFlight
  /\ freed' = (freed \/ (state = HALF_OPEN /\ call[c] = "probe"))
  /\ current' = current \ {c}
  /\ UNCHANGED <<state, failureCount, openedAge>>

Finish(c) ==
  \/ AfterSuccess(c)
  \/ AfterRecordedFailure(c)
  \/ AfterIgnoredFailure(c)
  \/ Cancelled(c)

-----------------------------------------------------------------------------
\* reset(), called by an operator at any time, probes in flight or not.
Reset == Close /\ UNCHANGED call

\* The breaker's clock.
Tick ==
  /\ openedAge < RecoveryTimeout
  /\ openedAge' = openedAge + 1
  /\ UNCHANGED <<state, failureCount, probeInFlight, call, history>>

Next ==
  \/ \E c \in Callers : BeforeCall(c) \/ Finish(c)
  \/ Reset
  \/ Tick

Spec == Init /\ [][Next]_vars

\* The clock advances, protected operations end, and tasks keep calling.
Fairness ==
  /\ WF_vars(Tick)
  /\ \A c \in Callers : WF_vars(Finish(c)) /\ WF_vars(BeforeCall(c))

FairSpec == Spec /\ Fairness
-----------------------------------------------------------------------------
(* Properties                                                              *)

\* The fields agree with one another in every state: a closed breaker is
\* below its threshold and keeps no timer and no slot; an open one has
\* reached the threshold and keeps no slot; a half-open one has waited the
\* recovery timeout out.  Late outcomes of overlapping calls reach
\* _after_success() and _after_failure() in any state, and a count past the
\* threshold, a slot surviving in an open or closed breaker, or a half-open
\* breaker without a timer would each make _before_call() misjudge.
Coherent ==
  /\ state = CLOSED =>
       failureCount < FailureThreshold /\ openedAge = Never /\ ~probeInFlight
  /\ state = OPEN =>
       failureCount = FailureThreshold /\ openedAge <= RecoveryTimeout /\ ~probeInFlight
  /\ state = HALF_OPEN =>
       failureCount = FailureThreshold /\ openedAge = RecoveryTimeout

\* A taken probe slot belongs to a probe of the present half-open period
\* that is still awaiting its operation: the slot is never leaked, whatever
\* mix of cancellations, resets and late outcomes came before.  A leaked
\* slot would reject every later call for ever.
SlotHasProbe == probeInFlight => \E c \in current : call[c] = "probe"

\* The docstring's "a single probe call is allowed": never two probes of
\* one half-open period.  The code does not keep it in general.
SingleProbe == \A c, d \in current : c = d

\* What the code keeps of it: a half-open period sees a second probe only
\* after an ignored exception or a cancelled probe gave the slot back in
\* that very period.  Late successes and failures of calls admitted
\* earlier, resets, and the ignored failures and cancellations that land
\* while the breaker is open or closed never admit a second one.
SingleProbeUnlessFreed == ~freed => SingleProbe

\* The breaker keeps its promise to the dependency: no call starts while it
\* is open and the recovery timeout runs, every opening starts a fresh
\* timer, and late outcomes neither extend nor shorten it.
Promise == INSTANCE BreakerPromise WITH
  mode <- state,
  age <- IF state = OPEN THEN openedAge ELSE 0,
  inFlight <- {c \in Callers : Running(c)}

KeepsPromise == Promise!PSpec

\* A probe of the present half-open period succeeds.
ProbeSucceeds(c) == c \in current /\ AfterSuccess(c)

\* A breaker whose probes do not all fail or get cancelled closes again and
\* again: late failures, ignored exceptions and cancellations can delay
\* recovery but never prevent it.
Recovers ==
  (\A c \in Callers : SF_vars(ProbeSucceeds(c))) => []<>(state = CLOSED)
=============================================================================
