------------------------ MODULE CircuitBreakerProofs ------------------------
(***************************************************************************)
(* The safety of CircuitBreaker for any set of callers, any threshold and  *)
(* any recovery timeout.                                                   *)
(***************************************************************************)
EXTENDS CircuitBreaker, TLAPS

\* The history variable names running probes, and only in a half-open breaker.
CurrentOK ==
  /\ \A c \in current : call[c] = "probe"
  /\ state # HALF_OPEN => current = {}

\* Coherent and SlotHasProbe are inductive together with CurrentOK: the end
\* of a call may clear the slot only because the call that ends cannot be
\* the last of the probes the slot stands for, unless it frees the slot.
IInv == TypeOK /\ Coherent /\ CurrentOK /\ SlotHasProbe

\* The two bounds of the type invariant are what they are used as.
LEMMA Bounds ==
  /\ FailureThreshold \in Nat /\ 0 < FailureThreshold
  /\ RecoveryTimeout \in Nat /\ 0 < RecoveryTimeout
  /\ Never \in Nat /\ RecoveryTimeout < Never
  /\ 0 \in 0..FailureThreshold /\ FailureThreshold \in 0..FailureThreshold
  /\ 0 \in 0..Never /\ Never \in 0..Never
BY BreakerAssumption DEF Never

\* A new breaker satisfies the invariant.
LEMMA InitIInv == Init => IInv
BY Bounds
   DEF Init, IInv, TypeOK, Coherent, CurrentOK, SlotHasProbe, CLOSED, OPEN,
       HALF_OPEN

\* The two setters re-establish the invariant by themselves, whoever's call
\* has just ended.
LEMMA OpenIInv ==
  ASSUME TypeOK, Open, failureCount' = FailureThreshold,
         call' \in [Callers -> {"idle", "normal", "probe"}]
  PROVE  IInv'
<1> USE Bounds DEF Open, CLOSED, OPEN, HALF_OPEN
<1>1. TypeOK'
  <2>1. openedAge' \in 0..Never /\ failureCount' \in 0..FailureThreshold
    OBVIOUS
  <2>2. current' \subseteq Callers
    OBVIOUS
  <2> QED BY <2>1, <2>2 DEF TypeOK
<1>2. Coherent'
  BY DEF Coherent
<1>3. CurrentOK' /\ SlotHasProbe'
  BY DEF CurrentOK, SlotHasProbe
<1> QED BY <1>1, <1>2, <1>3 DEF IInv

\* So does closing, by a success or by reset().
LEMMA CloseIInv ==
  ASSUME TypeOK, Close,
         call' \in [Callers -> {"idle", "normal", "probe"}]
  PROVE  IInv'
<1> USE Bounds DEF Close, CLOSED, OPEN, HALF_OPEN
<1>1. TypeOK'
  <2>1. openedAge' \in 0..Never /\ failureCount' \in 0..FailureThreshold
    OBVIOUS
  <2>2. current' \subseteq Callers
    OBVIOUS
  <2> QED BY <2>1, <2>2 DEF TypeOK
<1>2. Coherent'
  BY DEF Coherent
<1>3. CurrentOK' /\ SlotHasProbe'
  BY DEF CurrentOK, SlotHasProbe
<1> QED BY <1>1, <1>2, <1>3 DEF IInv

\* Every step of every caller, the operator and the clock preserves IInv.
LEMMA StepIInv == IInv /\ [Next]_vars => IInv'
<1> SUFFICES ASSUME IInv, [Next]_vars PROVE IInv'
  OBVIOUS
<1> USE Bounds DEF CLOSED, OPEN, HALF_OPEN, history
<1> USE DEF IInv, TypeOK, Coherent, CurrentOK, SlotHasProbe
<1>1. ASSUME NEW c \in Callers, Admit(c) PROVE IInv'
  BY <1>1 DEF Admit, Running, breaker, history
<1>2. ASSUME NEW c \in Callers, AdmitProbe(c) PROVE IInv'
  <2>1. TypeOK' /\ CurrentOK'
    BY <1>2 DEF AdmitProbe, Running
  <2>2. state' = HALF_OPEN /\ failureCount = FailureThreshold /\ openedAge = RecoveryTimeout
    BY <1>2 DEF AdmitProbe, ProbeAdmitted, Elapsed
  <2>3. Coherent'
    BY <1>2, <2>2 DEF AdmitProbe
  <2>4. SlotHasProbe'
    BY <1>2 DEF AdmitProbe
  <2> QED BY <2>1, <2>3, <2>4
<1>3. ASSUME NEW c \in Callers, AfterSuccess(c) PROVE IInv'
  <2> USE <1>3 DEF AfterSuccess, Return, Running
  <2>1. call' \in [Callers -> {"idle", "normal", "probe"}]
    OBVIOUS
  <2>2. CASE state = HALF_OPEN
    BY <2>1, <2>2, CloseIInv
  <2>3. CASE state = CLOSED
    BY <2>3
  <2>4. CASE state = OPEN
    BY <2>4 DEF breaker, history
  <2> QED BY <2>2, <2>3, <2>4
<1>4. ASSUME NEW c \in Callers, AfterRecordedFailure(c) PROVE IInv'
  <2> USE <1>4 DEF AfterRecordedFailure, Return, Running
  <2>1. call' \in [Callers -> {"idle", "normal", "probe"}]
    OBVIOUS
  <2>2. CASE state = HALF_OPEN
    BY <2>1, <2>2, OpenIInv
  <2>3. CASE state = CLOSED /\ failureCount + 1 >= FailureThreshold
    <3>1. failureCount' = FailureThreshold /\ Open
      BY <2>3
    <3> QED BY <2>1, <3>1, OpenIInv
  <2>4. CASE state = CLOSED /\ ~(failureCount + 1 >= FailureThreshold)
    BY <2>4
  <2>5. CASE state = OPEN
    BY <2>5 DEF breaker, history
  <2> QED BY <2>2, <2>3, <2>4, <2>5
<1>5. ASSUME NEW c \in Callers, AfterIgnoredFailure(c) PROVE IInv'
  <2> USE <1>5 DEF AfterIgnoredFailure, Return, Running
  <2>1. TypeOK' /\ CurrentOK'
    OBVIOUS
  <2>2. Coherent' /\ (state # HALF_OPEN => SlotHasProbe')
    OBVIOUS
  <2>3. state = HALF_OPEN => SlotHasProbe'
    OBVIOUS
  <2> QED BY <2>1, <2>2, <2>3
<1>6. ASSUME NEW c \in Callers, Cancelled(c) PROVE IInv'
  <2>1. TypeOK' /\ Coherent' /\ CurrentOK'
    BY <1>6 DEF Cancelled, Return, Running
  <2>2. SlotHasProbe'
    <3>1. CASE call[c] = "probe"
      BY <1>6, <3>1 DEF Cancelled
    <3>2. CASE call[c] # "probe"
      BY <1>6, <3>2 DEF Cancelled, Return, Running
    <3> QED BY <3>1, <3>2
  <2> QED BY <2>1, <2>2
<1>7. ASSUME Reset PROVE IInv'
  BY <1>7, CloseIInv DEF Reset
<1>8. ASSUME Tick PROVE IInv'
  BY <1>8 DEF Tick
<1>9. CASE UNCHANGED vars
  BY <1>9 DEF vars
<1> HIDE DEF IInv, TypeOK, Coherent, CurrentOK, SlotHasProbe
<1> QED
  BY <1>1, <1>2, <1>3, <1>4, <1>5, <1>6, <1>7, <1>8, <1>9
     DEF Next, BeforeCall, Finish, Reject

\* Type correctness: in particular _failure_count never passes the
\* threshold, however many failures of overlapping calls arrive late.
THEOREM TypeCorrect == Spec => []TypeOK
BY InitIInv, StepIInv, PTL DEF Spec, IInv

\* The fields of the breaker agree with its state (Coherent), at all times.
THEOREM CoherentAlways == Spec => []Coherent
BY InitIInv, StepIInv, PTL DEF Spec, IInv

\* The half-open probe slot is never leaked: while it is taken, a probe of
\* the present half-open period is awaiting its operation.
THEOREM SlotNeverLeaks == Spec => []SlotHasProbe
BY InitIInv, StepIInv, PTL DEF Spec, IInv

-----------------------------------------------------------------------------
(* One probe at a time, unless the slot was given back.                    *)

\* A half-open breaker holds its slot until an ignored exception or a
\* cancelled probe gives it back: then, and only then, a second probe may
\* join.  The first call to succeed or fail ends the period.
SlotInv ==
  /\ state = HALF_OPEN => probeInFlight \/ freed
  /\ state # HALF_OPEN => current = {}
  /\ SingleProbeUnlessFreed

\* Every step keeps a slot that has not been given back.
LEMMA StepSlotInv == SlotInv /\ [Next]_vars => SlotInv'
<1> SUFFICES ASSUME SlotInv, [Next]_vars PROVE SlotInv'
  OBVIOUS
<1> USE DEF CLOSED, OPEN, HALF_OPEN, SlotInv, SingleProbeUnlessFreed,
            SingleProbe, history
<1>1. ASSUME NEW c \in Callers, Admit(c) PROVE SlotInv'
  BY <1>1 DEF Admit, breaker
<1>2. ASSUME NEW c \in Callers, AdmitProbe(c) PROVE SlotInv'
  <2>1. current = {} \/ freed
    BY <1>2 DEF AdmitProbe, ProbeAdmitted
  <2> QED BY <1>2, <2>1 DEF AdmitProbe
<1>3. ASSUME NEW c \in Callers, AfterSuccess(c) PROVE SlotInv'
  BY <1>3 DEF AfterSuccess, Close, breaker
<1>4. ASSUME NEW c \in Callers, AfterRecordedFailure(c) PROVE SlotInv'
  BY <1>4 DEF AfterRecordedFailure, Open, breaker
<1>5. ASSUME NEW c \in Callers, AfterIgnoredFailure(c) PROVE SlotInv'
  BY <1>5 DEF AfterIgnoredFailure
<1>6. ASSUME NEW c \in Callers, Cancelled(c) PROVE SlotInv'
  BY <1>6 DEF Cancelled
<1>7. ASSUME Reset PROVE SlotInv'
  BY <1>7 DEF Reset, Close
<1>8. ASSUME Tick PROVE SlotInv'
  BY <1>8 DEF Tick
<1>9. CASE UNCHANGED vars
  BY <1>9 DEF vars
<1> QED
  BY <1>1, <1>2, <1>3, <1>4, <1>5, <1>6, <1>7, <1>8, <1>9
     DEF Next, BeforeCall, Finish, Reject

\* A half-open period sees a second probe only after the slot was given
\* back in it, whatever the callers, the threshold and the late outcomes.
THEOREM SingleProbeAlways == Spec => []SingleProbeUnlessFreed
<1>1. Init => SlotInv
  BY DEF Init, SlotInv, SingleProbeUnlessFreed, SingleProbe, CLOSED, HALF_OPEN
<1> QED BY <1>1, StepSlotInv, PTL DEF Spec, SlotInv

\* Nothing is ever given back where calls only succeed or fail as recorded.
LEMMA StepNeverFreed ==
  Outcomes \subseteq {"success", "recorded"} /\ ~freed /\ [Next]_vars => ~freed'
BY DEF Next, vars, BeforeCall, Admit, AdmitProbe, Reject, Finish, AfterSuccess,
       AfterRecordedFailure, AfterIgnoredFailure, Cancelled, Reset, Tick, Open,
       Close, history, breaker

\* So for the default record_failure_on, without cancellations, the
\* docstring's "a single probe call is allowed" holds as it stands.
THEOREM SingleProbeWhenPlain ==
  ASSUME Outcomes \subseteq {"success", "recorded"}
  PROVE  Spec => []SingleProbe
<1>1. Init => ~freed
  BY DEF Init
<1>2. ~freed /\ [Next]_vars => ~freed'
  BY StepNeverFreed
<1>3. ~freed /\ SingleProbeUnlessFreed => SingleProbe
  BY DEF SingleProbeUnlessFreed
<1> QED BY <1>1, <1>2, <1>3, SingleProbeAlways, PTL DEF Spec

-----------------------------------------------------------------------------
(* The breaker implements BreakerPromise.                                  *)

\* The refinement mapping, named for the proof below.
InFlight == {c \in Callers : Running(c)}

\* Every step of the breaker is a step of the promise, or invisible to it.
LEMMA StepPromise == IInv /\ [Next]_vars => [Promise!PNext]_Promise!pvars
<1> SUFFICES ASSUME IInv, [Next]_vars
             PROVE  Promise!PNext \/ UNCHANGED Promise!pvars
  OBVIOUS
<1> USE Bounds DEF CLOSED, OPEN, HALF_OPEN, IInv, TypeOK, Coherent
<1>1. ASSUME NEW c \in Callers, Admit(c) PROVE Promise!Pass(c)
  BY <1>1 DEF Admit, Running, breaker, Promise!Pass
<1>2. ASSUME NEW c \in Callers, AdmitProbe(c) PROVE Promise!Trial(c)
  <2>1. (state = OPEN => openedAge = RecoveryTimeout) /\ state # CLOSED
    BY <1>2 DEF AdmitProbe, ProbeAdmitted, Elapsed
  <2> QED BY <1>2, <2>1 DEF AdmitProbe, Running, Promise!Trial
<1>3. ASSUME NEW c \in Callers, Return(c)
      PROVE  /\ c \in InFlight
             /\ InFlight' = InFlight \ {c}
  BY <1>3 DEF Return, Running, InFlight
<1>4. ASSUME NEW c \in Callers, AfterSuccess(c) PROVE Promise!End(c)
  BY <1>3, <1>4 DEF AfterSuccess, Close, breaker, history, Promise!End, InFlight
<1>5. ASSUME NEW c \in Callers, AfterRecordedFailure(c) PROVE Promise!End(c)
  BY <1>3, <1>5 DEF AfterRecordedFailure, Open, breaker, history, Promise!End, InFlight
<1>6. ASSUME NEW c \in Callers, AfterIgnoredFailure(c) \/ Cancelled(c)
      PROVE  Promise!End(c)
  BY <1>3, <1>6 DEF AfterIgnoredFailure, Cancelled, Promise!End, InFlight
<1>7. ASSUME Reset PROVE Promise!Clear
  BY <1>7 DEF Reset, Close, Running, Promise!Clear
<1>8. ASSUME Tick PROVE Promise!Elapse
  BY <1>8 DEF Tick, Running, Promise!Elapse
<1>9. CASE UNCHANGED vars
  BY <1>9 DEF vars, Running, Promise!pvars
<1> QED
  BY <1>1, <1>2, <1>4, <1>5, <1>6, <1>7, <1>8, <1>9
     DEF Next, BeforeCall, Finish, Reject, Promise!PNext

\* CircuitBreaker implements BreakerPromise: no call starts while it is open
\* and the recovery timeout runs, and only an opening restarts the timer.
THEOREM BreakerKeepsPromise == Spec => KeepsPromise
<1>1. Init => Promise!PInit
  BY DEF Init, Promise!PInit, Running, CLOSED, OPEN
<1>2. QED
  BY <1>1, InitIInv, StepIInv, StepPromise, PTL
     DEF Spec, KeepsPromise, Promise!PSpec
=============================================================================
