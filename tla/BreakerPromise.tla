--------------------------- MODULE BreakerPromise ---------------------------
(***************************************************************************)
(* What a circuit breaker promises to the dependency behind it, without    *)
(* the failure counter, the probe slot or the configuration of recorded    *)
(* exceptions: which calls may start in which mode, and how the mode may   *)
(* move.  CircuitBreaker implements it.                                    *)
(***************************************************************************)
EXTENDS Naturals

CONSTANTS
  Callers,          \* the tasks that call through the breaker
  RecoveryTimeout   \* recovery_timeout_seconds, in clock ticks

VARIABLES
  mode,      \* "closed", "open" or "half_open"
  age,       \* clock ticks since the breaker last opened, while it is open
  inFlight   \* the callers whose protected call has started and not ended

pvars == <<mode, age, inFlight>>

PInit == mode = "closed" /\ age = 0 /\ inFlight = {}

\* A closed breaker lets a call through.
Pass(c) ==
  /\ mode = "closed"
  /\ c \notin inFlight
  /\ inFlight' = inFlight \cup {c}
  /\ UNCHANGED <<mode, age>>

\* A trial starts only when the recovery timeout has elapsed, or in a
\* half-open breaker.
Trial(c) ==
  /\ mode = "half_open" \/ (mode = "open" /\ age = RecoveryTimeout)
  /\ c \notin inFlight
  /\ mode' = "half_open"
  /\ age' = 0
  /\ inFlight' = inFlight \cup {c}

\* The end of a call may open a breaker that is not open (with a fresh
\* timer) or close a half-open one; an open breaker and its timer ignore it.
End(c) ==
  /\ c \in inFlight
  /\ inFlight' = inFlight \ {c}
  /\ \/ UNCHANGED <<mode, age>>
     \/ mode # "open" /\ mode' = "open" /\ age' = 0
     \/ mode = "half_open" /\ mode' = "closed" /\ age' = 0

\* reset(): the operator closes the breaker.
Clear == mode' = "closed" /\ age' = 0 /\ UNCHANGED inFlight

Elapse ==
  /\ mode = "open"
  /\ age < RecoveryTimeout
  /\ age' = age + 1
  /\ UNCHANGED <<mode, inFlight>>

PNext ==
  \/ \E c \in Callers : Pass(c) \/ Trial(c) \/ End(c)
  \/ Clear
  \/ Elapse

PSpec == PInit /\ [][PNext]_pvars
=============================================================================
