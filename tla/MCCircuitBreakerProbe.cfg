SPECIFICATION Spec
CONSTANTS
  Callers = {c1, c2, c3}
  FailureThreshold = 2
  RecoveryTimeout = 2
  Outcomes <- AllOutcomes
INVARIANTS
  SingleProbe
