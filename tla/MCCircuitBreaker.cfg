SPECIFICATION FairSpec
CONSTANTS
  Callers = {c1, c2, c3, c4}
  FailureThreshold = 3
  RecoveryTimeout = 2
  Outcomes <- AllOutcomes
INVARIANTS
  TypeOK
  Coherent
  SlotHasProbe
  SingleProbeUnlessFreed
PROPERTIES
  KeepsPromise
  Recovers
