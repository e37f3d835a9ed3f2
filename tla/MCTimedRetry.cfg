SPECIFICATION FairSpec
CONSTANTS
  Layouts <- MCLayouts
  Backoffs <- MCBackoffs
  MaxAttempts = 4
  FloatMax = 24
  MaxCancels = 2
INVARIANTS
  TypeOK
  ExpiryToldByItsOwn
  CancellationPropagates
  CancellingRestored
  RetriesAgree
  DelaysRightOrCapped
PROPERTIES
  NoAttemptAfterCancel
  RunsEnd
\* A run ends: there is nothing after it.
CHECK_DEADLOCK FALSE
