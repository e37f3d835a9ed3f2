SPECIFICATION Spec
CONSTANTS
  Layouts <- MCLayouts
  Backoffs <- MCBackoffs
  MaxAttempts = 4
  FloatMax = 24
  MaxCancels = 2
INVARIANTS
  DelaysAsDocumented
\* A run ends: there is nothing after it.
CHECK_DEADLOCK FALSE
