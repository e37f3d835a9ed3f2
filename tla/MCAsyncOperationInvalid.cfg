SPECIFICATION Spec
CONSTANT Configs <- MCConfigs
INVARIANTS
  InvalidResultsReported
\* A run ends: there is nothing after it.
CHECK_DEADLOCK FALSE
