SPECIFICATION Spec
CONSTANT Configs <- MCConfigs
INVARIANTS
  RaisesAsDocumented
\* A run ends: there is nothing after it.
CHECK_DEADLOCK FALSE
