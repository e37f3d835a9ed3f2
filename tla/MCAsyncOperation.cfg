SPECIFICATION FairSpec
CONSTANT Configs <- MCConfigs
INVARIANTS
  SinksInOrder
  EventsFollowAttempts
  ReportAgrees
  AcceptedIsFinal
  RetriesComeFirst
PROPERTIES
  Terminates
\* A run ends: there is nothing after it.
CHECK_DEADLOCK FALSE
