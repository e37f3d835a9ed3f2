SPECIFICATION Spec
CONSTANTS
  near = near
  far = far
  e1 = e1
  e2 = e2
  reader1 = reader1
  delete1 = delete1
  Stores <- MCStores
  Emits <- MCEmits
  Reads = {reader1}
  Deletes = {delete1}
  StoreOf <- MCStoreOf
  Timestamp <- MCTimestamp
  Before <- MCBefore
  Wanted <- MCWanted
  Limit = 1
  SchemaVersion = 1
  InitialVersions = {0, 2}
  NoCall = NoCall
INVARIANTS
  SchemaReady
  WriterIsAtWork
  EmitOutcome
  RealTimeOrder
  PagesMissNothing
\* Calls are made once: a state where all have ended is the end.
CHECK_DEADLOCK FALSE
