SPECIFICATION FairSpec
CONSTANTS
  outer = outer
  inner = inner
  second = second
  third = third
  k1 = k1
  k2 = k2
  v = v
  Calls <- MCCalls
  TaskOf <- MCTaskOf
  ParentOf <- MCParentOf
  Keys = {k1, k2}
  MayNest <- MCMayNest
  Values = {v}
  TTLs = {1, 2}
  NoCall = NoCall
  NoKey = NoKey
  NoValue = NoValue
INVARIANTS
  TypeOK
  OneExecution
  KeyNeverStranded
  WaiterHasOwner
PROPERTIES
  KeepsContract
  CallersServed
