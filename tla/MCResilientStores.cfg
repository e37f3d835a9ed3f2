SPECIFICATION Spec
CONSTANTS
  Callers = {c1, c2}
  Functions = {f1, f2}
  Decorators = {d1, d2}
  Stores = {shared}
  CallKeys = {k}
  TTLs = {1, 2}
  DefaultTTL = 2
  DefaultMaxWait = 60
  Hints = {0, 90}
  RecordOn = {"error"}
  FailureThreshold = 2
  RecoveryTimeout = 2
  Programs <- OneProgram
  d1 = d1
  d2 = d2
  f1 = f1
  f2 = f2
  shared = shared
  NoCall = NoCall
  NoKey = NoKey
  NoValue = NoValue
  NoDecorator = NoDecorator
INVARIANTS
  OwnStoreEach
