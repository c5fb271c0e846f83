SPECIFICATION Spec
CONSTANTS
  p1 = p1
  p2 = p2
  Models = {m1, m2}
  NoModel = NoModel
  DeniedWait = 3
  NotFoundWait = 4
  TransientWait = 1
  BackoffBase = 1
  BackoffMax = 3
  CooldownDisabled = FALSE
  Auths = {1}
  Providers = {p1}
  NoProvider = NoProvider
  Provider <- OneProvider
  Reqs = {r1, r2}
  ProviderLists <- OneList
  RequestModels = {m1, m2}
  Kinds = {"unary"}
  Failures = {"quota", "transient", "other"}
  RetryAfters <- NoRA
  Retry = 0
  MaxWait = 2
  CursorMax = 1
  MaxNow = 2
SYMMETRY Symmetry
INVARIANTS
  AggregateSound
  NoLockout
\* At the horizon MaxNow no request begins any more.
CHECK_DEADLOCK FALSE
