SPECIFICATION FairSpec
CONSTANTS
  p1 = p1
  p2 = p2
  Models = {m1}
  NoModel = NoModel
  DeniedWait = 2
  NotFoundWait = 2
  TransientWait = 1
  BackoffBase = 1
  BackoffMax = 3
  CooldownDisabled = FALSE
  Auths = {1, 2}
  Providers = {p1, p2}
  NoProvider = NoProvider
  Provider <- TwoProviders
  Reqs = {r1}
  ProviderLists <- TwoLists
  RequestModels = {m1}
  Kinds = {"unary", "stream"}
  Failures = {"quota", "denied", "other"}
  RetryAfters <- SomeRA
  Retry = 1
  MaxWait = 2
  CursorMax = 2
  MaxNow = 2
INVARIANTS
  RegistryAgrees
PROPERTIES
  RecoverRespected
  Termination
\* At the horizon MaxNow no request begins any more.
CHECK_DEADLOCK FALSE
