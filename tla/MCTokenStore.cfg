CONSTANTS
  Backends = {"git", "postgres", "object"}
  Auths = {a}
  Config = config
  Procs = {p, q}
  Nobody = nobody
  MaxVersion = 2
  MaxCalls = 3
  MaxFaults = 1
  MaxCrashes = 1
  Rewrites = FALSE
SPECIFICATION Spec
INVARIANT StoredStays
PROPERTY MirrorFollows
