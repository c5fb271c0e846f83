SPECIFICATION SyncFairSpec
CONSTANTS
  f1 = f1
  f2 = f2
  FileIds = {f1, f2}
  Channels = {}
  QueueCap = 1
  Scenarios <- MCScenarios
  Sources = {"events", "reload"}
  Numbered = FALSE
  Calm = TRUE
INVARIANTS RemovedNotServed
PROPERTIES ChangesArrive Settles
CHECK_DEADLOCK FALSE
