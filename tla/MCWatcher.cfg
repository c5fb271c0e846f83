SPECIFICATION FairSpec
CONSTANTS
  f1 = f1
  f2 = f2
  FileIds = {f1, f2}
  Channels = {ch}
  QueueCap = 1
  Scenarios <- MCScenarios
  Sources = {"events", "reload", "gateway"}
  Numbered = TRUE
PROPERTIES NeverBack KeepsLatest WritesArrive ConnectionsArrive
CHECK_DEADLOCK FALSE
