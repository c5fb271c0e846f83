SPECIFICATION FairSpec
CONSTANT MaxChunks = 3
INVARIANTS
  RecordedBeforeEnd
  ResultTruthful
PROPERTIES
  KeepsPromise
  EndsWhileConnected
\* A finished request stops.
CHECK_DEADLOCK FALSE
