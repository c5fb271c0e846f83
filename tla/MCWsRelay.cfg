\* Two connections, or one and a request, with a small channel and one Stop.
SPECIFICATION RelayFairSpec
CONSTANTS
  NumConns = 2
  Names = {n1}
  Name <- OneName
  Calls = {1}
  NoConn = NoConn
  Buffer = 1
  MaxChunks = 2
  MaxStops = 1
  MaxWork = 2
  n1 = n1
INVARIANTS ClosedReleases WholeAnswer
PROPERTIES CallsEnd ProvidersFollow
CHECK_DEADLOCK FALSE
