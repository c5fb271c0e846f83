SPECIFICATION Spec
CONSTANTS
    RequestPairs <- MCRequestPairs
    KnownOfRequests <- MCKnownOfRequests
    MaxTurns = 5
    MaxCalls = 3
INVARIANTS
    ConversationKept
    ResultsAnswer
CHECK_DEADLOCK FALSE
