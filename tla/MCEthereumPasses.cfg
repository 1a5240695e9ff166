SPECIFICATION PassesSpec
CONSTANTS
    Ids <- ThreeIds
    Scopes <- TwoScopes
    Calls <- TwoCalls
    Size <- Sizes
    MaxChunk = 2
    MaxDepth = 4
    InitialChunk = 2
    Transactions <- LargeClearSigning
    Requests <- NoRequests
    Lengths <- NoLengths
    MaxCalls = 1
    MaxSent = 0
    Passes = 4
PROPERTY ClearSigningSucceeds
CHECK_DEADLOCK FALSE
