SPECIFICATION EitherSpec
CONSTANTS
    Ids <- ThreeIds
    Scopes <- TwoScopes
    Calls <- TwoCalls
    Size <- Sizes
    MaxChunk = 2
    MaxDepth = 4
    InitialChunk = 2
    Transactions <- AllTransactions
    Requests <- AllRequests
    Lengths <- SomeLengths
    MaxCalls = 3
    MaxSent = 20
    Passes = 4
INVARIANTS CatalogRight PreloadedFirst CalldataInOrder HonestWhole
PROPERTIES AnswersStable HonestSucceeds
CHECK_DEADLOCK FALSE
