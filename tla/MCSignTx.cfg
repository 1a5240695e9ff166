SPECIFICATION EitherSpec
CONSTANTS
    h1 = h1
    h2 = h2
    Own = Own
    Arguments <- AllArguments
    Hashes <- BothHashes
    Prev <- Previously
    Indices <- SmallIndices
    MaxRequests = 60
INVARIANTS ResultRight ServedRight HonestResult
PROPERTY HonestSucceeds
CHECK_DEADLOCK FALSE
