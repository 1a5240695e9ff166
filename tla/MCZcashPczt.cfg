SPECIFICATION EitherSpec
CONSTANTS
    Arguments <- AllArguments
    Indices <- SmallIndices
    SignatureLists <- SomeSignatures
INVARIANTS StreamRight CompleteOrRaise
PROPERTIES ConversationEnds HonestSucceeds
CHECK_DEADLOCK FALSE
