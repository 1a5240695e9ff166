SPECIFICATION Spec
CONSTANTS
    Messages <- AnyBodies
    ChunkLen = 9
    SkipLimit = 10
    MaxSent = 3
    MaxFaults = 0
INVARIANT ReaderInStep
PROPERTY ChannelSpec
CHECK_DEADLOCK FALSE
