SPECIFICATION Spec
CONSTANTS
    Messages <- PlainBodies
    ChunkLen = 9
    SkipLimit = 10
    MaxSent = 3
    MaxFaults = 2
INVARIANT FaultsOnlyLose
PROPERTY ReaderRecovers
CHECK_DEADLOCK FALSE
