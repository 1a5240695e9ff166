SPECIFICATION StreamsSpec
CONSTANTS
    MaxLength = 2
    ChunkSize = 2
    MaxActions = 3
    MaxSize = 4
INVARIANT HonestDropsNothing
CHECK_DEADLOCK FALSE
