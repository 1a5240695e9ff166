SPECIFICATION DocumentsSpec
CONSTANTS
    MaxLength = 2
    ChunkSize = 2
    MaxActions = 3
    MaxSize = 4
    Identifiers <- SomeIdentifiers
    Types <- SomeTypes
    Documents <- SomeDocuments
    Values <- SomeValues
    Paths <- SomePaths
    MaxLeaf = 2
    MaxValue = 5
    MaxArray = 2
INVARIANTS SignedAsAsked EosSignedWhole AnswersTheQuestion DocumentSignedWhole SignedAsTyped
PROPERTIES HonestSucceeds EosSucceeds TypedSucceeds
CHECK_DEADLOCK FALSE
