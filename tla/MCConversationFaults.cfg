SPECIFICATION Spec
CONSTANTS
    s1 = s1
    s2 = s2
    t1 = t1
    i1 = i1
    NoOp = NoOp
    Simple <- TwoSimple
    Stream <- OneStream
    Inits <- OneInit
    DebugLink = TRUE
    MaxAsks = 1
    MaxFaults = 2
INVARIANTS SessionDiscipline SessionSpansConversation OutcomesAreReal ApprovalMeetsItsPrompt InitDeviceRecovers
PROPERTY OperationEnds
CHECK_DEADLOCK FALSE
