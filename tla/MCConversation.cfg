SPECIFICATION Spec
CONSTANTS
    s1 = s1
    s2 = s2
    t1 = t1
    i1 = i1
    NoOp = NoOp
    Simple <- TwoSimple
    Stream <- OneStream
    Inits <- OneInit
    DebugLink = FALSE
    MaxAsks = 2
    MaxFaults = 0
PROPERTY RemoteSpec
CHECK_DEADLOCK FALSE
