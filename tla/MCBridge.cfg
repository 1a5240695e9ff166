SPECIFICATION Spec
CONSTANTS
    t1 = t1
    t2 = t2
    t3 = t3
    Threads <- SomeThreads
    Clients = {1, 2, 3, 4}
    MaxFaults = 1
    MaxUnplugs = 1
    MaxUnread = 2
SYMMETRY ThreadSymmetry
INVARIANTS LoneRequestServed DeviceNotKept
CHECK_DEADLOCK FALSE
