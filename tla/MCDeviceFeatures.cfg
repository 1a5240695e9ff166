SPECIFICATION KeptSpec
CONSTANTS
    MaxFaults = 2
    Responses = {"ButtonRequest", "Success"}
    MaxLength = 3
    MaxDepth = 2
INVARIANTS CacheFresh ScriptRight
PROPERTY GuardsMeanTheDevice
CHECK_DEADLOCK FALSE
