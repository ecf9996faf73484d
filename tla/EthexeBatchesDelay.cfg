SPECIFICATION Spec
CONSTANTS
    v1 = v1
    v2 = v2
    Validators <- TwoValidators
    Threshold = 2
    Delay <- OwnDelay
    Period <- MCPeriod
    Codes = {c}
    ValidCodes = {}
    BatchSizeLimit = 1
    ChainLenThreshold = 1
    Quarantine = 0
    MaxEb = 3
    MaxWork = 4
    MaxPending = 1
    NoBatch = NoBatch
INVARIANT DelayIsLocal
CHECK_DEADLOCK FALSE
