SPECIFICATION Spec
CONSTANTS
    None = None
    a = a
    b = b
    Qos <- MCNoPublish
    Topics = {}
    CleanSession = TRUE
    MaxTx = 2
    Headroom = 1
    PreCap = 1
    RetryMax = 0
    Ops = {"connect", "disconnect"}
    MaxOps = 2
    MaxFaults = 1
    Inbound = 0
INVARIANT HandleContained
CHECK_DEADLOCK FALSE
