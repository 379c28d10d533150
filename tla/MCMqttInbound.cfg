SPECIFICATION Spec
CONSTANTS
    None = None
    a = a
    b = b
    Qos <- MCQos1then1
    Topics = {}
    CleanSession = TRUE
    MaxTx = 1
    Headroom = 1
    PreCap = 2
    RetryMax = 1
    Ops = {"connect"}
    MaxOps = 1
    MaxFaults = 1
    Inbound = 2
INVARIANTS PubacksInOrder
CHECK_DEADLOCK FALSE
