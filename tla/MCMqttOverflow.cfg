SPECIFICATION Spec
CONSTANTS
    None = None
    a = a
    b = b
    Qos <- MCQos1then1
    Topics = {a}
    CleanSession = FALSE
    MaxTx = 2
    Headroom = 1
    PreCap = 2
    RetryMax = 0
    Ops = {"connect"}
    MaxOps = 1
    MaxFaults = 0
    Inbound = 0
INVARIANT NoSilentLoss
CHECK_DEADLOCK FALSE
