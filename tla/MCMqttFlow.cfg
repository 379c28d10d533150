SPECIFICATION FairSpec
CONSTANTS
    None = None
    a = a
    b = b
    Qos <- MCQos0then1
    Topics = {}
    CleanSession = FALSE
    MaxTx = 4
    Headroom = 1
    PreCap = 2
    RetryMax = 1
    Ops = {"connect"}
    MaxOps = 1
    MaxFaults = 2
    Inbound = 0
INVARIANTS FiredIsTrue NoSilentLoss 
CHECK_DEADLOCK FALSE
PROPERTY PublishSettles
