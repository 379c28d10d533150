SPECIFICATION Spec
CONSTANTS
    None = None
    a = a
    b = b
    Qos <- MCNoPublish
    Topics = {a, b}
    CleanSession = TRUE
    MaxTx = 3
    Headroom = 1
    PreCap = 1
    RetryMax = 0
    Ops = {"connect", "hold", "disconnect", "subscribe", "unsubscribe"}
    MaxOps = 3
    MaxFaults = 1
    Inbound = 0
INVARIANTS TypeOK ConnectFirst SubscriptionsLive OutageReportedOnce
CHECK_DEADLOCK FALSE
