SPECIFICATION FairSpec
CONSTANTS
    TICKS_PERIOD = 8
    None = None
    Kinds = {"cp", "espidf", "cyw43", "cpython"}
    connect_timeout_ms = 1
    FirstTimeouts = {None, 2}
    backoff_start_ms = 1
    backoff_max_ms = 2
    ReconnectMaxes = {None, 1, 2}
    CallbackRaises = {TRUE, FALSE}
    MaxLate = 1
    MaxCount = 3
INVARIANTS TypeOK RetryWithinCap AttemptsCountedOnce
PROPERTIES AdapterErrorKept ComesBack
