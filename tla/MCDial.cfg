SPECIFICATION FairSpec
CHECK_DEADLOCK FALSE
CONSTANTS
    Runtimes = {"cpython", "mp", "cp"}
    MaxRounds = 3
INVARIANTS TypeOK FailedClosesSocket 
PROPERTIES ImplementsConnectorSpec DialEnds 
