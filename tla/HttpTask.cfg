SPECIFICATION HttpFairSpec
CONSTANTS
    RxCap = 2
    TxCap = 2
    Timeout = FALSE
INVARIANTS
    HttpTypeOK
    PanicOnlyAfterTimeout
    AbortNotifiesPeer
    AcceptedIsConnected
    ShutdownDelivers
    AwakeTaskSteps
PROPERTIES
    ConnectionEnds
    FlushEnds
    HandshakeServed
\* A panic stops the task.
CHECK_DEADLOCK FALSE
