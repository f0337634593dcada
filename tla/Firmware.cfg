SPECIFICATION FirmwareFairSpec
CONSTANTS
    RxCap = 1
    TxCap = 1
    Timeout = TRUE
    Interval = 1
    NPorts = 2
    MaxTime = 2
INVARIANTS
    FirmwareTypeOK
    ResetsSent
    ConnectFindsClosed
    NothingStuck
PROPERTIES
    PortsLinger
    ConnectEnds
    FuturesReturn
\* The bound on time stops the task in its backoff.
CHECK_DEADLOCK FALSE
