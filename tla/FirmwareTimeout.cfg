SPECIFICATION FirmwareFairSpec
CONSTANTS
    RxCap = 1
    TxCap = 1
    Timeout = TRUE
    Interval = 1
    NPorts = 2
    MaxTime = 1
PROPERTIES
    TimeoutCloses
\* The bound on time stops the task in its backoff.
CHECK_DEADLOCK FALSE
