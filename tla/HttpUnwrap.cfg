SPECIFICATION HttpSpec
CONSTANTS
    RxCap = 1
    TxCap = 1
    Timeout = FALSE
INVARIANTS
    AcceptNeverPanics
CHECK_DEADLOCK FALSE
