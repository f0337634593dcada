SPECIFICATION Spec
CONSTANTS
    RxCap = 2
    TxCap = 2
    Timeout = TRUE
PROPERTIES
    WriteWaitsForRoom
