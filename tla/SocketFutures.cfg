SPECIFICATION Spec
CONSTANTS
    RxCap = 2
    TxCap = 2
    Timeout = TRUE
INVARIANTS
    TypeOK
    NoLostWake
    ConnectNeverListens
