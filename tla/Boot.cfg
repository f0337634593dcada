SPECIFICATION Spec
CONSTANTS
    Period = 2
    Wrap = 8
    MaxNow = 18
INVARIANTS
    TypeOK
    PanicIsReported
    LedTracksTime
PROPERTY
    StopsOnTime
\* The panic handler ends in bkpt, and time at MaxNow.
CHECK_DEADLOCK FALSE
