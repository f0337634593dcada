SPECIFICATION Spec
CONSTANTS
    mqtt_task = mqtt_task
    http_task = http_task
    Tasks = {mqtt_task, http_task}
    NTx = 2
    NRx = 2
    TicksPerMicro = 2
    MaxTime = 1
    MaxSegs = 1
SYMMETRY TaskSymmetry
INVARIANTS
    TypeOK
    Exclusive
    NoLostPoll
    DeadlineArmed
    FramesScheduled
    PolledOnlyUp
    NobodyBlocks
PROPERTIES
    ServesPolls
    WakesOnTime
