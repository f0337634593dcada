SPECIFICATION FairSpec
CONSTANTS
    mqtt_task = mqtt_task
    http_task = http_task
    Tasks = {mqtt_task}
    NTx = 2
    NRx = 2
    TicksPerMicro = 2
    MaxTime = 1
    MaxSegs = 1
PROPERTIES
    PollerYields
    DueServed
    RequestServed
    PollsStart
    WorkPolled
