CONSTANTS
    Budget = 3
    Lag = 1
    GopKeys = FALSE
    SharedDevices = {TRUE}
    KeepsHelloLandscape = FALSE
    FlushRefusable = FALSE
SPECIFICATION LiveSpec
CHECK_DEADLOCK FALSE
PROPERTIES ImageArrives LockHides
