CONSTANTS
    Budget = 3
    Lag = 1
    GopKeys = FALSE
    SharedDevices = {TRUE, FALSE}
    KeepsHelloLandscape = TRUE
    FlushRefusable = FALSE
SPECIFICATION Spec
CHECK_DEADLOCK FALSE
INVARIANTS TypeOK HiddenStaysHidden KeyOwed TailPushes
