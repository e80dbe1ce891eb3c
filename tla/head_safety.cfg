SPECIFICATION Spec
CONSTANTS
    Senders = {s1, s2}
    NoSender = NoSender
    MaxSessions = 3
    MaxRebuilds = 1
    MaxOutside = 1
    MaxCrashes = 1
    MaxEpoch = 11
SYMMETRY SenderSymmetry
INVARIANTS
    WorkersOwned
    PendingServed
    LayoutOnce
    MarkedIsOurs
    ExitRemovesHead
