SPECIFICATION Spec
CONSTANTS
    s1 = s1
    s2 = s2
    p1 = p1
    NoPad = NoPad
    NoId = NoId
    OldId = OldId
    Senders <- TwoSenders
    Pads <- OnePad
    SavedId <- NewAndOld
    Typed = {}
    OldApps = {}
    Failover = {TRUE}
    MaxAttempts = 3
INVARIANTS
    OneSenderPerCable
    OwnPadOnCable
