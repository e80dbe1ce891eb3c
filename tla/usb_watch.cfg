SPECIFICATION FairSpec
CONSTANTS
    s1 = s1
    s2 = s2
    p1 = p1
    NoPad = NoPad
    NoId = NoId
    OldId = OldId
    Senders <- OneSender
    Pads <- OnePad
    SavedId <- NoneSaved
    Typed <- OneSender
    OldApps = {}
    Failover = {TRUE, FALSE}
    MaxAttempts = 5
PROPERTIES
    EventFollowed
    SessionsEnd
