SPECIFICATION FairSpec
CONSTANTS
    Senders = {s1, s2}
    NoSender = NoSender
    MaxSessions = 2
    MaxRebuilds = 0
    MaxOutside = 1
    MaxCrashes = 1
    MaxEpoch = 7
PROPERTIES
    AbandonedHeadGoes
    QuitEnds
