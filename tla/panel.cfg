SPECIFICATION FairSpec
CONSTANTS
    Senders = {s1, s2}
    NoSender = NoSender
    NoSize = NoSize
    landscape = landscape
    portrait = portrait
    square = square
    Sizes <- MCSizes3
    Turn <- MCTurn3
INVARIANTS
    HoldersCounted
    ExclusiveAlone
    UnturnedShareSize
PROPERTIES
    ShareSpec
    StartsByItself
