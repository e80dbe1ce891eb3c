SPECIFICATION LiveSpec
CONSTANTS
    Sessions <- MCSessions
    Fingers = {1, 2}
    MaxContacts = 2
CHECK_DEADLOCK FALSE
INVARIANTS
    FramesWhole
    InputSound
PROPERTIES
    SessionEnds
    PointerArrives
    PositionResent
