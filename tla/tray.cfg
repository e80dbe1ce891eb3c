SPECIFICATION LiveSpec
CONSTANTS
    Addrs = {"a", "b"}
    Ids = {"x", "y"}
    Starts <- MCStarts
    None = "none"
    Placeholder = "loopback"
CHECK_DEADLOCK FALSE
INVARIANTS
    
    BindingsKept
    OneSender
PROPERTIES
    StatusShown
    LearnedWritten
