SPECIFICATION LiveSpec
CONSTANTS
    s1 = s1
    s2 = s2
    edge = edge
    place = place
    Senders = {s1, s2}
    Slots = {1, 2}
    Places = {edge, place}
    Edge = edge
    None = None
    Budgets <- MCBudgets
CHECK_DEADLOCK FALSE
INVARIANTS
    MonitorOwned
    NoneLeaks
PROPERTIES
    Recovers
    RestsSaved
