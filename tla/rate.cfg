SPECIFICATION LiveSpec
CONSTANTS
    Prefs <- MCPrefs
    Hellos <- MCHellos
    Refreshes <- MCRefreshes
    Budgets <- MCBudgets
INVARIANTS
    PeakInRange
    EncoderFollows
PROPERTIES
    ClimbsBack
    
CHECK_DEADLOCK FALSE
