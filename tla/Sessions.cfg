SPECIFICATION SessionsSpec
CONSTANTS
    MaxAttempts = 2
    Threshold = 3
    MaxKeys = 2
    Keys = {k1, k2, k3}
    Capability = "modern"
    BasePolicy = "never"
    Rows <- MCRows
    Documents <- MCDocuments
    Pins <- MCPins
    Restored <- MCRestored
    Budgets <- MCBudgets
    Ids = {s1, s2}
    Looper = s1
    s1 = s1
    s2 = s2
CHECK_DEADLOCK FALSE
INVARIANTS
    SwitchesAreUsers
    ModesOnDisk
PROPERTIES
    ImplementsStreakGuard
    SilentNeverAnswered
    SettingsTakeForce
