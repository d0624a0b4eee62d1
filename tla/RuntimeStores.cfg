SPECIFICATION Spec
CONSTANTS
    Cap = 2
    FileMax = 2
    AuditMax = 2
    Threshold = 2
    Ttl = 1
    MaxEntries = 1
    MaxTime = 2
    AllowCap = 1
    Faults <- MCFaults
    Budgets <- MCBudgets
    Keys <- MCKeys
    Askers <- MCAskers
    Revokers <- MCRevokers
    Nobody = Nobody
    NoFile = NoFile
    Garbage = Garbage
    k1 = k1
    k2 = k2
    a1 = a1
    a2 = a2
    r1 = r1
    r2 = r2
SYMMETRY MCSymmetry
CHECK_DEADLOCK FALSE
INVARIANTS
    CommittedIsAudited
    ClearedStaysCleared
    CountsAreEarned
    NoFalseAlarm
    SpendIsExact
PROPERTIES
    ReplacementKeepsTheWindow
