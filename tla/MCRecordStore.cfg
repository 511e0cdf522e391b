SPECIFICATION FairSpec
CONSTANTS
    s1 = s1
    s2 = s2
    s3 = s3
    s4 = s4
    Free = Free
    Saves = {s1, s2, s3, s4}
    LeaseMayExpire = FALSE
CHECK_DEADLOCK FALSE
INVARIANTS
    TypeOK
    SavedIsKept
    RefusedLeavesNoTrace
PROPERTIES
    NoLostUpdate
    ImplementsRegister
    SaveAnswered
    LockComesFree
