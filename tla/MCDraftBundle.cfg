SPECIFICATION Spec
CONSTANTS
    c1 = c1
    c2 = c2
    small = small
    huge = huge
    k1 = k1
    k2 = k2
    Free = Free
    Callers = {c1, c2}
    Contents = {small, huge}
    Keys = {k1, k2}
    Protected = {k2}
    Size <- MCSize
    Etags <- MCEtags
    Etag <- MCEtag
    Opened <- MCOpened
    ObjectSize <- MCObjectSize
    MaxDocument = 3
    MaxTotal = 5
    MaxIds = 3
SYMMETRY CallerSymmetry
CHECK_DEADLOCK FALSE
INVARIANTS
    TypeOK
    WithinLimits
    NoDuplicates
PROPERTY NothingVanishes
