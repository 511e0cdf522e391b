SPECIFICATION Spec
CONSTANTS
    c1 = c1
    c2 = c2
    small = small
    huge = huge
    k1 = k1
    k2 = k2
    Free = Free
    Callers = {c1}
    Contents = {small, huge}
    Keys = {k1}
    Protected = {}
    Size <- MCSize
    Etags <- MCEtags
    Etag <- MCEtag
    Opened <- MCOpened
    ObjectSize <- MCObjectSize
    MaxDocument = 3
    MaxTotal = 5
    MaxIds = 3
SYMMETRY CallerSymmetry
CHECK_DEADLOCK FALSE
INVARIANT ReferencesResolve
