SPECIFICATION Spec
CONSTANTS
    c1 = c1
    c2 = c2
    junior = junior
    senior = senior
    cuo = cuo
    NoUser = NoUser
    Callers = {c1, c2}
    Users = {junior, senior, cuo}
    TierOf <- MCTierOf
    MaxVersion = 5
SYMMETRY CallerSymmetry
CHECK_DEADLOCK FALSE
INVARIANTS
    TypeOK
    SoloBindJustified
    BoundWithSecondSignature
    ApprovalOnFile
PROPERTIES
    NothingLost
    ImplementsCase
