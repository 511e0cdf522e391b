SPECIFICATION Spec
CONSTANTS
    c1 = c1
    c2 = c2
    junior = junior
    senior = senior
    cuo = cuo
    NoUser = NoUser
    Callers = {c1}
    Users = {junior, senior, cuo}
    TierOf <- MCTierOf
    MaxVersion = 7
CHECK_DEADLOCK FALSE
INVARIANT
    BoundOnStandingApproval
