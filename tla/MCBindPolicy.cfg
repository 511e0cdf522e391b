SPECIFICATION BindSpec
CONSTANTS
    c1 = c1
    c2 = c2
    senior = senior
    cuo = cuo
    NoUser = NoUser
    Callers = {c1, c2}
    Users = {senior, cuo}
    TierOf <- MCTierOf
    Verdict <- MCVerdict
    MaxVersion = 5
    ServiceCoSigns = TRUE
    MaxPolicies = 2
SYMMETRY CallerSymmetry
CHECK_DEADLOCK FALSE
INVARIANTS
    BoundCaseHasPolicy
    BookedWasBound
    BoundOnce
