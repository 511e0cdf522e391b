SPECIFICATION FairSpec
CONSTANTS
    j1 = j1
    j2 = j2
    j3 = j3
    Jobs = {j1, j2, j3}
    Backends = {"in_process"}
    Faults = {}
    MaxInProcess = 2
    MaxRetries = 0
    MaxDeaths = 0
CHECK_DEADLOCK FALSE
PROPERTIES
    JobSettles
    OutcomeIsFinal
