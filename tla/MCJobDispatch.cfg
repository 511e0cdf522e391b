SPECIFICATION FairSpec
CONSTANTS
    j1 = j1
    j2 = j2
    j3 = j3
    Jobs = {j1}
    Backends = {"celery", "in_process"}
    Faults = {"send", "store", "worker", "child", "api"}
    MaxInProcess = 1
    MaxRetries = 2
    MaxDeaths = 1
CHECK_DEADLOCK FALSE
INVARIANTS
    TypeOK
    CompletedIsReviewable
    RetryPossible
    TaskNotForgotten
PROPERTY TaskRuns
