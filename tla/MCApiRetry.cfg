\* The smallest instance in which a failed job is retried through the API.
CONSTANTS
    NULL = NULL
    Jobs = {j1}
    Callers = {c1}
    Runners = {r1}
    Priorities = {0}
    RetryBudgets = {1}
    RETRY_DELAY = 1
    ClaimLimit = 1
    RequeueLimit = 1
    MaxTime = 1
    MaxManual = 1
SPECIFICATION FairSpec
PROPERTIES RetryScheduledLeaves
CHECK_DEADLOCK FALSE
