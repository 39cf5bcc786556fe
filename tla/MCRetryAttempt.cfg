\* A job with one retry, Redis behind the worker and the consumer, no fault.
CONSTANTS
    NULL = NULL
    Jobs = {j1}
    Workers = {w1}
    DispatchStore = "per_tick"
    ExecutionStore = "redis"
    ResultStore = "redis"
    Priorities = {0}
    RetryBudgets = {1}
    RETRY_DELAY = 0
    TickLimit = 2
    KeysExpire = FALSE
    MaxManual = 0
    MaxFaults = 0
SPECIFICATION FairSpec
PROPERTIES DispatchedIsReported
CHECK_DEADLOCK FALSE
