\* The default deployment without faults: no durable store anywhere.
CONSTANTS
    NULL = NULL
    Jobs = {j1, j2}
    Workers = {w1}
    DispatchStore = "per_tick"
    ExecutionStore = "disabled"
    ResultStore = "memory"
    Priorities = {0}
    RetryBudgets = {0, 1}
    RETRY_DELAY = 0
    TickLimit = 2
    KeysExpire = FALSE
    MaxManual = 0
    MaxFaults = 0
SPECIFICATION FairSpec
INVARIANTS NothingStranded
PROPERTIES DispatchedIsReported QueuedSettles
CHECK_DEADLOCK FALSE
