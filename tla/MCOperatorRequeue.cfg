\* A dead-lettered job requeued while the runner still holds its dispatch key.
CONSTANTS
    NULL = NULL
    Jobs = {j1}
    Workers = {w1}
    DispatchStore = "shared"
    ExecutionStore = "disabled"
    ResultStore = "memory"
    Priorities = {0}
    RetryBudgets = {0}
    RETRY_DELAY = 0
    TickLimit = 2
    KeysExpire = FALSE
    MaxManual = 1
    MaxFaults = 0
SPECIFICATION Spec
INVARIANTS NothingStranded
CHECK_DEADLOCK FALSE
