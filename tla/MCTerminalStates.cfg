\* One job, one cancel, no fault.
CONSTANTS
    NULL = NULL
    Jobs = {j1}
    Workers = {w1}
    DispatchStore = "per_tick"
    ExecutionStore = "disabled"
    ResultStore = "memory"
    Priorities = {0}
    RetryBudgets = {0}
    RETRY_DELAY = 0
    TickLimit = 2
    KeysExpire = FALSE
    MaxManual = 0
    MaxFaults = 0
SPECIFICATION Spec
PROPERTIES TerminalStatesFinal
CHECK_DEADLOCK FALSE
