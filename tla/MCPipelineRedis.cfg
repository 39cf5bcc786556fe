\* Redis behind all three stores, keys that expire, two jobs, two faults.
CONSTANTS
    NULL = NULL
    Jobs = {j1, j2}
    Workers = {w1, w2}
    DispatchStore = "shared"
    ExecutionStore = "redis"
    ResultStore = "redis"
    Priorities = {0}
    RetryBudgets = {0, 1}
    RETRY_DELAY = 0
    TickLimit = 2
    KeysExpire = TRUE
    MaxManual = 1
    MaxFaults = 2
SPECIFICATION Spec
INVARIANTS PipelineInv ExecutedOncePerKey AppliedOncePerKey OutcomesBacked FaultsStayLocal
PROPERTIES ResultMeetsItsRun
SYMMETRY PipelineSymmetry
CHECK_DEADLOCK FALSE
