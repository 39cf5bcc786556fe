\* One job and everyone who writes its row: two API threads (two enqueues of
\* one job_id included), two scheduler or scanner processes, two time steps.
CONSTANTS
    NULL = NULL
    Jobs = {j1}
    Callers = {c1, c2}
    Runners = {r1, r2}
    Priorities = {0}
    RetryBudgets = {0, 1}
    RETRY_DELAY = 1
    ClaimLimit = 1
    RequeueLimit = 1
    MaxTime = 2
    MaxManual = 1
SPECIFICATION Spec
SYMMETRY StoreSymmetry
INVARIANTS StoreInv DispatchedOncePerQueuing RunsArePaidFor BackoffRespected
PROPERTIES DispatchTimeKept CancelBeforeRunHolds FollowsLifecycle
CHECK_DEADLOCK FALSE
