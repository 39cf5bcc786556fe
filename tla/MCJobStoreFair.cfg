\* Two jobs of any urgency, one API thread, one scheduler and scanner process.
\* Jobs compete for a tick, and a scan may take both.
CONSTANTS
    NULL = NULL
    Jobs = {j1, j2}
    Callers = {c1}
    Runners = {r1}
    Priorities = {0, 1}
    RetryBudgets = {1}
    RETRY_DELAY = 1
    ClaimLimit = 1
    RequeueLimit = 2
    MaxTime = 1
    MaxManual = 0
SPECIFICATION FairSpec
INVARIANT PercentilesNearestRank
PROPERTIES QueueDrains TimedRetryLeaves
CHECK_DEADLOCK FALSE
