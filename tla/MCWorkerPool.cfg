\* Two goroutines, a queue of two (pause at 2, resume at 1), three messages;
\* goroutines keep running.
CONSTANTS
    Workers = {w1, w2}
    Poller = poller
    QueueCapacity = 2
    Backpressure = TRUE
    HighPercent = 80
    LowPercent = 50
    LastOffset = 3
SPECIFICATION FairSpec
INVARIANTS PoolInv StatsAddUp TakenInOrder NoneLostAlive DrainedAtStop
PROPERTIES ShutdownCompletes QueuedIsHandled PauseIsLifted
CHECK_DEADLOCK FALSE
