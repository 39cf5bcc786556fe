\* Every policy; weights with and without a common divisor; up to three jobs
\* waiting.
CONSTANTS
    ta = ta
    tb = tb
    tc = tc
    TenantOrder <- ThreeTenants
    Blank = blank
    Setups <- AllSetups
    Capacity = 3
    MaxSize = 3
SPECIFICATION Spec
INVARIANTS SchedulersInv NoTenantStarves SharesFollowWeights
PROPERTIES RightJobLeaves ImplementsBuffer
