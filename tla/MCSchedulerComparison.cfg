\* The script's workload and all short ones.
CONSTANTS
    ta = ta
    tb = tb
    TenantOrder <- TwoTenants
    Blank = blank
    Setups <- AllSetups
    Priorities <- AllPriorities
SPECIFICATION Spec
INVARIANTS MetricsAddUp SameWork TenantsUnaffected UrgentWaitLeast
CHECK_DEADLOCK FALSE
