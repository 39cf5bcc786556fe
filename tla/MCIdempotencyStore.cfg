SPECIFICATION FairSpec
CONSTANTS
    Clients = {c1, c2}
    Keys = {k1}
    TTLs = {1, 2}
    NONE = NONE
    FOREVER = FOREVER
    MaxTime = 4
    MaxRestarts = 1
INVARIANTS
    StoreInv
    OneGrantPerLife
PROPERTIES
    ImplementsClaims
    ClaimsLapse
CHECK_DEADLOCK FALSE
