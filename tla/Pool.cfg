SPECIFICATION FairSpec
CONSTANTS
    Procs = {p1, p2, p3}
    None = None
    Conns = {4, 5}
    PoolSize = 2
    Decrypts = TRUE
    MaxConnects = 1
CHECK_DEADLOCK FALSE
INVARIANTS
    GetAlone
    OnePlace
PROPERTIES
    RefusedOnlyWhenBusy
    LeasesSpec
    PoolCallsReturn
