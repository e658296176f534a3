SPECIFICATION FairSpec
CONSTANTS
    Procs = {p1, p2}
    None = None
    Conns = {4, 5}
    PoolSize = 2
    Decrypts = TRUE
    MaxConnects = 1
CHECK_DEADLOCK FALSE
PROPERTIES
    GetReturns
