SPECIFICATION Spec
CONSTANTS
    Apps = {a1, a2}
    Readers = {g1, g2}
    None = None
    HasFT = FALSE
    UrlCount = 0
    RetryCount = 1
    Calls = {"SendRequest", "Connect", "ForceStop"}
    EnvEvents = {"ping", "terminate", "break"}
    Unwritable = {}
    CredentialsFit = TRUE
    MaxReq = 1
    MaxConnects = 2
    MaxStops = 2
    MaxSock = 1
    MaxEvents = 1
SYMMETRY Symmetry
CHECK_DEADLOCK FALSE
INVARIANTS
    LockDiscipline
    NoSelfDeadlock
