SPECIFICATION Spec
CONSTANTS
    Apps = {a1, a2}
    Readers = {g1, g2}
    None = None
    HasFT = TRUE
    UrlCount = 2
    RetryCount = 2
    Calls = {"SendRequest", "SendMessage", "Connect"}
    EnvEvents = {"terminate", "exception", "break", "timeout", "coalesce", "refuse", "reject"}
    Unwritable = {}
    CredentialsFit = TRUE
    MaxReq = 2
    MaxConnects = 1
    MaxStops = 0
    MaxSock = 2
    MaxEvents = 2
SYMMETRY Symmetry
CHECK_DEADLOCK FALSE
INVARIANTS
    TypeOK
    ReplyIntegrity
PROPERTIES
    ServiceSpec
