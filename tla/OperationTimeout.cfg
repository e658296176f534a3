SPECIFICATION FairSpec
CONSTANTS
    Apps = {a1}
    Readers = {g1}
    None = None
    HasFT = FALSE
    UrlCount = 0
    RetryCount = 1
    Calls = {"SendRequest", "Connect"}
    EnvEvents = {"terminate"}
    Unwritable = {}
    CredentialsFit = TRUE
    MaxReq = 1
    MaxConnects = 1
    MaxStops = 0
    MaxSock = 1
    MaxEvents = 1
CHECK_DEADLOCK FALSE
PROPERTIES
    CallsReturn
