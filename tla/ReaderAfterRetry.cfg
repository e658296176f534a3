SPECIFICATION Spec
CONSTANTS
    Apps = {a1, a2}
    Readers = {g1, g2}
    None = None
    HasFT = TRUE
    UrlCount = 0
    RetryCount = 1
    Calls = {"SendRequest", "Connect"}
    EnvEvents = {"break"}
    Unwritable = {}
    CredentialsFit = TRUE
    MaxReq = 1
    MaxConnects = 1
    MaxStops = 0
    MaxSock = 2
    MaxEvents = 1
SYMMETRY Symmetry
CHECK_DEADLOCK FALSE
PROPERTIES
    ReaderSurvivesRetry
