SPECIFICATION FairSpec
CONSTANTS
    Apps = {a1, a2}
    Readers = {g1, g2}
    None = None
    HasFT = FALSE
    UrlCount = 0
    RetryCount = 1
    Calls = {"SendRequest", "Connect", "Disconnect"}
    EnvEvents = {}
    Unwritable = {2}
    CredentialsFit = TRUE
    MaxReq = 2
    MaxConnects = 1
    MaxStops = 1
    MaxSock = 1
    MaxEvents = 0
CHECK_DEADLOCK FALSE
INVARIANTS
    NoLeakedResponse
    OneOutstanding
    NoMapRace
PROPERTIES
    CallsReturn
