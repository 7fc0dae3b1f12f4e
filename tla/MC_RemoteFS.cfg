SPECIFICATION FairSpec
CONSTANTS
    Proc = {p, q}
    Path = {f}
    Backend = {"local", "sftp", "smb", "webdav"}
    MaxRetries = 1
    MaxCalls = 3
    MaxFaults = 2
INVARIANTS
    NothingLeft
    
    SuccessIsPlaced
PROPERTIES
    NoConnectionAfterClose
    
CHECK_DEADLOCK FALSE
