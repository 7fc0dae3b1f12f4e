SPECIFICATION Spec
CONSTANTS
    ID = {"a", "b"}
    TotalSize = 2
    MaxRetries = 2
    MaxBegins = 3
    MaxCrashes = 2
    MaxFaults = 2
INVARIANTS
    RecordSound
    ResumeSafe
    RetriesBounded
CHECK_DEADLOCK FALSE
