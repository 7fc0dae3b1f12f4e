SPECIFICATION FairSpec
CONSTANTS
    Conn = {"c1", "c2"}
    User = {"", "root"}
    Password = {"", "p"}
    Login <- SomeLogins
    Plugin = {"mysql_native_password", "caching_sha2_password"}
    RequireAuth = TRUE
    ByteMod = 4
    Param = {0, 1}
    MaxCommands = 2
    MaxSets = 1
INVARIANTS
    ClientsInStep
    AdmittedLegitimately
PROPERTIES
    AcceptLoopEnds
    ClosedConnectionsLeave
CHECK_DEADLOCK FALSE
