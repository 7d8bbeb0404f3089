CONSTANTS
    MaxClients = 2
    Conns = {"a", "b"}
    NoConn = "NULL"
    Addrs = {"x", "y"}
    WhMaxFaults = 3
    MaxOpen = 2
    MaxTftp = 2
    NCopies = 2
    FsBlocks = 2
    NScripts = 2
    Delay = 1
    Period = 1
    NLines = 1
    MaxClock = 2
    ScMaxEvents = 2
    MaxJobs = 2
    NBlocks = 1
    Owners <- MCOwners
    Named <- MCTwoOwners
    Sources = {src}
    None = None
SPECIFICATION SvcSpec
INVARIANTS
    SvcTypeOK
    ServedIsInit
    CopyLetsGo
PROPERTIES
    NothingPends
    HookServes
    CopyEnds
    CopyKeepsJob
    RequestsStay
    ScriptsRun
    JobsEnd
CHECK_DEADLOCK FALSE
