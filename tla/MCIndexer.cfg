SPECIFICATION FairIndexerSpec
CONSTANTS
    History <- MCHistory
    Logs <- MCLogs
    Daemons = {"daemon"}
    OneShots = {"once"}
    DeployBlock = 1
    CHUNK = 1
    MaxFaults = 1
    MaxRequests = 1
    NULL = NULL
INVARIANTS
    DuplicatesHaveCause
    SyncedOrMissed
    EndpointsAttributed
    ViewsAgree
PROPERTIES
    VerdictStays
    EventuallyIndexed
CHECK_DEADLOCK FALSE
