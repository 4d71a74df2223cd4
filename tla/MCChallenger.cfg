SPECIFICATION FairChallengerSpec
CONSTANTS
    E1 = E1
    E2 = E2
    Endpoints <- MCOneEndpoint
    Terms = {"t1", "t2"}
    CHUNK = 2
    InitialFees = 2
    RpcFails = TRUE
    FetchFails = TRUE
    MaxBlock = 3
    MaxRefunded = 0
    MaxCrashes = 1
INVARIANTS
    PendingBounded
    ScannedAreKnown
PROPERTIES
    MismatchChallenged
