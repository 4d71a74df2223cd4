SPECIFICATION ChallengerSpec
CONSTANTS
    E1 = E1
    E2 = E2
    Endpoints <- MCOneEndpoint
    Terms = {"t1", "t2"}
    CHUNK = 1
    InitialFees = 2
    RpcFails = FALSE
    FetchFails = FALSE
    MaxBlock = 1
    MaxRefunded = 0
    MaxCrashes = 1
INVARIANTS
    OnePendingPerEndpoint
