SPECIFICATION FairToolsSpec
CONSTANTS
    Provider = Provider
    Challenger = Challenger
    Treasury = Treasury
    SM = SM
    NoAddress = NoAddress
    Users <- MCUsers
    Accounts <- MCAccounts
    StakeManagerAddr = SM
    Treasuries <- MCTreasuries
    BP_SCALE = 4
    InitialUSDC = 3
    Amounts = {0, 1}
    Cooldowns = {1}
    ProtocolSlashBps = {2}
    SlashBps = {2}
    MinimumStakes = {1, 2}
    MaxTime = 2
    Resources = {"quote"}
    Terms = {"t1"}
    Splitters = {"s1"}
    MaxProviders = 3
    MaxVersion = 1
    Sessions = {"cli", "script"}
    SdkSessions = {"cli"}
    KeyOf <- MCKeyOf
    CHUNK = 3
    SdkGasSuffices = {TRUE, FALSE}
    EarlierDeployments = {1}
    MaxCommands = 2
    MaxCuts = 2
    MaxMoves = 2
INVARIANTS
    OverstakeHasCause
    UnreportedHasCause
    AutoDetectHasCause
PROPERTIES
    PendingMined
CHECK_DEADLOCK FALSE
