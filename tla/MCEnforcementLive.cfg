SPECIFICATION RunsSpec
CONSTANTS
    Provider = Provider
    Challenger = Challenger
    Treasury = Treasury
    SM = SM
    CM = CM
    NoAddress = NoAddress
    Malformed = Malformed
    Unreachable = Unreachable
    Users <- MCUsers
    Accounts <- MCAccounts
    StakeManagerAddr = SM
    ChallengeManagerAddr = CM
    Treasuries <- MCTreasuriesOrNone
    CREForwarder = "forwarder"
    Forwarders = {"forwarder", "other"}
    StakeManagerWiring = {TRUE}
    Resources = {"quote"}
    Terms = {"t1"}
    Splitters = {"s1"}
    BP_SCALE = 4
    InitialUSDC = 2
    Amounts = {2}
    Cooldowns = {0}
    ProtocolSlashBps = {2}
    SlashBps = {0, 2}
    MinimumStakes = {2}
    ChallengeFees = {1, 2}
    MaxTime = 0
    MaxProviders = 1
    MaxVersion = 1
    MaxChallenges = 1
PROPERTIES
    SettledOrExcused
    ImplementsEscrow
