SPECIFICATION EnforcementSpec
CONSTANTS
    Provider = Provider
    Challenger = Challenger
    Treasury = Treasury
    SM = SM
    CM = CM
    NoAddress = NoAddress
    Malformed = Malformed
    Unreachable = Unreachable
    Users <- MCUsers
    Accounts <- MCAccounts
    StakeManagerAddr = SM
    ChallengeManagerAddr = CM
    Treasuries <- MCTreasuries
    CREForwarder = "forwarder"
    Forwarders = {"forwarder"}
    StakeManagerWiring = {TRUE}
    Resources = {"quote"}
    Terms = {"t1"}
    Splitters = {"s1", "s2"}
    BP_SCALE = 4
    InitialUSDC = 2
    Amounts = {2}
    Cooldowns = {1}
    ProtocolSlashBps = {2}
    SlashBps = {2, 4}
    MinimumStakes = {2}
    ChallengeFees = {1}
    MaxTime = 1
    MaxProviders = 1
    MaxVersion = 2
    MaxChallenges = 2
INVARIANTS
    BondsBacked
    FeesEscrowed
    HonestNotFaulted
PROPERTIES
    BondLostOnlyByFault
