SPECIFICATION OnboardingSpec
CONSTANTS
    Owner = Owner
    Treasury = Treasury
    SM = SM
    CM = CM
    NoAddress = NoAddress
    Malformed = Malformed
    Unreachable = Unreachable
    Keep = Keep
    URL = "url"
    BarePath = "path"
    Tools = {"sdk", "cli", "script"}
    Users <- MCUsers
    Accounts <- MCAccounts
    StakeManagerAddr = SM
    ChallengeManagerAddr = CM
    Treasuries <- MCTreasuries
    Forwarders = {"forwarder"}
    Resources <- MCResources
    Answers <- MCAnswers
    Terms <- MCTerms
    Splitters = {"s1", "s2"}
    Methods <- MCMethods
    Flags <- MCFlags
    Metadata = {"m1"}
    BP_SCALE = 4
    InitialUSDC = 3
    Amounts = {0}
    Cooldowns = {1}
    ProtocolSlashBps = {2}
    SlashBps = {2}
    MinimumStakes = {1}
    ChallengeFees = {1, 2}
    MaxTime = 1
    MaxProviders = 1
    MaxVersion = 2
    MaxChallenges = 1
    MaxCommands = 2
    MaxChanges = 1
    MaxCuts = 1
INVARIANTS
    RegisteredPasses
    SplitterAsNamed
PROPERTIES
    ChargedAsRead
CHECK_DEADLOCK FALSE
