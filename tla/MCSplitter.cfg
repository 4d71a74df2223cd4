SPECIFICATION FairSplitterSpec
CONSTANTS
    Alice = Alice
    Client = Client
    RS = RS
    SP = SP
    T1 = T1
    T2 = T2
    NoAddress = NoAddress
    Holders = {Alice, RS}
    Claimants <- MCClaimants
    Payees = {Alice, RS}
    GenesisHolders <- MCHolders
    Accounts <- MCAccounts
    Payers <- MCPayers
    RevenueShareAddr = RS
    SplitterAddr = SP
    ProtocolTreasuries <- MCProtocolTreasuries
    ProviderTreasuries <- MCProviderTreasuries
    ProviderAdmins = {"owner", "multisig"}
    BP_SCALE = 4
    ProtocolTreasuryBp = 1
    ProviderTreasuryBp = 1
    RevenueShareBp = 2
    InitialUSDC = 6
    SCALE = 4
    MinShares = 2
    GenesisShares = {3}
    ShareAmounts = {0, 1, 2}
    Payments = {3}
    MIN_SNAPSHOT_INTERVAL = 1
    MAX_SNAPSHOTS = 2
    MaxClaimed = 4
    MaxTime = 3
INVARIANTS
    ProtocolShareBounded
    Solvent
    FindsLatest
PROPERTIES
    RevenueReachesHolders
    TransferKeepsEarnings
    ImplementsPool
