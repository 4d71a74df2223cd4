SPECIFICATION FairMarketSpec
CONSTANTS
    Prov = Prov
    Alice = Alice
    RS = RS
    Offering = Offering
    Wrapper = Wrapper
    NoAddress = NoAddress
    Holders <- MCHolders
    Claimants <- MCUsers
    Payees = {Alice, Wrapper}
    GenesisHolders = {Prov}
    Accounts <- MCAccounts
    Payers <- MCPayers
    RevenueShareAddr = RS
    InitialUSDC = 5
    SCALE = 2
    MinShares = 2
    GenesisShares = {2}
    ShareAmounts = {2}
    Payments = {2}
    MIN_SNAPSHOT_INTERVAL = 9
    MAX_SNAPSHOTS = 2
    MaxClaimed = 2
    MaxTime = 3
    OfferingAddr = Offering
    Backers <- MCPayers
    Provider = Prov
    FundingGoal = 3
    Deadline = 2
    TokenPrice = 1
    RSAllocated = 2
    Contributions = {1}
    TokenAmounts = {1, 2, 3}
    WrapperAddr = Wrapper
    Wrappers <- MCUsers
    WrapAmounts = {1, 2}
    BPS_SCALE = 4
    MaxWithdrawFee = 2
    WithdrawFees = {2, 3}
    WrapperTreasuries = {Prov}
INVARIANTS
    OfferingCovered
    WrapperBacked
PROPERTIES
    OnlyDepositsDilute
    BackersSettled
