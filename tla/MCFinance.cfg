SPECIFICATION FinanceSpec
CONSTANTS
    Prov = Prov
    Alice = Alice
    Client = Client
    RS = RS
    Escrow = Escrow
    NoAddress = NoAddress
    Products = {"notes", "loans"}
    Holders <- MCHolders
    Claimants = {Prov}
    Payees = {Prov}
    GenesisHolders = {Prov}
    Accounts <- MCAccounts
    Payers = {Client}
    RevenueShareAddr = RS
    EscrowAddr = Escrow
    InitialUSDC = 7
    SCALE = 2
    MinShares = 2
    GenesisShares = {5}
    ShareAmounts = {2}
    Payments = {3}
    MIN_SNAPSHOT_INTERVAL = 9
    MAX_SNAPSHOTS = 2
    MaxClaimed = 6
    MaxTime = 3
    PRECISION = 2
    BP_SCALE = 10
    Sellers = {Prov}
    Buyers = {Client}
    FaceValues = {2}
    PurchasePrices = {1}
    NoteTerms = {1, 2}
    Collaterals = {1, 2, 3}
    MIN_COLLATERAL_BP = 10
    MIN_TERM = 1
    MAX_TERM = 2
    MaxNotes = 2
    OtherEarnings = {2}
    OtherClaims = {1}
    MaxBrought = 1
    Borrowers <- MCUsers
    FeeRecipients <- MCUsers
    Deposits = {1, 2, 3}
    StableAmounts = {1, 2}
    LTV_BP = 7
    LIQ_THRESHOLD_BP = 8
    LIQ_BONUS_BP = 5
    MINT_FEE_BP = 5
    MAX_TOTAL_SUPPLY = 2
    MaxBookings = 3
INVARIANTS
    NotesCovered
    EarningsBacked
    DebtWithinLTV
PROPERTIES
    EarningsKept
CHECK_DEADLOCK FALSE
