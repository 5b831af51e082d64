SPECIFICATION Spec
CONSTANTS
    Accounts = {a1, a2}
    Operators = {a1}
    dao = a1
    InitialSupply = 1
    U128 = 4
    U64 = 2
    OverflowChecks = FALSE
    EdKeys = {a1}
    BnKeys = {a1}
    MultiAddrs = {addr1, addr2}
    Amounts = {0, 1, 3}
    ConfigValues = {0, 2}
    MinimumStake = 2
    ElectionDelay = 1
    WithdrawDelay = 1
    BlocksPerSlot = 1
    SlotsPerEpoch = 1
    CommitteeSize = 1
    RandomNumbers = {0}
    RandomSeed = 0
    Digest <- HalvedCounter
    MaxRerolls = 3
    DataRequests = {}
    MaxHeight = 2
    MaxRequests = 0
    MaxBatches = 0
    Wallets <- ImplicitWallets
INVARIANT TotalBalanceTracked
INVARIANT SupplyConserved
CHECK_DEADLOCK FALSE
