SPECIFICATION Spec
CONSTANTS
    Accounts = {a1, a2}
    Operators = {a1, a2}
    dao = a1
    InitialSupply = 2
    U128 = 8
    U64 = 16
    OverflowChecks = TRUE
    EdKeys = {a1, a2}
    BnKeys = {a1, a2}
    MultiAddrs = {addr}
    Amounts = {1, 2}
    ConfigValues = {}
    MinimumStake = 1
    ElectionDelay = 1
    WithdrawDelay = 1
    BlocksPerSlot = 1
    SlotsPerEpoch = 1
    CommitteeSize = 1
    RandomNumbers = {0}
    RandomSeed = 0
    Digest <- HalvedCounter
    MaxRerolls = 3
    DataRequests = {}
    MaxHeight = 2
    MaxRequests = 0
    MaxBatches = 0
    Wallets <- ImplicitWallets
INVARIANT TypeOK
INVARIANT NodesPartitioned
INVARIANT NodesIndexed
INVARIANT SupplyConserved
INVARIANT TotalBalanceTracked
INVARIANT StakeCoversDeposits
INVARIANT PagesCoverNodes
CHECK_DEADLOCK FALSE
