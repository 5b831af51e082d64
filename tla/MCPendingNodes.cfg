SPECIFICATION Spec
CONSTANTS
    Accounts = {a1}
    Operators = {a1}
    dao = a1
    InitialSupply = 2
    U128 = 8
    U64 = 16
    OverflowChecks = TRUE
    EdKeys = {a1}
    BnKeys = {a1}
    MultiAddrs = {addr}
    Amounts = {1, 2}
    ConfigValues = {}
    MinimumStake = 1
    ElectionDelay = 2
    WithdrawDelay = 2
    BlocksPerSlot = 1
    SlotsPerEpoch = 1
    CommitteeSize = 1
    RandomNumbers = {0}
    RandomSeed = 0
    Digest <- HalvedCounter
    MaxRerolls = 3
    DataRequests = {}
    MaxHeight = 3
    MaxRequests = 0
    MaxBatches = 0
    Wallets <- ImplicitWallets
INVARIANT PendingAreInactive
CHECK_DEADLOCK FALSE
