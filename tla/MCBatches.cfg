SPECIFICATION Spec
CONSTANTS
    Accounts = {a1, a2}
    Operators = {a1, a2}
    dao = a1
    InitialSupply = 2
    U128 = 8
    U64 = 16
    OverflowChecks = TRUE
    EdKeys = {a1, a2}
    BnKeys = {a1, a2}
    MultiAddrs = {addr}
    Amounts = {1}
    ConfigValues = {}
    MinimumStake = 1
    ElectionDelay = 1
    WithdrawDelay = 2
    BlocksPerSlot = 1
    SlotsPerEpoch = 1
    CommitteeSize = 2
    RandomNumbers = {0}
    RandomSeed = 0
    Digest <- HalvedCounter
    MaxRerolls = 3
    DataRequests = {r1, r2}
    MaxHeight = 2
    MaxRequests = 2
    MaxBatches = 2
    Wallets <- ImplicitWallets
SYMMETRY RequestSymmetry
ACTION_CONSTRAINT OwnStakeOnly
INVARIANT BatchChain
INVARIANT CommitteeHorizon
PROPERTY CommitteesDrawnFromActive
PROPERTY CommitteesFixed
PROPERTY RequestsSealedOnce
CHECK_DEADLOCK FALSE
