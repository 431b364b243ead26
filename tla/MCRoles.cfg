CONSTANTS
    u1 = u1
    u2 = u2
    Users = {u1, u2}
    WAD = 10
    YEAR = 1
    Marks <- MCOneMark
    CarryRate <- MCOneRate
    MarkBounds <- MCMarkBounds
    Steps = {1}
    MaxTime = 2
    EpochLength = 1
    MintAmounts = {5}
    BurnAmounts = {0, 5}
    DepositCaps = {5}
    NoCap = 10
    TIMELOCK = 1
    DepositAmounts = {1}
    WithdrawAmounts = {}
    MaxReserve = 1
    MaxWithdrawals = 0
    FillSizes = {5}
    FillPrices = {9}
    FeeSplits <- MCFees
SYMMETRY MCSymmetry
SPECIFICATION Spec
INVARIANTS
    CompleteSets
    FlaggedHoldsYES
PROPERTIES
    CarryIsConserved
    FlagLocks
CHECK_DEADLOCK FALSE
