CONSTANTS
    u1 = u1
    u2 = u2
    Users = {u1, u2}
    WAD = 10
    YEAR = 1
    Marks <- MCOneMark
    CarryRate <- MCOneRate
    MarkBounds <- MCMarkBounds
    Steps = {1}
    MaxTime = 3
    EpochLength = 1
    MintAmounts = {10}
    BurnAmounts = {5}
    DepositCaps = {20}
    NoCap = 20
    TIMELOCK = 1
    DepositAmounts = {}
    WithdrawAmounts = {}
    MaxReserve = 0
    MaxWithdrawals = 0
    FillSizes = {5}
    FillPrices = {9}
    FeeSplits <- MCNoFee
SYMMETRY MCSymmetry
SPECIFICATION Spec
INVARIANTS
    YESRedeemsAtPar
CHECK_DEADLOCK FALSE
