CONSTANTS
    u1 = u1
    u2 = u2
    Users = {u1, u2}
    WAD = 10
    YEAR = 1
    Marks <- MCTwoMarks
    CarryRate <- MCTwoRates
    MarkBounds <- MCMarkBounds
    Steps = {1}
    MaxTime = 2
    EpochLength = 1
    MintAmounts = {5}
    BurnAmounts = {5}
    DepositCaps = {10}
    NoCap = 10
    TIMELOCK = 1
    DepositAmounts = {5}
    WithdrawAmounts = {5}
    MaxReserve = 5
    MaxWithdrawals = 1
    FillSizes = {5}
    FillPrices = {9}
    FeeSplits <- MCNoFee
SYMMETRY MCSymmetry
SPECIFICATION QuietSpec
INVARIANTS
    Solvent
PROPERTIES
    OwedIsNotReset
    SaleKeepsDebtPerYES
    ClaimTouchesYESOnly
    ReserveIsSpentOnce
CHECK_DEADLOCK FALSE
