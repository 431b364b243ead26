CONSTANTS
    m1 = m1
    m2 = m2
    Makers <- MCMakers
    Orders <- MCOrders
    Nonces = {1, 2}
    TradeSizes = {1, 2, 3}
    QuoteSizes = {5, 8}
    QuoteDebts = {2, 5}
    FeeRates = {0, 3, 6}
    BPS = 10
    MAX_FEE_BPS = 5
    Steps = {1}
    MaxTime = 2
SPECIFICATION Spec
INVARIANTS
    NeverOverfilled
    AskCoversItsCosts
    LimitsRespected
PROPERTIES
    ClosedStaysClosed
CHECK_DEADLOCK FALSE
