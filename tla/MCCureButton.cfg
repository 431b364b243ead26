CONSTANTS
    o1 = o1
    o2 = o2
    r1 = r1
    r2 = r2
    Orders = {o1, o2}
    Replicas = {r1, r2}
    MaxFaults = 1
    m1 = m1
    m2 = m2
    p1 = p1
    Markets = {m1, m2}
    LegacyMarket = m1
    Rates = {1, 2}
    EnvFeeBps = 5
    Posts = {p1}
    MaxFeeChanges = 1
    MaxSignals = 1
    MaxServerFaults = 1
    MaxClicks = 2
    Kinds = {"buyNO", "sellYES"}
    Usdc = 4
    LimitPrice = 6
    One = 10
    Basis = 10
    FeeRates = {0, 3}
    FallbackRate = 4
    StartBalances = {6}
    SyncAttempts = 2
    MaxMs = 3
    MaxRateChanges = 1
    MaxCancels = 1
    MaxPageFaults = 1
    Pages = {"portfolio"}
    Holdings = {0, 1}
    MaxDue = 3
    Prices = {1, 4}
    Mints = {2}
    MaxPresses = 2
    MaxTurns = 2
    MaxLosses = 1
    Parts = {"pages"}
SPECIFICATION MCSpec
PROPERTIES
    CureIsOffered
CHECK_DEADLOCK FALSE
