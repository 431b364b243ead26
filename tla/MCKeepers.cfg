CONSTANTS
    h1 = h1
    h2 = h2
    bot = bot
    a1 = a1
    a2 = a2
    a3 = a3
    Holders = {h1, h2, bot}
    Bot = bot
    Marks = {1, 2}
    Purse = 1
    MaxMoves = 1
    MaxKeeperFaults = 2
    MaxBotFaults = 1
    MaxAttempts = 2
    Asks = {a1, a2, a3}
    MaxDiscount = 3
    Polls = {p1, p2}
    MaxViewerFaults = 1
    p1 = p1
    p2 = p2
    Markets = {m1, m2}
    m1 = m1
    m2 = m2
    Hosts = {"keeper", "bot", "viewer"}
    MaxPasses = 2
    MaxChanges = 1
    Deployments <- OneUp
    Indexed = {h1}
    k1 = k1
    k2 = k2
    Scanners = {k1, k2}
    BatchSize = 1
    Overlap = 1
    Depth = 1
    MaxBlock = 3
    MaxIndexFaults = 1
SPECIFICATION MCSpec
INVARIANTS
    SuccessIsReal
    OneStream
    NoHolderPassedOver
PROPERTIES
    SeizableIsFlagged
    FlaggedIsClaimed
    OffersWhatItHolds
    ClaimableIsShown
    ServesOrEnds
    EveryHolderIsFound
CHECK_DEADLOCK FALSE
