CONSTANTS
    c1 = c1
    c2 = c2
    Ids <- ThreeIds
    Signed <- TwoAsks
    Withdrawn = {}
    Lapsing <- TheCheapAsk
    Cycles = {c1}
    Unfillable <- CheapPairBlocked
    LedgerRefuses = FALSE
    Faults = {"rpc", "lost_answer", "fetch", "late_node", "crash"}
    MaxFaults = 1
    MaxTxs = 9
    MaxExpiries = 1
    MaxRedeploys = 0
    Services = {"server", "engine"}
    Entries = {"none", "active", "inactive"}
    MaxSwitches = 1
SPECIFICATION LiveSpec
INVARIANTS
    NothingWedged
PROPERTIES
    RemovedForItsOwnState
    CrossingOrdersTrade
CHECK_DEADLOCK FALSE
