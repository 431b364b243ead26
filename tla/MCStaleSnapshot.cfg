CONSTANTS
    c1 = c1
    c2 = c2
    Ids <- ThreeIds
    Signed <- SmallAsks
    Withdrawn = {}
    Lapsing = {}
    Cycles = {c1, c2}
    Unfillable = {}
    LedgerRefuses = FALSE
    Faults = {}
    MaxFaults = 1
    MaxTxs = 9
    MaxExpiries = 1
    MaxRedeploys = 0
    Services = {"server", "engine"}
    Entries = {"active"}
    MaxSwitches = 0
SPECIFICATION Spec
INVARIANTS
    BookExactAtRest
CHECK_DEADLOCK FALSE
