CONSTANTS
    c1 = c1
    c2 = c2
    Ids <- ThreeIds
    Signed <- TwinAsk
    Withdrawn = {"bid"}
    Lapsing <- TheBid
    Cycles = {c1}
    Unfillable = {}
    LedgerRefuses = TRUE
    Faults = {"rpc", "lost_answer", "no_receipt", "redis", "fetch", "crash"}
    MaxFaults = 1
    MaxTxs = 2
    MaxExpiries = 1
    MaxRedeploys = 1
    Services = {"server", "engine"}
    Entries = {"active"}
    MaxSwitches = 0
SPECIFICATION Spec
INVARIANTS
    BookNeverAhead
    InFlightOnce
    DeletedStaysDeleted
PROPERTIES
    ImplementsExchange
    DrainLeavesNothing
CHECK_DEADLOCK FALSE
