CONSTANTS
    WAD = 10
    YEAR = 4
    Marks <- MCMarks
    CarryRate <- MCCarryRate
    MarkBounds <- MCMarkBounds
    Steps = {1, 3}
    MaxTime = 9
    MaxAccruals = 4
SPECIFICATION Spec
INVARIANTS
    IndexTracksCarryDue
    KeeperWalkIsSlow
CHECK_DEADLOCK FALSE
