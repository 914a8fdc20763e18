SPECIFICATION PathFairSpec
CONSTANTS
    f1 = f1  f2 = f2  f3 = f3
    Files = {f1, f2}
    Pages = 2
    Buffer = 5
    MaxLines = 3
    Limit <- Once
    MaxEvents = 2
    LeaveEarly = FALSE
    Crossing = FALSE
INVARIANTS TimelineIsWhole RowsAreReadAndDrawn
PROPERTIES NothingIsTakenAway LastLineIsShown
CHECK_DEADLOCK FALSE
