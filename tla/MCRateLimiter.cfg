SPECIFICATION FairSpec
CONSTANTS
    Callers = {c1, c2, c3}
    Interval = 2
    Deadlines <- MCDeadlines
    Horizon = 6
INVARIANTS
    TypeOK
    SlotsSpaced
    NeverEarly
PROPERTIES
    SlotsUsedOnce
    PacingSpec
    WaitReturns
CHECK_DEADLOCK FALSE
