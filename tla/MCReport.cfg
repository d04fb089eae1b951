SPECIFICATION Spec
CONSTANTS
    Times <- SomeTimes
    RowKinds <- SomeRowKinds
    OddKinds <- SomeOddKinds
    MaxRows = 4
    MaxOdd = 2
    Fallback = 2
    Hour = 2
INVARIANTS
    WindowsAreRuns
    ExcludedLeaveNoTrace
    LegacyTold
    BucketsAgree
    RanksRight
CHECK_DEADLOCK FALSE
