SPECIFICATION Spec
CONSTANTS
    Times <- SomeTimes
    RowKinds <- SomeRowKinds
    OddKinds <- SomeOddKinds
    MaxRows = 4
    MaxOdd = 2
    Fallback = 2
    Hour = 2
INVARIANT
    DurationIsUpperBound
CHECK_DEADLOCK FALSE
