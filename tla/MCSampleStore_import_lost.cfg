SPECIFICATION Spec
CONSTANTS
    Retention = 2
    Day = 1
    WriteLag = 1
    Legacy <- OldRow
    Worlds <- OnlyImport
    Horizon = 4
    TroubleHorizon = 4
INVARIANT
    DeletesTheArchived
CHECK_DEADLOCK FALSE
