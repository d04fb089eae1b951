SPECIFICATION Spec
CONSTANTS
    Retention = 2
    Day = 1
    WriteLag = 1
    Legacy <- OldRow
    Worlds <- QuietOrOneTrouble
    Horizon = 5
    TroubleHorizon = 3
INVARIANTS
    TypeOK
    ArchivesOnlyOld
    YoungRowsLive
PROPERTY
    HeldSpec
CHECK_DEADLOCK FALSE
