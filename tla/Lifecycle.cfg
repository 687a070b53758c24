SPECIFICATION FairLifeSpec
CONSTANTS
    Absent = Absent
    Files <- MCFiles
    Health = {h1, h2}
INVARIANTS
    LifeTypeOK
    CleanExit
PROPERTIES
    HealthyOnlyBeforeQuit
    ShutdownCompletes
CHECK_DEADLOCK FALSE
