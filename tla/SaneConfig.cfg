SPECIFICATION LifeSpec
CONSTANTS
    Absent = Absent
    Files <- MCFiles
    Health = {h1, h2}
INVARIANT
    AcceptedConfigRuns
CHECK_DEADLOCK FALSE
