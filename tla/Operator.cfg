SPECIFICATION OperatorSpec
CONSTANTS
    Backends <- MCBackends
    Names <- MCNames
    DefaultName = "covenant-key"
    Absent = Absent
    Edits <- MCEdits
    SignerKeys <- MCSignerKeys
    CovdPort = 2112
    HardenedKeyStart = 4
    nan = nan
    NaN <- nan
    Paths <- MCPaths
    MaxDerived = 2
INVARIANTS
    HomeTypeOK
    NamedKeyExists
    StartedIsConfigured
    DistinctPathsDistinctKeys
PROPERTY
    BothComeUp
CHECK_DEADLOCK FALSE
