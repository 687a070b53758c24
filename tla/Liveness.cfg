SPECIFICATION FairSpec
CONSTANTS
    own = own
    other = other
    NoDel = NoDel
    Del <- MCDel2
    Member <- MCMember
    Own <- own
    Version <- MCVersion
    Param <- MCParam
    Info <- MCInfoNeighbour
    DelegationLimit = 3
    MaxPaginationLimit = 3
    SigsBatchSize = 2
    MaxRetiresBatchRemovingMsgs = 0
    MaxInFlight = 1
    MaxCrashes = 1
PROPERTIES
    EventuallySigned
    StopCompletes
CHECK_DEADLOCK FALSE
