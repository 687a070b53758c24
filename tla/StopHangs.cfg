SPECIFICATION FairSpec
CONSTANTS
    own = own
    other = other
    NoDel = NoDel
    Del <- MCDel2
    Member <- MCMember
    Own <- own
    Version <- MCVersion
    Param <- MCParam
    Info <- MCInfoSignable
    DelegationLimit = 2
    MaxPaginationLimit = 3
    SigsBatchSize = 2
    MaxRetiresBatchRemovingMsgs = 0
    MaxInFlight = 0
    MaxCrashes = 0
PROPERTIES
    StopCompletes
CHECK_DEADLOCK FALSE
