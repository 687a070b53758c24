SPECIFICATION Spec
CONSTANTS
    own = own
    other = other
    NoDel = NoDel
    Del <- MCDel2
    Member <- MCMember
    Own <- own
    Version <- MCVersion
    Param <- MCParam
    Info <- MCInfoSignable
    DelegationLimit = 3
    MaxPaginationLimit = 3
    SigsBatchSize = 2
    MaxRetiresBatchRemovingMsgs = 1
    MaxInFlight = 1
    MaxCrashes = 1
INVARIANT
    SuccessMeansSettled
CHECK_DEADLOCK FALSE
