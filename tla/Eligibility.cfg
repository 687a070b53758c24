SPECIFICATION Spec
CONSTANTS
    own = own
    other = other
    NoDel = NoDel
    Del <- MCDel4
    Member <- MCMember
    Own <- own
    Version <- MCVersion
    Param <- MCParam
    Info <- MCInfoMixed
    DelegationLimit = 2
    MaxPaginationLimit = 1
    SigsBatchSize = 1
    MaxRetiresBatchRemovingMsgs = 0
    MaxInFlight = 0
    MaxCrashes = 1
INVARIANTS
    TypeOK
    SignsOnlyDeserved
    CacheCoversBatch
PROPERTIES
    MemberSpec
CHECK_DEADLOCK FALSE
