SPECIFICATION Spec
CONSTANTS
    own = own
    other = other
    NoDel = NoDel
    Del <- MCDel
    Member <- MCMember
    Own <- own
    Version <- MCVersion
    Param <- MCParam
    Info <- MCInfo
    DelegationLimit = 3
    MaxPaginationLimit = 1
    MaxInFlight = 0
INVARIANTS
    ContractTypeOK
    QueryComplete
    QuerySound
CHECK_DEADLOCK FALSE
