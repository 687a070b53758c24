SPECIFICATION MeteredSpec
CONSTANTS
    own = own
    other = other
    NoDel = NoDel
    Del <- MCDel2
    Member <- MCMember
    Own <- own
    Version <- MCVersion
    Param <- MCParam
    Info <- MCInfoSignable
    DelegationLimit = 2
    MaxPaginationLimit = 1
    SigsBatchSize = 2
    MaxRetiresBatchRemovingMsgs = 0
    MaxInFlight = 1
    MaxCrashes = 1
    MaxRounds = 2
INVARIANTS
    NeverSendsEmpty
    DroppedOnlyIfRefused
    SuccessMeansSettled
    CountersCoverSignatures
    SubmissionCompletesTimer
CHECK_DEADLOCK FALSE
