SPECIFICATION FairSpec
CONSTANTS
    None = None
    Req <- MCReq
    Kind <- MCKind
    Admitted <- MCAdmitted
    PassOK <- MCPassOK
    SigCount <- MCSigCount
    BadIndex <- MCBadIndex
INVARIANTS
    SignerTypeOK
    LockErases
    CountersBalance
    HeldIsCurrentOrErased
PROPERTY
    EveryRequestAnswered
CHECK_DEADLOCK FALSE
