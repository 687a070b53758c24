SPECIFICATION Spec
CONSTANTS
    None = None
    Req <- MCReqOperator
    Kind <- MCKind
    Admitted <- MCAdmitted
    PassOK <- MCPassOK
    SigCount <- MCSigCount
    BadIndex <- MCBadIndex
INVARIANT
    GaugeMatchesKey
CHECK_DEADLOCK FALSE
