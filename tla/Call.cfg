SPECIFICATION MCCallSpec
CONSTANTS
    None = None
    NoKey = NoKey
    Req <- MCReq
    Kind <- MCKind
    PassOK <- MCPassOK
    SigCount <- MCSigCount
    BadIndex <- MCBadIndex
    Deployments <- MCDeployments
    Program <- MCProgram
    HasTimeout = TRUE
    MaxRestarts = 1
    Empty = Empty
    Junk = Junk
    Nil = Nil
    Requests <- MCRequests
INVARIANTS
    CallTypeOK
    OperatorCallsTakeEffect
    MessageMatchesRequest
    CompleteRequestsPass
PROPERTY
    OracleSpec
CHECK_DEADLOCK FALSE
