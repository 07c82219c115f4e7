SPECIFICATION FairSpec
CONSTANTS
    m1 = m1
    Motors <- OneMotor
    RequestKinds = {"auto", "stop", "reset", "freeze"}
    MaxRuns = 2
    MaxRequests = 3
    MaxPending = 1
INVARIANTS
    TypeOK
    ProgressHasRun
PROPERTIES
    SignalsHitNewest
    StartOrphansNobody
    StopEndsRun
CHECK_DEADLOCK FALSE
