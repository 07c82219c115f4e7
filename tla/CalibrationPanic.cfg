SPECIFICATION Spec
CONSTANTS
    m1 = m1
    Motors <- OneMotor
    RequestKinds = {"auto", "freeze"}
    MaxRuns = 1
    MaxRequests = 2
    MaxPending = 1
INVARIANTS
    PointsHaveBounds
CHECK_DEADLOCK FALSE
