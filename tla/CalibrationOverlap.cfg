SPECIFICATION Spec
CONSTANTS
    m1 = m1
    Motors <- OneMotor
    RequestKinds = {"auto"}
    MaxRuns = 3
    MaxRequests = 3
    MaxPending = 0
INVARIANTS
    AtMostOneUnstopped
CHECK_DEADLOCK FALSE
