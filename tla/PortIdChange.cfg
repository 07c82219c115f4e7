SPECIFICATION Spec
CONSTANTS
    m1 = m1
    m2 = m2
    Motors <- TwoMotors
    Attached <- TwoMotors
    BROADCAST_ID = BROADCAST_ID
    Kinds = {"write_id"}
    MaxCmds = 1
    GRACE = 1
    SEARCH_DELAY = 0
    SEARCH_GAP = 0
PROPERTIES
    OldIdStaysCleared
CHECK_DEADLOCK FALSE
