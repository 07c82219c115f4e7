SPECIFICATION FairSpec
CONSTANTS
    m1 = m1
    m2 = m2
    Motors <- TwoMotors
    Attached <- OneMotor
    BROADCAST_ID = BROADCAST_ID
    Kinds = {"write"}
    MaxCmds = 1
    GRACE = 1
    SEARCH_DELAY = 2
    SEARCH_GAP = 1
PROPERTIES
    SilentMotorEvicted
CHECK_DEADLOCK FALSE
