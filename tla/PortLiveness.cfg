SPECIFICATION LiveSpec
CONSTANTS
    m1 = m1
    m2 = m2
    Motors <- TwoMotors
    Attached <- TwoMotors
    BROADCAST_ID = BROADCAST_ID
    Kinds = {"write", "reg_write", "action", "reset", "calibrate", "write_eeprom", "sync_write_eeprom"}
    MaxCmds = 1
    GRACE = 1
    SEARCH_DELAY = 1
    SEARCH_GAP = 0
INVARIANTS
    CacheStaleOnlyByBypass
PROPERTIES
    DroppedOnlyAfterGrace
    AnswersEveryCommand
    MotorGetsSeen
    AdapterLossEndsWorker
CHECK_DEADLOCK FALSE
