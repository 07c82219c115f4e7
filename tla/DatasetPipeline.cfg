SPECIFICATION Spec
CONSTANTS
    w1 = w1
    w2 = w2
    t1 = t1
    g1 = g1
    g2 = g2
    Recordings <- AllRecordings
    STEP = 2
    BATCH = 2
    CHANNEL = 1
    Goals = {g1, g2}
    NoGoals = NoGoals
    WORD = 64
    DURATION = 2
    GAP = 2
    STILL = 2
    LIFETIME = 40
    Workers <- TwoWorkers
    Renderers <- OneRenderer
    JOB_ROOM = 2
    REQUEST_ROOM = 1
    GridCells = {1, 2}
INVARIANTS
    TypeOK
    BoundsAreNearest
    FramesOnceInOrder
    BufferMissesNoFrame
    EpisodesAreSmooth
    ReportedIsOnDisk
    MergedIsOneRun
    FramesAreDrawn
    VideoPlaysEveryEpisode
PROPERTIES
    CommandsAreCounted
    ProgramsEnd
CHECK_DEADLOCK FALSE
