SPECIFICATION FairSpec
CONSTANTS
    h1 = h1
    h2 = h2
    Handlers = {h1, h2}
    gdevices <- IniTable
    Commands <- AllCommands
    FaceScores = {0, 55, 90}
    QueueMax = 2
    MaxSends = 3
    MaxRestarts = 1
    Paced = TRUE
INVARIANTS
    KnownCommandsKeepRunning
    RestReflectsCommands
    LockClosedAtRest
    ScreenAtRest
PROPERTIES
    LockRecloses
    OneCommandAtATime
CHECK_DEADLOCK FALSE
