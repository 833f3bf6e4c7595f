SPECIFICATION Spec
CONSTANTS
    h1 = h1
    h2 = h2
    Handlers = {h1, h2}
    gdevices <- IniTable
    Commands <- KnownCommands
    FaceScores = {0, 90}
    QueueMax = 2
    MaxSends = 3
    MaxRestarts = 0
    Paced = FALSE
INVARIANTS
    KnownCommandsKeepRunning
CHECK_DEADLOCK FALSE
