SPECIFICATION Spec
CONSTANTS
    h1 = h1
    h2 = h2
    Handlers = {h1, h2}
    gdevices <- IniTable
    Commands <- CutCommands
    FaceScores = {0, 90}
    QueueMax = 2
    MaxSends = 3
    MaxRestarts = 1
    Paced = FALSE
SYMMETRY HandlerSymmetry
INVARIANTS
    LowIsCommanded
    PlainCommandsKeepRunning
    AnnouncedRecognition
PROPERTIES
    OpenNeedsRecognition
    CrashHasCause
    OpenLockKeepsCloser
CHECK_DEADLOCK FALSE
