SPECIFICATION FairSpec
CONSTANTS
    h1 = h1
    h2 = h2
    Handlers = {h1, h2}
    gdevices <- IniTable
    Commands <- TwoCommands
    FaceScores = {0, 90}
    QueueMax = 1
    MaxSends = 3
    MaxRestarts = 0
    Paced = FALSE

    
PROPERTIES
    HandlersEnd
    QueueDrains
CHECK_DEADLOCK FALSE
