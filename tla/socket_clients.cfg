SPECIFICATION FairSpec
CONSTANTS
    MaxConnections = 3
    Commands <- LockAndBeep
    MaxFrames = 3
    MaxCutFrames = 2
    MaxFds = 2
    QueueMax = 1
    MaxFailures = 1
INVARIANTS
    ForwardedInOrder
    NothingLost
PROPERTIES
    DeadClientReleased
    WaitingClientServed
    ServedCompletely
CHECK_DEADLOCK FALSE
