SPECIFICATION FairSpecQ
CONSTANTS
    Spoken <- LockAndBeep
    MaxFrames = 3
    QueueMax = 2
INVARIANTS
    MessagesArePrefixes
    HandedKeysSpoken
PROPERTIES
    WholeMessageHeals
    
    BytesAreMessages
CHECK_DEADLOCK FALSE
