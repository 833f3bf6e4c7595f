SPECIFICATION FairSpec
CONSTANTS
    QueueMax = 2
    MaxChanges = 5
    MaxFailures = 2
    MaxOthers = 3

    
PROPERTIES
    
    
    ClearFollowsAlarm
