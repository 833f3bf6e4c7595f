SPECIFICATION FairSpec
CONSTANTS
    MayFail = {"gpio", "mqd", "display", "server_fd", "serial_fd"}
INVARIANTS
    FinalNeedsEveryThread
    SmokeReadsLiveInfo
PROPERTIES
    ThreadsSettle
CHECK_DEADLOCK FALSE
