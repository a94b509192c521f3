SPECIFICATION FairSpec
CONSTANTS
    Types = {"BIO_CLOSE_FILE", "BIO_AOF_FSYNC"}
    MaxJobs = 3
INVARIANTS
    IndInv
    ZeroPendingMeansAllRun
    RunInOrderOnce
PROPERTIES
    EveryJobRuns
    QueueSpec
CHECK_DEADLOCK FALSE
