SPECIFICATION FairSpec
CONSTANTS
    MaxForks = 2
    Cases <- LiveCases
PROPERTIES
    FlushReachesFile WaitRewriteEnds RewriteEnds
CHECK_DEADLOCK FALSE
