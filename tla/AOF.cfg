SPECIFICATION Spec
CONSTANTS
    MaxForks = 1
    Cases <- SafetyCases
INVARIANTS
    TypeOK LogComplete RewriteComplete SizeTracksFile CrashLeavesPrefix AckedSurvivesCrash WaitHasRewrite
CHECK_DEADLOCK FALSE
