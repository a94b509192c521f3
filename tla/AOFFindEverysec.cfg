SPECIFICATION FairBioSpec
CONSTANTS
    MaxForks = 0
    Cases <- QuietCases
PROPERTY
    EverysecSyncs
CHECK_DEADLOCK FALSE
