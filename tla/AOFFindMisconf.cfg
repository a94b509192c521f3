SPECIFICATION FairBioSpec
CONSTANTS
    MaxForks = 1
    Cases <- ErrorCases
PROPERTY
    WritesAcceptedAgain
CHECK_DEADLOCK FALSE
