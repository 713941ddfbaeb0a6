SPECIFICATION FairSpec
CONSTANTS
    Cases <- MCCases
PROPERTIES
    StopEnds
CHECK_DEADLOCK FALSE
