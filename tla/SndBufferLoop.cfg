SPECIFICATION FairSpec
CONSTANTS
    Cases <- MCCases
PROPERTIES
    RexmitEnds
CHECK_DEADLOCK FALSE
