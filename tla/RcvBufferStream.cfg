SPECIFICATION Spec
CONSTANTS
    Size = 4
    NumPkts = 3
    PktLen = 2
    Modes = {"stream"}
    Outdated = {"stream"}
PROPERTY
    UnreadDataWaits
CHECK_DEADLOCK FALSE
