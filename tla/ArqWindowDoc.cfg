SPECIFICATION FairSpec
CONSTANTS
    NumPkts = 2
    Capacity = 1
    SndBufSize = 2
    InitialWindow = 1
    MessageAPI = FALSE
    RcvNakReport = FALSE
    MaxNet = 2
PROPERTY
    RoomUnblocksSender
CHECK_DEADLOCK FALSE
