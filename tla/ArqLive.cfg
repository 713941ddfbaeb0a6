SPECIFICATION FairSpec
CONSTANTS
    NumPkts = 2
    Capacity = 2
    SndBufSize = 2
    InitialWindow = 2
    MessageAPI = FALSE
    RcvNakReport = FALSE
    MaxNet = 2
PROPERTIES
    TransferCompletes
CHECK_DEADLOCK FALSE
