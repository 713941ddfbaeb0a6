SPECIFICATION Spec
CONSTANTS
    NumPkts = 4
    Capacity = 2
    SndBufSize = 3
    InitialWindow = 2
    MessageAPI = TRUE
    RcvNakReport = TRUE
    MaxNet = 2
INVARIANTS
    DeliveredWithoutGap
    AckedIsReceived
    NoOverflow
    ControlAccepted
    BookkeepingExact
CHECK_DEADLOCK FALSE
