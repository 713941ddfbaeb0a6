SPECIFICATION StructuresSpec
CONSTANTS
    MaxSeqNo = 31
    SeqNoTH = 15
    Window = 14
INVARIANTS
    ArithmeticExact
    SndLossExact
    RcvLossExact
    RcvBufferExact
    SndBufferExact
    ScheduleExact
    UnitsExact
PROPERTIES
    ImplementsLossSet
    DeliversWholeOnce
CHECK_DEADLOCK FALSE
