---------------------------- MODULE MCStructures ----------------------------
(* The data structures of the library, each on an instance of its own.  A       *)
(* behaviour is about one of them, the one `which' names: its variables are the *)
(* first of v1 .. v11, in the order of its declaration, and the rest are 0.     *)
(* The clock of sequence numbers has the variables of SeqNoClock; all of them   *)
(* share one space of sequence numbers, MaxSeqNo and SeqNoTH.                   *)
EXTENDS SeqNoClock, Sequences, FiniteSets

VARIABLES which, v1, v2, v3, v4, v5, v6, v7, v8, v9, v10, v11
allVars == <<clockVars, which, v1, v2, v3, v4, v5, v6, v7, v8, v9, v10, v11>>

SL == INSTANCE SndLossList WITH
        FlowWindow <- 3, Size <- 6, ISN <- 29,
        list <- v1, ret <- v2, lastAck <- v3, curr <- v4
RL == INSTANCE RcvLossList WITH
        Size <- 6, ISN <- 28, MaxAdvance <- 9,
        EarlyDrops <- FALSE,
        list <- v1, base <- v2, curr <- v3, advance <- v4, missing <- v5
RB == INSTANCE RcvBuffer WITH
        Size <- 4, NumPkts <- 4, PktLen <- 2, Modes <- {"live", "message", "stream"},
        Outdated <- {"message"},
        buf <- v1, mode <- v2, pkts <- v3, delivered <- v4

ASSUME SL!ListAssumption
ASSUME RL!ListAssumption
ASSUME RB!BufferAssumption

\* A buffer that starts with two blocks: growth by two increases at once, a window
\* smaller than a message, messages that expire, late drops, files.
SndBufferBase ==
    [unit |-> 2, sndBuf |-> 5, lens |-> {3}, ttls |-> BOOLEAN, msgs |-> 3,
     fileLens |-> {}, shortFile |-> FALSE, window |-> 3, tlpktdrop |-> FALSE]
SndBufferCases ==
    {[SndBufferBase EXCEPT !.window = 2],
     [SndBufferBase EXCEPT !.lens = {1, 6}, !.msgs = 2],
     [SndBufferBase EXCEPT !.lens = {1, 4}, !.ttls = {FALSE}, !.tlpktdrop = TRUE],
     [SndBufferBase EXCEPT !.ttls = {FALSE}, !.msgs = 2, !.fileLens = {3, 6},
                           !.shortFile = TRUE]}
SB == INSTANCE SndBuffer WITH
        Cases <- SndBufferCases,
        env <- v1, next <- v2, blk <- v3, buf <- v4, core <- v5, lost <- v6,
        expired <- v7, rex <- v8

SndUListCases == {[socks |-> 1 .. 4, maxTime |-> 2, period |-> 2]}
SU == INSTANCE SndUList WITH
        Cases <- SndUListCases,
        env <- v1, heap <- v2, loc <- v3, ts <- v4, now <- v5, sched <- v6, pc <- v7,
        nextTime <- v8, u <- v9, signalled <- v10, closing <- v11

\* Entries of two units, and fewer reading threads than that, as with the real
\* entries of 128 units.
UnitBase == [block |-> 2, maxUnits |-> 6, filter |-> FALSE, maxRebuilt |-> 0,
             readers |-> 1, mayFail |-> FALSE]
UnitCases == {UnitBase, [UnitBase EXCEPT !.mayFail = TRUE],
              [UnitBase EXCEPT !.filter = TRUE, !.maxRebuilt = 2]}
UQ == INSTANCE UnitQueue WITH
        Cases <- UnitCases,
        env <- v1, taken <- v2, numTaken <- v3, avail <- v4, pc <- v5, incoming <- v6,
        rebuild <- v7, kept <- v8, freeing <- v9, dry <- v10
ASSUME UQ!PoolAssumption

-----------------------------------------------------------------------------
Zero5 == v5 = 0 /\ v6 = 0 /\ v7 = 0 /\ v8 = 0
Zero9 == v9 = 0 /\ v10 = 0 /\ v11 = 0

StructuresInit ==
    \/ /\ which = "clock" /\ ClockInit
       /\ v1 = 0 /\ v2 = 0 /\ v3 = 0 /\ v4 = 0 /\ Zero5 /\ Zero9
    \/ /\ first = 0 /\ second = 0 /\ dist = 0
       /\ \/ which = "SndLossList" /\ SL!Init /\ Zero5 /\ Zero9
          \/ which = "RcvLossList" /\ RL!Init /\ v6 = 0 /\ v7 = 0 /\ v8 = 0 /\ Zero9
          \/ which = "RcvBuffer" /\ RB!Init /\ Zero5 /\ Zero9
          \/ which = "SndBuffer" /\ SB!Init /\ Zero9
          \/ which = "SndUList" /\ SU!Init
          \/ which = "UnitQueue" /\ UQ!PoolInit /\ v11 = 0

StructuresNext ==
    /\ \/ /\ which = "clock" /\ ClockNext
          /\ UNCHANGED <<v1, v2, v3, v4, v5, v6, v7, v8, v9, v10, v11>>
       \/ /\ which = "SndLossList" /\ SL!Next
          /\ UNCHANGED <<clockVars, v5, v6, v7, v8, v9, v10, v11>>
       \/ /\ which = "RcvLossList" /\ RL!Next
          /\ UNCHANGED <<clockVars, v6, v7, v8, v9, v10, v11>>
       \/ /\ which = "RcvBuffer" /\ RB!Next
          /\ UNCHANGED <<clockVars, v5, v6, v7, v8, v9, v10, v11>>
       \/ /\ which = "SndBuffer" /\ SB!Next
          /\ UNCHANGED <<clockVars, v9, v10, v11>>
       \/ /\ which = "SndUList" /\ SU!Next /\ UNCHANGED clockVars
       \/ /\ which = "UnitQueue" /\ UQ!PoolNext /\ UNCHANGED <<clockVars, v11>>
    /\ UNCHANGED which

StructuresSpec == StructuresInit /\ [][StructuresNext]_allVars

-----------------------------------------------------------------------------
\* The sender loss list as a data structure (SndLossList: insert, pop, removeUpTo).
SndLossExact == which = "SndLossList" => SL!SndLossExact

\* The linked array of CSndLossList implements the set of lost numbers: contents,
\* length and the results of every call.
LossSet == INSTANCE LossSet WITH
        lost <- IF which = "SndLossList" THEN SL!Losses(v1) ELSE {},
        length <- IF which = "SndLossList" THEN v1.length ELSE 0,
        ret <- IF which = "SndLossList" THEN v2 ELSE 0
ImplementsLossSet == LossSet!Spec

\* The receiver loss list is what is missing (RcvLossList: insert, remove, getLossArray).
RcvLossExact == which = "RcvLossList" => RL!RcvLossExact

\* The receiver buffer's ring, counters and announcements agree (RcvBuffer).
RcvBufferExact == which = "RcvBuffer" => RB!RcvBufferExact

\* A read hands over one whole message, once (CRcvBuffer::readMessage).
DeliversWholeOnce == [][which = "RcvBuffer" => RB!HandsOverWhole]_allVars

\* The sender buffer's ring is exact, and in step with the core's sequence numbers
\* through acknowledgements, late drops and expired messages (SndBuffer).
SndBufferExact == which = "SndBuffer" => SB!RingExact /\ SB!OffsetIsSequence

\* The schedule of the sending worker loses no socket and no wake-up (SndUList).
ScheduleExact == which = "SndUList" => SU!ScheduleExact

\* A packet unit has one user, and the pool runs dry only when an allocation fails,
\* with the packet filter and the readers at work (UnitQueue).
UnitsExact == which = "UnitQueue" => UQ!UnitsExact
=============================================================================
