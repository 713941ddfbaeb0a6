------------------------------ MODULE RcvBuffer ------------------------------
(***************************************************************************)
(* CRcvBuffer (srtcore/buffer_rcv.cpp): the receiver buffer, a ring of     *)
(* entries starting at m_iStartPos.  Packets are stored at their distance  *)
(* from m_iStartSeqNo, read in order or, in the message API without TSBPD, *)
(* also as complete messages out of order, and dropped by range.           *)
(*                                                                         *)
(* Sequence numbers are the packets' indices 0, 1, 2, ... in the stream:   *)
(* the buffer only uses distances below its capacity, for which module     *)
(* ReceiverProofs shows circular and plain arithmetic to agree.            *)
(***************************************************************************)
EXTENDS Integers, FiniteSets, FiniteSetsExt

CONSTANTS Size,      \* m_szSize: the number of entries
          NumPkts,   \* bound: the number of packets the sender has
          PktLen,    \* bytes in a packet
          Modes,     \* the transmission modes to look at
          Outdated   \* the modes in which loss reports are overtaken by acknowledgements

\* What the constants are to satisfy.
BufferAssumption ==
    /\ Size \in Nat \ {0, 1}
    /\ NumPkts \in Nat \ {0}
    /\ PktLen \in Nat \ {0}
    /\ Modes \subseteq {"live", "message", "stream"}
    /\ Outdated \subseteq {"message", "stream"}

VARIABLES buf,       \* the object
          mode,      \* how the connection was configured
          pkts,      \* the stream the sender cut into packets
          delivered  \* the packets handed to the application

vars == <<buf, mode, pkts, delivered>>

Pos == 0 .. Size - 1

capacity == Size - 1

PktNos == 0 .. NumPkts - 1

NoUnit == -1

SRT_MSGNO_NONE == -1
SRT_MSGNO_CONTROL == 0

Empty == [status |-> "Empty", unit |-> NoUnit]

\* The streams of NumPkts packets: starts are the first packets of messages,
\* unordered the messages without the in-order flag.
Streams ==
    LET cut(starts, unordered) ==
            [k \in PktNos |->
                LET msg == Cardinality({s \in starts : s <= k})
                IN  [msg |-> msg, first |-> k \in starts,
                     last |-> k + 1 \in starts \cup {NumPkts}, order |-> msg \notin unordered]]
    IN  {cut(starts \cup {0}, unordered) :
            starts \in SUBSET PktNos, unordered \in SUBSET (1 .. NumPkts)}

Solo(k) == pkts[k].first /\ pkts[k].last

tsbpdEnabled == mode = "live"

bMessageAPI == mode # "stream"

\* Whether packets may be read out of order.
OutOfOrderMode == ~tsbpdEnabled /\ bMessageAPI

-----------------------------------------------------------------------------
(* Positions and entries of a buffer b                                      *)

incPos(pos, inc) == (pos + inc) % Size

offPos(pos1, pos2) == IF pos2 >= pos1 THEN pos2 - pos1 ELSE Size + pos2 - pos1

PosAt(b, off) == incPos(b.startPos, off)

EntryAt(b, off) == b.entries[PosAt(b, off)]

HasUnit(b, off) == EntryAt(b, off).unit # NoUnit

PktAt(b, off) == pkts[EntryAt(b, off).unit]

getRcvDataSize(b) == offPos(b.startPos, b.nonreadPos)

hasReadableInorderPkts(b) == b.nonreadPos # b.startPos

isInRange(b) ==
    LET lastPos == PosAt(b, b.maxPosOff)
    IN  \/ b.nonreadPos = b.startPos
        \/ IF lastPos < b.startPos
           THEN b.nonreadPos > b.startPos \/ b.nonreadPos <= lastPos
           ELSE b.nonreadPos > b.startPos /\ b.nonreadPos <= lastPos

\* The unordered packets among the units at the offsets offs.
Unordered(b, offs) == {o \in offs : HasUnit(b, o) /\ ~PktAt(b, o).order}

\* dropUnitInPos at every offset of offs.
dropUnits(b, offs) ==
    LET gone == {PosAt(b, o) : o \in {x \in offs : HasUnit(b, x)}}
        unordered == IF OutOfOrderMode THEN Unordered(b, offs) ELSE {}
    IN  [b EXCEPT !.entries = [p \in Pos |-> IF p \in gone THEN Empty ELSE @[p]],
                  !.numOutOfOrder = @ - Cardinality(unordered),
                  !.firstOutOfOrder = IF \E o \in unordered : PosAt(b, o) = @ THEN -1 ELSE @]

-----------------------------------------------------------------------------
(* What every operation ends with                                           *)

\* Entries at the start that were read out of order or dropped are passed.
releaseNextFillerEntries(b) ==
    LET filler(o) == EntryAt(b, o).status \in {"Read", "Drop"}
        n == Min({k \in 0 .. capacity : ~filler(k)})
        passed == {PosAt(b, o) : o \in 0 .. n - 1}
    IN  [b EXCEPT !.entries = [p \in Pos |-> IF p \in passed THEN Empty ELSE @[p]],
                  !.startPos = incPos(@, n),
                  !.startSeqNo = @ + n,
                  !.maxPosOff = Max({0, @ - n})]

\* Packets i .. j - 1, offsets from the start, are all there and make up whole
\* messages; outside the message API any packets do.
Whole(b, i, j) ==
    /\ \A o \in i .. j - 1 : HasUnit(b, o)
    /\ bMessageAPI =>
          /\ PktAt(b, i).first
          /\ PktAt(b, j - 1).last
          /\ \A o \in i .. j - 2 : PktAt(b, o).last => PktAt(b, o + 1).first

updateNonreadPos(b) ==
    LET off == getRcvDataSize(b)
        ends == {j \in off + 1 .. b.maxPosOff : Whole(b, off, j)}
    IN  IF b.maxPosOff = 0 \/ ends = {} THEN b ELSE [b EXCEPT !.nonreadPos = PosAt(b, Max(ends))]

-----------------------------------------------------------------------------
(* Messages that can be read out of order                                   *)

\* The units at offsets i .. j all belong to message msgNo.
AllOf(b, i, j, msgNo) == \A o \in i .. j : HasUnit(b, o) /\ PktAt(b, o).msg = msgNo

hasLastRight(b, off, msgNo) ==
    \E j \in off + 1 .. b.maxPosOff - 1 : AllOf(b, off + 1, j, msgNo) /\ PktAt(b, j).last

\* The offset of the message's first packet, or -1.
scanNotInOrderMessageLeft(b, off, msgNo) ==
    LET firsts == {i \in 0 .. off - 1 : AllOf(b, i, off - 1, msgNo) /\ PktAt(b, i).first}
    IN  IF firsts = {} THEN -1 ELSE Max(firsts)

\* Faulty: the message counts as complete without its start.
BadonInsertNotInOrderPacket(b, off) ==
    LET pkt == PktAt(b, off)
        hasLast == pkt.last \/ hasLastRight(b, off, pkt.msg)
    IN  IF b.firstOutOfOrder >= 0 \/ ~hasLast THEN b
        ELSE [b EXCEPT !.firstOutOfOrder = PosAt(b, off)]

onInsertNotInOrderPacket(b, off) ==
    LET pkt == PktAt(b, off)
        hasLast == pkt.last \/ hasLastRight(b, off, pkt.msg)
        first == IF pkt.first THEN off ELSE scanNotInOrderMessageLeft(b, off, pkt.msg)
    IN  IF b.firstOutOfOrder >= 0 \/ ~hasLast \/ first < 0 THEN b
        ELSE [b EXCEPT !.firstOutOfOrder = PosAt(b, first)]

\* A complete message without the in-order flag lies at offsets i .. j.
UnorderedMessage(b, i, j) ==
    /\ \A o \in i .. j : HasUnit(b, o) /\ ~PktAt(b, o).order
    /\ AllOf(b, i, j, PktAt(b, i).msg)
    /\ PktAt(b, i).first
    /\ PktAt(b, j).last

\* Whether a message can still be read from firstOutOfOrder on.
checkFirstReadableOutOfOrder(b) ==
    LET off == offPos(b.startPos, b.firstOutOfOrder)
    IN  /\ b.numOutOfOrder > 0
        /\ b.firstOutOfOrder >= 0
        /\ \E j \in off .. b.maxPosOff - 1 :
              /\ \A o \in off .. j : HasUnit(b, o) /\ ~PktAt(b, o).order
              /\ AllOf(b, off, j, PktAt(b, off).msg)
              /\ PktAt(b, j).last

\* Searches from the start, as far as the unordered packets it has counted go.
updateFirstReadableOutOfOrder(b) ==
    LET offs == 0 .. b.maxPosOff - 1
        seen(j) == Cardinality(Unordered(b, 0 .. j))
        found == {i \in offs : \E j \in i .. b.maxPosOff - 1 :
                     UnorderedMessage(b, i, j) /\ seen(j) <= b.numOutOfOrder}
    IN  IF \/ hasReadableInorderPkts(b)
           \/ b.numOutOfOrder <= 0
           \/ b.firstOutOfOrder >= 0
           \/ found = {}
        THEN b
        ELSE [b EXCEPT !.firstOutOfOrder = PosAt(b, Min(found))]

-----------------------------------------------------------------------------
(* The operations                                                           *)

\* insert has room for packet k; otherwise it returns -2, -3 and changes nothing.
Fits(b, k) == k - b.startSeqNo \in 0 .. capacity - 1

insert(b, k) ==
    LET off == k - b.startSeqNo
        pos == PosAt(b, off)
        grown == [b EXCEPT !.maxPosOff = Max({@, off + 1})]
        stored == [grown EXCEPT !.entries[pos] = [status |-> "Avail", unit |-> k],
                                !.bytesCount = @ + PktLen,
                                !.pktsCount = @ + 1]
        counted == IF OutOfOrderMode /\ ~pkts[k].order
                   THEN onInsertNotInOrderPacket([stored EXCEPT !.numOutOfOrder = @ + 1], off)
                   ELSE stored
    IN  IF ~Fits(b, k) THEN b
        ELSE IF b.entries[pos].status # "Empty" THEN grown
        ELSE updateNonreadPos(counted)

\* The entries before seqno are emptied and the start moves there.
dropUpTo(b, seqno) ==
    LET len == seqno - b.startSeqNo
        gone == {PosAt(b, o) : o \in 0 .. len - 1}
        dropped == dropUnits(b, 0 .. len - 1)
        moved == releaseNextFillerEntries(
                    [dropped EXCEPT !.entries = [p \in Pos |-> IF p \in gone THEN Empty ELSE @[p]],
                                    !.maxPosOff = Max({0, @ - len}),
                                    !.startPos = incPos(@, len),
                                    !.startSeqNo = seqno])
        seen == IF isInRange(moved) THEN moved
                ELSE updateNonreadPos([moved EXCEPT !.nonreadPos = moved.startPos])
    IN  IF len <= 0 THEN b
        ELSE IF OutOfOrderMode THEN updateFirstReadableOutOfOrder(seen) ELSE seen

\* The offsets dropMessage drops by sequence number, out of from .. to - 1.
DropBySeqNo(b, from, to, keepExisting) ==
    {o \in from .. to - 1 : /\ EntryAt(b, o).status # "Drop"
                            /\ ~(keepExisting /\ HasUnit(b, o) /\ Solo(EntryAt(b, o).unit))}

\* Neither a kept solo packet nor the first packet of a message was met.
SearchByMsgNo(b, from, to, msgno, keepExisting) ==
    /\ msgno > SRT_MSGNO_CONTROL
    /\ \A o \in from .. to - 1 :
          EntryAt(b, o).status = "Drop" \/ ~HasUnit(b, o) \/
          (~PktAt(b, o).first \/ (PktAt(b, o).last /\ ~keepExisting))

\* The offsets dropped by message number: backwards from the range, up to the
\* first packet of the message.
DropByMsgNo(b, from, msgno, keepExisting) ==
    {o \in 0 .. from :
        /\ HasUnit(b, o)
        /\ \A x \in o .. from : HasUnit(b, x) =>
              /\ PktAt(b, x).msg = msgno
              /\ ~(keepExisting /\ Solo(EntryAt(b, x).unit))
              /\ x > o => ~PktAt(b, x).first \/ PktAt(b, x).last}

markDropped(b, offs) ==
    LET gone == {PosAt(b, o) : o \in offs}
    IN  [dropUnits(b, offs) EXCEPT
            !.entries = [p \in Pos |-> IF p \in gone THEN [status |-> "Drop", unit |-> NoUnit]
                                       ELSE @[p]]]

dropMessage(b, seqnolo, seqnohi, msgno, keepExisting) ==
    LET offset_a == seqnolo - b.startSeqNo
        offset_b == seqnohi - b.startSeqNo
        from == Max({0, offset_a})
        to == Min({Size - 1, offset_b + 1})
        D == DropBySeqNo(b, from, to, keepExisting)
        b1 == markDropped(b, D)
        B == IF SearchByMsgNo(b, from, to, msgno, keepExisting) /\ from < Size - 1
             THEN DropByMsgNo(b1, from, msgno, keepExisting) ELSE {}
        b2 == markDropped(b1, B)
        needUpdateNonreadPos == D \cup B # {} /\ Min(D \cup B) <= getRcvDataSize(b2)
        b3 == releaseNextFillerEntries(b2)
        b4 == IF needUpdateNonreadPos
              THEN updateNonreadPos([b3 EXCEPT !.nonreadPos = b3.startPos]) ELSE b3
        b5 == IF checkFirstReadableOutOfOrder(b4) THEN b4 ELSE [b4 EXCEPT !.firstOutOfOrder = -1]
    IN  IF offset_b < 0 \/ offset_a >= Size THEN b
        ELSE IF OutOfOrderMode THEN updateFirstReadableOutOfOrder(b5) ELSE b4

\* Faulty: reading goes on past the end of the message.
BadReadOffsets(b) ==
    LET from == IF hasReadableInorderPkts(b) THEN 0 ELSE offPos(b.startPos, b.firstOutOfOrder)
        to == IF hasReadableInorderPkts(b) THEN getRcvDataSize(b) - 1 ELSE from
    IN  {o \in from .. to : HasUnit(b, o)}

\* The offsets readMessage takes: up to the packet that ends the message.
ReadOffsets(b) ==
    LET from == IF hasReadableInorderPkts(b) THEN 0 ELSE offPos(b.startPos, b.firstOutOfOrder)
        to == Min({o \in from .. Size - 1 : ~HasUnit(b, o) \/ PktAt(b, o).last} \cup {Size})
    IN  {o \in from .. to : o < Size /\ HasUnit(b, o)}

readMessage(b) ==
    LET offs == ReadOffsets(b)
        n == Cardinality(offs)
        readPos == PosAt(b, Min(offs))
        inOrder == readPos = b.startPos
        taken == {PosAt(b, o) : o \in offs}
        mark == IF inOrder THEN Empty ELSE [status |-> "Read", unit |-> NoUnit]
        b1 == [b EXCEPT !.entries = [p \in Pos |-> IF p \in taken THEN mark ELSE @[p]],
                        !.startPos = IF inOrder THEN incPos(@, n) ELSE @,
                        !.startSeqNo = IF inOrder THEN @ + n ELSE @,
                        !.maxPosOff = IF inOrder THEN @ - n ELSE @,
                        !.numOutOfOrder = Max({0, @ - Cardinality(Unordered(b, offs))}),
                        !.firstOutOfOrder = IF readPos = @ THEN -1 ELSE @,
                        !.bytesCount = @ - n * PktLen,
                        !.pktsCount = @ - n]
        b2 == releaseNextFillerEntries(b1)
        b3 == IF isInRange(b2) THEN b2 ELSE [b2 EXCEPT !.nonreadPos = b2.startPos]
    IN  IF tsbpdEnabled THEN b3 ELSE updateFirstReadableOutOfOrder(b3)

\* readBufferTo: len bytes, or all that can be read, from the notch on.
readBuffer(b, len) ==
    LET taken == Min({len, getRcvDataSize(b) * PktLen - b.notch})
        n == (b.notch + taken) \div PktLen
        passed == {PosAt(b, o) : o \in 0 .. n - 1}
        b1 == [b EXCEPT !.entries = [p \in Pos |-> IF p \in passed THEN Empty ELSE @[p]],
                        !.startPos = incPos(@, n),
                        !.startSeqNo = @ + n,
                        !.maxPosOff = @ - n,
                        !.notch = (@ + taken) % PktLen,
                        !.bytesCount = @ - taken,
                        !.pktsCount = @ - 1]
    IN  IF isInRange(b1) THEN b1 ELSE [b1 EXCEPT !.nonreadPos = b1.startPos]

hasAvailablePackets(b) ==
    hasReadableInorderPkts(b) \/ (b.numOutOfOrder > 0 /\ b.firstOutOfOrder # -1)

-----------------------------------------------------------------------------
(* The receiver that uses the buffer (core.cpp)                             *)

Init ==
    /\ mode \in Modes
    /\ pkts \in Streams
    \* in live mode a packet is a message of its own; only messages may be unordered
    /\ mode = "live" => \A k \in PktNos : Solo(k)
    /\ mode # "message" => \A k \in PktNos : pkts[k].order
    /\ delivered = {}
    /\ buf = [entries |-> [p \in Pos |-> Empty], startSeqNo |-> 0, startPos |-> 0,
              nonreadPos |-> 0, maxPosOff |-> 0, notch |-> 0, numOutOfOrder |-> 0,
              firstOutOfOrder |-> -1, bytesCount |-> 0, pktsCount |-> 0]

\* handleSocketPacketReception: packet k arrives, possibly again.
Insert(k) ==
    /\ buf' = insert(buf, k)
    /\ UNCHANGED <<mode, pkts, delivered>>

\* handleSocketPacketReception: packet k is stored but cannot be decrypted.
InsertUndecryptable(k) ==
    /\ mode = "live"
    /\ Fits(buf, k)
    /\ EntryAt(buf, k - buf.startSeqNo).status = "Empty"
    /\ buf' = dropMessage(insert(buf, k), k, k, SRT_MSGNO_NONE, FALSE)
    /\ UNCHANGED <<mode, pkts, delivered>>

\* rcvDropTooLateUpTo
DropTooLate(seqno) ==
    /\ mode = "live"
    /\ seqno \in buf.startSeqNo + 1 .. buf.startSeqNo + buf.maxPosOff
    /\ buf' = dropUpTo(buf, seqno)
    /\ UNCHANGED <<mode, pkts, delivered>>

\* processCtrlDropReq: the rest of a message, from lo on, has expired.
DropExpired(lo, hi) ==
    /\ mode = "message"
    /\ pkts[hi].last /\ pkts[lo].msg = pkts[hi].msg
    /\ buf' = dropMessage(buf, lo, hi, pkts[hi].msg, TRUE)
    /\ UNCHANGED <<mode, pkts, delivered>>

\* processCtrlDropReq: the answer to an outdated loss report, for packets that
\* have been acknowledged (processCtrlLossReport sends no message number).
DropOutdated(lo, hi) ==
    /\ mode \in Outdated
    /\ lo <= hi
    /\ \A k \in lo .. hi :
          k < buf.startSeqNo \/ (Fits(buf, k) /\ EntryAt(buf, k - buf.startSeqNo).status # "Empty")
    /\ buf' = dropMessage(buf, lo, hi, SRT_MSGNO_CONTROL, TRUE)
    /\ UNCHANGED <<mode, pkts, delivered>>

\* receiveMessage
ReadMessage ==
    /\ bMessageAPI
    /\ hasAvailablePackets(buf)
    /\ buf' = readMessage(buf)
    /\ delivered' = delivered \cup {EntryAt(buf, o).unit : o \in ReadOffsets(buf)}
    /\ UNCHANGED <<mode, pkts>>

\* receiveBuffer
ReadBuffer(len) ==
    /\ mode = "stream"
    /\ hasReadableInorderPkts(buf)
    /\ buf' = readBuffer(buf, len)
    /\ delivered' = delivered \cup buf.startSeqNo .. buf'.startSeqNo - 1
    /\ UNCHANGED <<mode, pkts>>

Next ==
    \/ \E k \in PktNos : Insert(k) \/ InsertUndecryptable(k)
    \/ \E seqno \in 1 .. NumPkts : DropTooLate(seqno)
    \/ \E lo, hi \in PktNos : DropExpired(lo, hi) \/ DropOutdated(lo, hi)
    \/ ReadMessage
    \/ \E len \in 1 .. PktLen * capacity : ReadBuffer(len)

Spec == Init /\ [][Next]_vars
-----------------------------------------------------------------------------
\* The fields stay in their ranges.
TypeOK ==
    /\ buf.entries \in [Pos -> [status : {"Empty", "Avail", "Read", "Drop"},
                                unit : PktNos \cup {NoUnit}]]
    /\ buf.startSeqNo \in 0 .. NumPkts
    /\ buf.startPos \in Pos /\ buf.nonreadPos \in Pos
    /\ buf.maxPosOff \in 0 .. capacity
    /\ buf.notch \in 0 .. PktLen - 1
    /\ buf.numOutOfOrder \in 0 .. capacity
    /\ buf.firstOutOfOrder \in Pos \cup {-1}
    /\ delivered \subseteq PktNos

\* A unit is stored exactly where its sequence number says, in the used part of
\* the ring, and only available entries have one.
UnitsInPlace ==
    \A off \in 0 .. Size - 1 :
        /\ HasUnit(buf, off) <=> EntryAt(buf, off).status = "Avail"
        /\ HasUnit(buf, off) => /\ EntryAt(buf, off).unit = buf.startSeqNo + off
                                /\ off < buf.maxPosOff

\* The start never rests on an entry already read or dropped.
StartIsFresh == EntryAt(buf, 0).status \in {"Empty", "Avail"}

\* What is announced as readable in order is there: whole messages, up to the
\* non-read position (readMessage asserts it, buffer_rcv.cpp:414).
ReadableIsWhole == hasReadableInorderPkts(buf) => Whole(buf, 0, getRcvDataSize(buf))

\* The count of unordered packets is exact: the search of
\* updateFirstReadableOutOfOrder runs until it has seen that many
\* (buffer_rcv.cpp:966) and would never end with a larger count.
UnorderedCountExact ==
    buf.numOutOfOrder = IF OutOfOrderMode THEN Cardinality(Unordered(buf, 0 .. Size - 1)) ELSE 0

\* The message announced for reading out of order is complete and unordered.
OutOfOrderIsComplete ==
    buf.firstOutOfOrder # -1 =>
        LET off == offPos(buf.startPos, buf.firstOutOfOrder)
        IN  \E j \in off .. buf.maxPosOff - 1 : UnorderedMessage(buf, off, j)

\* The ring, its counters and what it announces agree: units in place, a fresh
\* start, an exact count of unordered packets, and only whole messages announced.
RcvBufferExact ==
    /\ TypeOK /\ UnitsInPlace /\ StartIsFresh /\ UnorderedCountExact
    /\ ReadableIsWhole /\ OutOfOrderIsComplete

\* Reading hands over one whole message that was never handed over before.
HandsOverWhole ==
    delivered' # delivered /\ bMessageAPI =>
        /\ \E m \in 1 .. NumPkts : delivered' \ delivered = {k \in PktNos : pkts[k].msg = m}
        /\ buf.startSeqNo + Min(ReadOffsets(buf)) \notin delivered
DeliversWholeOnce == [][HandsOverWhole]_vars

Stored == {buf.entries[p].unit : p \in Pos} \ {NoUnit}

\* What docs/API/API-functions.md says of srt_recv in stream mode: data that is
\* available but not extracted this time will be available next time.
UnreadDataWaits ==
    [][mode = "stream" =>
          \A k \in Stored : k < buf.startSeqNo + getRcvDataSize(buf) => k \in Stored' \cup delivered']_vars
==============================================================================
