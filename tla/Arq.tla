--------------------------------- MODULE Arq ---------------------------------
(***************************************************************************)
(* The transmission of one direction of a connection in file mode          *)
(* (srtcore/core.cpp): a sending CUDT, a network that loses, duplicates    *)
(* and reorders packets, and a receiving CUDT.  No TSBPD and no too-late   *)
(* packet drop: what is sent must arrive, in order.                        *)
(*                                                                         *)
(* Five threads take steps: the application that writes, the sending       *)
(* queue's worker (packData), the sender's receiving queue worker (control *)
(* packets, timers), and on the other side the receiving queue's worker    *)
(* and the application that reads.                                         *)
(*                                                                         *)
(* A packet is its index in the stream, starting at 0 (the ISN): flight    *)
(* and buffers are far shorter than the sequence space, so the circular    *)
(* comparisons agree with < (ReceiverProofs).  Every sending call          *)
(* fills one packet.  The congestion window of FileCC, 16 packets or more, *)
(* is larger than the windows looked at.  The number of an ACK, which only *)
(* identifies it in the receiver's ACK window (window.cpp), is left out: an *)
(* ACKACK carries the position its ACK announced.                          *)
(***************************************************************************)
EXTENDS Integers, FiniteSets, FiniteSetsExt

CONSTANTS NumPkts,         \* bound: the number of packets the application writes
          Capacity,        \* packets that fit in the receiver buffer
          SndBufSize,      \* packets that fit in the sender buffer
          InitialWindow,   \* what the sender may send before the first full ACK
          MessageAPI,      \* m_config.bMessageAPI
          RcvNakReport,    \* m_config.bRcvNakReport, and thus m_bPeerNakReport
          MaxNet           \* bound: packets in the network at a time

ASSUME ArqAssumption ==
    /\ NumPkts \in Nat \ {0}
    /\ Capacity \in Nat \ {0}
    /\ SndBufSize \in Nat \ {0}
    \* the receiver buffer has 32 packets or more, FileCC starts with a window of 16
    /\ InitialWindow \in 1 .. Capacity
    /\ MessageAPI \in BOOLEAN
    /\ RcvNakReport \in BOOLEAN
    /\ MaxNet \in Nat \ {0}

VARIABLES SndNextSeqNo,    \* the next packet to be written into the sender buffer
          SndCurrSeqNo,    \* the largest packet sent
          SndLastAck,      \* the position of the last ACK, with the window's base
          SndLastDataAck,  \* the first packet in the sender buffer
          SndLossList,     \* packets to be sent again
          FlowWindowSize,  \* packets the receiver said it has room for
          SndUList,        \* whether the socket is scheduled for sending
          packing,         \* the sending worker has taken the socket off its list
          ackInHand,       \* the ACK of which only the first half is processed
          RcvCurrSeqNo,    \* the largest packet received
          StartSeqNo,      \* the first packet of the receiver buffer
          Avail,           \* the packets in the receiver buffer
          Dropped,         \* the packets it gave up
          RcvLossList,     \* packets missed
          RcvLastAck,      \* the last position acknowledged
          RcvLastAckAck,   \* the last position the sender is known to know
          BufferWasFull,   \* the last full ACK said there is no room
          PktCount,        \* packets have arrived since the last ACK, enough for a lite one
          delivered,       \* the packets handed to the application
          net              \* the packets in the network

sndVars == <<SndNextSeqNo, SndCurrSeqNo, SndLastAck, SndLastDataAck, SndLossList,
             FlowWindowSize, SndUList, packing, ackInHand>>

rcvVars == <<RcvCurrSeqNo, StartSeqNo, Avail, Dropped, RcvLossList, RcvLastAck,
             RcvLastAckAck, BufferWasFull, PktCount, delivered>>

vars == <<sndVars, rcvVars, net>>

SeqNos == 0 .. NumPkts - 1
Positions == 0 .. NumPkts

Data(k) == [type |-> "data", seqno |-> k]
FullAck(ack, left) == [type |-> "ack", ack |-> ack, left |-> left]
LiteAck(ack) == [type |-> "liteack", ack |-> ack]
AckAck(ack) == [type |-> "ackack", ack |-> ack]
LossReport(lo, hi) == [type |-> "lossreport", lo |-> lo, hi |-> hi]
DropReq(lo, hi) == [type |-> "dropreq", lo |-> lo, hi |-> hi]

Acks == {FullAck(ack, left) : ack \in Positions, left \in 0 .. Capacity}
            \cup {LiteAck(ack) : ack \in Positions}

Packets == Acks \cup {Data(k) : k \in SeqNos} \cup {AckAck(ack) : ack \in Positions}
            \cup {LossReport(lo, hi) : lo, hi \in SeqNos}
            \cup {DropReq(lo, hi) : lo, hi \in SeqNos}

NoAck == [type |-> "none"]

Init ==
    /\ SndNextSeqNo = 0 /\ SndCurrSeqNo = -1
    /\ SndLastAck = 0 /\ SndLastDataAck = 0
    /\ SndLossList = {}
    /\ FlowWindowSize = InitialWindow
    /\ SndUList = FALSE /\ packing = FALSE /\ ackInHand = NoAck
    /\ RcvCurrSeqNo = -1 /\ StartSeqNo = 0
    /\ Avail = {} /\ Dropped = {}
    /\ RcvLossList = {}
    /\ RcvLastAck = 0 /\ RcvLastAckAck = 0
    /\ BufferWasFull = FALSE /\ PktCount = FALSE
    /\ delivered = {}
    /\ net = {}

\* The packets of ps, at most one, are sent; a full network loses an older one.
Transmit(ps) ==
    IF Cardinality(net \cup ps) <= MaxNet THEN net' = net \cup ps
    ELSE \E p \in net : net' = (net \ {p}) \cup ps
-----------------------------------------------------------------------------
(* The sender: the application and the sending queue's worker               *)

\* The packets in flight after lastack.
FlightSpan(lastack) == IF lastack <= SndCurrSeqNo THEN SndCurrSeqNo - lastack + 1 ELSE 0

getFlightSpan == FlightSpan(SndLastAck)

\* sendmsg2, once there is room in the sender buffer
sendmsg2 ==
    /\ SndNextSeqNo < NumPkts
    /\ SndNextSeqNo - SndLastDataAck < SndBufSize
    /\ SndNextSeqNo' = SndNextSeqNo + 1
    /\ SndUList' = TRUE
    /\ UNCHANGED <<SndCurrSeqNo, SndLastAck, SndLastDataAck, SndLossList, FlowWindowSize,
                   packing, ackInHand, rcvVars, net>>

\* CSndQueue::worker takes the socket off its list before it looks for data.
pop ==
    /\ SndUList /\ ~packing
    /\ SndUList' = FALSE
    /\ packing' = TRUE
    /\ UNCHANGED <<SndNextSeqNo, SndCurrSeqNo, SndLastAck, SndLastDataAck, SndLossList,
                   FlowWindowSize, ackInHand, rcvVars, net>>

\* packData: packets lost come first.  (They are all in the sender buffer:
\* LossesInBuffer, so getCleanRexmitOffset has nothing to drop.)
packLostData ==
    /\ packing
    /\ SndLossList # {}
    /\ SndLossList' = SndLossList \ {Min(SndLossList)}
    /\ Transmit({Data(Min(SndLossList))})
    /\ SndUList' = TRUE
    /\ packing' = FALSE
    /\ UNCHANGED <<SndNextSeqNo, SndCurrSeqNo, SndLastAck, SndLastDataAck, FlowWindowSize,
                   ackInHand, rcvVars>>

\* A packet sent again a moment ago is passed over (checkRexmitRightTime), if
\* the receiver repeats its loss reports.
skipLostData ==
    /\ packing
    /\ RcvNakReport
    /\ SndLossList # {}
    /\ SndLossList' = SndLossList \ {Min(SndLossList)}
    /\ UNCHANGED <<SndNextSeqNo, SndCurrSeqNo, SndLastAck, SndLastDataAck, FlowWindowSize,
                   SndUList, packing, ackInHand, rcvVars, net>>

\* packUniqueData has a packet to send and the flow window lets it.
MaySend ==
    /\ SndCurrSeqNo + 1 < SndNextSeqNo
    /\ getFlightSpan < FlowWindowSize

packUniqueData ==
    /\ packing
    /\ SndLossList = {}
    /\ MaySend
    /\ SndCurrSeqNo' = SndCurrSeqNo + 1
    /\ Transmit({Data(SndCurrSeqNo + 1)})
    /\ SndUList' = TRUE
    /\ packing' = FALSE
    /\ UNCHANGED <<SndNextSeqNo, SndLastAck, SndLastDataAck, SndLossList, FlowWindowSize,
                   ackInHand, rcvVars>>

\* packData has nothing: the socket stays off the list, unless some other
\* thread has put it there meanwhile.
packNothing ==
    /\ packing
    /\ SndLossList = {}
    /\ ~MaySend
    /\ packing' = FALSE
    /\ UNCHANGED <<SndNextSeqNo, SndCurrSeqNo, SndLastAck, SndLastDataAck, SndLossList,
                   FlowWindowSize, SndUList, ackInHand, rcvVars, net>>
-----------------------------------------------------------------------------
(* The sender: its receiving queue's worker                                 *)

\* processCtrlAck, first critical section (updateSndLossListOnACK): the
\* acknowledged packets leave the sender buffer.
processCtrlAck(p) ==
    /\ ackInHand = NoAck
    /\ p \in net \cap Acks
    /\ SndLastDataAck' = Max({SndLastDataAck, p.ack})
    /\ SndLossList' = SndLossList \ 0 .. p.ack - 1
    /\ SndUList' = (SndUList \/ p.ack > SndLastDataAck)
    /\ ackInHand' = p
    /\ UNCHANGED <<SndNextSeqNo, SndCurrSeqNo, SndLastAck, FlowWindowSize, packing,
                   rcvVars, net>>

\* Second section, for a lite ACK: it says nothing of the room left, so the
\* window shrinks by what is acknowledged.
lightAck ==
    /\ ackInHand.type = "liteack"
    /\ SndLastAck' = Max({SndLastAck, ackInHand.ack})
    /\ FlowWindowSize' = FlowWindowSize - (SndLastAck' - SndLastAck)
    /\ ackInHand' = NoAck
    /\ UNCHANGED <<SndNextSeqNo, SndCurrSeqNo, SndLastDataAck, SndLossList, SndUList, packing,
                   rcvVars, net>>

\* Faulty: the window of an overtaken ACK is taken too.
BadfullAck ==
    /\ ackInHand.type = "ack"
    /\ Transmit({AckAck(ackInHand.ack)})
    /\ SndLastAck' = Max({SndLastAck, ackInHand.ack})
    /\ FlowWindowSize' = ackInHand.left
    /\ ackInHand' = NoAck
    /\ UNCHANGED <<SndNextSeqNo, SndCurrSeqNo, SndLastDataAck, SndLossList, SndUList, packing,
                   rcvVars>>

\* Second section, for a full ACK: it is confirmed, unless another one was a
\* moment ago, and the window is set together with its base.
fullAck ==
    /\ ackInHand.type = "ack"
    /\ Transmit({AckAck(ackInHand.ack)}) \/ UNCHANGED net
    /\ IF ackInHand.ack >= SndLastAck
       THEN /\ SndLastAck' = ackInHand.ack
            /\ FlowWindowSize' = ackInHand.left
            /\ SndUList' = (SndUList \/ (FlowWindowSize <= getFlightSpan
                                          /\ ackInHand.left > FlightSpan(ackInHand.ack)))
       ELSE UNCHANGED <<SndLastAck, FlowWindowSize, SndUList>>
    /\ ackInHand' = NoAck
    /\ UNCHANGED <<SndNextSeqNo, SndCurrSeqNo, SndLastDataAck, SndLossList, packing, rcvVars>>

\* Faulty: the drop request covers the whole report.
BadprocessCtrlLossReport(p) ==
    /\ ackInHand = NoAck
    /\ p \in net /\ p.type = "lossreport"
    /\ SndLossList' = SndLossList \cup Max({p.lo, SndLastAck}) .. p.hi
    /\ Transmit(IF p.lo <= SndLastAck THEN {DropReq(p.lo, p.hi)} ELSE {})
    /\ SndUList' = TRUE
    /\ UNCHANGED <<SndNextSeqNo, SndCurrSeqNo, SndLastAck, SndLastDataAck, FlowWindowSize,
                   packing, ackInHand, rcvVars>>

\* What the report says of packets already acknowledged is answered by a
\* drop request.
processCtrlLossReport(p) ==
    /\ ackInHand = NoAck
    /\ p \in net /\ p.type = "lossreport"
    /\ SndLossList' = SndLossList \cup Max({p.lo, SndLastAck}) .. p.hi
    /\ Transmit(IF p.lo < SndLastAck THEN {DropReq(p.lo, Min({p.hi, SndLastAck - 1}))} ELSE {})
    /\ SndUList' = TRUE
    /\ UNCHANGED <<SndNextSeqNo, SndCurrSeqNo, SndLastAck, SndLastDataAck, FlowWindowSize,
                   packing, ackInHand, rcvVars>>

\* Faulty: nothing is put on the loss list.
BadcheckRexmitTimer ==
    /\ ackInHand = NoAck
    /\ SndNextSeqNo > SndLastDataAck
    /\ SndUList' = TRUE
    /\ UNCHANGED <<SndNextSeqNo, SndCurrSeqNo, SndLastAck, SndLastDataAck, SndLossList,
                   FlowWindowSize, packing, ackInHand, rcvVars, net>>

\* LATEREXMIT: when no ACK has come for some time and no loss is known, all
\* that is in flight is sent again.
checkRexmitTimer ==
    /\ ackInHand = NoAck
    /\ SndNextSeqNo > SndLastDataAck
    /\ SndLossList' = IF getFlightSpan > 0 /\ SndLossList = {} THEN SndLastAck .. SndCurrSeqNo
                      ELSE SndLossList
    /\ SndUList' = TRUE
    /\ UNCHANGED <<SndNextSeqNo, SndCurrSeqNo, SndLastAck, SndLastDataAck, FlowWindowSize,
                   packing, ackInHand, rcvVars, net>>
-----------------------------------------------------------------------------
(* The receiver                                                             *)

\* The first of the positions from s on that is not in S.
FirstNotIn(S, s) == Min({k \in s .. NumPkts : k \notin S})

getFirstNonreadSeqNo == FirstNotIn(Avail, StartSeqNo)

\* Faulty: losses are not looked at.
BadgetFirstNoncontSequence == RcvCurrSeqNo + 1

\* Faulty: one packet too many is acknowledged.
BadgetFirstNoncontSequence2 ==
    IF RcvLossList # {} THEN Min(RcvLossList) ELSE RcvCurrSeqNo + 2

getFirstNoncontSequence ==
    IF ~MessageAPI THEN Min({getFirstNonreadSeqNo, RcvCurrSeqNo + 1})
    ELSE IF RcvLossList # {} THEN Min(RcvLossList)
    ELSE RcvCurrSeqNo + 1

\* The room in the buffer, if position ack is the first not acknowledged.
getAvailSize(ack) == IF StartSeqNo >= ack THEN Capacity ELSE Capacity - (ack - StartSeqNo)

\* handleSocketPacketReception goes on with packet k: it is neither belated
\* nor beyond the buffer.
Acceptable(k) == k >= StartSeqNo /\ k >= RcvLastAck /\ k - StartSeqNo < Capacity

\* Faulty: the first missing packet is left out.
BadGapBefore(k) == IF k \in Avail \cup Dropped THEN {} ELSE RcvCurrSeqNo + 2 .. k - 1

\* What was skipped before packet k, if k is not in the buffer yet.
GapBefore(k) == IF k \in Avail \cup Dropped THEN {} ELSE RcvCurrSeqNo + 1 .. k - 1

\* processData: a gap before the packet is recorded and reported at once (the
\* reorder tolerance is 0).
processData(p) ==
    LET k == p.seqno
        gap == GapBefore(k)
    IN  /\ p \in net /\ p.type = "data"
        /\ Acceptable(k)
        /\ Avail' = IF k \in Dropped THEN Avail ELSE Avail \cup {k}
        /\ RcvLossList' = IF k > RcvCurrSeqNo THEN RcvLossList \cup gap ELSE RcvLossList \ {k}
        /\ RcvCurrSeqNo' = Max({RcvCurrSeqNo, k})
        /\ PktCount' = TRUE
        /\ Transmit(IF gap = {} THEN {} ELSE {LossReport(Min(gap), Max(gap))})
        /\ UNCHANGED <<StartSeqNo, Dropped, RcvLastAck, RcvLastAckAck, BufferWasFull,
                       delivered, sndVars>>

\* processData: a belated packet, or one beyond the buffer, is only counted.
rejectData(p) ==
    /\ p \in net /\ p.type = "data"
    /\ ~Acceptable(p.seqno)
    /\ PktCount' = TRUE
    /\ UNCHANGED <<RcvCurrSeqNo, StartSeqNo, Avail, Dropped, RcvLossList, RcvLastAck,
                   RcvLastAckAck, BufferWasFull, delivered, sndVars, net>>

\* There is room again since the last full ACK.
needFullAck == BufferWasFull /\ getAvailSize(RcvLastAck) > 0

\* The position is not confirmed yet, or there is room to be announced.
needAck(ack) == (RcvLastAckAck # ack /\ ack >= RcvLastAck) \/ needFullAck

\* checkACKTimer and sendCtrlAck.  A position already acknowledged is repeated
\* after a round trip.  (The reader may read while the buffer's lock is
\* released half way; the outcome is that of reading before.)
sendCtrlAck ==
    LET ack == getFirstNoncontSequence
        last == IF ack > RcvLastAck THEN ack ELSE RcvLastAck
        left == getAvailSize(last)
    IN  /\ needAck(ack)
        /\ RcvLastAck' = last
        /\ IF last > RcvLastAckAck \/ needFullAck
           THEN BufferWasFull' = (left = 0) /\ Transmit({FullAck(last, left)})
           ELSE UNCHANGED <<BufferWasFull, net>>
        /\ PktCount' = FALSE
        /\ UNCHANGED <<RcvCurrSeqNo, StartSeqNo, Avail, Dropped, RcvLossList, RcvLastAckAck,
                       delivered, sndVars>>

\* sendCtrlAck returns early: the position is confirmed, or was sent a moment ago.
holdAck ==
    /\ PktCount
    /\ getFirstNoncontSequence <= RcvLastAck
    /\ ~needFullAck
    /\ PktCount' = FALSE
    /\ UNCHANGED <<RcvCurrSeqNo, StartSeqNo, Avail, Dropped, RcvLossList, RcvLastAck,
                   RcvLastAckAck, BufferWasFull, delivered, sndVars, net>>

\* checkACKTimer after many packets: a lite ACK, which leaves no other trace.
sendCtrlLiteAck ==
    /\ PktCount
    /\ RcvLastAckAck # getFirstNoncontSequence
    /\ ~needFullAck
    /\ Transmit({LiteAck(getFirstNoncontSequence)})
    /\ PktCount' = FALSE
    /\ UNCHANGED <<RcvCurrSeqNo, StartSeqNo, Avail, Dropped, RcvLossList, RcvLastAck,
                   RcvLastAckAck, BufferWasFull, delivered, sndVars>>

processCtrlAckAck(p) ==
    /\ p \in net /\ p.type = "ackack"
    /\ p.ack > RcvLastAckAck
    /\ RcvLastAckAck' = p.ack
    /\ UNCHANGED <<RcvCurrSeqNo, StartSeqNo, Avail, Dropped, RcvLossList, RcvLastAck,
                   BufferWasFull, PktCount, delivered, sndVars, net>>

\* checkNAKTimer: the loss list is reported again, here range by range.
checkNAKTimer(lo, hi) ==
    /\ RcvNakReport
    /\ lo .. hi # {} /\ lo .. hi \subseteq RcvLossList
    /\ lo - 1 \notin RcvLossList /\ hi + 1 \notin RcvLossList
    /\ Transmit({LossReport(lo, hi)})
    /\ UNCHANGED <<sndVars, rcvVars>>

\* processCtrlDropReq: dropMessage gives up what is missing of lo .. hi (a
\* packet that is a message of its own is kept), and the start moves past it.
processCtrlDropReq(p) ==
    LET missing == {k \in p.lo .. p.hi : /\ k \in StartSeqNo .. StartSeqNo + Capacity - 1
                                         /\ k \notin Avail}
        gone == Dropped \cup missing
        start == FirstNotIn(gone, StartSeqNo)
    IN  /\ p \in net /\ p.type = "dropreq"
        /\ StartSeqNo' = start
        /\ Dropped' = {k \in gone : k >= start}
        /\ RcvLossList' = RcvLossList \ p.lo .. p.hi
        /\ RcvCurrSeqNo' = IF p.lo <= RcvCurrSeqNo + 1 THEN Max({RcvCurrSeqNo, p.hi})
                           ELSE RcvCurrSeqNo
        /\ UNCHANGED <<Avail, RcvLastAck, RcvLastAckAck, BufferWasFull, PktCount, delivered, sndVars, net>>

\* receiveMessage or receiveBuffer: the first packet is handed over; only the
\* former passes the packets given up behind it.
receive ==
    /\ StartSeqNo \in Avail
    /\ delivered' = delivered \cup {StartSeqNo}
    /\ Avail' = Avail \ {StartSeqNo}
    /\ StartSeqNo' = IF MessageAPI THEN FirstNotIn(Dropped, StartSeqNo + 1) ELSE StartSeqNo + 1
    /\ Dropped' = {k \in Dropped : k >= StartSeqNo'}
    /\ UNCHANGED <<RcvCurrSeqNo, RcvLossList, RcvLastAck, RcvLastAckAck, BufferWasFull,
                   PktCount, sndVars, net>>
-----------------------------------------------------------------------------
(* The network: packets stay, so that they can arrive again, until lost     *)

lose(p) ==
    /\ p \in net
    /\ net' = net \ {p}
    /\ UNCHANGED <<sndVars, rcvVars>>

SendingWorker == pop \/ packLostData \/ skipLostData \/ packUniqueData \/ packNothing

Next ==
    \/ sendmsg2 \/ SendingWorker
    \/ lightAck \/ fullAck \/ checkRexmitTimer
    \/ sendCtrlAck \/ holdAck \/ sendCtrlLiteAck \/ receive
    \/ \E lo, hi \in SeqNos : checkNAKTimer(lo, hi)
    \/ \E p \in net : processCtrlAck(p)
    \/ \E p \in net : processCtrlLossReport(p)
    \/ \E p \in net : processData(p)
    \/ \E p \in net : rejectData(p)
    \/ \E p \in net : processCtrlAckAck(p)
    \/ \E p \in net : processCtrlDropReq(p)
    \/ \E p \in net : lose(p)

Spec == Init /\ [][Next]_vars

\* A packet the receiver lacks, an ACK that tells the sender something.
NewData(p) == p.type = "data" /\ p.seqno \notin Avail

NewAck(p) ==
    /\ p \in Acks
    /\ \/ p.ack > SndLastDataAck
       \/ p.type = "ack" /\ p.ack >= SndLastAck /\ p.left > FlowWindowSize

\* The threads run, timers that are not put off expire, and the SYN interval
\* passes in which no second ACK is confirmed.  Data and ACKs do not arrive again
\* for ever, and what is sent again and again gets through.
Fairness ==
    /\ WF_vars(SendingWorker) /\ WF_vars(lightAck \/ fullAck) /\ WF_vars(checkRexmitTimer)
    /\ WF_vars(sendCtrlAck) /\ WF_vars(receive)
    /\ SF_vars(fullAck /\ Transmit({AckAck(ackInHand.ack)}))
    /\ \A p \in Acks \cup {Data(k) : k \in SeqNos} : WF_vars(lose(p))
    /\ SF_vars(\E p \in net : NewData(p) /\ processData(p))
    /\ SF_vars(\E p \in net : NewAck(p) /\ processCtrlAck(p))
    /\ SF_vars(\E p \in net : processCtrlAckAck(p))

FairSpec == Spec /\ Fairness
-----------------------------------------------------------------------------
\* The variables stay in their ranges.
TypeOK ==
    /\ SndNextSeqNo \in Positions /\ SndCurrSeqNo \in -1 .. NumPkts - 1
    /\ SndLastAck \in Positions /\ SndLastDataAck \in Positions
    /\ SndLossList \subseteq SeqNos
    /\ FlowWindowSize \in -NumPkts .. Capacity
    /\ SndUList \in BOOLEAN /\ packing \in BOOLEAN
    /\ ackInHand \in Acks \cup {NoAck}
    /\ RcvCurrSeqNo \in -1 .. NumPkts - 1 /\ StartSeqNo \in Positions
    /\ Avail \subseteq SeqNos /\ Dropped \subseteq SeqNos /\ RcvLossList \subseteq SeqNos
    /\ RcvLastAck \in Positions /\ RcvLastAckAck \in Positions
    /\ BufferWasFull \in BOOLEAN /\ PktCount \in BOOLEAN
    /\ delivered \subseteq SeqNos
    /\ net \subseteq Packets

\* The application gets every packet, none skipped: what the receiver buffer has
\* passed was delivered.
DeliveredWithoutGap == delivered = 0 .. StartSeqNo - 1

\* A packet leaves the sender buffer only when the receiver has it.
AckedIsReceived == \A k \in 0 .. SndLastDataAck - 1 : k \in delivered \cup Avail

\* In file mode no packet arrives that is beyond the receiver buffer, "because
\* the sender should stop sending in this situation" (core.cpp:10874).
NoOverflow == SndCurrSeqNo - StartSeqNo < Capacity

\* No ACK or loss report is on its way that the sender would take for an attack
\* and break the connection (core.cpp:8882, 9318).
ControlAccepted ==
    \A p \in net : /\ p \in Acks => p.ack <= SndCurrSeqNo + 1
                   /\ p.type = "lossreport" => p.hi <= SndCurrSeqNo

\* Packets to be sent again are still in the sender buffer (getCleanRexmitOffset
\* says of the other case that it is likely never executed).
LossesInBuffer == SndLossList \subseteq SndLastDataAck .. SndCurrSeqNo

\* The receiver's loss list is exactly what is missing below the largest packet.
LossListExact == RcvLossList = {k \in 0 .. RcvCurrSeqNo : k \notin delivered \cup Avail}

\* The position to acknowledge does not fall behind the last one acknowledged
\* ("Not possible", core.cpp:8623), nor that behind the one confirmed.
AckPositionsOrdered ==
    RcvLastAckAck <= RcvLastAck /\ RcvLastAck <= getFirstNoncontSequence

\* The two ends' records of what is lost and of what is acknowledged are exact.
BookkeepingExact == TypeOK /\ LossesInBuffer /\ LossListExact /\ AckPositionsOrdered

\* Everything written is delivered (both sides of the implication last).
EverythingDelivered == []<>(\A k \in SeqNos : SndNextSeqNo > k => k \in delivered)

\* ... and leaves the sender buffer.
SenderBufferDrains == []<>(SndLastDataAck = SndNextSeqNo)

\* Whatever the network loses and reorders, retransmission and acknowledgement bring
\* every packet to the application and empty the sender buffer.
TransferCompletes == EverythingDelivered /\ SenderBufferDrains

\* What the comment in sendCtrlAck says of the ACK sent when there is room again:
\* it unblocks the sender.
RoomUnblocksSender ==
    \A k \in SeqNos : (SndNextSeqNo > k /\ FlowWindowSize = 0) ~> (SndCurrSeqNo >= k)
==============================================================================
