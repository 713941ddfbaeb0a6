------------------------------ MODULE ArqProofs ------------------------------
(***************************************************************************)
(* Proofs about the transmission in file mode, for every number of packets,*)
(* every size of the buffers and of the network, in message and in stream  *)
(* mode: nothing is skipped, nothing leaves the sender buffer too early    *)
(* and the receiver buffer never overflows, whatever the network loses,    *)
(* repeats or delays.                                                      *)
(***************************************************************************)
EXTENDS Arq, WellFoundedInduction, TLAPS

(* The receiver has all packets before position a.                         *)
Received(a) == \A k \in SeqNos : k < a => k \in delivered \cup Avail

(* What is true of every packet on its way, however old.                   *)
PacketOK(p) ==
    /\ p.type = "data" => p.seqno <= SndCurrSeqNo
    /\ p.type \in {"ack", "liteack"} => Received(p.ack)
    /\ p.type = "ack" => p.ack + p.left <= StartSeqNo + Capacity
    /\ p.type \in {"ack", "ackack"} => p.ack <= RcvLastAck
    /\ p.type = "lossreport" => p.hi <= RcvCurrSeqNo
    /\ p.type = "dropreq" => p.hi < SndLastAck

PacketsOK == \A p \in net \cup {ackInHand} : PacketOK(p)

(* The receiver: nothing is ever given up.                                 *)
ReceiverOK ==
    /\ Dropped = {}
    /\ DeliveredWithoutGap
    /\ Avail \subseteq StartSeqNo .. RcvCurrSeqNo
    /\ StartSeqNo <= RcvCurrSeqNo + 1
    /\ LossListExact
    /\ Received(RcvLastAck)
    /\ RcvLastAckAck <= RcvLastAck

(* The sender: between the two halves of processCtrlAck its two positions  *)
(* differ by the ACK in hand.                                              *)
SenderOK ==
    /\ RcvCurrSeqNo <= SndCurrSeqNo /\ SndCurrSeqNo < SndNextSeqNo
    /\ Received(SndLastDataAck)
    /\ SndLastAck <= SndLastDataAck
    /\ IF ackInHand = NoAck THEN SndLastAck = SndLastDataAck
       ELSE ackInHand.ack <= SndLastDataAck
            /\ SndLastDataAck \in {SndLastAck, ackInHand.ack}
    /\ LossesInBuffer

(* The window, as the sender knows it, is within the receiver buffer.      *)
WindowOK ==
    /\ 0 <= SndLastAck + FlowWindowSize
    /\ SndLastAck + FlowWindowSize <= StartSeqNo + Capacity
    /\ NoOverflow

(* The inductive invariant.                                                *)
IInv == TypeOK /\ ReceiverOK /\ SenderOK /\ WindowOK /\ PacketsOK
-----------------------------------------------------------------------------
(* The least element of a set of natural numbers.                          *)
LEMMA MinIsLeast ==
    ASSUME NEW S \in SUBSET Nat, S # {}
    PROVE  Min(S) \in S /\ \A y \in S : Min(S) <= y
  <1>1. PICK x \in S : \A y \in S : ~(<<y, x>> \in OpToRel(<, Nat))
    BY NatLessThanWellFounded, WFMin
  <1>2. \A y \in S : ~(y < x)
    BY <1>1, Zenon DEF OpToRel
  <1>3. \A y \in S : x <= y
    BY <1>2
  <1> QED
    BY <1>3, Zenon DEF Min

(* The ends of an interval.                                                *)
LEMMA IntervalEnds ==
    ASSUME NEW a \in Int, NEW b \in Int, a <= b
    PROVE  Min(a .. b) = a /\ Max(a .. b) = b
  <1>1. a \in a .. b /\ b \in a .. b /\ \A y \in a .. b : a <= y /\ b >= y
    OBVIOUS
  <1>2. Min(a .. b) \in a .. b /\ \A y \in a .. b : Min(a .. b) <= y
    BY <1>1 DEF Min
  <1>3. Max(a .. b) \in a .. b /\ \A y \in a .. b : Max(a .. b) >= y
    BY <1>1 DEF Max
  <1> QED
    BY <1>1, <1>2, <1>3

(* The larger and the smaller of two numbers.                              *)
LEMMA OfTwo ==
    ASSUME NEW a \in Int, NEW b \in Int
    PROVE  /\ Max({a, b}) = IF a >= b THEN a ELSE b
           /\ Min({a, b}) = IF a <= b THEN a ELSE b
  <1>1. Max({a, b}) \in {a, b} /\ \A y \in {a, b} : Max({a, b}) >= y
    <2>1. \E x \in {a, b} : \A y \in {a, b} : x >= y
      OBVIOUS
    <2> QED
      BY <2>1 DEF Max
  <1>2. Min({a, b}) \in {a, b} /\ \A y \in {a, b} : Min({a, b}) <= y
    <2>1. \E x \in {a, b} : \A y \in {a, b} : x <= y
      OBVIOUS
    <2> QED
      BY <2>1 DEF Min
  <1> QED
    BY <1>1, <1>2

(* FirstNotIn ends a run of elements of S, at the last position at most.   *)
LEMMA FirstNotInEndsRun ==
    ASSUME NEW S \in SUBSET SeqNos, NEW s \in Positions
    PROVE  /\ FirstNotIn(S, s) \in Positions /\ FirstNotIn(S, s) >= s
           /\ FirstNotIn(S, s) \notin S
           /\ \A k \in SeqNos : s <= k /\ k < FirstNotIn(S, s) => k \in S
  <1> DEFINE T == {k \in s .. NumPkts : k \notin S}
  <1>1. T \in SUBSET Nat /\ NumPkts \in T
    BY ArqAssumption DEF SeqNos, Positions
  <1>2. Min(T) \in T /\ \A y \in T : Min(T) <= y
    BY <1>1, MinIsLeast
  <1> QED
    BY <1>2, ArqAssumption DEF FirstNotIn, SeqNos, Positions

(* With nothing given up there is nothing to pass.                         *)
LEMMA NothingToPass == ASSUME NEW s \in Positions PROVE FirstNotIn({}, s) = s
  <1> DEFINE T == {k \in s .. NumPkts : k \notin {}}
  <1>1. T \in SUBSET Nat /\ s \in T /\ \A y \in T : s <= y
    BY ArqAssumption DEF Positions
  <1>2. Min(T) \in T /\ \A y \in T : Min(T) <= y
    BY <1>1, MinIsLeast
  <1>3. Min(T) = s
    BY <1>1, <1>2
  <1> QED
    BY <1>3 DEF FirstNotIn

(* The network holds nothing it did not hold before or is now sent.        *)
LEMMA TransmitAdds == ASSUME NEW ps, Transmit(ps) PROVE net' \subseteq net \cup ps
  BY DEF Transmit

(* The fields of a packet are of the types its kind has.                   *)
LEMMA PacketFields ==
    ASSUME NEW p \in Packets
    PROVE  /\ p \in Acks <=> p.type \in {"ack", "liteack"}
           /\ p.type = "data" => p.seqno \in SeqNos
           /\ p.type \in {"ack", "liteack", "ackack"} => p.ack \in Positions
           /\ p.type = "ack" => p.left \in 0 .. Capacity
           /\ p.type \in {"lossreport", "dropreq"} => p.lo \in SeqNos /\ p.hi \in SeqNos
           /\ p.type # "none"
  BY DEF Packets, Acks, Data, FullAck, LiteAck, AckAck, LossReport, DropReq
-----------------------------------------------------------------------------
(* No step takes back what a packet on its way may say.                    *)
Grows ==
    /\ SndCurrSeqNo <= SndCurrSeqNo' /\ SndLastAck <= SndLastAck'
    /\ RcvCurrSeqNo <= RcvCurrSeqNo' /\ RcvLastAck <= RcvLastAck'
    /\ StartSeqNo <= StartSeqNo'
    /\ delivered \cup Avail \subseteq (delivered \cup Avail)'

(* So what is received stays received, and old packets stay right.         *)
LEMMA StaysReceived ==
    ASSUME Grows, NEW a, Received(a)
    PROVE  Received(a)'
  BY DEF Grows, Received

\* The packets in flight, and the ACK in hand, stay right while reception only grows.
LEMMA OldPacketsOK ==
    ASSUME TypeOK, TypeOK', Grows, PacketsOK
    PROVE  \A p \in net \cup {ackInHand} : PacketOK(p)'
  <1> SUFFICES ASSUME NEW p \in net \cup {ackInHand} PROVE PacketOK(p)'
    OBVIOUS
  <1>1. PacketOK(p)
    BY DEF PacketsOK
  <1>2. p \in Packets \/ p = NoAck
    BY DEF TypeOK, Packets
  <1>3. CASE p = NoAck
    BY <1>3 DEF NoAck, PacketOK
  <1>4. CASE p \in Packets
    <2>1. p.type \in {"ack", "liteack"} => Received(p.ack)'
      BY <1>1, StaysReceived DEF PacketOK
    <2> QED
      BY <1>1, <1>4, <2>1, PacketFields, ArqAssumption
      DEF PacketOK, Grows, TypeOK, SeqNos, Positions
  <1> QED
    BY <1>2, <1>3, <1>4

(* A step that leaves the receiver alone keeps what is true of it.         *)
LEMMA SameReceiver ==
    ASSUME ReceiverOK, UNCHANGED rcvVars
    PROVE  ReceiverOK'
  BY DEF ReceiverOK, DeliveredWithoutGap, LossListExact, Received, rcvVars

(* A new packet that is right is added to old ones that stay right.        *)
LEMMA NewPacketOK ==
    ASSUME TypeOK, TypeOK', Grows, PacketsOK,
           NEW q, net' \subseteq net \cup {q}, PacketOK(q)',
           ackInHand' \in net \cup {ackInHand, NoAck}
    PROVE  PacketsOK'
  <1>1. PacketOK(NoAck)'
    BY DEF PacketOK, NoAck
  <1> QED
    BY <1>1, OldPacketsOK DEF PacketsOK

\* A step that sends nothing new keeps every packet right.
LEMMA NoNewPacket ==
    ASSUME TypeOK, TypeOK', Grows, PacketsOK, net' \subseteq net,
           ackInHand' \in net \cup {ackInHand, NoAck}
    PROVE  PacketsOK'
  <1>1. PacketOK(NoAck)'
    BY DEF PacketOK, NoAck
  <1> QED
    BY <1>1, NewPacketOK

(* Only packets that were sent are received, so no position beyond.        *)
LEMMA ReceivedIsSent ==
    ASSUME TypeOK, ReceiverOK, NEW a \in Positions, Received(a)
    PROVE  a <= RcvCurrSeqNo + 1
  BY ArqAssumption
  DEF TypeOK, ReceiverOK, Received, DeliveredWithoutGap, SeqNos, Positions

(* The position the receiver acknowledges: everything before it is there,  *)
(* and it does not fall back.                                              *)
LEMMA NoncontIsReceived ==
    ASSUME TypeOK, ReceiverOK
    PROVE  /\ getFirstNoncontSequence \in Positions
           /\ Received(getFirstNoncontSequence)
           /\ RcvLastAck <= getFirstNoncontSequence
  <1>1. RcvLastAck <= RcvCurrSeqNo + 1
    BY ReceivedIsSent DEF TypeOK, ReceiverOK
  <1>2. CASE ~MessageAPI
    <2> DEFINE f == FirstNotIn(Avail, StartSeqNo)
    <2>1. /\ f \in Positions /\ f >= StartSeqNo /\ f \notin Avail
          /\ \A k \in SeqNos : StartSeqNo <= k /\ k < f => k \in Avail
      BY FirstNotInEndsRun DEF TypeOK
    <2> HIDE DEF f
    <2>2. f <= RcvCurrSeqNo + 1
      BY <2>1, ArqAssumption DEF TypeOK, ReceiverOK, SeqNos, Positions
    <2>3. getFirstNoncontSequence = f
      <3>1. Min({f, RcvCurrSeqNo + 1}) = f
        <4>1. f \in Int /\ RcvCurrSeqNo + 1 \in Int
          BY <2>1, ArqAssumption DEF TypeOK, Positions
        <4>2. Min({f, RcvCurrSeqNo + 1}) = IF f <= RcvCurrSeqNo + 1 THEN f ELSE RcvCurrSeqNo + 1
          BY <4>1, OfTwo, Zenon
        <4> QED
          BY <2>2, <4>2
      <3> QED
        BY <1>2, <3>1 DEF getFirstNoncontSequence, getFirstNonreadSeqNo, f
    <2>4. Received(f)
      BY <2>1, ArqAssumption
      DEF TypeOK, ReceiverOK, Received, DeliveredWithoutGap, SeqNos, Positions
    <2>5. RcvLastAck <= f
      BY <2>1, ArqAssumption
      DEF TypeOK, ReceiverOK, Received, DeliveredWithoutGap, SeqNos, Positions
    <2> QED
      BY <2>1, <2>3, <2>4, <2>5
  <1>3. CASE MessageAPI /\ RcvLossList = {}
    BY <1>1, <1>3, ArqAssumption
    DEF getFirstNoncontSequence, TypeOK, ReceiverOK, LossListExact, Received, SeqNos, Positions
  <1>4. CASE MessageAPI /\ RcvLossList # {}
    <2> DEFINE m == Min(RcvLossList)
    <2>1. m \in RcvLossList /\ \A y \in RcvLossList : m <= y
      BY <1>4, MinIsLeast DEF TypeOK, SeqNos
    <2>2. getFirstNoncontSequence = m
      BY <1>4 DEF getFirstNoncontSequence
    <2> HIDE DEF m
    <2> QED
      BY <2>1, <2>2, ArqAssumption
      DEF TypeOK, ReceiverOK, LossListExact, Received, SeqNos, Positions
  <1> QED
    BY <1>2, <1>3, <1>4, ArqAssumption

(* The beginning of a transfer.                                            *)
LEMMA InitInv == Init => IInv
  <1> SUFFICES ASSUME Init PROVE IInv
    OBVIOUS
  <1> USE ArqAssumption DEF Init
  <1>1. TypeOK
    <2>1. /\ SndUList \in BOOLEAN /\ packing \in BOOLEAN
          /\ BufferWasFull \in BOOLEAN /\ PktCount \in BOOLEAN
      BY Zenon
    <2> QED
      BY <2>1 DEF TypeOK, SeqNos, Positions
  <1>2. ReceiverOK
    BY DEF ReceiverOK, DeliveredWithoutGap, LossListExact, Received, SeqNos
  <1>3. SenderOK
    BY DEF SenderOK, Received, LossesInBuffer, SeqNos
  <1>4. WindowOK
    BY DEF WindowOK, NoOverflow
  <1>5. PacketsOK
    BY DEF PacketsOK, PacketOK, NoAck
  <1> QED
    BY <1>1, <1>2, <1>3, <1>4, <1>5 DEF IInv
-----------------------------------------------------------------------------
(* The application writes.                                                 *)
LEMMA SendmsgStep == IInv /\ sendmsg2 => IInv'
  <1> SUFFICES ASSUME IInv, sendmsg2 PROVE IInv'
    OBVIOUS
  <1> USE ArqAssumption DEF IInv, sendmsg2, rcvVars
  <1>1. TypeOK'
    BY DEF TypeOK, Positions
  <1>2. Grows
    BY DEF Grows, TypeOK, Positions
  <1>3. ReceiverOK'
    BY SameReceiver
  <1>4. SenderOK'
    BY DEF SenderOK, Received, LossesInBuffer, TypeOK, Positions
  <1>5. WindowOK'
    BY DEF WindowOK, NoOverflow
  <1>6. PacketsOK'
    BY <1>1, <1>2, NoNewPacket
  <1> QED
    BY <1>1, <1>3, <1>4, <1>5, <1>6

(* The sending worker sends nothing.                                       *)
LEMMA IdleStep == IInv /\ (pop \/ packNothing \/ skipLostData) => IInv'
  <1> SUFFICES ASSUME IInv, pop \/ packNothing \/ skipLostData PROVE IInv'
    OBVIOUS
  <1> USE ArqAssumption DEF IInv
  <1>1. /\ UNCHANGED <<SndNextSeqNo, SndCurrSeqNo, SndLastAck, SndLastDataAck, FlowWindowSize,
                       ackInHand, net>>
        /\ UNCHANGED rcvVars
        /\ SndLossList' \subseteq SndLossList
    BY DEF pop, packNothing, skipLostData
  <1>2. SndUList' \in BOOLEAN /\ packing' \in BOOLEAN
    BY Zenon DEF pop, packNothing, skipLostData, TypeOK
  <1>3. TypeOK'
    BY <1>1, <1>2 DEF TypeOK, rcvVars
  <1>4. Grows
    BY <1>1 DEF Grows, TypeOK, Positions, rcvVars
  <1>5. ReceiverOK'
    BY <1>1, SameReceiver
  <1>6. SenderOK'
    BY <1>1 DEF SenderOK, Received, LossesInBuffer, rcvVars
  <1>7. WindowOK'
    BY <1>1 DEF WindowOK, NoOverflow, rcvVars
  <1>8. PacketsOK'
    BY <1>1, <1>3, <1>4, NoNewPacket
  <1> QED
    BY <1>3, <1>5, <1>6, <1>7, <1>8

(* The sending worker sends a packet again.                                *)
LEMMA PackLostStep == IInv /\ packLostData => IInv'
  <1> SUFFICES ASSUME IInv, packLostData PROVE IInv'
    OBVIOUS
  <1>b. Min(SndLossList) \in SndLossList
    BY MinIsLeast DEF IInv, TypeOK, SeqNos, packLostData
  <1>a. PICK m \in SndLossList : m = Min(SndLossList)
    BY <1>b
  <1>1. m \in SndLossList
    OBVIOUS
  <1>2. net' \subseteq net \cup {Data(m)}
    BY <1>a, TransmitAdds DEF packLostData
  <1> USE ArqAssumption DEF IInv
  <1>3. /\ UNCHANGED <<SndNextSeqNo, SndCurrSeqNo, SndLastAck, SndLastDataAck, FlowWindowSize,
                       ackInHand>>
        /\ UNCHANGED rcvVars
        /\ SndLossList' \subseteq SndLossList
        /\ SndUList' = TRUE /\ packing' = FALSE
    BY DEF packLostData
  <1>4. SndUList' \in BOOLEAN /\ packing' \in BOOLEAN
    BY <1>3, Zenon
  <1>5. Data(m) \in Packets
    BY <1>1 DEF TypeOK, Packets
  <1>6. TypeOK'
    BY <1>2, <1>3, <1>4, <1>5 DEF TypeOK, rcvVars
  <1>7. Grows
    BY <1>3 DEF Grows, TypeOK, Positions, rcvVars
  <1>8. ReceiverOK'
    BY <1>3, SameReceiver
  <1>9. SenderOK'
    BY <1>3 DEF SenderOK, Received, LossesInBuffer, rcvVars
  <1>10. WindowOK'
    BY <1>3 DEF WindowOK, NoOverflow, rcvVars
  <1>11. PacketOK(Data(m))'
    BY <1>1, <1>3 DEF PacketOK, Data, SenderOK, LossesInBuffer, TypeOK, SeqNos, Positions
  <1>12. PacketsOK'
    BY <1>2, <1>3, <1>6, <1>7, <1>11, NewPacketOK
  <1> QED
    BY <1>6, <1>8, <1>9, <1>10, <1>12

(* The sending worker sends a new packet: the window leaves room for it.   *)
LEMMA PackUniqueStep == IInv /\ packUniqueData => IInv'
  <1> SUFFICES ASSUME IInv, packUniqueData PROVE IInv'
    OBVIOUS
  <1>a. PICK d : d = Data(SndCurrSeqNo + 1)
    OBVIOUS
  <1>1. net' \subseteq net \cup {d}
    BY <1>a, TransmitAdds DEF packUniqueData
  <1> USE ArqAssumption DEF IInv
  <1>2. /\ UNCHANGED <<SndNextSeqNo, SndLastAck, SndLastDataAck, SndLossList, FlowWindowSize,
                       ackInHand>>
        /\ UNCHANGED rcvVars
        /\ SndCurrSeqNo' = SndCurrSeqNo + 1
        /\ SndUList' = TRUE /\ packing' = FALSE
        /\ MaySend
    BY DEF packUniqueData
  <1>3. SndUList' \in BOOLEAN /\ packing' \in BOOLEAN
    BY <1>2, Zenon
  <1>4. SndCurrSeqNo + 1 \in SeqNos
    BY <1>2 DEF MaySend, TypeOK, SeqNos, Positions
  <1>5. d \in Packets
    BY <1>a, <1>4 DEF Packets
  <1>6. TypeOK'
    BY <1>1, <1>2, <1>3, <1>4, <1>5 DEF TypeOK, rcvVars, SeqNos
  <1>7. Grows
    BY <1>2 DEF Grows, TypeOK, Positions, rcvVars
  <1>8. ReceiverOK'
    BY <1>2, SameReceiver
  <1>9. SenderOK'
    BY <1>2 DEF SenderOK, Received, LossesInBuffer, rcvVars, MaySend, TypeOK, Positions
  <1>10. WindowOK'
    <2>1. SndLastAck <= SndCurrSeqNo + 1
      BY ReceivedIsSent DEF TypeOK, SenderOK, Positions
    <2> QED
      BY <1>2, <2>1
      DEF WindowOK, NoOverflow, MaySend, getFlightSpan, FlightSpan, TypeOK, Positions, rcvVars
  <1>11. PacketOK(d)'
    BY <1>a, <1>2, <1>4 DEF PacketOK, Data, SeqNos
  <1>12. PacketsOK'
    BY <1>1, <1>2, <1>6, <1>7, <1>11, NewPacketOK
  <1> QED
    BY <1>6, <1>8, <1>9, <1>10, <1>12

(* The retransmission timer expires: all in flight is in the buffer.       *)
LEMMA RexmitStep == IInv /\ checkRexmitTimer => IInv'
  <1> SUFFICES ASSUME IInv, checkRexmitTimer PROVE IInv'
    OBVIOUS
  <1> USE ArqAssumption DEF IInv
  <1>1. /\ UNCHANGED <<SndNextSeqNo, SndCurrSeqNo, SndLastAck, SndLastDataAck, FlowWindowSize,
                       packing, ackInHand, net>>
        /\ UNCHANGED rcvVars
        /\ SndUList' = TRUE
        /\ ackInHand = NoAck
        /\ SndLossList' \subseteq SndLossList \cup SndLastAck .. SndCurrSeqNo
    BY DEF checkRexmitTimer
  <1>2. SndUList' \in BOOLEAN
    BY <1>1, Zenon
  <1>3. SndLastAck .. SndCurrSeqNo \subseteq SeqNos
    BY DEF TypeOK, SeqNos, Positions
  <1>4. TypeOK'
    BY <1>1, <1>2, <1>3 DEF TypeOK, rcvVars
  <1>5. Grows
    BY <1>1 DEF Grows, TypeOK, Positions, rcvVars
  <1>6. ReceiverOK'
    BY <1>1, SameReceiver
  <1>7. SenderOK'
    BY <1>1 DEF SenderOK, Received, LossesInBuffer, rcvVars
  <1>8. WindowOK'
    BY <1>1 DEF WindowOK, NoOverflow, rcvVars
  <1>9. PacketsOK'
    BY <1>1, <1>4, <1>5, NoNewPacket
  <1> QED
    BY <1>4, <1>6, <1>7, <1>8, <1>9

(* First half of an ACK: what leaves the sender buffer has been received.  *)
LEMMA AckStep ==
    ASSUME IInv, NEW p \in net, processCtrlAck(p)
    PROVE  IInv'
  <1> USE ArqAssumption DEF IInv
  <1>1. p \in Packets /\ p \in Acks /\ p.ack \in Positions /\ p # NoAck
    BY PacketFields DEF processCtrlAck, TypeOK, NoAck
  <1>2. PICK a \in Positions : a = p.ack
    BY <1>1
  <1>3. Received(a)
    BY <1>1, <1>2, PacketFields DEF PacketsOK, PacketOK
  <1>4. /\ UNCHANGED <<SndNextSeqNo, SndCurrSeqNo, SndLastAck, FlowWindowSize, packing, net>>
        /\ UNCHANGED rcvVars
        /\ ackInHand = NoAck /\ ackInHand' = p
        /\ SndLossList' = SndLossList \ 0 .. a - 1
    BY <1>2 DEF processCtrlAck
  <1>5. SndLastDataAck' = IF SndLastDataAck >= a THEN SndLastDataAck ELSE a
    <2>1. SndLastDataAck' = Max({SndLastDataAck, a})
      BY <1>2 DEF processCtrlAck
    <2> QED
      BY <2>1, OfTwo DEF TypeOK, Positions
  <1>6. SndUList' \in BOOLEAN
    BY Zenon DEF processCtrlAck
  <1>7. TypeOK'
    BY <1>1, <1>4, <1>5, <1>6 DEF TypeOK, rcvVars
  <1>8. Grows
    BY <1>4 DEF Grows, TypeOK, Positions, rcvVars
  <1>9. ReceiverOK'
    BY <1>4, SameReceiver
  <1>10. SenderOK'
    <2>1. Received(SndLastDataAck)'
      BY <1>3, <1>4, <1>5 DEF SenderOK, Received, rcvVars
    <2>2. LossesInBuffer'
      BY <1>4, <1>5 DEF SenderOK, LossesInBuffer, TypeOK, SeqNos, Positions
    <2>3. SndLastAck = SndLastDataAck
      BY <1>4 DEF SenderOK
    <2>4. /\ SndLastAck' <= SndLastDataAck' /\ a <= SndLastDataAck'
          /\ SndLastDataAck' \in {SndLastAck', a}
      BY <1>4, <1>5, <2>3 DEF TypeOK, Positions
    <2>5. ackInHand'.ack = a /\ ackInHand' # NoAck
      BY <1>1, <1>2, <1>4
    <2>6. RcvCurrSeqNo' <= SndCurrSeqNo' /\ SndCurrSeqNo' < SndNextSeqNo'
      BY <1>4 DEF SenderOK, rcvVars
    <2>7. NoAck' = NoAck
      BY DEF NoAck
    <2> QED
      BY <2>1, <2>2, <2>4, <2>5, <2>6, <2>7 DEF SenderOK
  <1>11. WindowOK'
    BY <1>4 DEF WindowOK, NoOverflow, rcvVars
  <1>12. PacketsOK'
    BY <1>4, <1>7, <1>8, NoNewPacket
  <1> QED
    BY <1>7, <1>9, <1>10, <1>11, <1>12

(* The ACK in hand is a packet, and right.                                 *)
LEMMA InHand ==
    ASSUME IInv, ackInHand # NoAck
    PROVE  /\ ackInHand \in Packets /\ PacketOK(ackInHand)
           /\ ackInHand.ack \in Positions
           /\ ackInHand.type = "ack" => ackInHand.left \in 0 .. Capacity
           /\ ackInHand.ack <= SndLastDataAck
           /\ SndLastDataAck \in {SndLastAck, ackInHand.ack}
  <1>1. ackInHand \in Acks
    BY DEF IInv, TypeOK
  <1>2. ackInHand \in Packets
    BY <1>1 DEF Packets
  <1> QED
    BY <1>1, <1>2, PacketFields DEF IInv, PacketsOK, SenderOK

(* Second half of a lite ACK: window and base move together.               *)
LEMMA LightAckStep == IInv /\ lightAck => IInv'
  <1> SUFFICES ASSUME IInv, lightAck PROVE IInv'
    OBVIOUS
  <1>1. ackInHand # NoAck
    BY DEF lightAck, NoAck
  <1>2. PICK a \in Positions : a = ackInHand.ack
    BY <1>1, InHand
  <1>3. a <= SndLastDataAck /\ SndLastDataAck \in {SndLastAck, a}
    BY <1>1, <1>2, InHand
  <1> USE ArqAssumption DEF IInv
  <1>4. /\ UNCHANGED <<SndNextSeqNo, SndCurrSeqNo, SndLastDataAck, SndLossList, SndUList, packing,
                       net>>
        /\ UNCHANGED rcvVars
        /\ ackInHand' = NoAck
        /\ FlowWindowSize' = FlowWindowSize - (SndLastAck' - SndLastAck)
    BY DEF lightAck
  <1>5. SndLastAck' = IF SndLastAck >= a THEN SndLastAck ELSE a
    <2>1. SndLastAck' = Max({SndLastAck, a})
      BY <1>2 DEF lightAck
    <2> QED
      BY <2>1, OfTwo DEF TypeOK, Positions
  <1>6. SndLastAck' \in Positions /\ SndLastAck <= SndLastAck' /\ SndLastAck' = SndLastDataAck
    BY <1>3, <1>5 DEF SenderOK, TypeOK, Positions
  <1>7. WindowOK' /\ FlowWindowSize' <= FlowWindowSize /\ FlowWindowSize' \in Int
    BY <1>4, <1>6 DEF WindowOK, NoOverflow, rcvVars, TypeOK, Positions
  <1>8. TypeOK'
    BY <1>4, <1>6, <1>7 DEF TypeOK, rcvVars, WindowOK, Positions
  <1>9. Grows
    BY <1>4, <1>6 DEF Grows, TypeOK, Positions, rcvVars
  <1>10. ReceiverOK'
    BY <1>4, SameReceiver
  <1>11. SenderOK'
    BY <1>4, <1>6 DEF SenderOK, Received, LossesInBuffer, rcvVars, TypeOK, Positions
  <1>12. PacketsOK'
    BY <1>4, <1>8, <1>9, NoNewPacket
  <1> QED
    BY <1>7, <1>8, <1>10, <1>11, <1>12

(* Second half of a full ACK: an outdated one does not set the window.     *)
LEMMA FullAckStep == IInv /\ fullAck => IInv'
  <1> SUFFICES ASSUME IInv, fullAck PROVE IInv'
    OBVIOUS
  <1>1. ackInHand # NoAck /\ ackInHand.type = "ack"
    BY DEF fullAck, NoAck
  <1>2. PICK a \in Positions : a = ackInHand.ack
    BY <1>1, InHand
  <1>3. PICK left \in 0 .. Capacity : left = ackInHand.left
    BY <1>1, InHand
  <1>4. a <= SndLastDataAck /\ SndLastDataAck \in {SndLastAck, a}
    BY <1>1, <1>2, InHand
  <1>5. a <= RcvLastAck /\ a + left <= StartSeqNo + Capacity
    BY <1>1, <1>2, <1>3, InHand DEF PacketOK
  <1>6. PICK q : q = AckAck(a)
    OBVIOUS
  <1> USE ArqAssumption DEF IInv
  <1>7. /\ UNCHANGED <<SndNextSeqNo, SndCurrSeqNo, SndLastDataAck, SndLossList, packing>>
        /\ UNCHANGED rcvVars
        /\ ackInHand' = NoAck
        /\ IF a >= SndLastAck THEN SndLastAck' = a /\ FlowWindowSize' = left
           ELSE UNCHANGED <<SndLastAck, FlowWindowSize>>
    BY <1>2, <1>3 DEF fullAck
  <1>8. net' \subseteq net \cup {q}
    BY <1>2, <1>6, TransmitAdds DEF fullAck
  <1>9. SndUList' \in BOOLEAN
    BY Zenon DEF fullAck, TypeOK
  <1>10. q \in Packets
    BY <1>6 DEF Packets
  <1>11. SndLastAck' \in Positions /\ SndLastAck <= SndLastAck' /\ SndLastAck' = SndLastDataAck
    BY <1>4, <1>7 DEF SenderOK, TypeOK, Positions
  <1>12. TypeOK'
    BY <1>7, <1>8, <1>9, <1>10, <1>11 DEF TypeOK, rcvVars
  <1>13. Grows
    BY <1>7, <1>11 DEF Grows, TypeOK, Positions, rcvVars
  <1>14. ReceiverOK'
    BY <1>7, SameReceiver
  <1>15. SenderOK'
    BY <1>7, <1>11 DEF SenderOK, Received, LossesInBuffer, rcvVars, TypeOK, Positions
  <1>16. WindowOK'
    BY <1>5, <1>7 DEF WindowOK, NoOverflow, rcvVars, TypeOK, Positions
  <1>17. PacketOK(q)'
    BY <1>5, <1>6, <1>7 DEF PacketOK, AckAck, rcvVars
  <1>18. PacketsOK'
    BY <1>7, <1>8, <1>12, <1>13, <1>17, NewPacketOK
  <1> QED
    BY <1>12, <1>14, <1>15, <1>16, <1>18

(* A loss report: what is inserted is still in the sender buffer, and the  *)
(* drop request asks for acknowledged packets only.                        *)
LEMMA LossReportStep ==
    ASSUME IInv, NEW p \in net, processCtrlLossReport(p)
    PROVE  IInv'
  <1> USE ArqAssumption DEF IInv
  <1>1. p \in Packets /\ p.type = "lossreport"
    BY DEF processCtrlLossReport, TypeOK
  <1>2. PICK lo \in SeqNos, hi \in SeqNos : lo = p.lo /\ hi = p.hi
    BY <1>1, PacketFields
  <1>3. hi <= RcvCurrSeqNo
    BY <1>1, <1>2 DEF PacketsOK, PacketOK
  <1>4. PICK m \in Positions, e \in Int :
            /\ m = IF lo >= SndLastAck THEN lo ELSE SndLastAck
            /\ e = IF hi <= SndLastAck - 1 THEN hi ELSE SndLastAck - 1
    BY DEF TypeOK, SeqNos, Positions
  <1>5. m = Max({lo, SndLastAck}) /\ e = Min({hi, SndLastAck - 1})
    <2>1. lo \in Int /\ hi \in Int /\ SndLastAck \in Int /\ SndLastAck - 1 \in Int
      BY DEF TypeOK, SeqNos, Positions
    <2>2. Max({lo, SndLastAck}) = IF lo >= SndLastAck THEN lo ELSE SndLastAck
      BY <2>1, OfTwo
    <2>3. Min({hi, SndLastAck - 1}) = IF hi <= SndLastAck - 1 THEN hi ELSE SndLastAck - 1
      BY <2>1, OfTwo, Zenon
    <2> QED
      BY <1>4, <2>2, <2>3
  <1>6. PICK q : q = DropReq(lo, e)
    OBVIOUS
  <1>7. /\ UNCHANGED <<SndNextSeqNo, SndCurrSeqNo, SndLastAck, SndLastDataAck, FlowWindowSize,
                       packing, ackInHand>>
        /\ UNCHANGED rcvVars
        /\ ackInHand = NoAck /\ SndUList' = TRUE
        /\ SndLossList' = SndLossList \cup m .. hi
    BY <1>2, <1>5 DEF processCtrlLossReport
  <1>8. Transmit(IF lo < SndLastAck THEN {q} ELSE {})
    BY <1>2, <1>5, <1>6 DEF processCtrlLossReport
  <1>9. net' \subseteq net \cup (IF lo < SndLastAck THEN {q} ELSE {})
    BY <1>8, TransmitAdds
  <1>10. SndUList' \in BOOLEAN
    BY <1>7, Zenon
  <1>11. lo < SndLastAck => q \in Packets
    <2>1. lo < SndLastAck => e \in SeqNos
      BY <1>4 DEF TypeOK, SeqNos, Positions
    <2> QED
      BY <1>6, <2>1 DEF Packets
  <1>12. m .. hi \subseteq SeqNos
    BY DEF SeqNos, Positions
  <1>13. TypeOK'
    BY <1>7, <1>9, <1>10, <1>11, <1>12 DEF TypeOK, rcvVars
  <1>14. Grows
    BY <1>7 DEF Grows, TypeOK, Positions, rcvVars
  <1>15. ReceiverOK'
    BY <1>7, SameReceiver
  <1>16. SenderOK'
    <2>1. LossesInBuffer'
      BY <1>3, <1>4, <1>7 DEF SenderOK, LossesInBuffer, TypeOK, SeqNos, Positions
    <2> QED
      BY <1>7, <2>1 DEF SenderOK, Received, rcvVars
  <1>17. WindowOK'
    BY <1>7 DEF WindowOK, NoOverflow, rcvVars
  <1>18. PacketOK(q)'
    BY <1>4, <1>6, <1>7 DEF PacketOK, DropReq, TypeOK, SeqNos, Positions
  <1>19. PacketsOK'
    BY <1>7, <1>9, <1>13, <1>14, <1>18, NewPacketOK
  <1> QED
    BY <1>13, <1>15, <1>16, <1>17, <1>19
-----------------------------------------------------------------------------
(* A step that leaves the sender alone keeps what is true of it, if what   *)
(* is received grows and nothing is received that was not sent.            *)
LEMMA SameSender ==
    ASSUME SenderOK, WindowOK, TypeOK, TypeOK', Grows, UNCHANGED sndVars,
           RcvCurrSeqNo' <= SndCurrSeqNo
    PROVE  SenderOK' /\ WindowOK'
  <1>1. Received(SndLastDataAck)'
    BY DEF SenderOK, Received, Grows, sndVars
  <1>2. SenderOK'
    BY <1>1 DEF SenderOK, LossesInBuffer, sndVars
  <1>3. WindowOK'
    <2>1. /\ StartSeqNo \in Int /\ StartSeqNo' \in Int /\ Capacity \in Int
          /\ RcvCurrSeqNo' \in Int
          /\ SndCurrSeqNo \in Int /\ SndLastAck \in Int /\ FlowWindowSize \in Int
      BY ArqAssumption DEF TypeOK, Positions
    <2>2. /\ StartSeqNo <= StartSeqNo'
          /\ SndCurrSeqNo' = SndCurrSeqNo /\ SndLastAck' = SndLastAck
          /\ FlowWindowSize' = FlowWindowSize
      BY DEF Grows, sndVars
    <2>3. /\ 0 <= SndLastAck + FlowWindowSize
          /\ SndLastAck + FlowWindowSize <= StartSeqNo + Capacity
          /\ SndCurrSeqNo - StartSeqNo < Capacity
      BY DEF WindowOK, NoOverflow
    <2>4. \A a, c, x, y \in Int : x <= y => /\ a <= x + c => a <= y + c
                                            /\ a - x < c => a - y < c
      OBVIOUS
    <2>5. SndLastAck' + FlowWindowSize' <= StartSeqNo' + Capacity /\ NoOverflow'
      <3>1. SndLastAck + FlowWindowSize \in Int
        BY <2>1
      <3> QED
        BY <2>1, <2>2, <2>3, <2>4, <3>1, Zenon DEF NoOverflow
    <2>6. 0 <= SndLastAck' + FlowWindowSize'
      BY <2>2, <2>3
    <2> QED
      BY <2>5, <2>6 DEF WindowOK
  <1> QED
    BY <1>2, <1>3

(* A packet that is too early or too late is only counted.                 *)
LEMMA CountStep == IInv /\ (holdAck \/ \E p \in net : rejectData(p)) => IInv'
  <1> SUFFICES ASSUME IInv, holdAck \/ \E p \in net : rejectData(p) PROVE IInv'
    OBVIOUS
  <1> USE ArqAssumption DEF IInv
  <1>1. UNCHANGED <<RcvCurrSeqNo, StartSeqNo, Avail, Dropped, RcvLossList, RcvLastAck,
                    RcvLastAckAck, BufferWasFull, delivered, sndVars, net>>
    BY DEF holdAck, rejectData
  <1>2. PktCount' \in BOOLEAN
    BY Zenon DEF holdAck, rejectData
  <1>3. TypeOK'
    BY <1>1, <1>2 DEF TypeOK, sndVars
  <1>4. Grows
    BY <1>1 DEF Grows, TypeOK, Positions, sndVars
  <1>5. ReceiverOK'
    BY <1>1 DEF ReceiverOK, DeliveredWithoutGap, LossListExact, Received
  <1>6. SenderOK' /\ WindowOK'
    BY <1>1, <1>3, <1>4, SameSender DEF SenderOK
  <1>7. PacketsOK'
    BY <1>1, <1>3, <1>4, NoNewPacket DEF sndVars
  <1> QED
    BY <1>3, <1>5, <1>6, <1>7

(* A data packet arrives: the loss list is exact again.                    *)
LEMMA DataStep ==
    ASSUME IInv, NEW p \in net, processData(p)
    PROVE  IInv'
  <1> USE ArqAssumption DEF IInv
  <1>1. p \in Packets /\ p.type = "data"
    BY DEF processData, TypeOK
  <1>2. PICK k \in SeqNos : k = p.seqno
    BY <1>1, PacketFields
  <1>3. k <= SndCurrSeqNo
    BY <1>1, <1>2 DEF PacketsOK, PacketOK
  <1>4. PICK gap : gap = GapBefore(k)
    OBVIOUS
  <1>5. gap = IF k \in Avail THEN {} ELSE RcvCurrSeqNo + 1 .. k - 1
    BY <1>4 DEF GapBefore, ReceiverOK
  <1>6. /\ UNCHANGED <<StartSeqNo, Dropped, RcvLastAck, RcvLastAckAck, BufferWasFull, delivered>>
        /\ UNCHANGED sndVars
        /\ k >= StartSeqNo
        /\ Avail' = Avail \cup {k}
        /\ RcvLossList' = IF k > RcvCurrSeqNo THEN RcvLossList \cup gap ELSE RcvLossList \ {k}
        /\ PktCount' = TRUE
    BY <1>2, <1>4 DEF processData, Acceptable, ReceiverOK
  <1>7. RcvCurrSeqNo' = IF RcvCurrSeqNo >= k THEN RcvCurrSeqNo ELSE k
    <2>1. RcvCurrSeqNo' = Max({RcvCurrSeqNo, k})
      BY <1>2 DEF processData
    <2> QED
      BY <2>1, OfTwo DEF TypeOK, SeqNos
  <1>8. PICK q : q = LossReport(RcvCurrSeqNo + 1, k - 1)
    OBVIOUS
  <1>9. gap # {} => /\ RcvCurrSeqNo + 1 <= k - 1
                    /\ Min(gap) = RcvCurrSeqNo + 1 /\ Max(gap) = k - 1
    <2>1. RcvCurrSeqNo + 1 \in Int /\ k - 1 \in Int
      BY DEF TypeOK, SeqNos
    <2>2. gap # {} => RcvCurrSeqNo + 1 <= k - 1
      BY <1>5, <2>1
    <2> QED
      BY <1>5, <2>1, <2>2, IntervalEnds
  <1>10. net' \subseteq net \cup (IF gap = {} THEN {} ELSE {q})
    <2>1. Transmit(IF gap = {} THEN {} ELSE {LossReport(Min(gap), Max(gap))})
      BY <1>2, <1>4 DEF processData
    <2>2. net' \subseteq net \cup (IF gap = {} THEN {} ELSE {LossReport(Min(gap), Max(gap))})
      BY <2>1, TransmitAdds
    <2> QED
      BY <1>8, <1>9, <2>2
  <1>11. gap # {} => q \in Packets
    <2>1. gap # {} => RcvCurrSeqNo + 1 \in SeqNos /\ k - 1 \in SeqNos
      BY <1>9 DEF TypeOK, SeqNos
    <2> QED
      BY <1>8, <2>1 DEF Packets
  <1>12. PktCount' \in BOOLEAN
    BY <1>6, Zenon
  <1>13. gap \subseteq SeqNos
    BY <1>5 DEF TypeOK, SeqNos
  <1>14. RcvCurrSeqNo' \in -1 .. NumPkts - 1
    BY <1>7 DEF TypeOK, SeqNos
  <1>15. TypeOK'
    BY <1>6, <1>10, <1>11, <1>12, <1>13, <1>14 DEF TypeOK, sndVars
  <1>16. Grows
    BY <1>6, <1>7 DEF Grows, TypeOK, SeqNos, Positions, sndVars
  <1>17. ReceiverOK'
    <2>1. Received(RcvLastAck)'
      BY <1>6 DEF ReceiverOK, Received
    <2>2. LossListExact'
      BY <1>5, <1>6, <1>7
      DEF ReceiverOK, LossListExact, DeliveredWithoutGap, TypeOK, SeqNos, Positions
    <2> QED
      BY <1>6, <1>7, <2>1, <2>2 DEF ReceiverOK, DeliveredWithoutGap, TypeOK, SeqNos, Positions
  <1>18. SenderOK' /\ WindowOK'
    BY <1>3, <1>6, <1>7, <1>15, <1>16, SameSender DEF SenderOK
  <1>19. PacketsOK'
    <2>1. CASE gap = {}
      BY <1>6, <1>10, <1>15, <1>16, <2>1, NoNewPacket DEF sndVars
    <2>2. CASE gap # {}
      <3>1. PacketOK(q)'
        BY <1>7, <1>8, <1>9, <2>2 DEF PacketOK, LossReport, TypeOK, SeqNos
      <3> QED
        BY <1>6, <1>10, <1>15, <1>16, <2>2, <3>1, NewPacketOK DEF sndVars
    <2> QED
      BY <2>1, <2>2
  <1> QED
    BY <1>15, <1>17, <1>18, <1>19

(* The receiver acknowledges what it has, and announces the room it has.   *)
LEMMA SendAckStep == IInv /\ sendCtrlAck => IInv'
  <1> SUFFICES ASSUME IInv, sendCtrlAck PROVE IInv'
    OBVIOUS
  <1>1. PICK ack \in Positions : ack = getFirstNoncontSequence
    BY NoncontIsReceived DEF IInv
  <1>2. Received(ack) /\ RcvLastAck <= ack
    BY <1>1, NoncontIsReceived DEF IInv
  <1> USE ArqAssumption DEF IInv
  <1>3. ack <= RcvCurrSeqNo + 1
    BY <1>2, ReceivedIsSent
  <1>a. getAvailSize(ack) \in Int
    BY DEF getAvailSize, TypeOK, Positions
  <1>4. PICK left \in Int : left = getAvailSize(ack)
    BY <1>a
  <1>5. left \in 0 .. Capacity /\ ack + left <= StartSeqNo + Capacity
    BY <1>3, <1>4 DEF getAvailSize, TypeOK, Positions, WindowOK, NoOverflow, SenderOK
  <1>6. ack = IF ack > RcvLastAck THEN ack ELSE RcvLastAck
    BY <1>2 DEF TypeOK, Positions
  <1>7. PICK q : q = FullAck(ack, left)
    OBVIOUS
  <1>8. /\ UNCHANGED <<RcvCurrSeqNo, StartSeqNo, Avail, Dropped, RcvLossList, RcvLastAckAck,
                       delivered>>
        /\ UNCHANGED sndVars
        /\ RcvLastAck' = ack /\ PktCount' = FALSE
        /\ \/ BufferWasFull' = (left = 0) /\ Transmit({q})
           \/ UNCHANGED <<BufferWasFull, net>>
    BY <1>1, <1>4, <1>6, <1>7 DEF sendCtrlAck
  <1>9. PktCount' \in BOOLEAN /\ BufferWasFull' \in BOOLEAN
    BY <1>8, Zenon DEF TypeOK
  <1>10. net' \subseteq net \cup {q}
    BY <1>8, TransmitAdds
  <1>11. q \in Packets
    BY <1>5, <1>7 DEF Packets, Acks
  <1>12. TypeOK'
    BY <1>8, <1>9, <1>10, <1>11 DEF TypeOK, sndVars
  <1>13. Grows
    BY <1>2, <1>8 DEF Grows, TypeOK, Positions, sndVars
  <1>14. ReceiverOK'
    BY <1>2, <1>8 DEF ReceiverOK, DeliveredWithoutGap, LossListExact, Received, TypeOK, Positions
  <1>15. SenderOK' /\ WindowOK'
    BY <1>8, <1>12, <1>13, SameSender DEF SenderOK
  <1>16. PacketOK(q)'
    BY <1>2, <1>5, <1>7, <1>8 DEF PacketOK, FullAck, Received, Positions
  <1>17. PacketsOK'
    BY <1>8, <1>10, <1>12, <1>13, <1>16, NewPacketOK DEF sndVars
  <1> QED
    BY <1>12, <1>14, <1>15, <1>17

(* A lite ACK says what was received.                                      *)
LEMMA SendLiteAckStep == IInv /\ sendCtrlLiteAck => IInv'
  <1> SUFFICES ASSUME IInv, sendCtrlLiteAck PROVE IInv'
    OBVIOUS
  <1>1. PICK ack \in Positions : ack = getFirstNoncontSequence
    BY NoncontIsReceived DEF IInv
  <1>2. Received(ack)
    BY <1>1, NoncontIsReceived DEF IInv
  <1> USE ArqAssumption DEF IInv
  <1>3. PICK q : q = LiteAck(ack)
    OBVIOUS
  <1>4. /\ UNCHANGED <<RcvCurrSeqNo, StartSeqNo, Avail, Dropped, RcvLossList, RcvLastAck,
                       RcvLastAckAck, BufferWasFull, delivered>>
        /\ UNCHANGED sndVars
        /\ PktCount' = FALSE /\ Transmit({q})
    BY <1>1, <1>3 DEF sendCtrlLiteAck
  <1>5. PktCount' \in BOOLEAN
    BY <1>4, Zenon
  <1>6. net' \subseteq net \cup {q}
    BY <1>4, TransmitAdds
  <1>7. q \in Packets
    BY <1>3 DEF Packets, Acks
  <1>8. TypeOK'
    BY <1>4, <1>5, <1>6, <1>7 DEF TypeOK, sndVars
  <1>9. Grows
    BY <1>4 DEF Grows, TypeOK, Positions, sndVars
  <1>10. ReceiverOK'
    BY <1>4 DEF ReceiverOK, DeliveredWithoutGap, LossListExact, Received
  <1>11. SenderOK' /\ WindowOK'
    BY <1>4, <1>8, <1>9, SameSender DEF SenderOK
  <1>12. PacketOK(q)'
    BY <1>2, <1>3, <1>4 DEF PacketOK, LiteAck, Received
  <1>13. PacketsOK'
    BY <1>4, <1>6, <1>8, <1>9, <1>12, NewPacketOK DEF sndVars
  <1> QED
    BY <1>8, <1>10, <1>11, <1>13

(* An ACKACK confirms a position the receiver has acknowledged.            *)
LEMMA AckAckStep ==
    ASSUME IInv, NEW p \in net, processCtrlAckAck(p)
    PROVE  IInv'
  <1> USE ArqAssumption DEF IInv
  <1>1. p \in Packets /\ p.type = "ackack"
    BY DEF processCtrlAckAck, TypeOK
  <1>2. p.ack \in Positions /\ p.ack <= RcvLastAck
    BY <1>1, PacketFields DEF PacketsOK, PacketOK
  <1>3. /\ UNCHANGED <<RcvCurrSeqNo, StartSeqNo, Avail, Dropped, RcvLossList, RcvLastAck,
                       BufferWasFull, PktCount, delivered, net>>
        /\ UNCHANGED sndVars
        /\ RcvLastAckAck' = p.ack
    BY DEF processCtrlAckAck
  <1>4. TypeOK'
    BY <1>2, <1>3 DEF TypeOK, sndVars
  <1>5. Grows
    BY <1>3 DEF Grows, TypeOK, Positions, sndVars
  <1>6. ReceiverOK'
    BY <1>2, <1>3 DEF ReceiverOK, DeliveredWithoutGap, LossListExact, Received
  <1>7. SenderOK' /\ WindowOK'
    BY <1>3, <1>4, <1>5, SameSender DEF SenderOK
  <1>8. PacketsOK'
    BY <1>3, <1>4, <1>5, NoNewPacket DEF sndVars
  <1> QED
    BY <1>4, <1>6, <1>7, <1>8

(* The loss list, reported again, holds only packets that were sent.       *)
LEMMA NakTimerStep ==
    ASSUME IInv, NEW lo \in SeqNos, NEW hi \in SeqNos, checkNAKTimer(lo, hi)
    PROVE  IInv'
  <1> USE ArqAssumption DEF IInv
  <1>1. PICK q : q = LossReport(lo, hi)
    OBVIOUS
  <1>2. UNCHANGED sndVars /\ UNCHANGED rcvVars /\ Transmit({q})
    BY <1>1 DEF checkNAKTimer
  <1>3. net' \subseteq net \cup {q}
    BY <1>2, TransmitAdds
  <1>4. q \in Packets
    BY <1>1 DEF Packets
  <1>5. TypeOK'
    BY <1>2, <1>3, <1>4 DEF TypeOK, sndVars, rcvVars
  <1>6. Grows
    BY <1>2 DEF Grows, TypeOK, Positions, sndVars, rcvVars
  <1>7. ReceiverOK'
    BY <1>2, SameReceiver
  <1>8. SenderOK' /\ WindowOK'
    BY <1>2, <1>5, <1>6, SameSender DEF SenderOK, rcvVars
  <1>9. hi <= RcvCurrSeqNo
    <2>1. hi \in RcvLossList
      BY DEF checkNAKTimer, SeqNos
    <2> QED
      BY <2>1 DEF ReceiverOK, LossListExact, TypeOK
  <1>10. PacketOK(q)'
    BY <1>1, <1>2, <1>9 DEF PacketOK, LossReport, rcvVars
  <1>11. PacketsOK'
    BY <1>2, <1>3, <1>5, <1>6, <1>10, NewPacketOK DEF sndVars
  <1> QED
    BY <1>5, <1>7, <1>8, <1>11

(* A drop request finds nothing to drop: it asks for packets the receiver  *)
(* has acknowledged.                                                       *)
LEMMA DropReqStep ==
    ASSUME IInv, NEW p \in net, processCtrlDropReq(p)
    PROVE  IInv'
  <1> USE ArqAssumption DEF IInv
  <1>1. p \in Packets /\ p.type = "dropreq"
    BY DEF processCtrlDropReq, TypeOK
  <1>2. PICK lo \in SeqNos, hi \in SeqNos : lo = p.lo /\ hi = p.hi
    BY <1>1, PacketFields
  <1>3. hi < SndLastAck
    BY <1>1, <1>2 DEF PacketsOK, PacketOK
  <1>4. \A k \in lo .. hi : k \in delivered \cup Avail
    BY <1>3 DEF SenderOK, Received, TypeOK, SeqNos, Positions
  <1>5. {k \in lo .. hi : k \in StartSeqNo .. StartSeqNo + Capacity - 1 /\ k \notin Avail} = {}
    BY <1>4 DEF ReceiverOK, DeliveredWithoutGap, TypeOK, SeqNos, Positions
  <1>6. hi <= RcvCurrSeqNo
    <2>1. SndLastDataAck <= RcvCurrSeqNo + 1
      BY ReceivedIsSent DEF TypeOK, SenderOK
    <2> QED
      BY <1>3, <2>1 DEF SenderOK, TypeOK, SeqNos, Positions
  <1>7. FirstNotIn({}, StartSeqNo) = StartSeqNo
    BY NothingToPass DEF TypeOK
  <1>8. /\ UNCHANGED <<Avail, RcvLastAck, RcvLastAckAck, BufferWasFull, PktCount, delivered, net>>
        /\ UNCHANGED sndVars
        /\ StartSeqNo' = StartSeqNo /\ Dropped' = {}
        /\ RcvLossList' = RcvLossList \ lo .. hi
    BY <1>2, <1>5, <1>7, Zenon DEF processCtrlDropReq, ReceiverOK
  <1>9. RcvCurrSeqNo' = RcvCurrSeqNo
    <2>1. RcvCurrSeqNo' \in {RcvCurrSeqNo, Max({RcvCurrSeqNo, hi})}
      BY <1>2 DEF processCtrlDropReq
    <2>2. Max({RcvCurrSeqNo, hi}) = RcvCurrSeqNo
      BY <1>6, OfTwo DEF TypeOK, SeqNos
    <2> QED
      BY <2>1, <2>2
  <1>10. RcvLossList' = RcvLossList
    BY <1>4, <1>8 DEF ReceiverOK, LossListExact
  <1>11. UNCHANGED rcvVars
    BY <1>8, <1>9, <1>10 DEF rcvVars, ReceiverOK
  <1>12. TypeOK'
    BY <1>8, <1>11 DEF TypeOK, sndVars, rcvVars
  <1>13. Grows
    BY <1>8, <1>11 DEF Grows, TypeOK, Positions, sndVars, rcvVars
  <1>14. ReceiverOK'
    BY <1>11, SameReceiver
  <1>15. SenderOK' /\ WindowOK'
    BY <1>8, <1>9, <1>12, <1>13, SameSender DEF SenderOK
  <1>16. PacketsOK'
    BY <1>8, <1>12, <1>13, NoNewPacket DEF sndVars
  <1> QED
    BY <1>12, <1>14, <1>15, <1>16

(* The application reads the first packet of the buffer.                   *)
LEMMA ReceiveStep == IInv /\ receive => IInv'
  <1> SUFFICES ASSUME IInv, receive PROVE IInv'
    OBVIOUS
  <1> USE ArqAssumption DEF IInv
  <1>1. StartSeqNo \in Avail /\ StartSeqNo \in SeqNos /\ StartSeqNo <= RcvCurrSeqNo
    BY DEF receive, TypeOK, ReceiverOK
  <1>2. FirstNotIn({}, StartSeqNo + 1) = StartSeqNo + 1
    BY <1>1, NothingToPass DEF SeqNos, Positions
  <1>3. /\ UNCHANGED <<RcvCurrSeqNo, RcvLossList, RcvLastAck, RcvLastAckAck, BufferWasFull,
                       PktCount, net>>
        /\ UNCHANGED sndVars
        /\ delivered' = delivered \cup {StartSeqNo}
        /\ Avail' = Avail \ {StartSeqNo}
        /\ StartSeqNo' = StartSeqNo + 1
        /\ Dropped' = {}
    BY <1>2 DEF receive, ReceiverOK
  <1>4. TypeOK'
    BY <1>1, <1>3 DEF TypeOK, sndVars, SeqNos, Positions
  <1>5. Grows
    BY <1>3 DEF Grows, TypeOK, Positions, sndVars
  <1>6. delivered' \cup Avail' = delivered \cup Avail
    BY <1>1, <1>3
  <1>7. ReceiverOK'
    BY <1>1, <1>3, <1>6
    DEF ReceiverOK, DeliveredWithoutGap, LossListExact, Received, TypeOK, SeqNos, Positions
  <1>8. SenderOK' /\ WindowOK'
    BY <1>3, <1>4, <1>5, SameSender DEF SenderOK
  <1>9. PacketsOK'
    BY <1>3, <1>4, <1>5, NoNewPacket DEF sndVars
  <1> QED
    BY <1>4, <1>7, <1>8, <1>9

(* The network loses a packet.                                             *)
LEMMA LoseStep ==
    ASSUME IInv, NEW p \in net, lose(p)
    PROVE  IInv'
  <1> USE ArqAssumption DEF IInv
  <1>1. UNCHANGED sndVars /\ UNCHANGED rcvVars /\ net' \subseteq net
    BY DEF lose
  <1>2. TypeOK'
    BY <1>1 DEF TypeOK, sndVars, rcvVars
  <1>3. Grows
    BY <1>1 DEF Grows, TypeOK, Positions, sndVars, rcvVars
  <1>4. ReceiverOK'
    BY <1>1, SameReceiver
  <1>5. SenderOK' /\ WindowOK'
    BY <1>1, <1>2, <1>3, SameSender DEF SenderOK, rcvVars
  <1>6. PacketsOK'
    BY <1>1, <1>2, <1>3, NoNewPacket DEF sndVars
  <1> QED
    BY <1>2, <1>4, <1>5, <1>6
-----------------------------------------------------------------------------
(* The invariant is inductive.                                             *)
LEMMA NextInv == IInv /\ [Next]_vars => IInv'
  <1> SUFFICES ASSUME IInv, [Next]_vars PROVE IInv'
    OBVIOUS
  <1>1. CASE UNCHANGED vars
    BY <1>1
    DEF vars, sndVars, rcvVars, IInv, TypeOK, ReceiverOK, SenderOK, WindowOK, PacketsOK, PacketOK,
        Received, DeliveredWithoutGap, LossListExact, LossesInBuffer, NoOverflow
  <1>2. CASE sendmsg2 \/ SendingWorker \/ lightAck \/ fullAck \/ checkRexmitTimer
    BY <1>2, SendmsgStep, IdleStep, PackLostStep, PackUniqueStep, LightAckStep, FullAckStep,
       RexmitStep
    DEF SendingWorker
  <1>3. CASE sendCtrlAck \/ holdAck \/ sendCtrlLiteAck \/ receive
    BY <1>3, SendAckStep, CountStep, SendLiteAckStep, ReceiveStep
  <1>4. CASE \E lo, hi \in SeqNos : checkNAKTimer(lo, hi)
    BY <1>4, NakTimerStep
  <1>5. CASE \E p \in net : processCtrlAck(p) \/ processCtrlLossReport(p)
    BY <1>5, AckStep, LossReportStep
  <1>6. CASE \E p \in net : processData(p) \/ rejectData(p)
    BY <1>6, DataStep, CountStep
  <1>7. CASE \E p \in net : processCtrlAckAck(p) \/ processCtrlDropReq(p) \/ lose(p)
    BY <1>7, AckAckStep, DropReqStep, LoseStep
  <1> QED
    BY <1>1, <1>2, <1>3, <1>4, <1>5, <1>6, <1>7 DEF Next

(* What the runs check follows from it.                                    *)
LEMMA Consequences ==
    ASSUME IInv
    PROVE  AckedIsReceived /\ ControlAccepted /\ AckPositionsOrdered
  <1> USE ArqAssumption DEF IInv
  <1>1. AckedIsReceived
    BY DEF AckedIsReceived, SenderOK, Received, TypeOK, SeqNos, Positions
  <1>2. ControlAccepted
    <2> SUFFICES ASSUME NEW p \in net
                 PROVE  /\ p \in Acks => p.ack <= SndCurrSeqNo + 1
                        /\ p.type = "lossreport" => p.hi <= SndCurrSeqNo
      BY DEF ControlAccepted
    <2>1. p \in Packets /\ PacketOK(p)
      BY DEF TypeOK, PacketsOK
    <2>2. ASSUME p \in Acks PROVE p.ack <= SndCurrSeqNo + 1
      <3>1. PICK a \in Positions : a = p.ack
        BY <2>1, <2>2, PacketFields
      <3>2. Received(a)
        BY <2>1, <2>2, <3>1, PacketFields DEF PacketOK
      <3>3. a <= RcvCurrSeqNo + 1
        BY <3>2, ReceivedIsSent
      <3> QED
        BY <3>1, <3>3 DEF SenderOK, TypeOK, Positions
    <2>3. ASSUME p.type = "lossreport" PROVE p.hi <= SndCurrSeqNo
      BY <2>1, <2>3, PacketFields DEF PacketOK, SenderOK, TypeOK, SeqNos
    <2> QED
      BY <2>2, <2>3
  <1>3. AckPositionsOrdered
    BY NoncontIsReceived DEF AckPositionsOrdered, ReceiverOK
  <1> QED
    BY <1>1, <1>2, <1>3

(* The invariant holds throughout every transfer.                          *)
THEOREM ArqInvariant == Spec => []IInv
  BY InitInv, NextInv, PTL DEF Spec

(* The reader gets every packet in order: receiveMessage and receiveBuffer *)
(* never pass a packet that was not delivered, whatever drop requests      *)
(* arrive.                                                                 *)
THEOREM NothingSkipped == Spec => []DeliveredWithoutGap
  <1>1. IInv => DeliveredWithoutGap
    BY DEF IInv, ReceiverOK
  <1> QED
    BY <1>1, ArqInvariant, PTL

(* updateSndLossListOnACK releases only packets the receiver has.          *)
THEOREM NothingForgotten == Spec => []AckedIsReceived
  <1>1. IInv => AckedIsReceived
    BY Consequences
  <1> QED
    BY <1>1, ArqInvariant, PTL

(* The flow window, with its base moved by lite and full ACKs in any       *)
(* order, never lets packData send beyond the receiver buffer.             *)
THEOREM BufferNeverOverflows == Spec => []NoOverflow
  <1>1. IInv => NoOverflow
    BY DEF IInv, WindowOK
  <1> QED
    BY <1>1, ArqInvariant, PTL

(* Late and repeated ACKs and loss reports never break the connection.     *)
THEOREM ControlAlwaysAccepted == Spec => []ControlAccepted
  <1>1. IInv => ControlAccepted
    BY Consequences
  <1> QED
    BY <1>1, ArqInvariant, PTL

(* packLostData always finds the packet it is to send again, the           *)
(* receiver's loss list is exact at all times, and the case sendCtrlAck    *)
(* calls not possible is not possible.                                     *)
THEOREM BookkeepingIsExact == Spec => []BookkeepingExact
  <1>1. IInv => BookkeepingExact
    BY Consequences, Zenon DEF IInv, SenderOK, ReceiverOK, BookkeepingExact
  <1> QED
    BY <1>1, ArqInvariant, PTL
==============================================================================
