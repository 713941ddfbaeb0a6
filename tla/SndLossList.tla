----------------------------- MODULE SndLossList -----------------------------
(***************************************************************************)
(* CSndLossList (srtcore/list.cpp): the sender's loss list, ranges of lost *)
(* sequence numbers linked through a static array.  The node of a range is *)
(* placed at the head's position plus the distance of the range's first    *)
(* number from the head's, modulo the array size.  The client half of the  *)
(* module is the sender: it inserts what loss reports and the              *)
(* retransmission timer name, pops what it retransmits and removes what is *)
(* acknowledged or dropped (core.cpp).                                     *)
(***************************************************************************)
EXTENDS SeqNo, FiniteSets, Functions

CONSTANTS Size,       \* m_iSize: twice the flow window (core.cpp:6038)
          FlowWindow, \* the most packets in flight
          ISN         \* initial sequence number

\* What the constants are to satisfy.
ListAssumption ==
    /\ FlowWindow \in Nat \ {0}
    /\ Size = 2 * FlowWindow
    /\ Size < SeqNoTH
    /\ ISN \in SeqNos

VARIABLES list,       \* the object: m_caSeq, m_iHead, m_iLength, m_iLastInsertPos
          ret,        \* the result of the last call
          lastAck,    \* m_iSndLastAck: first number not acknowledged
          curr        \* m_iSndCurrSeqNo: last number sent

vars == <<list, ret, lastAck, curr>>

Pos == 0 .. Size - 1

\* A node off the list.  The code leaves its old inext in place; no call reads
\* it before writing it again.
FreeNode == [seqstart |-> NONE, seqend |-> NONE, inext |-> -1]

EmptyList == [caSeq |-> [p \in Pos |-> FreeNode], head |-> -1, length |-> 0, lastInsert |-> -1]

-----------------------------------------------------------------------------
(* The nodes on the list, and what the list stands for.                     *)

\* The positions met walking from p along inext.
RECURSIVE Reach(_, _)
Reach(l, p) == IF p = -1 THEN {} ELSE {p} \cup Reach(l, l.caSeq[p].inext)

EndOf(node) == IF node.seqend = NONE THEN node.seqstart ELSE node.seqend

Losses(l) == UNION {SeqRange(l.caSeq[p].seqstart, EndOf(l.caSeq[p])) : p \in Reach(l, l.head)}

-----------------------------------------------------------------------------
(* insert                                                                   *)

insertHead(l, pos, seqno1, seqno2) ==
    [l EXCEPT !.caSeq[pos].seqstart = seqno1,
              !.caSeq[pos].seqend = IF seqno2 # seqno1 THEN seqno2 ELSE @,
              !.caSeq[pos].inext = l.head,
              !.head = pos,
              !.lastInsert = pos,
              !.length = @ + seqlen(seqno1, seqno2)]

insertAfter(l, pos, after, seqno1, seqno2) ==
    [l EXCEPT !.caSeq[pos].seqstart = seqno1,
              !.caSeq[pos].seqend = IF seqno2 # seqno1 THEN seqno2 ELSE @,
              !.caSeq[pos].inext = l.caSeq[after].inext,
              !.caSeq[after].inext = pos,
              !.lastInsert = pos,
              !.length = @ + seqlen(seqno1, seqno2)]

\* One round of the loop of coalesce: node i, the next of loc, is absorbed.
Absorb(l, loc, i) ==
    LET n == l.caSeq[i]
        e == l.caSeq[loc].seqend
        longer == n.seqend # NONE /\ seqcmp(n.seqend, e) > 0
        newEnd == IF longer THEN n.seqend
                  ELSE IF n.seqend = NONE /\ n.seqstart = incseq(e) THEN n.seqstart ELSE e
        overlap == IF n.seqend # NONE
                   THEN IF longer
                        THEN IF seqcmp(e, n.seqstart) >= 0 THEN seqlen(n.seqstart, e) ELSE 0
                        ELSE seqlen(n.seqstart, n.seqend)
                   ELSE IF n.seqstart = incseq(e) THEN 0 ELSE 1
    IN  [l EXCEPT !.caSeq[loc].seqend = newEnd,
                  !.caSeq[loc].inext = n.inext,
                  !.caSeq[i] = FreeNode,
                  !.length = @ - overlap]

RECURSIVE coalesce(_, _)
coalesce(l, loc) ==
    LET i == l.caSeq[loc].inext
    IN  IF \/ i = -1
           \/ l.caSeq[loc].seqend = NONE
           \/ seqcmp(l.caSeq[i].seqstart, incseq(l.caSeq[loc].seqend)) > 0
        THEN l
        ELSE coalesce(Absorb(l, loc, i), loc)

\* updateElement returns whether the node at pos was extended.
Extends(l, pos, seqno1, seqno2) ==
    /\ seqno2 # seqno1
    /\ l.caSeq[pos].seqend = NONE \/ seqcmp(seqno2, l.caSeq[pos].seqend) > 0

\* Faulty: the numbers the node already held are counted again.
BadupdateElement(l, pos, seqno1, seqno2) ==
    IF Extends(l, pos, seqno1, seqno2)
    THEN [l EXCEPT !.lastInsert = pos,
                   !.length = @ + seqlen(seqno1, seqno2) - 1,
                   !.caSeq[pos].seqend = seqno2]
    ELSE [l EXCEPT !.lastInsert = pos]

updateElement(l, pos, seqno1, seqno2) ==
    LET from == IF l.caSeq[pos].seqend = NONE THEN seqno1 ELSE l.caSeq[pos].seqend
    IN  IF Extends(l, pos, seqno1, seqno2)
        THEN [l EXCEPT !.lastInsert = pos,
                       !.length = @ + seqlen(from, seqno2) - 1,
                       !.caSeq[pos].seqend = seqno2]
        ELSE [l EXCEPT !.lastInsert = pos]

\* The last node, walking from p, whose successor does not start before seqno.
RECURSIVE PriorFrom(_, _, _)
PriorFrom(l, p, seqno) ==
    LET i == l.caSeq[p].inext
    IN  IF i # -1 /\ seqcmp(l.caSeq[i].seqstart, seqno) < 0 THEN PriorFrom(l, i, seqno) ELSE p

\* A number that starts no node: a new node after the prior one, or the prior
\* one grows.
insertInside(l, loc, seqno1, seqno2) ==
    LET hint == l.lastInsert
        from == IF hint # -1 /\ seqcmp(l.caSeq[hint].seqstart, seqno1) < 0 THEN hint ELSE l.head
        i == PriorFrom(l, from, seqno1)
        seqend == EndOf(l.caSeq[i])
    IN  IF seqcmp(seqend, seqno1) < 0 /\ incseq(seqend) # seqno1
        THEN coalesce(insertAfter(l, loc, i, seqno1, seqno2), loc)
        ELSE IF seqcmp(seqend, seqno2) >= 0
             THEN [l EXCEPT !.lastInsert = i]
             ELSE coalesce([l EXCEPT !.lastInsert = i,
                                     !.length = @ + seqlen(seqend, seqno2) - 1,
                                     !.caSeq[i].seqend = seqno2], i)

\* The C remainder by Size: it takes the sign of the dividend.
CRem(x) == IF x >= 0 THEN x % Size ELSE -((-x) % Size)

\* The list after insert; the result of the call is the growth of its length
\* (the early returns of 0 leave the length alone).
insert(l, seqno1, seqno2) ==
    LET offset == seqoff(l.caSeq[l.head].seqstart, seqno1)
        loc1 == CRem(l.head + offset + Size)
        loc2 == CRem(l.head + seqoff(l.caSeq[l.head].seqstart, seqno2) + Size)
        loc == IF loc1 >= 0 THEN loc1 ELSE loc2
    IN  IF seqlen(seqno1, seqno2) \notin 1 .. Size - 1 THEN l
        ELSE IF l.length = 0 THEN insertHead(l, 0, seqno1, seqno2)
        ELSE IF offset >= Size \/ loc < 0 THEN l
        ELSE IF offset < 0 THEN coalesce(insertHead(l, loc, seqno1, seqno2), loc)
        ELSE IF offset > 0 /\ l.caSeq[loc].seqstart # seqno1
             THEN insertInside(l, loc, seqno1, seqno2)
        ELSE IF Extends(l, loc, seqno1, seqno2)
             THEN coalesce(updateElement(l, loc, seqno1, seqno2), loc)
             ELSE updateElement(l, loc, seqno1, seqno2)

-----------------------------------------------------------------------------
(* popLostSeq and removeUpTo                                                *)

\* Faulty: the hint stays on a freed node.
BadForgetHint(l, p) == l

ForgetHint(l, p) == [l EXCEPT !.lastInsert = IF @ = p THEN -1 ELSE @]

\* The range of the node at p loses its numbers up to seq: the rest of it, if
\* there is a rest, moves to the position loc.  The node at p keeps its start.
SplitOff(l, p, loc, seq) ==
    [l EXCEPT !.caSeq[loc].seqstart = incseq(seq),
              !.caSeq[loc].seqend =
                  IF seqcmp(l.caSeq[p].seqend, incseq(seq)) > 0 THEN l.caSeq[p].seqend ELSE @,
              !.caSeq[loc].inext = l.caSeq[p].inext,
              !.head = loc]

\* The head node gives up its first number.
dropFirst(l) ==
    LET h == l.head
        moved == IF l.caSeq[h].seqend = NONE
                 THEN [l EXCEPT !.head = l.caSeq[h].inext]
                 ELSE SplitOff(l, h, (h + 1) % Size, l.caSeq[h].seqstart)
    IN  ForgetHint([moved EXCEPT !.caSeq[h] = FreeNode, !.length = @ - 1], h)

popLostSeq(l) == IF l.length = 0 THEN l ELSE dropFirst(l)

\* The loop that frees the nodes from h up to the new head.
RECURSIVE FreeUpToHead(_, _)
FreeUpToHead(l, h) ==
    IF h = l.head THEN l
    ELSE LET n == l.caSeq[h]
             count == IF n.seqend # NONE THEN seqlen(n.seqstart, n.seqend) ELSE 1
         IN  FreeUpToHead(ForgetHint([l EXCEPT !.length = @ - count,
                                               !.caSeq[h] = FreeNode], h),
                          n.inext)

\* The list with its head moved behind seqno, the nodes before it not yet freed.
MoveHead(l, loc, seqno) ==
    LET next == (loc + 1) % Size
        i == PriorFrom(l, l.head, seqno)
        p == IF l.caSeq[loc].seqstart = seqno THEN loc ELSE i
        \* the last number of node p that goes away with it
        cut == IF p = loc THEN NONE ELSE seqno
    IN  IF l.caSeq[p].seqend = NONE \/ (p # loc /\ seqcmp(l.caSeq[p].seqend, seqno) <= 0)
        THEN [l EXCEPT !.head = l.caSeq[p].inext]
        ELSE [SplitOff(l, p, next, seqno) EXCEPT !.caSeq[p].seqend = cut,
                                                 !.caSeq[p].inext = next]

removeUpTo(l, seqno) ==
    LET offset == seqoff(l.caSeq[l.head].seqstart, seqno)
        loc == (l.head + offset + Size) % Size
    IN  IF l.length = 0 \/ offset < 0 THEN l
        ELSE IF offset = 0 THEN dropFirst(l)
        ELSE FreeUpToHead(MoveHead(l, loc, seqno), l.head)

-----------------------------------------------------------------------------
(* The sender that uses the list (core.cpp)                                 *)

getFlightSpan == seqlen(lastAck, incseq(curr)) - 1

InFlight == IF getFlightSpan = 0 THEN {} ELSE SeqRange(lastAck, curr)

Init ==
    /\ list = EmptyList
    /\ ret = 0
    /\ lastAck = ISN
    /\ curr = decseq(ISN)

\* packUniqueData: a new packet within the flow window.
Send ==
    /\ getFlightSpan < FlowWindow
    /\ curr' = incseq(curr)
    /\ UNCHANGED <<list, ret, lastAck>>

\* processCtrlLossReport, checkRexmitTimer: a range of packets in flight.
Report(lo, hi) ==
    /\ seqcmp(lo, hi) <= 0
    /\ list' = insert(list, lo, hi)
    /\ ret' = list'.length - list.length
    /\ UNCHANGED <<lastAck, curr>>

\* packLostData takes the next number to retransmit.
Pop ==
    /\ list' = popLostSeq(list)
    /\ ret' = IF list.length = 0 THEN NONE ELSE list.caSeq[list.head].seqstart
    /\ UNCHANGED <<lastAck, curr>>

\* extractCleanRexmitPacket: an expired message up to seq is skipped.
SkipMessage(seq) ==
    /\ list' = removeUpTo(list, seq)
    /\ ret' = 0
    /\ UNCHANGED <<lastAck, curr>>

\* updateSndLossListOnACK, sndDropTooLate: n packets leave the sender buffer,
\* packets not yet sent among them.
Forget(n) ==
    /\ lastAck' = incseqBy(lastAck, n)
    /\ curr' = maxseq(curr, decseq(lastAck'))
    /\ list' = removeUpTo(list, decseq(lastAck'))
    /\ ret' = 0

Next ==
    \/ Send
    \/ Pop
    \/ \E lo, hi \in InFlight : Report(lo, hi)
    \/ \E seq \in InFlight : SkipMessage(seq)
    \/ \E n \in 1 .. FlowWindow : Forget(n)

Spec == Init /\ [][Next]_vars
-----------------------------------------------------------------------------
\* The representation is the one the operations expect.
TypeOK ==
    /\ list.caSeq \in [Pos -> [seqstart : SeqNos \cup {NONE}, seqend : SeqNos \cup {NONE},
                               inext : Pos \cup {-1}]]
    /\ list.head \in Pos \cup {-1}
    /\ list.length \in 0 .. Size
    /\ list.lastInsert \in Pos \cup {-1}
    /\ lastAck \in SeqNos /\ curr \in SeqNos

\* Every node on the list sits at the head's position plus its distance from
\* the head, is ordered before its successor and does not overlap it; every
\* node off the list is blank, which insertHead and insertAfter assert
\* (list.cpp:391, 406) and which they need because a single loss leaves the
\* old seqend in place.
ListWellFormed ==
    LET on == Reach(list, list.head)
        at(p) == list.caSeq[p]
    IN  /\ TypeOK
        /\ list.head = -1 <=> list.length = 0
        /\ \A p \in on :
              /\ p = (list.head + seqoff(at(list.head).seqstart, at(p).seqstart)) % Size
              /\ at(p).seqend # NONE => seqcmp(at(p).seqend, at(p).seqstart) > 0
              /\ at(p).inext # -1 => seqcmp(EndOf(at(p)), at(at(p).inext).seqstart) < 0
        /\ \A p \in Pos \ on : at(p).seqstart = NONE /\ at(p).seqend = NONE

\* The insertion hint never points to a node that has left the list, although
\* pop, removeUpTo and coalesce all free nodes (list.cpp:181 dereferences it).
HintIsLive == list.lastInsert # -1 => list.lastInsert \in Reach(list, list.head)

\* Only packets in flight are scheduled for retransmission: popping never
\* yields a number that is already acknowledged (core.cpp:9827 expects this).
OnlyInFlight == Losses(list) \subseteq InFlight

\* The list as a data structure: in order, without overlap, with a live hint, and
\* only about packets in flight, whatever order of reports, pops and removals.
SndLossExact == ListWellFormed /\ HintIsLive /\ OnlyInFlight
=============================================================================
