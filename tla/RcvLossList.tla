----------------------------- MODULE RcvLossList -----------------------------
(***************************************************************************)
(* CRcvLossList (srtcore/list.cpp): the receiver's loss list, ranges of    *)
(* lost sequence numbers doubly linked through a static array.  Ranges are *)
(* only added behind all earlier ones; numbers are removed anywhere.  The  *)
(* client half of the module is the receiver (core.cpp): it records the    *)
(* gap before a packet, removes what arrives late, and removes what the    *)
(* sender or the TSBPD thread drops.                                       *)
(***************************************************************************)
EXTENDS SeqNo, FiniteSets, Sequences

CONSTANTS Size,       \* m_iSize: the flight flag size (core.cpp:6039)
          ISN,        \* initial sequence number
          MaxAdvance, \* bound: how far the received sequence goes
          EarlyDrops  \* whether a drop request may overtake the packets before it

\* What the constants are to satisfy.
ListAssumption ==
    /\ Size \in Nat \ {0}
    /\ Size < SeqNoTH
    /\ ISN \in SeqNos
    /\ MaxAdvance \in Nat
    /\ EarlyDrops \in BOOLEAN

VARIABLES list,       \* the object: m_caSeq, m_iHead, m_iTail, m_iLength, m_iLargestSeq
          base,       \* the receiver buffer's first sequence number
          curr,       \* m_iRcvCurrSeqNo: the latest number received
          advance,    \* how far curr has moved
          missing     \* the numbers that neither arrived nor were given up

vars == <<list, base, curr, advance, missing>>

Pos == 0 .. Size - 1

\* A slot off the list.  The code leaves the old links in place; no call reads
\* them before writing them again.
FreeNode == [seqstart |-> NONE, seqend |-> NONE, inext |-> -1, iprior |-> -1]

EmptyList ==
    [caSeq |-> [p \in Pos |-> FreeNode], head |-> -1, tail |-> -1, length |-> 0,
     largest |-> NONE]

-----------------------------------------------------------------------------
(* What the list stands for                                                 *)

\* The positions met walking from p along inext.
RECURSIVE Chain(_, _)
Chain(l, p) == IF p = -1 THEN <<>> ELSE <<p>> \o Chain(l, l.caSeq[p].inext)

OnList(l) == {Chain(l, l.head)[i] : i \in 1 .. Len(Chain(l, l.head))}

EndOf(node) == IF node.seqend = NONE THEN node.seqstart ELSE node.seqend

Losses(l) == UNION {SeqRange(l.caSeq[p].seqstart, EndOf(l.caSeq[p])) : p \in OnList(l)}

-----------------------------------------------------------------------------
(* insert                                                                   *)

\* The first number that is really inserted, or NONE when all are rejected as
\* not larger than the largest number seen.
Adjusted(l, seqno1, seqno2) ==
    IF l.largest = NONE \/ seqcmp(seqno1, l.largest) > 0 THEN seqno1
    ELSE IF seqcmp(seqno2, l.largest) > 0 THEN incseq(l.largest)
    ELSE NONE

PredatesHead(l, seqno1) == l.length > 0 /\ seqoff(l.caSeq[l.head].seqstart, seqno1) < 0

\* The node for seqno1..seqno2 in slot pos, a single number leaving seqend.
NewNode(l, pos, seqno1, seqno2, iprior) ==
    [seqstart |-> seqno1,
     seqend |-> IF seqno2 # seqno1 THEN seqno2 ELSE l.caSeq[pos].seqend,
     inext |-> -1, iprior |-> iprior]

insertFirst(l, seqno1, seqno2) ==
    [l EXCEPT !.head = 0, !.tail = 0, !.caSeq[0] = NewNode(l, 0, seqno1, seqno2, -1)]

insertLast(l, seqno1, seqno2) ==
    LET loc == (l.head + seqoff(l.caSeq[l.head].seqstart, seqno1)) % Size
    IN  IF l.caSeq[l.tail].seqend # NONE /\ incseq(l.caSeq[l.tail].seqend) = seqno1
        THEN [l EXCEPT !.caSeq[l.tail].seqend = seqno2]
        ELSE [l EXCEPT !.caSeq = [@ EXCEPT ![loc] = NewNode(l, loc, seqno1, seqno2, l.tail),
                                           ![l.tail].inext = loc],
                       !.tail = loc]

insert(l, seqno1, seqno2) ==
    LET first == Adjusted(l, seqno1, seqno2)
        l1 == [l EXCEPT !.largest = seqno2]
        added == IF l.length = 0 THEN insertFirst(l1, first, seqno2)
                                 ELSE insertLast(l1, first, seqno2)
    IN  IF first = NONE THEN l
        ELSE IF PredatesHead(l, first) THEN l1
        ELSE [added EXCEPT !.length = @ + seqlen(first, seqno2)]

\* The value insert returns.
insertResult(l, seqno1, seqno2) ==
    LET first == Adjusted(l, seqno1, seqno2)
    IN  IF first = NONE THEN 0
        ELSE IF PredatesHead(l, first) THEN -1
        ELSE seqlen(first, seqno2)

-----------------------------------------------------------------------------
(* remove, removeUpTo                                                       *)

\* The list with link p of its neighbours, or head and tail, set to to.
LinkNext(l, p, to) == IF p = -1 THEN [l EXCEPT !.head = to] ELSE [l EXCEPT !.caSeq[p].inext = to]

LinkPrior(l, p, to) == IF p = -1 THEN [l EXCEPT !.tail = to] ELSE [l EXCEPT !.caSeq[p].iprior = to]

\* The only number of the node in slot loc goes: the node is unlinked.
unlink(l, loc) ==
    LET n == l.caSeq[loc]
    IN  LinkNext(LinkPrior([l EXCEPT !.caSeq[loc] = FreeNode], n.inext, n.iprior),
                 n.iprior, n.inext)

\* The node n, without its numbers before seqstart, in slot i.
Rest(l, i, n, seqstart) ==
    [n EXCEPT !.seqstart = seqstart,
              !.seqend = IF seqcmp(n.seqend, seqstart) > 0 THEN n.seqend ELSE l.caSeq[i].seqend]

\* The first of several numbers goes: the node moves to the next slot.
moveOn(l, loc) ==
    LET n == l.caSeq[loc]
        i == (loc + 1) % Size
        moved == [l EXCEPT !.caSeq = [@ EXCEPT ![i] = Rest(l, i, n, incseq(n.seqstart)),
                                               ![loc] = FreeNode]]
    IN  LinkPrior(LinkNext(moved, n.iprior, i), n.inext, i)

\* The node in slot i ends before seqno.
trim(l, i, seqno) ==
    [l EXCEPT !.caSeq[i].seqend = IF seqno = incseq(l.caSeq[i].seqstart) THEN NONE ELSE decseq(seqno)]

\* A number inside the node in slot i goes: the rest gets slot loc.
split(l, i, loc, seqno) ==
    LET rest == [Rest(l, loc, l.caSeq[i], incseq(seqno)) EXCEPT !.iprior = i]
    IN  LinkPrior([trim(l, i, seqno) EXCEPT !.caSeq[loc] = rest, !.caSeq[i].inext = loc],
                  rest.inext, loc)

\* The nearest slot before loc that holds a node.
UsedBefore(l, loc) ==
    LET used(k) == l.caSeq[(loc - k) % Size].seqstart # NONE
        k == CHOOSE k \in 1 .. Size : used(k) /\ \A j \in 1 .. k - 1 : ~used(j)
    IN  (loc - k) % Size

\* The list without seqno; l itself when seqno is not on it.
takeOut(l, seqno) ==
    LET offset == seqoff(l.caSeq[l.head].seqstart, seqno)
        loc == (l.head + offset) % Size
        i == UsedBefore(l, loc)
    IN  IF l.length = 0 \/ offset < 0 THEN l
        ELSE IF l.caSeq[loc].seqstart = seqno
             THEN IF l.caSeq[loc].seqend = NONE THEN unlink(l, loc) ELSE moveOn(l, loc)
        ELSE IF l.caSeq[i].seqend = NONE \/ seqcmp(seqno, l.caSeq[i].seqend) > 0 THEN l
        ELSE IF seqno = l.caSeq[i].seqend THEN trim(l, i, seqno)
        ELSE split(l, i, (loc + 1) % Size, seqno)

remove(l, seqno) ==
    LET seen == [l EXCEPT !.largest = IF @ = NONE \/ seqcmp(seqno, @) > 0 THEN seqno ELSE @]
        out == takeOut(seen, seqno)
    IN  IF out = seen THEN seen
        ELSE [out EXCEPT !.length = @ - 1, !.largest = IF l.length = 1 THEN NONE ELSE @]

\* remove(seqno1, seqno2), for seqno1 not later than seqno2
RECURSIVE removeRange(_, _, _)
removeRange(l, seqno1, seqno2) ==
    IF seqcmp(seqno1, seqno2) > 0 THEN l
    ELSE removeRange(remove(l, seqno1), incseq(seqno1), seqno2)

getFirstLostSeq(l) == IF l.length = 0 THEN NONE ELSE l.caSeq[l.head].seqstart

\* Faulty: the last number stays.
BadremoveUpTo(l, seqno_last) ==
    LET first == getFirstLostSeq(l)
    IN  IF first = NONE \/ seqcmp(seqno_last, first) < 0 THEN l
        ELSE removeRange(l, first, decseq(seqno_last))

removeUpTo(l, seqno_last) ==
    LET first == getFirstLostSeq(l)
    IN  IF first = NONE \/ seqcmp(seqno_last, first) < 0 THEN l
        ELSE removeRange(l, first, seqno_last)

-----------------------------------------------------------------------------
(* find, getLossArray                                                       *)

find(l, seqno1, seqno2) ==
    \E p \in OnList(l) :
        LET n == l.caSeq[p]
        IN  \/ seqcmp(n.seqstart, seqno1) = 0
            \/ seqcmp(n.seqstart, seqno1) > 0 /\ seqcmp(n.seqstart, seqno2) <= 0
            \/ /\ seqcmp(n.seqstart, seqno1) < 0
               /\ n.seqend # NONE
               /\ seqcmp(n.seqend, seqno1) >= 0

\* The words of a loss report: [seq, first], first marking the start of a range.
RECURSIVE lossArrayFrom(_, _, _, _)
lossArrayFrom(l, i, array, limit) ==
    LET n == l.caSeq[i]
        words == IF n.seqend = NONE
                 THEN <<[seq |-> n.seqstart, first |-> FALSE]>>
                 ELSE <<[seq |-> n.seqstart, first |-> TRUE], [seq |-> n.seqend, first |-> FALSE]>>
    IN  IF i = -1 \/ Len(array) >= limit - 1 THEN array
        ELSE lossArrayFrom(l, n.inext, array \o words, limit)

getLossArray(l, limit) == lossArrayFrom(l, l.head, <<>>, limit)

-----------------------------------------------------------------------------
(* The receiver that uses the list (core.cpp)                               *)

\* The numbers the receiver buffer has room for.
Reachable == SeqRange(base, incseqBy(base, Size - 1))

Init ==
    /\ list = EmptyList
    /\ base = ISN
    /\ curr = decseq(ISN)
    /\ advance = 0
    /\ missing = {}

\* The latest number becomes seq.
Advance(seq) ==
    /\ curr' = seq
    /\ advance' = advance + seqoff(curr, seq)
    /\ advance' <= MaxAdvance

\* processData, handleSocketPacketReception: a packet behind the latest one;
\* the numbers jumped over are recorded as lost.
ReceiveAhead(seq) ==
    LET lo == incseq(curr)
        hi == decseq(seq)
        gap == seqcmp(seq, lo) > 0
    IN  /\ seqcmp(seq, curr) > 0
        /\ Advance(seq)
        /\ list' = IF gap THEN insert(list, lo, hi) ELSE list
        /\ missing' = IF gap THEN missing \cup SeqRange(lo, hi) ELSE missing
        /\ UNCHANGED base

\* unlose: a packet that is late, retransmitted or a duplicate.
ReceiveLate(seq) ==
    /\ seqcmp(seq, curr) <= 0
    /\ list' = remove(list, seq)
    /\ missing' = missing \ {seq}
    /\ UNCHANGED <<base, curr, advance>>

\* processCtrlDropReq: the sender gives up lo..hi.
DropRequest(lo, hi) ==
    /\ seqcmp(lo, hi) <= 0
    /\ EarlyDrops \/ seqcmp(lo, incseq(curr)) <= 0
    /\ list' = removeRange(list, lo, hi)
    /\ missing' = missing \ SeqRange(lo, hi)
    /\ IF seqcmp(lo, incseq(curr)) <= 0 /\ seqcmp(hi, curr) > 0
       THEN Advance(hi)
       ELSE UNCHANGED <<curr, advance>>
    /\ UNCHANGED base

\* rcvDropTooLateUpTo: the receiver gives up everything before seqno.
DropTooLate(seqno) ==
    /\ seqcmp(seqno, base) > 0
    /\ seqcmp(seqno, incseq(curr)) <= 0
    /\ base' = seqno
    /\ list' = removeUpTo(list, decseq(seqno))
    /\ missing' = {s \in missing : seqcmp(s, seqno) >= 0}
    /\ UNCHANGED <<curr, advance>>

\* The application reads: the buffer moves on to a number before which nothing
\* is missing.
Read(seqno) ==
    /\ seqcmp(seqno, base) > 0
    /\ seqcmp(seqno, incseq(curr)) <= 0
    /\ \A s \in missing : seqcmp(seqno, s) <= 0
    /\ base' = seqno
    /\ UNCHANGED <<list, curr, advance, missing>>

Next ==
    \E seq \in Reachable \cup {incseq(curr)} :
        \/ seq \in Reachable /\ (ReceiveAhead(seq) \/ ReceiveLate(seq))
        \/ \E hi \in Reachable : seq \in Reachable /\ DropRequest(seq, hi)
        \/ DropTooLate(seq)
        \/ Read(seq)

Spec == Init /\ [][Next]_vars
-----------------------------------------------------------------------------
\* The list and the receiver's state have the shapes the code gives them.
TypeOK ==
    /\ list.caSeq \in [Pos -> [seqstart : SeqNos \cup {NONE}, seqend : SeqNos \cup {NONE},
                               inext : Pos \cup {-1}, iprior : Pos \cup {-1}]]
    /\ list.head \in Pos \cup {-1} /\ list.tail \in Pos \cup {-1}
    /\ list.length \in 0 .. Size
    /\ list.largest \in SeqNos \cup {NONE}
    /\ base \in SeqNos /\ curr \in SeqNos
    /\ missing \subseteq SeqNos

\* Of the right shape, the two directions of the list agree; a node sits in the slot its distance
\* from the head gives, which remove relies on to find it (list.cpp:595, 663);
\* consecutive nodes are ordered and apart; slots off the list are blank, which
\* a single loss relies on (list.cpp:527, 566).
ListWellFormed ==
    LET chain == Chain(list, list.head)
        at(p) == list.caSeq[p]
    IN  /\ TypeOK
        /\ list.tail = IF chain = <<>> THEN -1 ELSE chain[Len(chain)]
        /\ \A i \in 1 .. Len(chain) :
              /\ at(chain[i]).iprior = IF i = 1 THEN -1 ELSE chain[i - 1]
              /\ chain[i] = (list.head + seqoff(at(list.head).seqstart, at(chain[i]).seqstart)) % Size
              /\ at(chain[i]).seqend # NONE => seqcmp(at(chain[i]).seqend, at(chain[i]).seqstart) > 0
              /\ i > 1 => seqcmp(EndOf(at(chain[i - 1])), at(chain[i]).seqstart) < 0
        /\ \A p \in Pos \ OnList(list) : at(p) = FreeNode

\* The list is exactly what is missing: it asks for no packet that has arrived or
\* has been given up, it forgets none, and the length it reports is right.  The
\* periodic loss report and the acknowledged position depend on this.
ExactlyMissing ==
    /\ Losses(list) = missing
    /\ list.length = Cardinality(missing)

\* find tells whether any of a range is lost.
FindExact ==
    \A lo, hi \in Reachable :
        seqcmp(lo, hi) <= 0 => (find(list, lo, hi) <=> SeqRange(lo, hi) \cap missing # {})

\* What a loss report stands for, read as processCtrlLossReport reads it.
Decoded(words) ==
    UNION {IF words[i].first THEN SeqRange(words[i].seq, words[i + 1].seq)
           ELSE {words[i].seq} : i \in 1 .. Len(words)}

\* A loss report fits its payload, names only missing packets, and names all of
\* them when it has room to spare.
LossArrayExact ==
    \A limit \in 2 .. Size :
        LET words == getLossArray(list, limit)
        IN  /\ Len(words) <= limit
            /\ Decoded(words) \subseteq missing
            /\ Len(words) < limit - 1 => Decoded(words) = missing

\* The list, what it finds and what it reports agree with what is missing, at any
\* point of the order in which packets, drop requests and late drops come.
RcvLossExact == ListWellFormed /\ ExactlyMissing /\ FindExact /\ LossArrayExact
=============================================================================
