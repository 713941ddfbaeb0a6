-------------------------------- MODULE Fec --------------------------------
(***************************************************************************)
(* The built-in packet filter (fec.cpp) between the sending and the        *)
(* receiving side of one connection.  Sequence numbers are naturals that   *)
(* start at 1.  The XOR of packets (length, flags, timestamp and payload   *)
(* clips together) is the symmetric difference of the sets of packets that *)
(* went into it; all packets have one length, so the length test of        *)
(* RcvRebuild always passes.  Rows and columns are 1-based here.           *)
(***************************************************************************)
EXTENDS Integers, Sequences, FiniteSets, SequencesExt

CONSTANT Cases     \* [cols, rows, conly, stair, arq, rbuf, pkts, faults, burst]

VARIABLES env,       \* the configuration
          snd,       \* the sender's groups and the next packet
          rcv,       \* the receiver's groups and cells
          chan,      \* what the network holds back, loses and may still do
          got,       \* history: data packets passed to the filter
          out,       \* history: packets rebuilt, [seq, clip]
          lost       \* history: packets reported as irrecoverable

vars == <<env, snd, rcv, chan, got, out, lost>>

numberCols == env.cols
numberRows == env.rows
matrix == env.cols * env.rows
MaxHistory == 10                 \* SRT_FEC_MAX_RCV_HISTORY

Xor(a, b) == (a \ b) \cup (b \ a)
DropFirst(s, n) == SubSeq(s, n + 1, Len(s))
Tuple(n, F(_)) == SubSeq([i \in 1 .. n |-> F(i)], 1, n)

ConfigureGroup(seqno) ==
    [base |-> seqno, collected |-> 0, clip |-> {}, fec |-> FALSE, dismissed |-> FALSE]

\* One series of columns; in the staircase layout each begins one row below the
\* one before, and at the top again once the bottom is reached.
ConfigureColumns(isn) ==
    Tuple(numberCols, LAMBDA i : ConfigureGroup(isn + i - 1 +
        IF env.stair THEN ((i - 1) % numberRows) * numberCols ELSE 0))

\* Faulty: a reset group keeps its clip.
BadResetGroup(g, drop) == [g EXCEPT !.base = @ + drop, !.collected = 0]

ResetGroup(g, drop) == ConfigureGroup(g.base + drop)
ClipPacket(g, clip) == [g EXCEPT !.clip = Xor(@, clip), !.collected = @ + 1]
ClipControlPacket(g, clip) == [g EXCEPT !.clip = Xor(@, clip), !.fec = TRUE]

Init ==
    /\ env \in Cases
    /\ snd = [row |-> ConfigureGroup(1), next |-> 1,
              cols |-> IF numberRows > 1 THEN ConfigureColumns(1) ELSE << >>]
    /\ rcv = [rowq |-> <<ConfigureGroup(1)>>, cellBase |-> 1, cells |-> << >>,
              colq |-> IF numberRows > 1 THEN ConfigureColumns(1) ELSE << >>]
    /\ chan = [held |-> {}, burst |-> 0, faults |-> env.faults]
    /\ got = {} /\ out = {} /\ lost = {}

-----------------------------------------------------------------------------
(* The sender                                                              *)

CheckGroupClose(g, pos, size, drop) == IF pos < size THEN g ELSE ResetGroup(g, drop)

\* A data packet enters its row and, once the column's first packet is reached,
\* its column.
feedSource(s, seq) ==
    LET off  == seq - s.row.base
        row  == ClipPacket(CheckGroupClose(s.row, off, numberCols, numberCols), {seq})
        x    == (off % numberCols) + 1
        voff == seq - s.cols[x].base
        col  == ClipPacket(CheckGroupClose(s.cols[x], voff \div numberCols, numberRows,
                                           matrix), {seq})
    IN IF numberRows < 2 \/ voff < 0 \/ voff % numberCols # 0
         THEN [s EXCEPT !.row = row]
         ELSE [s EXCEPT !.row = row, !.cols[x] = col]

\* A full column's control packet goes before that of the row, whose base tells
\* the column; pkt is << >> when there is nothing to send.
packControlPacket(s, seq) ==
    LET off == seq - s.row.base
        x   == (off % numberCols) + 1
        ctl(g, index) == <<[ctl |-> TRUE, seq |-> seq, col |-> index, clip |-> g.clip]>>
    IN IF numberRows > 1 /\ off >= 0 /\ s.cols[x].collected >= numberRows
         THEN [pkt |-> ctl(s.cols[x], x),
               s   |-> [s EXCEPT !.cols[x] = ResetGroup(@, matrix)]]
       ELSE IF s.row.collected >= numberCols
         THEN [pkt |-> IF env.conly THEN << >> ELSE ctl(s.row, 0),
               s   |-> [s EXCEPT !.row = ResetGroup(@, numberCols)]]
       ELSE [pkt |-> << >>, s |-> s]

-----------------------------------------------------------------------------
(* The receiver's tables                                                   *)

Resize(s, n) == s \o Tuple(n - Len(s), LAMBDA i : FALSE)

\* Cells are extended up to the packet; mark is RECEIVED, EXTEND or REMOVE.
MarkCellReceived(r, seq, mark) ==
    LET off   == seq - r.cellBase
        grown == IF off >= Len(r.cells) THEN Resize(r.cells, off + 1) ELSE r.cells
    IN IF off < 0 THEN r
       ELSE [r EXCEPT !.cells =
               IF off >= Len(r.cells) \/ mark # "EXTEND"
                 THEN [grown EXCEPT ![off + 1] = (mark = "RECEIVED")] ELSE grown]

IsReceived(r, seq) == /\ seq - r.cellBase + 1 \in DOMAIN r.cells
                      /\ r.cells[seq - r.cellBase + 1]

\* Far ahead of what is kept, all groups are set up anew around the packet.
CheckLargeDrop(r, seq) ==
    LET offset  == seq - r.rowq[1].base
        rowbase == r.rowq[1].base + (offset \div numberCols) * numberCols
        colx    == offset % numberCols
        coloff  == seq - r.colq[colx + 1].base
        series  == coloff \div matrix
        base    == r.colq[1].base + (series - 1) * matrix
    IN IF offset < 0 THEN r
       ELSE IF numberRows = 1
         THEN IF offset <= 5 * numberCols THEN r
              ELSE [r EXCEPT !.rowq = <<ConfigureGroup(rowbase)>>, !.cells = << >>]
       ELSE IF coloff < 0 \/ ~(\/ colx * numberRows > env.rbuf \div 2
                               \/ series > MaxHistory
                               \/ r.rowq[1].base # r.colq[1].base)
         THEN r
       ELSE [rowq |-> <<ConfigureGroup(base)>>, colq |-> ConfigureColumns(base),
             cells |-> << >>, cellBase |-> base]

\* Too many series: the last but one becomes the first.  The check of the group
\* one series on never holds here, so rows and columns are always set up anew.
CheckEmergencyShrink(r, series, size) ==
    LET base  == r.colq[1].base + (series - 1) * matrix
        shift == (series - 1) * matrix
    IN IF \/ series <= (IF env.stair THEN 4 ELSE 2)
          \/ size < env.rbuf /\ series < MaxHistory
         THEN r
         ELSE [rowq |-> <<ConfigureGroup(base)>>, colq |-> ConfigureColumns(base),
               cellBase |-> base,
               cells |-> IF Len(r.cells) > shift THEN DropFirst(r.cells, shift) ELSE <<FALSE>>]

\* The index asked for is kept although a shrink has moved the base.
ExtendRows(r, rowx) ==
    LET s == CheckEmergencyShrink(r, (rowx - 1) \div numberRows, (rowx - 1) * numberCols)
    IN [s EXCEPT !.rowq = Tuple(rowx, LAMBDA i :
           IF i <= Len(s.rowq) THEN s.rowq[i]
           ELSE ConfigureGroup(s.rowq[1].base + (i - 1) * numberCols))]

ExtendColumns(r, colgx) ==
    LET series == (colgx - 1) \div numberCols
        s == CheckEmergencyShrink(r, series, (colgx - 1) * numberRows)
        Add(q, k) == q \o ConfigureColumns(s.colq[1].base + matrix * k)
    IN [s EXCEPT !.colq = FoldLeft(Add, @,
           [i \in 1 .. (series + 1 - Len(s.colq) \div numberCols) |->
              Len(s.colq) \div numberCols + i - 1])]

\* Both give the tables, extended if need be, and the index or 0.
RcvGetRowGroupIndex(r, seq) ==
    LET x == (seq - r.rowq[1].base) \div numberCols + 1
    IN IF seq < r.rowq[1].base THEN [r |-> r, x |-> 0]
       ELSE [r |-> IF x > Len(r.rowq) THEN ExtendRows(r, x) ELSE r, x |-> x]

RcvGetColumnGroupIndex(r, seq) ==
    LET col    == ((seq - r.colq[1].base) % numberCols) + 1
        coloff == seq - r.colq[col].base
        x      == col + (coloff \div matrix) * numberCols
    IN IF seq < r.colq[1].base \/ coloff < 0 \/ x - 1 > matrix * MaxHistory
         THEN [r |-> r, x |-> 0]
       ELSE [r |-> IF x > Len(r.colq) THEN ExtendColumns(r, x) ELSE r, x |-> x]

RowSeqs(g) == {g.base + i : i \in 0 .. (numberCols - 1)}
ColSeqs(g) == {g.base + i * numberCols : i \in 0 .. (numberRows - 1)}

\* RcvGetLossSeqHoriz and RcvGetLossSeqVert: the first missing packet of the group.
LossSeq(r, g, S) ==
    LET miss == {s \in S : ~IsReceived(r, s)}
    IN IF g.base < r.cellBase \/ miss = {} THEN 0
       ELSE CHOOSE s \in miss : \A t \in miss : s <= t

\* The missing packet of a group that lacks one: its contents is the clip.  It
\* enters the crossing group, which may then be complete but for one in turn.
RECURSIVE RcvRebuild(_, _, _)
RcvRebuild(r, x, tp) ==
    LET Row(i, clip) ==
          LET row == ClipPacket(i.r.rowq[i.x], clip)
              n   == [i.r EXCEPT !.rowq[i.x] = row]
          IN IF i.x = 0 \/ row.collected > numberCols THEN i.r
             ELSE IF row.fec /\ row.collected = numberCols - 1
               THEN RcvRebuild(n, i.x, "HORIZ") ELSE n
        Column(i, clip) ==
          LET col == ClipPacket(i.r.colq[i.x], clip)
              n   == [i.r EXCEPT !.colq[i.x] = col]
          IN IF i.x = 0 \/ col.collected > numberRows THEN i.r
             ELSE IF col.fec /\ col.collected = numberRows - 1
               THEN RcvRebuild(n, i.x, "VERT") ELSE n
        Cross(m, seq, clip) ==
          CASE tp = "SINGLE" -> m
            [] tp = "VERT"   -> Row(RcvGetRowGroupIndex(m, seq), clip)
            [] tp = "HORIZ"  -> Column(RcvGetColumnGroupIndex(m, seq), clip)
        Rebuild(seq, clip) ==
          IF seq = 0 THEN r
          ELSE Cross([MarkCellReceived(r, seq, "RECEIVED") EXCEPT
                        !.rebuilt = @ \cup {[seq |-> seq, clip |-> clip]}], seq, clip)
    IN IF tp = "VERT" THEN Rebuild(LossSeq(r, r.colq[x], ColSeqs(r.colq[x])), r.colq[x].clip)
       ELSE Rebuild(LossSeq(r, r.rowq[x], RowSeqs(r.rowq[x])), r.rowq[x].clip)

-----------------------------------------------------------------------------
(* A packet at the receiver.  r also carries the packets rebuilt and those *)
(* found irrecoverable in this call.                                       *)

\* The losses of a row that is left behind; a range ends with the packet after it.
CollectIrrecoverRow(r, x) ==
    LET g    == r.rowq[x]
        off  == g.base - r.cellBase
        miss == {s \in RowSeqs(g) : ~IsReceived(r, s)}
        ends == {s + 1 : s \in miss} \cap RowSeqs(g)
    IN IF g.dismissed \/ off < 0 \/ off + numberCols > Len(r.cells) THEN r
       ELSE [r EXCEPT !.rowq[x].dismissed = TRUE, !.irrecoverRow = @ \cup miss \cup ends]

\* Rows up to the one before the previous are swept, or the first of two once the
\* packet is past a third of the second; with rows only they are removed as well.
SweepRows(r, seq) ==
    LET past == Len(r.rowq) - 3
        last == IF past <= 0 /\ seq - r.rowq[2].base > numberCols \div 3 THEN past ELSE past - 1
        gone == numberCols * (last + 1)
        Forget(swept, rows) ==
          [swept EXCEPT !.rowq = rows, !.cellBase = rows[1].base,
             !.cells = IF gone >= Len(@) THEN << >> ELSE DropFirst(@, gone)]
        Past(swept) == IF numberRows > 1 THEN swept
                       ELSE Forget(swept, DropFirst(swept.rowq, last + 1))
    IN IF Len(r.rowq) < 2 \/ (numberRows > 1 /\ env.arq # "onreq") \/ last < 0 THEN r
       ELSE Past(FoldLeft(CollectIrrecoverRow, r, [i \in 1 .. (last + 1) |-> i]))

\* A group takes a data packet, or its control packet once.
Hang(g, p) == IF ~p.ctl THEN ClipPacket(g, p.clip)
              ELSE IF g.fec THEN g ELSE ClipControlPacket(g, p.clip)

RebuildRow(r, x) ==
    IF r.rowq[x].fec /\ r.rowq[x].collected = numberCols - 1
      THEN RcvRebuild(r, x, IF numberRows = 1 THEN "SINGLE" ELSE "HORIZ") ELSE r

RebuildColumn(r, x) ==
    IF r.colq[x].fec /\ r.colq[x].collected = numberRows - 1
      THEN RcvRebuild(r, x, "VERT") ELSE r

HangHorizontal(r, p) ==
    LET At(i) == IF i.x = 0 THEN i.r
                 ELSE SweepRows(RebuildRow([i.r EXCEPT !.rowq[i.x] = Hang(@, p)], i.x), p.seq)
    IN At(RcvGetRowGroupIndex(r, p.seq))

\* Faulty: only columns that are past by a whole series.
BadDismissColumns(r, seq) ==
    LET old == {i \in 1 .. numberCols : ~r.colq[i].dismissed /\ seq - r.colq[i].base >= 2 * matrix}
        all == UNION {ColSeqs(r.colq[i]) : i \in old}
    IN [r EXCEPT !.colq = Tuple(Len(@), LAMBDA i :
                    [r.colq[i] EXCEPT !.dismissed = @ \/ i \in old]),
                 !.irrecoverCol = @ \cup {s \in all : s >= r.cellBase /\ ~IsReceived(r, s)}]

\* The losses of the first series' columns that lie wholly before the packet.
DismissColumns(r, seq) ==
    LET old == {i \in 1 .. numberCols : /\ ~r.colq[i].dismissed
                                        /\ seq - r.colq[i].base >= (numberRows - 1) * numberCols}
        all == UNION {ColSeqs(r.colq[i]) : i \in old}
    IN [r EXCEPT !.colq = Tuple(Len(@), LAMBDA i :
                    [r.colq[i] EXCEPT !.dismissed = @ \/ i \in old]),
                 !.irrecoverCol = @ \cup {s \in all : s >= r.cellBase /\ ~IsReceived(r, s)}]

\* The first series is deleted once the packet is far enough beyond it.
RcvCheckDismissColumn(r, seq, x) ==
    LET Delete(d, base) ==
          LET keep == Len(d.rowq) > numberRows /\ d.rowq[numberRows + 1].base = base
              skip == base - d.cellBase
          IN [d EXCEPT !.colq = DropFirst(@, numberCols),
                       !.rowq = IF keep THEN DropFirst(@, numberRows) ELSE <<ConfigureGroup(base)>>,
                       !.cells = IF skip < 0 \/ skip >= Len(@) THEN << >> ELSE DropFirst(@, skip),
                       !.cellBase = base]
        Far(d) == seq - d.colq[1].base >= matrix * (IF env.stair THEN 2 ELSE 1)
        Passed(d) == IF ~Far(d) \/ Len(d.colq) <= numberCols THEN d
                     ELSE Delete(d, d.colq[numberCols + 1].base)
    IN IF x <= numberCols THEN r ELSE Passed(DismissColumns(r, seq))

HangVertical(r, p) ==
    LET At(i) == IF i.x = 0 THEN i.r
                 ELSE RcvCheckDismissColumn(
                        RebuildColumn([i.r EXCEPT !.colq[i.x] = Hang(@, p)], i.x), p.seq, i.x)
    IN At(RcvGetColumnGroupIndex(r, p.seq))

\* FECFilterBuiltin::receive: a data packet seen before changes nothing.
Receive(r, p) ==
    LET Call(d) == [rowq |-> d.rowq, colq |-> d.colq, cells |-> d.cells, cellBase |-> d.cellBase,
                    rebuilt |-> {}, irrecoverRow |-> {}, irrecoverCol |-> {}]
        Across(m) == IF p.ctl /\ p.col # 0 THEN m ELSE HangHorizontal(m, p)
        Down(h) == IF (p.ctl /\ p.col = 0) \/ numberRows = 1 THEN h ELSE HangVertical(h, p)
        Take(n) == IF ~p.ctl /\ (p.seq < n.cellBase \/ IsReceived(n, p.seq)) THEN n
                   ELSE Down(Across(MarkCellReceived(n, p.seq,
                                      IF p.ctl THEN "EXTEND" ELSE "RECEIVED")))
    IN Take(Call(CheckLargeDrop(r, p.seq)))

receive(p) ==
    \E r \in {Receive(rcv, p)} :
       /\ rcv' = [rowq |-> r.rowq, colq |-> r.colq, cells |-> r.cells, cellBase |-> r.cellBase]
       /\ got' = IF p.ctl THEN got ELSE got \cup {p.seq}
       /\ out' = out \cup r.rebuilt
       /\ lost' = lost \cup IF env.arq # "onreq" THEN {}
                            ELSE IF numberRows = 1 THEN r.irrecoverRow ELSE r.irrecoverCol

-----------------------------------------------------------------------------
(* packData and the network: the packet arrives, is held back, or is lost  *)
(* alone or with a burst of those that follow.                             *)

Data(seq) == [ctl |-> FALSE, seq |-> seq, col |-> 0, clip |-> {seq}]

packData ==
    LET c == packControlPacket(snd, snd.next - 1)
        p == IF c.pkt # << >> THEN c.pkt[1] ELSE Data(snd.next)
        s == IF c.pkt # << >> THEN c.s
             ELSE [feedSource(c.s, snd.next) EXCEPT !.next = @ + 1]
    IN /\ snd.next <= env.pkts
       /\ snd' = s
       /\ \/ /\ chan.burst = 0
             /\ receive(p)
             /\ UNCHANGED chan
          \/ /\ chan.burst > 0
             /\ chan' = [chan EXCEPT !.burst = @ - 1]
             /\ UNCHANGED <<rcv, got, out, lost>>
          \/ /\ chan.burst = 0 /\ chan.faults > 0
             /\ \E n \in env.burst : chan' = [chan EXCEPT !.burst = n - 1, !.faults = @ - 1]
             /\ UNCHANGED <<rcv, got, out, lost>>
          \/ /\ chan.burst = 0 /\ chan.faults > 0
             /\ chan' = [chan EXCEPT !.held = @ \cup {p}, !.faults = @ - 1]
             /\ UNCHANGED <<rcv, got, out, lost>>
       /\ UNCHANGED env

\* A packet held back arrives late; a lost one was retransmitted on request.
Late ==
    /\ \E p \in chan.held : receive(p) /\ chan' = [chan EXCEPT !.held = @ \ {p}]
    /\ UNCHANGED <<env, snd>>

Retransmit ==
    /\ \E s \in lost \ got : receive(Data(s))
    /\ UNCHANGED <<env, snd, chan>>

Next == packData \/ Late \/ Retransmit

Spec == Init /\ [][Next]_vars

-----------------------------------------------------------------------------
\* A rebuilt packet has the number and the contents of the packet that was lost.
RebuiltIsOriginal == \A p \in out : p.clip = {p.seq}

\* No group is left that could give a packet back: its count of packets is exact
\* (but for the one it gave back itself), and with its control packet it lacks
\* none, or more than one.
NothingRecoverableLeft ==
    LET Settled(g, S) ==
          LET n == Cardinality({s \in S : IsReceived(rcv, s)})
          IN /\ g.collected = n \/ (g.fec /\ n = Cardinality(S) /\ g.collected = n - 1)
             /\ g.fec => n # Cardinality(S) - 1
    IN /\ \A i \in DOMAIN rcv.rowq : Settled(rcv.rowq[i], RowSeqs(rcv.rowq[i]))
       /\ \A i \in DOMAIN rcv.colq : Settled(rcv.colq[i], ColSeqs(rcv.colq[i]))

\* What the tables no longer cover was received, rebuilt, or reported; with the
\* exception of the packets no column covers.
NoSilentLoss ==
    env.arq = "onreq" =>
        \A s \in 1 .. (rcv.cellBase - 1) :
            \/ s \in got \/ s \in lost \/ \E p \in out : p.seq = s
            \/ env.stair /\ numberRows > 1 /\ \E i \in 1 .. numberCols :
                 (s - i) % numberCols = 0 /\ s < ConfigureColumns(1)[i].base

\* No loss escapes both the groups and the report to the sender's retransmission.
LossesSettled == NothingRecoverableLeft /\ NoSilentLoss
=============================================================================
