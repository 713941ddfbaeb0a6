----------------------------- MODULE SndBuffer -----------------------------
(* The sender buffer (buffer_snd.cpp): a ring of blocks with the pointers       *)
(* first (oldest kept), curr (next to send for the first time) and last (past   *)
(* the newest), and the parts of the core that position it by sequence number.  *)
(* Origin times are the numbers of the submitted messages; `expired' holds the  *)
(* messages whose time to live is over.  Sequence numbers do not wrap here.     *)
EXTENDS Integers, Sequences, FiniteSets, FiniteSetsExt

CONSTANT Cases

NONE == -1
PktLen == 2                 \* getMaxPacketLen, in bytes
MsgMask == 3                \* MSGNO_SEQ::mask: message numbers are 1 .. MsgMask

VARIABLES env, next, blk, buf, core, lost, expired, rex
vars == <<env, next, blk, buf, core, lost, expired, rex>>

countNumPacketsRequired(len) == (len + PktLen - 1) \div PktLen
incMsg(m) == IF m = MsgMask THEN 1 ELSE m + 1

Fresh == [seq |-> NONE, msg |-> 0, isLast |-> FALSE, len |-> 0, ttl |-> FALSE, orig |-> 0,
          rexmit |-> FALSE]

\* The block n places after b.
Walk(b, n) == LET w[i \in 0 .. n] == IF i = 0 THEN b ELSE next[w[i - 1]] IN w[n]
Used(b) == LET d[x \in DOMAIN next, n \in 0 .. Cardinality(DOMAIN next)] ==
                 IF x = buf.last \/ n = 0 THEN 0 ELSE 1 + d[next[x], n - 1]
           IN d[b, Cardinality(DOMAIN next)]

CSndBuffer ==
    /\ next = [b \in 1 .. env.unit |-> IF b = env.unit THEN 1 ELSE b + 1]
    /\ blk = [b \in 1 .. env.unit |-> Fresh]
    /\ buf = [first |-> 1, curr |-> 1, last |-> 1, count |-> 0, bytes |-> 0,
              size |-> env.unit, nextMsg |-> 1, origin |-> 0, short |-> FALSE, file |-> FALSE]

\* increase, as often as n more blocks need: new blocks go in right behind last.
Grown(n) ==
    LET grows == IF n + buf.count >= buf.size
                 THEN ((n + buf.count - buf.size) \div env.unit) + 1 ELSE 0
        new == buf.size + 1 .. buf.size + grows * env.unit
        spliced(i) ==     \* the i-th increase puts its blocks before the earlier ones
            buf.size + (i - 1) * env.unit
    IN [next |-> [b \in 1 .. buf.size + grows * env.unit |->
            IF grows > 0 /\ b = buf.last THEN spliced(grows) + 1
            ELSE IF b \in new
            THEN IF (b - buf.size) % env.unit # 0 THEN b + 1
                 ELSE IF b = buf.size + env.unit THEN next[buf.last]
                 ELSE b - (2 * env.unit) + 1
            ELSE next[b]],
        blk |-> [b \in 1 .. buf.size + grows * env.unit |->
                    IF b \in new THEN Fresh ELSE blk[b]],
        size |-> buf.size + grows * env.unit]

\* The blocks that n packets take, from last on, in a ring.
Places(ring, n) ==
    LET w[i \in 0 .. n] == IF i = 0 THEN buf.last ELSE ring[w[i - 1]] IN w

PieceLen(len, i) == Min({PktLen, len - i * PktLen})
sndBuffersLeft == env.sndBuf - buf.count

addBuffer ==
    \E len \in env.lens, ttl \in env.ttls :
        LET n == countNumPacketsRequired(len)
            g == Grown(n)
            at == Places(g.next, n)
            num(b) == CHOOSE i \in 0 .. n - 1 : at[i] = b
        IN /\ rex = NONE /\ n <= sndBuffersLeft /\ buf.origin < env.msgs
           /\ next' = g.next
           /\ blk' = [b \in DOMAIN g.blk |->
                IF \E i \in 0 .. n - 1 : at[i] = b
                THEN [seq |-> core.nextSeq + num(b), msg |-> buf.nextMsg,
                      isLast |-> num(b) = n - 1, len |-> PieceLen(len, num(b)),
                      ttl |-> ttl, orig |-> buf.origin + 1, rexmit |-> FALSE]
                ELSE g.blk[b]]
           /\ buf' = [buf EXCEPT !.last = at[n], !.count = @ + n, !.bytes = @ + len,
                        !.size = g.size, !.nextMsg = incMsg(@), !.origin = @ + 1]
           /\ core' = [core EXCEPT !.nextSeq = @ + n]
           /\ UNCHANGED <<env, lost, expired, rex>>

\* A file that ends early leaves fewer blocks than are counted; the blocks get no
\* sequence number and no origin time.
addBufferFromFile ==
    \E len \in env.fileLens, got \in 0 .. Max(env.fileLens \cup {0}) :
        LET n == countNumPacketsRequired(len)
            k == countNumPacketsRequired(got)
            g == Grown(n)
            at == Places(g.next, n)
            num(b) == CHOOSE i \in 0 .. k - 1 : at[i] = b
        IN /\ rex = NONE /\ sndBuffersLeft > 0 /\ buf.origin < env.msgs
           /\ got <= len /\ (got < len => env.shortFile)
           /\ next' = g.next
           /\ blk' = [b \in DOMAIN g.blk |->
                IF \E i \in 0 .. k - 1 : at[i] = b
                THEN [g.blk[b] EXCEPT !.msg = buf.nextMsg, !.isLast = num(b) = n - 1,
                                      !.len = PieceLen(got, num(b)), !.ttl = FALSE]
                ELSE g.blk[b]]
           /\ buf' = [buf EXCEPT !.last = at[k], !.count = @ + n, !.bytes = @ + got,
                        !.size = g.size, !.origin = @ + 1, !.file = TRUE,
                        !.short = @ \/ k < n,
                        !.nextMsg = IF @ + 1 = MsgMask THEN 1 ELSE @ + 1]
           /\ UNCHANGED <<env, core, lost, expired, rex>>

Stale(b) == blk[b].ttl /\ blk[b].orig \in expired
InBuffer(n) == Walk(buf.first, n)
Expire ==
    \E o \in {blk[b].orig : b \in {x \in DOMAIN blk : blk[x].ttl}} :
        /\ o \notin expired
        /\ expired' = expired \cup {o}
        /\ UNCHANGED <<env, next, blk, buf, core, lost, rex>>

-----------------------------------------------------------------------------
\* readData for a packet never sent: expired ones are skipped over, and numbered.
Skipped ==
    CHOOSE n \in 0 .. Used(buf.curr) :
        /\ \A i \in 0 .. n - 1 : Stale(Walk(buf.curr, i))
        /\ n = Used(buf.curr) \/ ~Stale(Walk(buf.curr, n))

packUniqueData ==
    LET n == Skipped
        sent == IF n < Used(buf.curr) THEN 1 ELSE 0
    IN /\ rex = NONE /\ buf.curr # buf.last
       /\ core.curr - core.lastDataAck + 1 < core.flow
       /\ buf' = [buf EXCEPT !.curr = Walk(@, n + sent)]
       /\ core' = [core EXCEPT !.curr = @ + n + sent]
       /\ UNCHANGED <<env, next, blk, lost, expired, rex>>

\* The peer reports a loss, or the retransmission timer asks for a packet in flight.
LossReport ==
    \E s \in core.lastDataAck .. core.curr :
        /\ rex = NONE /\ s \notin lost
        /\ lost' = lost \cup {s}
        /\ UNCHANGED <<env, next, blk, buf, core, expired, rex>>

\* The first lost packet, or a later one when it was retransmitted too recently.
\* The worker holds m_RecvAckLock until the packet is packed: nothing else moves.
getCleanRexmitOffset ==
    \E s \in lost \cup {NONE} :
        /\ rex = NONE /\ lost # {}
        /\ \A t \in lost : (t < s \/ s = NONE) => blk[InBuffer(t - core.lastDataAck)].rexmit
        /\ lost' = {t \in lost : s # NONE /\ t > s}
        /\ rex' = s
        /\ UNCHANGED <<env, next, blk, buf, core, expired>>

\* readData for a packet sent before.  The rest of an expired message goes with it.
MsgRest(b) ==
    CHOOSE n \in 1 .. Used(b) :
        /\ \A i \in 0 .. n - 1 : blk[Walk(b, i)].msg = blk[b].msg
        /\ n = Used(b) \/ blk[Walk(b, n)].msg # blk[b].msg

\* Faulty: the core is not told of packets that were skipped unsent.
BadDropMessage(b) ==
    LET n == MsgRest(b)
    IN /\ buf' = [buf EXCEPT !.curr =
                    IF \E i \in 1 .. n - 1 : Walk(b, i) = @ THEN Walk(b, n) ELSE @]
       /\ lost' = {t \in lost : t > rex + n - 1}
       /\ core' = [core EXCEPT !.dropReq = ~@]
       /\ UNCHANGED <<blk, rex>>

\* READ_DROP: a drop request is sent, and the loop of extractCleanRexmitPacket
\* goes on with the same packet.
DropMessage(b) ==
    LET n == MsgRest(b)
    IN /\ buf' = [buf EXCEPT !.curr =
                    IF \E i \in 1 .. n - 1 : Walk(b, i) = @ THEN Walk(b, n) ELSE @]
       /\ lost' = {t \in lost : t > rex + n - 1}
       /\ core' = [core EXCEPT !.curr = Max({@, rex + n - 1}), !.dropReq = ~@]
       /\ UNCHANGED <<blk, rex>>

extractCleanRexmitPacket ==
    /\ rex # NONE
    /\ LET offset == rex - core.lastDataAck
           b == InBuffer(offset)
       IN \/ /\ offset < Used(buf.first) /\ Stale(b)
             /\ DropMessage(b)
          \/ /\ offset >= Used(buf.first)
             /\ rex' = NONE
             /\ UNCHANGED <<blk, buf, core, lost>>
          \/ /\ offset < Used(buf.first) /\ ~Stale(b)
             /\ blk' = [blk EXCEPT ![b].rexmit = TRUE]
             /\ rex' = NONE
             /\ UNCHANGED <<buf, core, lost>>
    /\ UNCHANGED <<env, next, expired>>

-----------------------------------------------------------------------------
LenSum(n) == FoldSet(LAMBDA i, t : t + blk[InBuffer(i)].len, 0, 0 .. n - 1)

\* ackData: n is capped by the count; curr follows when it is passed.
ackData(n) ==
    LET k == Min({n, buf.count})
    IN [buf EXCEPT !.first = InBuffer(k), !.count = @ - k, !.bytes = @ - LenSum(k),
                   !.curr = IF \E i \in 0 .. k - 1 : InBuffer(i) = @ THEN InBuffer(k) ELSE @]

updateSndLossListOnACK ==
    \E n \in 1 .. core.curr + 1 - core.lastDataAck :
        /\ rex = NONE
        /\ buf' = ackData(n)
        /\ core' = [core EXCEPT !.lastDataAck = @ + n, !.flow = env.window]
        /\ lost' = {t \in lost : t >= core.lastDataAck + n}
        /\ UNCHANGED <<env, next, blk, expired, rex>>

dropLateData(n) ==
    [buf EXCEPT !.first = InBuffer(n), !.count = @ - n, !.bytes = @ - LenSum(n),
                !.curr = IF \E i \in 0 .. n - 1 : InBuffer(i) = @ THEN InBuffer(n) ELSE @]

\* Everything older than some message is dropped, sent or not.
sndDropTooLate ==
    \E t \in 2 .. buf.origin + 1 :
        LET n == Cardinality({i \in 0 .. buf.count - 1 : blk[InBuffer(i)].orig < t})
        IN /\ rex = NONE /\ env.tlpktdrop /\ n > 0
           /\ buf' = dropLateData(n)
           /\ core' = [core EXCEPT !.lastDataAck = @ + n, !.flow = @ + n,
                                   !.curr = Max({@, core.lastDataAck + n - 1})]
           /\ lost' = {x \in lost : x >= core.lastDataAck + n}
           /\ UNCHANGED <<env, next, blk, expired, rex>>

Init ==
    /\ env \in Cases
    /\ CSndBuffer
    /\ core = [lastDataAck |-> 0, curr |-> -1, nextSeq |-> 0, flow |-> env.window,
               dropReq |-> FALSE]
    /\ lost = {} /\ expired = {} /\ rex = NONE

Next ==
    \/ addBuffer \/ addBufferFromFile \/ Expire
    \/ packUniqueData \/ LossReport \/ getCleanRexmitOffset \/ extractCleanRexmitPacket
    \/ updateSndLossListOnACK \/ sndDropTooLate

Spec == Init /\ [][Next]_vars

\* The sending worker does not stop in the middle of a call.
FairSpec == Spec /\ WF_vars(extractCleanRexmitPacket)

-----------------------------------------------------------------------------
\* The ring stays closed through every increase; the blocks from first to last are
\* the counted ones, with their bytes, and curr is one of them or last (all of
\* CSndBuffer).  A file that ended early is out: it counts blocks it has not filled.
RingExact ==
    LET size == Cardinality(DOMAIN next)
    IN /\ buf.size = size /\ Walk(1, size) = 1
       /\ {Walk(1, i) : i \in 0 .. size - 1} = DOMAIN next
       /\ ~buf.short =>
            /\ buf.count = Used(buf.first) /\ buf.count < buf.size
            /\ buf.bytes = LenSum(buf.count)
            /\ \E i \in 0 .. buf.count : InBuffer(i) = buf.curr

\* The n-th kept block is packet m_iSndLastDataAck + n, as readData asserts for a
\* retransmission, and curr is packet m_iSndCurrSeqNo + 1: acknowledgements, late
\* drops, skipped and dropped messages keep the core and the buffer in step.
OffsetIsSequence ==
    ~buf.short =>
        /\ InBuffer(core.curr + 1 - core.lastDataAck) = buf.curr
        /\ core.curr + 1 - core.lastDataAck <= buf.count
        /\ ~buf.file => \A i \in 0 .. buf.count - 1 :
                            blk[InBuffer(i)].seq = core.lastDataAck + i

\* core.cpp:9938 calls the loop of extractCleanRexmitPacket a "REPEATABLE BLOCK (not
\* a real loop)": a retransmission that was begun comes to an end.
RexmitEnds == rex # NONE ~> rex = NONE
=============================================================================
