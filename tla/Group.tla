------------------------------- MODULE Group -------------------------------
(***************************************************************************)
(* A bonding group: one sending CUDTGroup of type broadcast or backup      *)
(* (group.cpp, group_backup.cpp, api.cpp groupConnect), its member links,  *)
(* and the mirror group that receives (CUDTGroup::recv).  One message is   *)
(* one packet (live mode).  The application thread calls send; its steps   *)
(* end where m_GroupLock is let go.  The receiving worker of each link     *)
(* completes connections, takes acknowledgements and breaks links.         *)
(*                                                                         *)
(* A link is a reliable but mortal channel: packets of its sender buffer   *)
(* arrive in any order, the acknowledged prefix leaves the buffer, and     *)
(* what has not arrived when the link breaks is lost.  Sequence numbers    *)
(* start at 1 and do not wrap.  Message numbers advance with the sequence  *)
(* numbers and are represented by them.  A group that has lost all its     *)
(* members starts again from a new number and is not followed further.     *)
(***************************************************************************)
EXTENDS Integers, Sequences, SequencesExt, FiniteSets

CONSTANTS Links,    \* member sockets
          Cap,      \* packets a link's sender buffer holds
          Cases     \* scenarios: [type, sync, bconn, rsync, weight], the links already
                    \* connected (up), breaks and calls to follow, and whether close comes

VARIABLES env,       \* the scenario
          link,      \* sending end of each member, with its SocketData
          grp,       \* the sending group
          app,       \* the call of send in progress
          peer,      \* receiving end of each member
          rgrp,      \* the receiving group
          carried    \* history: <<sequence number, message>> put on any link

vars == <<env, link, grp, app, peer, rgrp, carried>>

NONE == 0            \* SRT_SEQNO_NONE
Broken == {"broken", "closed"}              \* status >= SRTS_BROKEN
Members == {grp.order[i] : i \in DOMAIN grp.order}

NoLink == [sock |-> "none", snd |-> "PENDING", last |-> "none", next |-> 1,
           buf |-> << >>, fresh |-> FALSE, unst |-> FALSE, wary |-> FALSE,
           gcs |-> "out", syn |-> FALSE]
NoApp == [pc |-> "idle", msg |-> 0, mc |-> NONE, states |-> << >>, pend |-> {},
          wipe |-> {}, ctx |-> << >>, blk |-> FALSE, cur |-> NONE, ret |-> ""]

UpLink == [NoLink EXCEPT !.sock = "connected", !.snd = "IDLE", !.last = "connected",
                         !.gcs = "done", !.syn = TRUE]

\* Some members may already be connected, the group's connect call over.
Init ==
    /\ env \in Cases
    /\ link = [l \in Links |-> IF l \in env.up THEN UpLink ELSE NoLink]
    /\ grp = [order |-> SetToSortSeq(env.up, <), sched |-> 1, buffer |-> << >>,
              acked |-> NONE, oldest |-> NONE, connected |-> env.up # {},
              closing |-> FALSE, emptied |-> FALSE, returned |-> env.up # {},
              sub |-> env.up, subout |-> env.up, forked |-> FALSE, resync |-> FALSE,
              breaks |-> env.breaks]
    /\ app = NoApp
    /\ peer = [l \in Links |-> [up |-> l \in env.up, start |-> 1, curr |-> 0, arr |-> {},
                             run |-> FALSE]]
    /\ rgrp = [base |-> 0, ripe |-> 0, out |-> << >>, seen |-> {}]
    /\ carried = {}

-----------------------------------------------------------------------------
(* Connecting: groupConnect creates the member and starts its connection;  *)
(* the handshake completes in the receiving worker.                        *)

add(g, l) == [g EXCEPT !.order = Append(@, l), !.sub = @ \cup {l},
                       !.subout = @ \cup {l}]
Unsub(g, S) == [g EXCEPT !.sub = @ \ S, !.subout = @ \ S]

\* The loop over the targets up to connectIn, the non-blocking connect.
groupConnect(l) ==
    /\ link[l].gcs = "out" /\ ~grp.closing /\ ~grp.emptied
    /\ grp' = add(grp, l)
    /\ link' = [link EXCEPT ![l] = [NoLink EXCEPT !.sock = "connecting",
                                     !.next = grp.sched, !.gcs = "called"]]
    /\ UNCHANGED <<env, app, peer, rgrp, carried>>

\* After connectIn has returned: the status, read before the group is locked
\* again, is recorded, and the member is PENDING or BROKEN whatever the worker
\* has made of it since.
ConnectRecorded(l) ==
    /\ link[l].gcs = "called"
    /\ \E st \in {"connecting", link[l].sock} :
          IF l \notin Members
            THEN /\ link' = [link EXCEPT ![l].gcs = "done"]
                 /\ UNCHANGED grp
            ELSE /\ link' = [link EXCEPT
                       ![l].gcs = "done", ![l].last = st,
                       ![l].snd = IF st \in Broken THEN "BROKEN" ELSE "PENDING"]
                 /\ grp' = IF st \in Broken THEN Unsub(grp, {l}) ELSE grp
    /\ UNCHANGED <<env, app, peer, rgrp, carried>>

\* The end of the call: in blocking mode it waits for the first member to be
\* connected, which is then no longer polled, and closes those that failed.
ConnectReturns ==
    /\ ~grp.returned /\ Members # {}
    /\ \A l \in Links : link[l].gcs # "called"
    /\ LET lost == {l \in Members : link[l].sock \in Broken}
           up   == {l \in Members : link[l].sock = "connected"}
       IN IF ~env.bconn THEN grp' = [grp EXCEPT !.returned = TRUE]
          ELSE \/ up = {} /\ lost = Members /\ grp' = [Unsub(grp, lost) EXCEPT !.returned = TRUE]
               \/ \E l \in up : grp' = [Unsub(grp, lost \cup {l}) EXCEPT
                                        !.returned = TRUE, !.connected = TRUE]
    /\ UNCHANGED <<env, link, app, peer, rgrp, carried>>

\* The listener's side joins its mirror group: reception starts after what
\* another connected member has received.
PeerAccepts(l) ==
    /\ link[l].sock = "connecting" /\ ~peer[l].up
    /\ LET others == {k \in Links \ {l} : peer[k].up}
           start  == IF others = {} THEN grp.sched
                     ELSE peer[CHOOSE k \in others : TRUE].curr + 1
       IN peer' = [peer EXCEPT ![l] = [up |-> TRUE, start |-> start,
                                       curr |-> start - 1, arr |-> {},
                                       run |-> FALSE]]
    /\ rgrp' = IF rgrp.base = 0 /\ \A k \in Links : ~peer[k].up
                 THEN [rgrp EXCEPT !.base = grp.sched - 1] ELSE rgrp
    /\ UNCHANGED <<env, link, grp, app, carried>>

\* Whether the member is the first of the group to connect; otherwise the group
\* gives the next number to send.
applyGroupSequences(l) ==
    ~grp.connected \/ \A k \in Members \ {l} : link[k].sock \notin {"connected", "broken"}

synchronizeWithGroup(l) ==
    /\ link[l].sock = "connecting" /\ peer[l].up /\ ~link[l].syn
    /\ l \in Members
    /\ LET first == applyGroupSequences(l)
       IN /\ link' = [link EXCEPT ![l].syn = TRUE,
                                  ![l].next = IF first THEN @ ELSE grp.sched]
          /\ grp' = IF first THEN [grp EXCEPT !.sched = link[l].next,
                                     !.forked = @ \/ grp.sched # link[l].next] ELSE grp
    /\ UNCHANGED <<env, app, peer, rgrp, carried>>

\* The end of the handshake: the member is IDLE and the group connected.
postConnect(l) ==
    /\ link[l].sock = "connecting" /\ link[l].syn
    /\ link' = [link EXCEPT ![l].sock = "connected",
                            ![l].snd  = IF l \in Members THEN "IDLE" ELSE @,
                            ![l].last = IF l \in Members THEN "connected" ELSE @]
    /\ grp' = IF l \in Members THEN [grp EXCEPT !.connected = TRUE] ELSE grp
    /\ UNCHANGED <<env, app, peer, rgrp, carried>>

\* A link breaks, or a connection attempt fails: the member is BROKEN; one that
\* never connected is also closed.
completeBrokenConnectionDependencies(l) ==
    /\ link[l].sock \in {"connecting", "connected"} /\ grp.breaks > 0
    /\ grp' = [grp EXCEPT !.breaks = @ - 1]
    /\ link' = [link EXCEPT
           ![l].sock = IF link[l].snd = "PENDING" /\ l \in Members
                         THEN "closed" ELSE "broken",
           ![l].snd  = IF l \in Members THEN "BROKEN" ELSE @]
    /\ UNCHANGED <<env, app, peer, rgrp, carried>>

\* The garbage collector takes a broken or closed socket out of the group.
removeFromGroup(l) ==
    /\ link[l].sock \in Broken /\ l \in Members /\ link[l].gcs = "done"
    /\ LET rest == SelectSeq(grp.order, LAMBDA k : k # l)
       IN grp' = [Unsub(grp, {l}) EXCEPT !.order = rest,
                             !.connected = @ /\ rest # << >>,
                             !.emptied = @ \/ rest = << >>]
    /\ link' = [link EXCEPT ![l] = [NoLink EXCEPT !.sock = "closed", !.gcs = "done"]]
    /\ UNCHANGED <<env, app, peer, rgrp, carried>>

\* CUDTGroup::close: the members lose the group and are closed.
close ==
    /\ ~grp.closing /\ env.closes
    /\ grp' = [grp EXCEPT !.closing = TRUE, !.order = << >>, !.sub = {},
                          !.subout = {}]
    /\ link' = [l \in Links |->
                  IF l \in Members
                    THEN [NoLink EXCEPT !.sock = "closed", !.gcs = link[l].gcs]
                    ELSE link[l]]
    /\ UNCHANGED <<env, app, peer, rgrp, carried>>

-----------------------------------------------------------------------------
(* Sending on one member.  acc carries the links, the control structure's  *)
(* pktseq (w_mc), the numbers of this message and of the next one, and     *)
(* which members took the message, were full, or failed.                   *)

Acc(mc, buffer) == [lk |-> link, mc |-> mc, cur |-> NONE, nxt |-> NONE, stat |-> "",
                    oks |-> {}, agains |-> {}, fails |-> {}, car |-> carried,
                    buffer |-> buffer, resync |-> FALSE]

\* CUDT::sendmsg2 of a member (never blocking).  A number behind the link's next
\* one is taken as sent already.
sendmsg2(acc, l, m) ==
    LET r == acc.lk[l]
        p == [seq |-> r.next, msg |-> m, got |-> FALSE]
    IN IF r.sock # "connected" THEN [acc EXCEPT !.stat = "fail"]
       ELSE IF Len(r.buf) >= Cap THEN [acc EXCEPT !.stat = "again"]
       ELSE IF acc.mc # NONE /\ acc.mc < r.next THEN [acc EXCEPT !.stat = "ok"]
       ELSE [acc EXCEPT !.stat = "ok", !.mc = r.next,
                        !.lk[l].next = @ + 1, !.lk[l].buf = Append(@, p),
                        !.car = @ \cup {<<r.next, m>>}]

\* CUDT::overrideSndSeqNo: the next number to send, never backwards.  It must
\* find the link with nothing to be acknowledged.
overrideSndSeqNo(acc, l, seq) ==
    IF seq < acc.lk[l].next - 1 THEN acc
    ELSE [acc EXCEPT !.lk[l].next = seq, !.resync = @ \/ acc.lk[l].buf # << >>]

\* What every loop does with the outcome of one member.
Outcome(acc, l) ==
    [acc EXCEPT !.oks    = IF acc.stat = "ok"    THEN @ \cup {l} ELSE @,
                !.agains = IF acc.stat = "again" THEN @ \cup {l} ELSE @,
                !.fails  = IF acc.stat = "fail"  THEN @ \cup {l} ELSE @,
                !.cur    = IF acc.stat = "ok" THEN acc.mc ELSE @,
                !.nxt    = IF acc.stat = "ok" THEN acc.lk[l].next ELSE @,
                !.lk[l].last = acc.lk[l].sock]

\* send_CheckValidSockets and the first test of every member's socket.
Checked == [l \in Links |-> IF l \in Members /\ link[l].sock \in Broken
                              THEN [link[l] EXCEPT !.snd = "BROKEN"] ELSE link[l]]
InOrder(S) == SelectSeq(grp.order, LAMBDA l : l \in S)

(* Faulty: an idle link is activated with the number it connected with. *)
BadActivateIdle(acc, l) == Outcome(sendmsg2(acc, l, app.msg + 1), l)

\* An idle link joins with the number this message has on the others.
ActivateIdle(acc, l) ==
    LET a == IF acc.cur # NONE /\ acc.cur # acc.lk[l].next
               THEN overrideSndSeqNo(acc, l, acc.cur) ELSE acc
        b == Outcome(sendmsg2(a, l, app.msg + 1), l)
    IN IF b.stat = "ok" THEN [b EXCEPT !.lk[l].snd = "RUNNING"] ELSE b

\* Idle links were activated with no link to give them the group's number.
Unbased(acc, idle) == acc.cur = NONE /\ \E i \in DOMAIN idle :
                        acc.lk[idle[i]].next # grp.sched

-----------------------------------------------------------------------------
(* sendBroadcast                                                           *)

\* Readiness the group's epoll m_SndEID reports for a subscribed socket.
OutReady(l) == l \in grp.subout /\ link[l].sock = "connected" /\ Len(link[l].buf) < Cap
ErrReady(l) == l \in grp.sub /\ link[l].sock \in Broken
AnyReady == \E l \in grp.sub : OutReady(l) \/ ErrReady(l)

MaySend == /\ app.pc = "idle" /\ app.msg < env.calls /\ ~grp.closing /\ ~grp.resync
           /\ grp.returned
Return(r) == app' = [NoApp EXCEPT !.msg = app.msg, !.ret = r]

\* Up to the check of the pending links: the message goes over every RUNNING
\* link, then over every IDLE one.
sendBroadcast ==
    /\ MaySend /\ env.type = "broadcast"
    /\ LET lk0    == Checked
           broken == {l \in Members : lk0[l].snd = "BROKEN"}
           idle   == {l \in Members : lk0[l].snd = "IDLE" /\ lk0[l].sock = "connected"}
           act    == {l \in Members : lk0[l].snd = "RUNNING"}
           pend   == Members \ (broken \cup idle \cup act)
           Over(a, l) == Outcome(sendmsg2(a, l, app.msg + 1), l)
           a1 == FoldLeft(Over, [Acc(NONE, grp.buffer) EXCEPT !.lk = lk0], InOrder(act))
           a2 == FoldLeft(ActivateIdle, a1, InOrder(idle))
           polls == (pend # {} \/ a2.agains # {}) /\ grp.sub # {}
       IN /\ link' = a2.lk
          /\ grp' = [grp EXCEPT !.sched = IF a2.nxt # NONE THEN a2.nxt ELSE @,
                                !.resync = @ \/ a2.resync,
                                !.forked = @ \/ Unbased(a1, InOrder(idle))]
          /\ carried' = a2.car
          /\ app' = [app EXCEPT !.pc = IF polls THEN "pending" ELSE "check",
                       !.msg = @ + 1, !.mc = a2.mc,
                       !.states = <<a2.oks, a2.agains, a2.fails>>,
                       !.pend = IF grp.sub = {} THEN {} ELSE pend,
                       !.wipe = IF grp.sub = {} THEN broken \cup pend ELSE broken,
                       !.blk = polls /\ a2.oks = {}]
    /\ UNCHANGED <<env, peer, rgrp>>

Closing == grp.closing /\ Return("lost") /\ UNCHANGED <<link, grp, carried>>

\* The wait on m_SndEID, which blocks only in blocking mode with nothing sent:
\* pending links that failed are to be closed, what was ready is unsubscribed.
CheckPending ==
    /\ app.pc = "pending"
    /\ (env.sync /\ app.blk) => (AnyReady \/ grp.closing)
    /\ \/ Closing
       \/ /\ ~grp.closing
          /\ app' = [app EXCEPT !.pc = "check",
                       !.wipe = @ \cup {l \in app.pend : ErrReady(l)},
                       !.blk = @ /\ ~\E l \in app.pend : OutReady(l)]
          /\ grp' = [Unsub(grp, {l \in app.pend : ErrReady(l)})
                       EXCEPT !.subout = {l \in @ : ~OutReady(l)}]
          /\ UNCHANGED <<link, carried>>
    /\ UNCHANGED <<env, peer, rgrp>>

\* A member that could not take the message, once another has, is closed.
CloseFailed(lk, S) == [l \in Links |-> IF l \in S THEN [lk[l] EXCEPT !.sock = "closed"]
                                                 ELSE lk[l]]
SetBroken(lk, S) == [l \in Links |-> IF l \in S THEN [lk[l] EXCEPT !.snd = "BROKEN"]
                                                ELSE lk[l]]

\* Links that were full can not be given the message later: when another has
\* taken it they are broken.
BlockedLinks(ok) == IF ok THEN app.states[2] \cap Members ELSE {}

\* send_CloseBrokenSockets, then the outcome: success, failure, or in blocking
\* mode the wait for a full link.
CheckBlocked ==
    /\ app.pc = "check"
    /\ \/ Closing
       \/ /\ ~grp.closing
          /\ LET oks    == app.states[1] \cap Members
                 again  == app.states[2] \cap Members
                 fails  == app.states[3] \cap Members
                 ok     == oks # {}
                 lk1    == CloseFailed(link, app.wipe \cap Members)
                 lk2    == SetBroken(lk1, fails \cup BlockedLinks(ok))
                 waits  == ~ok /\ again # {} /\ env.sync
             IN /\ link' = IF ok THEN CloseFailed(lk2, fails \cup BlockedLinks(ok)) ELSE lk2
                /\ grp' = IF waits THEN [grp EXCEPT !.sub = @ \cup again, !.subout = @ \cup again]
                          ELSE grp
                /\ IF waits THEN app' = [app EXCEPT !.pc = "blocked"]
                   ELSE Return(IF ok THEN "ok"
                               ELSE IF ~env.sync /\ (app.blk \/ again # {}) THEN "again"
                               ELSE "lost")
          /\ UNCHANGED carried
    /\ UNCHANGED <<env, peer, rgrp>>

\* Blocking mode: once some link is ready the message is sent over those that
\* are ready now; the others keep their state.
RetryBlocked ==
    /\ app.pc = "blocked" /\ (AnyReady \/ grp.closing)
    /\ \/ Closing
       \/ /\ ~grp.closing
          /\ LET errs == {l \in Members : ErrReady(l)}
                 outs == {l \in Members : OutReady(l)}
                 Over(a, l) == Outcome(sendmsg2(a, l, app.msg), l)
                 a1 == FoldLeft(Over, [Acc(app.mc, grp.buffer) EXCEPT
                                         !.lk = SetBroken(link, errs)], InOrder(outs))
                 bad == a1.agains \cup a1.fails
                 lk2 == SetBroken(a1.lk, bad)
             IN /\ link' = IF a1.oks # {} THEN CloseFailed(lk2, bad) ELSE lk2
                /\ carried' = a1.car
                /\ Return(IF a1.oks # {} THEN "ok" ELSE "lost")
                /\ grp' = [grp EXCEPT !.forked = @ \/ \E l \in Members :
                             lk2[l].snd = "RUNNING" /\ l \notin a1.oks]
    /\ UNCHANGED <<env, peer, rgrp>>

-----------------------------------------------------------------------------
(* sendBackup.  ctx gives every member its BackupMemberState.              *)

Active == {"FRESH", "STABLE", "UNSTABLE", "WARY"}
With(ctx, st) == {l \in DOMAIN ctx : ctx[l] = st}

\* Which states a RUNNING link can be found in: it has not answered in time, it
\* is within or past its activation phase, or it is watched after instability.
sendBackup_QualifyActiveState(r) ==
    {"UNSTABLE"} \cup (IF r.fresh THEN {"FRESH"} ELSE {})
      \cup (IF r.unst /\ ~r.wary THEN {"WARY"} ELSE {"STABLE"})
      \cup (IF r.wary THEN {"WARY"} ELSE {})

sendBackup_AssignBackupState(r, st) ==
    CASE st \in {"PENDING", "STANDBY", "BROKEN", "STABLE"} ->
           [r EXCEPT !.fresh = FALSE, !.unst = FALSE, !.wary = FALSE]
      [] st = "FRESH"    -> [r EXCEPT !.fresh = TRUE, !.unst = FALSE, !.wary = FALSE]
      [] st = "UNSTABLE" -> [r EXCEPT !.fresh = FALSE, !.unst = TRUE, !.wary = FALSE]
      [] st = "WARY"     -> [r EXCEPT !.wary = TRUE]

\* The states a member may be given at the start of a call.
Qualify(r) ==
    CASE r.snd = "BROKEN"  -> {"BROKEN"}
      [] r.snd = "IDLE"    -> {IF r.sock = "connected" THEN "STANDBY"
                               ELSE IF r.sock \in Broken THEN "BROKEN" ELSE "PENDING"}
      [] r.snd = "RUNNING" -> sendBackup_QualifyActiveState(r)
      [] OTHER             -> {"PENDING"}

\* Higher weight first, then the more stable state, then the socket number.
Rank == [PENDING |-> 0, STANDBY |-> 1, BROKEN |-> 2, UNSTABLE |-> 3, WARY |-> 4,
         FRESH |-> 5, STABLE |-> 6]
sortByWeightAndState(ctx) ==
    SetToSortSeq(DOMAIN ctx, LAMBDA a, b :
        \/ env.weight[a] > env.weight[b]
        \/ env.weight[a] = env.weight[b] /\ Rank[ctx[a]] > Rank[ctx[b]]
        \/ env.weight[a] = env.weight[b] /\ Rank[ctx[a]] = Rank[ctx[b]] /\ a < b)

\* One RUNNING link: a full one is UNSTABLE; one whose number differs from the
\* first link's is set to follow it.
OverActive(x, l) ==
    IF x.ctx[l] \notin Active THEN x
    ELSE LET last == x.a.lk[l].next
             a == sendmsg2(x.a, l, app.msg + 1)
             b == IF a.stat = "ok" /\ a.cur # NONE /\ a.cur # last
                    THEN overrideSndSeqNo(a, l, a.cur + 1) ELSE a
             c == [b EXCEPT !.cur = IF b.stat = "ok" /\ @ = NONE THEN b.mc ELSE @,
                            !.oks = IF b.stat = "ok" THEN @ \cup {l} ELSE @,
                            !.lk[l].last = b.lk[l].sock]
         IN IF a.stat = "again"
              THEN [a |-> [c EXCEPT !.lk[l] = sendBackup_AssignBackupState(@, "UNSTABLE")],
                    ctx |-> [x.ctx EXCEPT ![l] = "UNSTABLE"]]
              ELSE [x EXCEPT !.a = c]

\* What the acknowledgements allow the group's buffer to forget: messages before
\* the last one acknowledged on any link.
DropAcked(buffer) ==
    LET offset == grp.acked - grp.oldest
    IN IF offset > Len(buffer) THEN << >> ELSE SubSeq(buffer, offset + 1, Len(buffer))

\* Faulty: the buffer is emptied whether or not its messages were acknowledged.
BadaddMessageToBuffer(g, seq, m) ==
    [g EXCEPT !.buffer = <<[seq |-> seq, msg |-> m]>>,
              !.acked  = IF @ = NONE THEN seq ELSE @,
              !.oldest = IF g.acked = NONE THEN seq ELSE g.acked]

addMessageToBuffer(g, seq, m) ==
    LET kept == IF g.acked # NONE /\ g.oldest # g.acked THEN DropAcked(g.buffer)
                ELSE g.buffer
        new  == Append(kept, [seq |-> seq, msg |-> m])
    IN [g EXCEPT !.buffer = new,
                 !.acked  = IF @ = NONE THEN seq ELSE @,
                 !.oldest = IF g.acked = NONE THEN seq ELSE g.acked]

\* The message, with the number it was sent under or the one that follows the
\* buffer, is kept for a link activated later; new links start at the oldest.
sendBackup_Buffering(g, cur) ==
    LET seq == IF cur # NONE THEN cur
               ELSE IF g.buffer # << >> THEN Last(g.buffer).seq + 1 ELSE NONE
        h   == addMessageToBuffer(g, seq, app.msg + 1)
    IN IF seq = NONE THEN [g |-> g, cur |-> NONE]
       ELSE [g |-> [h EXCEPT !.sched = h.buffer[1].seq], cur |-> seq]

\* Everything in the group's buffer that the link has not had, from the oldest.
sendBackupRexmit(acc, l) ==
    LET first == acc.buffer[1].seq
        a     == IF first > acc.lk[l].next THEN overrideSndSeqNo(acc, l, first) ELSE acc
        skip  == IF first < acc.lk[l].next THEN acc.lk[l].next - first ELSE 0
        Put(x, b) == IF x.stat \notin {"ok", ""} THEN x
                     ELSE sendmsg2([x EXCEPT !.mc = b.seq], l, b.msg)
    IN IF acc.buffer = << >> \/ skip >= Len(acc.buffer) THEN [acc EXCEPT !.stat = "ok"]
       ELSE FoldLeft(Put, [a EXCEPT !.stat = ""], SubSeq(acc.buffer, skip + 1, Len(acc.buffer)))

MaxWeight(S) == IF S = {} THEN 0 ELSE Max({env.weight[l] : l \in S})

\* With no stable or fresh link, or a heavier one standing by, the standby links
\* are tried, heaviest first, until one takes the data.
TryStandby(y, l) ==
    IF y.ctx[l] # "STANDBY" \/ y.done THEN y
    ELSE LET a == IF y.cur = NONE THEN sendmsg2(y.a, l, app.msg + 1)
                  ELSE sendBackupRexmit(y.a, l)
             g == IF y.cur = NONE /\ a.stat = "ok"
                    THEN addMessageToBuffer(y.g, a.mc, app.msg + 1) ELSE y.g
             b == [a EXCEPT !.lk[l].last = a.lk[l].sock, !.buffer = g.buffer]
         IN IF a.stat = "ok"
              THEN [y EXCEPT !.a = [b EXCEPT !.lk[l] =
                                     [sendBackup_AssignBackupState(@, "FRESH")
                                        EXCEPT !.snd = "RUNNING"]],
                             !.g = g, !.done = TRUE, !.ctx[l] = "FRESH",
                             !.cur = IF @ = NONE THEN a.mc ELSE @]
            ELSE IF a.stat = "again" THEN [y EXCEPT !.a = b]
            ELSE [y EXCEPT !.a = [b EXCEPT !.lk[l] =
                                     sendBackup_AssignBackupState(@, "BROKEN")],
                           !.ctx[l] = "BROKEN"]

sendBackup_TryActivateStandbyIfNeeded(y) ==
    LET maxAct == MaxWeight({l \in DOMAIN y.q : y.q[l] \in Active})
        maxStb == MaxWeight(With(y.q, "STANDBY"))
    IN IF With(y.ctx, "STANDBY") = {}
          \/ (With(y.ctx, "STABLE") \cup With(y.ctx, "FRESH") # {} /\ maxAct >= maxStb)
         THEN y ELSE FoldLeft(TryStandby, y, sortByWeightAndState(y.ctx))

\* Up to the check of the pending links: every member is qualified, the message
\* goes over the active ones, into the group's buffer, and if need be over a
\* link that was standing by.
sendBackup ==
    /\ MaySend /\ env.type = "backup"
    /\ \E q \in [Members -> {"PENDING", "STANDBY", "BROKEN"} \cup Active] :
         /\ \A l \in Members : q[l] \in Qualify(Checked[l])
         /\ LET lk0 == [l \in Links |-> IF l \in Members
                          THEN sendBackup_AssignBackupState(Checked[l], q[l]) ELSE link[l]]
                x == FoldLeft(OverActive, [a |-> [Acc(NONE, << >>) EXCEPT !.lk = lk0],
                                           ctx |-> q], grp.order)
                b == sendBackup_Buffering(grp, x.a.cur)
                y == sendBackup_TryActivateStandbyIfNeeded(
                       [a |-> [x.a EXCEPT !.buffer = b.g.buffer], ctx |-> x.ctx, q |-> q,
                        g |-> b.g, cur |-> b.cur, done |-> FALSE])
                polls == With(y.ctx, "PENDING") # {} /\ grp.sub # {}
            IN /\ link' = y.a.lk
               /\ carried' = y.a.car
               /\ grp' = [y.g EXCEPT !.resync = @ \/ y.a.resync,
                            !.forked = @ \/ \E l \in Members :
                               y.a.lk[l].snd = "RUNNING" /\ y.a.lk[l].sock = "connected"
                                 /\ y.a.lk[l].next # y.cur + 1]
               /\ app' = [app EXCEPT !.pc = IF polls THEN "bpending" ELSE "bclose",
                            !.msg = @ + 1, !.ctx = y.ctx, !.blk = x.a.oks # {} \/ y.done]
    /\ UNCHANGED <<env, peer, rgrp>>

\* The poll of m_SndEID after the lock was let go.
sendBackup_CheckPendingSockets ==
    /\ app.pc = "bpending"
    /\ \/ Closing
       \/ /\ ~grp.closing /\ grp.sub = {}
          /\ Return("lost") /\ UNCHANGED <<link, grp, carried>>
       \/ /\ ~grp.closing /\ grp.sub # {}
          /\ LET gone == {l \in With(app.ctx, "PENDING") : ErrReady(l)}
             IN /\ app' = [app EXCEPT !.pc = "bclose", !.ctx = [l \in DOMAIN @ |->
                             IF l \in gone THEN "BROKEN" ELSE @[l]]]
                /\ grp' = [Unsub(grp, gone) EXCEPT !.subout = {l \in @ : ~OutReady(l)}]
          /\ UNCHANGED <<link, carried>>
    /\ UNCHANGED <<env, peer, rgrp>>

\* Of the active links, in the order of weight: every stable one after the first
\* stable one, and any other that is not heavier than it.
Silenced(ctx) ==
    LET order  == SelectSeq(sortByWeightAndState(ctx), LAMBDA l : ctx[l] \in Active)
        stable == {i \in DOMAIN order : ctx[order[i]] = "STABLE"}
    IN IF stable = {} THEN {} ELSE {order[i] : i \in (Min(stable) + 1) .. Len(order)}

sendBackup_SilenceRedundantLinks(lk, ctx) ==
    [l \in Links |-> IF l \in Silenced(ctx) \cap Members
       THEN [sendBackup_AssignBackupState(lk[l], "STANDBY")
               EXCEPT !.snd = IF @ = "RUNNING" THEN "IDLE" ELSE @]
       ELSE lk[l]]

\* sendBackup_CloseBrokenSockets, then the wait if nothing could be sent and some
\* link may yet be usable, or the end of the call.
BackupClose ==
    /\ app.pc = "bclose"
    /\ \/ Closing
       \/ /\ ~grp.closing
          /\ LET lk1   == CloseFailed(link, With(app.ctx, "BROKEN") \cap Members)
                 hope  == With(app.ctx, "UNSTABLE") \cup With(app.ctx, "WARY")
                            \cup With(app.ctx, "PENDING")
                 ctx   == [l \in DOMAIN app.ctx \cap Members |-> app.ctx[l]]
             IN IF hope = {} \/ app.blk
                  THEN /\ link' = sendBackup_SilenceRedundantLinks(lk1, ctx)
                       /\ Return(IF app.blk THEN "ok" ELSE "lost")
                  ELSE /\ link' = lk1
                       /\ IF grp.sub = {} THEN Return("lost")
                          ELSE IF ~env.sync THEN Return("again")
                          ELSE app' = [app EXCEPT !.pc = "bwait"]
          /\ UNCHANGED <<grp, carried>>
    /\ UNCHANGED <<env, peer, rgrp>>

\* The blocking wait: failed links are closed; the first RUNNING link found ready
\* is given the whole buffer.
sendBackup_RetryWaitBlocked ==
    /\ app.pc = "bwait"
    /\ \/ Closing
       \/ /\ ~grp.closing /\ grp.sub = {}
          /\ Return("lost") /\ UNCHANGED <<link, grp, carried>>
       \/ /\ ~grp.closing /\ AnyReady
          /\ LET errs == {l \in Members : ErrReady(l)}
                 run  == {l \in Members : link[l].snd = "RUNNING"}
                 wait == {l \in run : ~OutReady(l)}
                 outs == InOrder(run \ wait)
                 lk1  == CloseFailed(link, errs)
                 Try(z, l) == IF z.stat = "ok" THEN z
                              ELSE LET a == sendBackupRexmit(z, l) IN
                                IF a.stat # "ok" THEN a ELSE [a EXCEPT !.lk[l] =
                                  sendBackup_AssignBackupState(@, "WARY"), !.oks = {l}]
                 z    == FoldLeft(Try, [Acc(NONE, grp.buffer) EXCEPT !.lk = lk1], outs)
                 ctx  == [l \in DOMAIN app.ctx \cap Members |->
                            IF l \in z.oks THEN "WARY" ELSE app.ctx[l]]
             IN IF errs = Members
                  THEN Return("lost") /\ link' = lk1 /\ UNCHANGED <<grp, carried>>
                ELSE IF z.stat # "ok" /\ wait # {}
                  THEN /\ link' = z.lk /\ carried' = z.car /\ app' = [app EXCEPT !.ctx = ctx]
                       /\ grp' = [Unsub(grp, errs) EXCEPT !.resync = @ \/ z.resync]
                  ELSE /\ link' = sendBackup_SilenceRedundantLinks(z.lk, ctx)
                       /\ carried' = z.car
                       /\ grp' = [Unsub(grp, errs) EXCEPT !.resync = @ \/ z.resync]
                       /\ Return(IF z.stat = "ok" THEN "ok" ELSE "lost")
    /\ UNCHANGED <<env, peer, rgrp>>

\* A keepalive of the peer: a link that is not in its activation phase is idle.
processKeepalive(l) ==
    /\ env.type = "backup" /\ l \in Members /\ link[l].sock = "connected"
    /\ link[l].snd = "RUNNING" /\ ~link[l].fresh
    /\ link' = [link EXCEPT ![l].snd = "IDLE"]
    /\ UNCHANGED <<env, grp, app, peer, rgrp, carried>>

-----------------------------------------------------------------------------
(* The links and the receiving group                                       *)

\* A data packet reaches the peer's member: behind the start of its buffer it is
\* discarded, otherwise stored; the member is receiving.
processData(l) ==
    /\ link[l].sock = "connected" /\ peer[l].up
    /\ \E i \in DOMAIN link[l].buf :
         LET p == link[l].buf[i] IN
         /\ ~p.got
         /\ link' = [link EXCEPT ![l].buf[i].got = TRUE]
         /\ peer' = [peer EXCEPT ![l].run = TRUE,
              ![l].arr  = IF p.seq < peer[l].start THEN @
                          ELSE @ \cup {[seq |-> p.seq, msg |-> p.msg]},
              ![l].curr = IF p.seq > @ THEN p.seq ELSE @]
         /\ rgrp' = [rgrp EXCEPT !.seen = IF p.seq < peer[l].start THEN @ ELSE @ \cup {p.msg}]
    /\ UNCHANGED <<env, grp, app, carried>>


ackMessage(g, seq) == IF g.acked = NONE \/ seq <= g.acked THEN g
                      ELSE [g EXCEPT !.acked = seq]

\* An acknowledgement of the link: the received prefix leaves the sender buffer
\* and the group learns how far this link has come.
updateSndLossListOnACK(l) ==
    /\ link[l].sock = "connected"
    /\ \E k \in DOMAIN link[l].buf :
         /\ \A i \in 1 .. k : link[l].buf[i].got
         /\ link' = [link EXCEPT ![l].buf = SubSeq(@, k + 1, Len(@))]
         /\ grp' = IF l \in Members THEN ackMessage(grp, link[l].buf[k].seq) ELSE grp
    /\ UNCHANGED <<env, app, peer, rgrp, carried>>

Seqs(l) == {p.seq : p \in peer[l].arr}
RcvLastAck(l) == CHOOSE s \in peer[l].start .. (peer[l].curr + 1) :
                    s \notin Seqs(l) /\ peer[l].start .. (s - 1) \subseteq Seqs(l)

\* A backup group's idle member with an empty buffer follows the member that
\* acknowledges, never backwards.
updateIdleLinkFrom(k, l) ==
    /\ env.type = "backup" /\ k # l /\ peer[k].up /\ peer[l].up
    /\ ~peer[k].run /\ peer[k].arr = {} /\ RcvLastAck(l) > peer[k].curr
    /\ peer' = [peer EXCEPT ![k].start = RcvLastAck(l), ![k].curr = RcvLastAck(l) - 1]
    /\ UNCHANGED <<env, link, grp, app, rgrp, carried>>

\* The keepalive of a silenced link: the peer sees its member idle.
PeerKeepalive(l) ==
    /\ env.type = "backup" /\ peer[l].up /\ peer[l].run /\ link[l].snd = "IDLE"
    /\ peer' = [peer EXCEPT ![l].run = FALSE]
    /\ UNCHANGED <<env, link, grp, app, rgrp, carried>>

\* CUDT::rcvDropTooLateUpTo on a member's buffer.
rcvDropTooLateUpTo(r, seq) ==
    LET s == IF seq > r.curr + 1 THEN r.curr + 1 ELSE seq
    IN [r EXCEPT !.arr = {p \in @ : p.seq >= s}, !.start = IF s > @ THEN s ELSE @]

(* Faulty: the first member found readable is read, whatever the group has had. *)
BadReadAgain(R) == {p \in UNION {peer[l].arr : l \in R} : p.msg <= rgrp.ripe}
(* Faulty: the first member found readable is read. *)
BadReadFirst(R) ==
    {p \in UNION {rcvDropTooLateUpTo(peer[l], rgrp.base + 1).arr : l \in R} :
        p.msg <= rgrp.ripe}
\* The earliest packet readable on a ready member: its delivery time has come.
ToRead(R) ==
    LET firsts == {CHOOSE p \in rcvDropTooLateUpTo(peer[l], rgrp.base + 1).arr :
                      \A q \in rcvDropTooLateUpTo(peer[l], rgrp.base + 1).arr : p.seq <= q.seq
                     : l \in {k \in R : rcvDropTooLateUpTo(peer[k], rgrp.base + 1).arr # {}}}
        ripe == {p \in firsts : p.msg <= rgrp.ripe}
    IN {p \in ripe : \A q \in ripe : p.seq <= q.seq}

\* The members to read: all live ones in non-blocking mode; in blocking mode those
\* the epoll reported, and those that have the next packet of their buffer.
recv_WaitForReadReady(alive) ==
    LET next  == {l \in alive : peer[l].start \in Seqs(l)}
    IN IF env.rsync THEN {S \in SUBSET alive : next \subseteq S} ELSE {alive}

recv ==
    LET alive == {l \in Links : peer[l].up}
    IN \E R \in recv_WaitForReadReady(alive) : \E p \in ToRead(R) :
           /\ rgrp' = [rgrp EXCEPT !.base = p.seq, !.out = Append(@, p.msg)]
           /\ peer' = [l \in Links |-> IF l \in alive
                         THEN rcvDropTooLateUpTo(peer[l], p.seq + 1) ELSE peer[l]]
           /\ UNCHANGED <<env, link, grp, app, carried>>

\* Delivery time passes, the same for a message on every link.
Ripens ==
    /\ rgrp.ripe < app.msg
    /\ rgrp' = [rgrp EXCEPT !.ripe = @ + 1]
    /\ UNCHANGED <<env, link, grp, app, peer, carried>>

\* The peer drops a member whose link is gone.
PeerRemoves(l) ==
    /\ peer[l].up /\ link[l].sock \in Broken
    /\ peer' = [peer EXCEPT ![l] = [@ EXCEPT !.up = FALSE, !.arr = {}]]
    /\ UNCHANGED <<env, link, grp, app, rgrp, carried>>

Next ==
    \/ \E l \in Links :
          \/ groupConnect(l) \/ ConnectRecorded(l) \/ PeerAccepts(l)
          \/ synchronizeWithGroup(l) \/ postConnect(l)
          \/ completeBrokenConnectionDependencies(l) \/ removeFromGroup(l)
          \/ processKeepalive(l) \/ processData(l) \/ updateSndLossListOnACK(l)
          \/ PeerKeepalive(l) \/ PeerRemoves(l)
          \/ \E k \in Links : updateIdleLinkFrom(k, l)
    \/ ConnectReturns \/ close \/ sendBroadcast \/ CheckPending \/ CheckBlocked
    \/ RetryBlocked \/ sendBackup \/ sendBackup_CheckPendingSockets \/ BackupClose
    \/ sendBackup_RetryWaitBlocked \/ recv \/ Ripens

Spec == Init /\ [][Next]_vars

-----------------------------------------------------------------------------
\* A payload goes with one sequence number on all links (docs/features/
\* socket-groups.md:520): whichever links send it, whenever they joined.
SameSequence == \A p, q \in carried : (p[1] = q[1]) <=> (p[2] = q[2])

\* The same as long as no link had to be left behind: none joined with nothing to
\* tell it the group's number, none was full while a number was given.
SameUnlessForked == ~grp.forked /\ ~grp.resync => SameSequence

\* CUDTGroup::recv hands no message out twice and none after a later one, over
\* all members' buffers and whichever of them break.
DeliveredInOrder ==
    ~grp.forked /\ ~grp.resync =>
        \A i, j \in DOMAIN rgrp.out : i < j => rgrp.out[i] < rgrp.out[j]

\* Reading never passes over a packet that a live member already holds.
SkipsNothing ==
    ~env.rsync /\ ~grp.forked => \A s \in (rgrp.base + 1) .. (rgrp'.base - 1) :
        \A l \in Links : peer[l].up => s \notin Seqs(l)
NothingSkipped == [][SkipsNothing]_vars

\* Backup: an accepted message has reached the peer, is in the buffer of a live link, or
\* in the group's buffer, from which a link activated later will send it.
BackupKeepsData ==
    env.type = "backup" => \A p \in carried :
        \/ p[1] <= rgrp.base \/ p[2] \in rgrp.seen
        \/ \E i \in DOMAIN grp.buffer : grp.buffer[i].msg = p[2]
        \/ \E l \in Links : /\ link[l].sock = "connected"
                            /\ \E i \in DOMAIN link[l].buf :
                                 link[l].buf[i].msg = p[2] /\ ~link[l].buf[i].got
=============================================================================
