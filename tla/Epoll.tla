------------------------------- MODULE Epoll -------------------------------
(* The epoll system (epoll.h, epoll.cpp) with the threads that feed it: the   *)
(* application subscribes, waits, reads and sends; the receiving worker       *)
(* delivers data and acknowledgements and breaks the connection; the closing  *)
(* thread unsubscribes.  A step is a section held under one lock, so what the *)
(* code reads before a lock may be stale when it is used after it.  Event     *)
(* masks are sets.  Calls that fail change nothing and are left out.          *)
EXTENDS Integers, Sequences, FiniteSets

CONSTANT Cases

EPOLL_IN == "IN"
EPOLL_OUT == "OUT"
EPOLL_ERR == "ERR"
AllEvents == {EPOLL_IN, EPOLL_OUT, EPOLL_ERR}
ETONLY == {"UPDATE"}

VARIABLES env, polls, sock, ctl, closer, seen
vars == <<env, polls, sock, ctl, closer, seen>>

Socks == 1 .. env.socks
Eids == 1 .. env.eids

NoWait == [watch |-> {}, edge |-> {}, state |-> {}]
NewDesc == [live |-> TRUE, wait |-> [u \in Socks |-> NoWait], notice |-> << >>,
            flags |-> {}, locals |-> {}]
NoDesc == [NewDesc EXCEPT !.live = FALSE]
Idle == [pc |-> "idle", eid |-> 0, u |-> 0]

NewSock == [ids |-> {}, conn |-> "opening", rcv |-> 0, snd |-> 0, pending |-> "none"]

Init ==
    /\ env \in Cases
    /\ polls = [e \in Eids |-> NoDesc]
    /\ sock = [u \in Socks |-> NewSock]
    /\ ctl = Idle
    /\ closer = [u \in Socks |-> [pc |-> "idle", left |-> {}]]
    /\ seen = [e \in Eids |-> [u \in Socks |-> {}]]

-----------------------------------------------------------------------------
\* CEPollDesc: a Wait whose watch is empty is not in the map.
NoticeOf(d, u) == UNION {d.notice[i].events : i \in {j \in DOMAIN d.notice : d.notice[j].fd = u}}

WithNotices(d, Events(_)) ==
    LET mapped == [i \in DOMAIN d.notice |->
                      [fd |-> d.notice[i].fd, events |-> Events(i)]]
        NonEmpty(n) == n.events # {}
    IN [d EXCEPT !.notice = SelectSeq(mapped, NonEmpty)]

addEventNotice(d, u, events) ==
    IF NoticeOf(d, u) = {}
    THEN [d EXCEPT !.notice = Append(@, [fd |-> u, events |-> events])]
    ELSE LET Set(i) == d.notice[i].events \cup (IF d.notice[i].fd = u THEN events ELSE {})
         IN WithNotices(d, Set)

removeExcessEvents(d, u, nevts) ==
    LET Keep(i) == IF d.notice[i].fd = u THEN d.notice[i].events \cap nevts
                   ELSE d.notice[i].events
    IN WithNotices(d, Keep)

updateEventNotice(d, u, events, enable) ==
    IF enable THEN addEventNotice(d, u, events)
    ELSE removeExcessEvents(d, u, AllEvents \ events)

removeSubscription(d, u) ==
    [removeExcessEvents(d, u, {}) EXCEPT !.wait[u] = NoWait]

clearAll(d) == [d EXCEPT !.notice = << >>, !.wait = [u \in Socks |-> NoWait]]

edgeOnly(w) == w.edge \cap w.watch

\* Faulty: the level-triggered events of a reported notice go too.
BadcheckEdge(d, n) ==
    LET Keep(i) == IF i <= n THEN {} ELSE d.notice[i].events
    IN WithNotices(d, Keep)

\* The first n notices have been reported.
checkEdge(d, n) ==
    LET Keep(i) == IF i <= n THEN d.notice[i].events \ edgeOnly(d.wait[d.notice[i].fd])
                   ELSE d.notice[i].events
    IN WithNotices(d, Keep)

\* Only the subscription and the state lose the events; the notice keeps them
\* unless the subscription became empty.
WaitClear(w, direction) ==
    [watch |-> w.watch \ direction, edge |-> w.edge \ direction, state |-> w.state \ direction]

clearEventSub(d, i, direction) ==
    LET u == d.notice[i].fd
    IN IF d.notice[i].events \cap direction # {} /\ d.wait[u].watch \cap direction # {}
       THEN WaitClear(d.wait[u], direction) ELSE d.wait[u]

clear_ready(d, direction) ==
    LET at(u) == {i \in DOMAIN d.notice : d.notice[i].fd = u}
        d1 == [d EXCEPT !.wait = [u \in Socks |->
                  IF at(u) = {} THEN d.wait[u]
                  ELSE clearEventSub(d, CHOOSE i \in at(u) : TRUE, direction)]]
        cleared == {u \in Socks : d.wait[u].watch # {} /\ d1.wait[u].watch = {}}
        Keep(i) == IF d1.notice[i].fd \in cleared THEN {} ELSE d1.notice[i].events
    IN [WithNotices(d1, Keep) EXCEPT
          !.wait = [u \in Socks |-> IF u \in cleared THEN NoWait ELSE d1.wait[u]]]

-----------------------------------------------------------------------------
\* The subscription of u becomes evts (edge-triggered if et); none removes it.
update_usock(d, u, evts, et) ==
    IF evts = {} THEN removeSubscription(d, u)
    ELSE LET removable == d.wait[u].watch \ evts
             d1 == IF removable # {} THEN removeExcessEvents(d, u, evts) ELSE d
             w == [watch |-> evts, edge |-> IF et THEN evts ELSE evts \cap ETONLY,
                   state |-> d.wait[u].state]
             d2 == [d1 EXCEPT !.wait[u] = w]
             newstate == w.watch \cap w.state
         IN IF newstate # {} THEN addEventNotice(d2, u, newstate) ELSE d2

\* One eid of update_events.  All of "events" goes into the notice as soon as one
\* of them is a change that is watched.
UpdateDesc(d, u, events, enable) ==
    LET w == d.wait[u]
        newstate == IF enable THEN w.state \cup events ELSE w.state \ events
        changes == ((w.state \ newstate) \cup (newstate \ w.state)) \cap w.watch
        d1 == [d EXCEPT !.wait[u].state = newstate]
    IN IF w.watch = {} THEN d
       ELSE IF changes = {} THEN d1
       ELSE updateEventNotice(d1, u, events, enable)

\* eids is the set the caller passes: u's own one loses the eids that are gone.
update_events(u, eids, events, enable) ==
    /\ polls' = [e \in Eids |->
          IF e \in eids /\ polls[e].live THEN UpdateDesc(polls[e], u, events, enable)
          ELSE polls[e]]
    /\ seen' = [e \in Eids |->
          IF e \in eids THEN [seen[e] EXCEPT ![u] =
               @ \cap polls'[e].wait[u].state \cap polls[e].wait[u].state]
          ELSE seen[e]]

Lost(u) == {e \in sock[u].ids : ~polls[e].live}

-----------------------------------------------------------------------------
create ==
    \E e \in Eids :
        /\ ~polls[e].live
        /\ \A f \in 1 .. (e - 1) : polls[f].live \/ "used" \in polls[f].flags
        /\ "used" \notin polls[e].flags
        /\ polls' = [polls EXCEPT ![e] = NewDesc]
        /\ UNCHANGED <<env, sock, ctl, closer, seen>>

\* The sockets keep the eid until their next update_events.
release ==
    \E e \in Eids :
        /\ env.mayRelease /\ polls[e].live
        /\ polls' = [polls EXCEPT ![e] = [NoDesc EXCEPT !.flags = {"used"}]]
        /\ seen' = [seen EXCEPT ![e] = [u \in Socks |-> {}]]
        /\ UNCHANGED <<env, sock, ctl, closer>>

clear_usocks ==
    \E e \in Eids :
        /\ polls[e].live
        /\ polls' = [polls EXCEPT ![e] = clearAll(@)]
        /\ seen' = [seen EXCEPT ![e] = [u \in Socks |-> {}]]
        /\ UNCHANGED <<env, sock, ctl, closer>>

\* -1 reads the flags, 0 clears them all.
setflags ==
    \E e \in Eids, f \in env.flags :
        /\ polls[e].live
        /\ polls' = [polls EXCEPT ![e].flags = IF f = "clear" THEN {} ELSE @ \cup {f}]
        /\ UNCHANGED <<env, sock, ctl, closer, seen>>

\* A system socket keeps uwait from working on the eid.
add_ssock ==
    \E e \in Eids :
        /\ env.system /\ polls[e].live /\ polls[e].locals = {}
        /\ polls' = [polls EXCEPT ![e].locals = {"sys"}]
        /\ UNCHANGED <<env, sock, ctl, closer, seen>>

remove_ssock ==
    \E e \in Eids :
        /\ polls[e].live /\ polls[e].locals # {}
        /\ polls' = [polls EXCEPT ![e].locals = {}]
        /\ UNCHANGED <<env, sock, ctl, closer, seen>>

\* Used by a group on its own eids only, for OUT.
clear_ready_usocks ==
    \E e \in env.group :
        /\ polls[e].live /\ polls[e].notice # << >>
        /\ polls' = [polls EXCEPT ![e] = clear_ready(@, {EPOLL_OUT})]
        /\ UNCHANGED <<env, sock, ctl, closer, seen>>

-----------------------------------------------------------------------------
\* epoll_add_usock: update_usock, then CUDT::addEPoll in its locked sections.
epoll_add_usock ==
    \E e \in Eids, u \in Socks, evts \in env.evts, et \in env.et :
        /\ ctl = Idle /\ polls[e].live /\ sock[u].conn # "gone"
        /\ polls' = [polls EXCEPT ![e] = update_usock(@, u, evts, et)]
        /\ seen' = [seen EXCEPT ![e][u] = {}]
        /\ ctl' = [pc |-> "insert", eid |-> e, u |-> u]
        /\ UNCHANGED <<env, sock, closer>>

stillConnected(u) == sock[u].conn = "up"

AddInsert ==
    /\ ctl.pc = "insert"
    /\ sock' = [sock EXCEPT ![ctl.u].ids = @ \cup {ctl.eid}]
    /\ ctl' = IF stillConnected(ctl.u) THEN [ctl EXCEPT !.pc = "in"] ELSE Idle
    /\ UNCHANGED <<env, polls, closer, seen>>

\* Under m_RecvLock.
AddIn ==
    /\ ctl.pc = "in"
    /\ IF sock[ctl.u].rcv > 0
       THEN /\ update_events(ctl.u, sock[ctl.u].ids, {EPOLL_IN}, TRUE)
            /\ sock' = [sock EXCEPT ![ctl.u].ids = @ \ Lost(ctl.u)]
       ELSE UNCHANGED <<polls, seen, sock>>
    /\ ctl' = [ctl EXCEPT !.pc = IF sock[ctl.u].snd < env.cap THEN "out" ELSE "out0"]
    /\ UNCHANGED <<env, closer>>

\* The size of the sender buffer was read without m_RecvAckLock: by now the
\* buffer may have filled.
AddOut ==
    /\ ctl.pc \in {"out", "out0"}
    /\ IF ctl.pc = "out"
       THEN /\ update_events(ctl.u, sock[ctl.u].ids, {EPOLL_OUT}, TRUE)
            /\ sock' = [sock EXCEPT ![ctl.u].ids = @ \ Lost(ctl.u)]
       ELSE UNCHANGED <<polls, seen, sock>>
    /\ ctl' = Idle
    /\ UNCHANGED <<env, closer>>

epoll_remove_entity ==
    \E e \in Eids, u \in Socks :
        /\ ctl = Idle /\ polls[e].live /\ polls[e].wait[u].watch # {}
        /\ IF sock[u].conn = "gone"
           THEN /\ polls' = [polls EXCEPT ![e] = update_usock(@, u, {}, FALSE)]
                /\ UNCHANGED <<ctl, seen>>
           ELSE /\ update_events(u, {e}, {EPOLL_IN, EPOLL_OUT}, FALSE)
                /\ ctl' = [pc |-> "erase", eid |-> e, u |-> u]
        /\ UNCHANGED <<env, sock, closer>>

removeEPollID ==
    /\ ctl.pc = "erase"
    /\ sock' = [sock EXCEPT ![ctl.u].ids = @ \ {ctl.eid}]
    /\ ctl' = [ctl EXCEPT !.pc = "drop"]
    /\ UNCHANGED <<env, polls, closer, seen>>

RemoveDrop ==
    /\ ctl.pc = "drop"
    /\ polls' = [polls EXCEPT ![ctl.eid] =
          IF @.live THEN update_usock(@, ctl.u, {}, FALSE) ELSE @]
    /\ ctl' = Idle
    /\ UNCHANGED <<env, sock, closer, seen>>

-----------------------------------------------------------------------------
MayWait(d) == d.live /\ ("ENABLE_EMPTY" \in d.flags \/ \E u \in Socks : d.wait[u].watch # {})

Reported(e, n) ==
    /\ polls' = [polls EXCEPT ![e] = checkEdge(@, n)]
    /\ seen' = [seen EXCEPT ![e] = [u \in Socks |->
          seen[e][u] \cup (edgeOnly(polls[e].wait[u]) \cap
             UNION {polls[e].notice[i].events :
                       i \in {j \in 1 .. n : polls[e].notice[j].fd = u}})]]
    /\ UNCHANGED <<env, sock, ctl, closer>>

\* As many notices as the array takes; a count of none only waits on.
uwait ==
    \E e \in Eids \ env.group, size \in 1 .. env.socks :
        LET d == polls[e]
        IN /\ MayWait(d) /\ d.locals = {} /\ d.notice # << >>
           /\ Reported(e, IF size < Len(d.notice) THEN size ELSE Len(d.notice))

\* Both arrays given: sockets in error are in both.
wait ==
    \E e \in Eids \ env.group :
        /\ polls[e].live /\ (MayWait(polls[e]) \/ polls[e].locals # {})
        /\ polls[e].notice # << >>
        /\ Reported(e, Len(polls[e].notice))

\* The group's own wait on its eid.
swait ==
    \E e \in env.group :
        /\ MayWait(polls[e]) /\ polls[e].locals = {} /\ polls[e].notice # << >>
        /\ Reported(e, Len(polls[e].notice))

-----------------------------------------------------------------------------
\* A change of u's readiness, told to all its eids in the same locked section.
Tell(u, s, events, enable) ==
    /\ update_events(u, s.ids, events, enable)
    /\ sock' = [sock EXCEPT ![u] = [s EXCEPT !.ids = @ \ Lost(u)]]
    /\ UNCHANGED <<env, ctl, closer>>

Keep(u, s) ==
    /\ sock' = [sock EXCEPT ![u] = s]
    /\ UNCHANGED <<env, polls, ctl, closer, seen>>

\* m_bConnected is set, and the event follows.
Connected ==
    \E u \in Socks :
        /\ sock[u].conn = "opening"
        /\ Keep(u, [sock[u] EXCEPT !.conn = "up", !.pending = "connect"])

postConnect ==
    \E u \in Socks :
        /\ sock[u].pending = "connect"
        /\ Tell(u, [sock[u] EXCEPT !.pending = "none"], {EPOLL_OUT}, TRUE)

\* Data is in the buffer, under its own lock, before anyone is told.
Arrive ==
    \E u \in Socks :
        /\ sock[u].conn = "up" /\ sock[u].pending = "none" /\ sock[u].rcv < env.cap
        /\ Keep(u, [sock[u] EXCEPT !.rcv = @ + 1, !.pending = "notify"])

\* Faulty: the readiness is not looked at again under m_RecvLock.
BadNotifyIn ==
    \E u \in Socks :
        /\ sock[u].pending = "notify"
        /\ Tell(u, [sock[u] EXCEPT !.pending = "none"], {EPOLL_IN}, TRUE)

\* sendCtrlAck, or the TSBPD thread: under m_RecvLock.
NotifyIn ==
    \E u \in Socks :
        LET s == [sock[u] EXCEPT !.pending = "none"]
        IN /\ sock[u].pending = "notify"
           /\ IF s.rcv > 0 THEN Tell(u, s, {EPOLL_IN}, TRUE) ELSE Keep(u, s)

\* Under m_RecvLock: reads one message, if any; the event goes with the last.
receiveMessage ==
    \E u \in Socks :
        LET s == [sock[u] EXCEPT !.rcv = IF @ > 0 THEN @ - 1 ELSE 0]
        IN /\ sock[u].conn \in {"up", "broken"}
           /\ IF s.rcv = 0 THEN Tell(u, s, {EPOLL_IN}, FALSE) ELSE Keep(u, s)

\* Under m_RecvAckLock.
sendmsg2 ==
    \E u \in Socks :
        LET s == [sock[u] EXCEPT !.snd = @ + 1]
        IN /\ stillConnected(u) /\ sock[u].snd < env.cap
           /\ IF s.snd = env.cap THEN Tell(u, s, {EPOLL_OUT}, FALSE) ELSE Keep(u, s)

\* Under m_RecvAckLock.
updateSndLossListOnACK ==
    \E u \in Socks :
        /\ stillConnected(u) /\ sock[u].snd > 0
        /\ Tell(u, [sock[u] EXCEPT !.snd = @ - 1], {EPOLL_OUT}, TRUE)

\* m_bBroken first; an expired connection raises all events, a peer's shutdown ERR.
Break ==
    \E u \in Socks, p \in {"expired", "shutdown"} :
        /\ env.mayBreak /\ stillConnected(u) /\ sock[u].pending = "none"
        /\ Keep(u, [sock[u] EXCEPT !.conn = "broken", !.pending = p])

updateBrokenConnection ==
    \E u \in Socks :
        /\ sock[u].pending \in {"expired", "shutdown"}
        /\ Tell(u, [sock[u] EXCEPT !.pending = "none"],
                IF sock[u].pending = "expired" THEN AllEvents ELSE {EPOLL_ERR}, TRUE)

-----------------------------------------------------------------------------
\* CUDT::closeInternal: the eids are copied, told of an error, left one by one,
\* and forgotten; removeSocket then clears what the socket still is subscribed to.
CloseCopy ==
    \E u \in Socks :
        /\ env.mayClose /\ sock[u].conn \in {"up", "broken"} /\ closer[u].pc = "idle"
        /\ closer' = [closer EXCEPT ![u] = [pc |-> "tell", left |-> sock[u].ids]]
        /\ UNCHANGED <<env, polls, sock, ctl, seen>>

CloseTell ==
    \E u \in Socks :
        /\ closer[u].pc = "tell"
        /\ update_events(u, sock[u].ids, {EPOLL_ERR}, TRUE)
        /\ sock' = [sock EXCEPT ![u].ids = @ \ Lost(u), ![u].conn = "broken"]
        /\ closer' = [closer EXCEPT ![u].pc = "leave"]
        /\ UNCHANGED <<env, ctl>>

CloseLeave ==
    \E u \in Socks :
        /\ closer[u].pc = "leave"
        /\ IF closer[u].left = {}
           THEN /\ sock' = [sock EXCEPT ![u].ids = {}]
                /\ closer' = [closer EXCEPT ![u].pc = "remove"]
                /\ UNCHANGED <<polls, seen>>
           ELSE \E e \in closer[u].left :
                   /\ polls' = [polls EXCEPT ![e] =
                         IF @.live THEN update_usock(@, u, {}, FALSE) ELSE @]
                   /\ closer' = [closer EXCEPT ![u].left = @ \ {e}]
                   /\ seen' = [seen EXCEPT ![e][u] = {}]
                   /\ UNCHANGED sock
        /\ UNCHANGED <<env, ctl>>

removeSocket ==
    \E u \in Socks :
        /\ closer[u].pc = "remove"
        /\ update_events(u, sock[u].ids, AllEvents, FALSE)
        /\ sock' = [sock EXCEPT ![u].ids = @ \ Lost(u), ![u].conn = "gone"]
        /\ closer' = [closer EXCEPT ![u].pc = "done"]
        /\ UNCHANGED <<env, ctl>>

Next ==
    \/ create \/ release \/ clear_usocks \/ setflags \/ add_ssock \/ remove_ssock
    \/ clear_ready_usocks
    \/ epoll_add_usock \/ AddInsert \/ AddIn \/ AddOut
    \/ epoll_remove_entity \/ removeEPollID \/ RemoveDrop
    \/ uwait \/ wait \/ swait
    \/ Connected \/ postConnect \/ Arrive \/ NotifyIn \/ receiveMessage
    \/ sendmsg2 \/ updateSndLossListOnACK \/ Break \/ updateBrokenConnection
    \/ CloseCopy \/ CloseTell \/ CloseLeave \/ removeSocket

Spec == Init /\ [][Next]_vars

-----------------------------------------------------------------------------
Subscribed(e, u) == polls[e].live /\ polls[e].wait[u].watch # {}

\* Nobody is between a change of u and telling e of it.
Quiet(e, u) ==
    /\ sock[u].pending = "none" /\ closer[u].pc = "idle" /\ stillConnected(u)
    /\ ~(ctl.eid = e /\ ctl.u = u)

\* Whatever the interleaving of subscribing, reading, sending and the receiving
\* worker, a subscription knows that data is waiting exactly when it is, and never
\* misses that there is room for sending.
StateFollowsReadiness ==
    \A e \in Eids, u \in Socks :
        (Subscribed(e, u) /\ Quiet(e, u) /\ e \in sock[u].ids) =>
            /\ (EPOLL_IN \in polls[e].wait[u].state) <=> (sock[u].rcv > 0)
            /\ (sock[u].snd < env.cap /\ EPOLL_OUT \in polls[e].wait[u].watch) =>
                  EPOLL_OUT \in polls[e].wait[u].state

\* What a wait will report of a live connection is what is subscribed and ready,
\* but for the edge-triggered events already reported; a notice always belongs to
\* a subscription and a subscription has one notice at most.
NoticeFollowsState ==
    \A e \in Eids, u \in Socks :
        LET w == polls[e].wait[u]
            n == NoticeOf(polls[e], u)
        IN /\ n # {} => w.watch # {}
           /\ Cardinality({i \in DOMAIN polls[e].notice : polls[e].notice[i].fd = u}) <= 1
           /\ (Subscribed(e, u) /\ stillConnected(u)) =>
                 /\ ((w.watch \cap w.state) \ (seen[e][u] \cap w.edge)) \subseteq n
                 /\ e \notin env.group => (n \cap seen[e][u] = {} /\ n \subseteq w.watch \cap w.state)
=============================================================================
