---------------------------- MODULE MCMechanisms ----------------------------
(* The mechanisms that sit beside and above the transmission, each on instances  *)
(* of its own.  A behaviour is about one of them, the one `which' names: its     *)
(* variables are the first of v1 .. v9, in the order of its declaration, and the *)
(* rest are 0.                                                                   *)
EXTENDS Integers, Sequences, FiniteSets

VARIABLES which, v1, v2, v3, v4, v5, v6, v7, v8, v9
allVars == <<which, v1, v2, v3, v4, v5, v6, v7, v8, v9>>

\* Small matrices in both layouts, rows only and columns only.
FecCase(cols, rows, conly, stair, arq, pkts, burst) ==
    [cols |-> cols, rows |-> rows, conly |-> conly, stair |-> stair, arq |-> arq,
     rbuf |-> 64, pkts |-> pkts, faults |-> 2, burst |-> burst]
FecCases ==
    {FecCase(3, 1, FALSE, TRUE, "onreq", 10, {1, 2, 5}),
     FecCase(2, 2, FALSE, FALSE, "onreq", 11, {1, 2}),
     FecCase(2, 2, FALSE, TRUE, "onreq", 14, {1, 2, 5}),
     FecCase(3, 2, FALSE, TRUE, "onreq", 15, {1, 3}),
     FecCase(2, 3, FALSE, FALSE, "always", 11, {1, 2, 3}),
     FecCase(2, 2, TRUE, FALSE, "onreq", 11, {1, 2, 5})}
FE == INSTANCE Fec WITH
        Cases <- FecCases,
        env <- v1, snd <- v2, rcv <- v3, chan <- v4, got <- v5, out <- v6, lost <- v7

\* Short key periods, with as much delay as the period allows.
KeyCase(side, rate, pre, pkts, lost) ==
    [side |-> side, rate |-> rate, pre |-> pre, lag |-> 4, pkts |-> pkts,
     losses |-> lost, maxRetry |-> 1]
KeyCases == {KeyCase("initiator", 5, 2, 16, 2), KeyCase("responder", 4, 1, 13, 2)}
KR == INSTANCE KeyRefresh WITH
        Cases <- KeyCases,
        env <- v1, tx <- v2, rx <- v3, kmMsg <- v4, req <- v5, rsp <- v6, data <- v7,
        losses <- v8, hist <- v9

\* Two eids on one socket, one of them a group's; two sockets on one eid; and the
\* closing of a socket during a subscription.
EpollCase(socks, eids, group, evts, et, flags, rel, more, cap) ==
    [socks |-> socks, eids |-> eids, group |-> group, evts |-> evts, et |-> et,
     flags |-> flags, mayRelease |-> rel, system |-> more, mayBreak |-> rel,
     mayClose |-> more, cap |-> cap]
AllEvents == {"IN", "OUT", "ERR"}
EpollCases ==
    {EpollCase(1, 2, {2}, {AllEvents, {"OUT", "ERR"}}, {FALSE}, {}, TRUE, FALSE, 2),
     EpollCase(2, 1, {}, {AllEvents}, {TRUE}, {}, FALSE, FALSE, 1),
     EpollCase(1, 1, {}, {{"IN"}, AllEvents}, BOOLEAN, {"ENABLE_EMPTY", "clear"},
               TRUE, TRUE, 1)}
EP == INSTANCE Epoll WITH
        Cases <- EpollCases,
        env <- v1, polls <- v2, sock <- v3, ctl <- v4, closer <- v5, seen <- v6

\* Families of options that depend on each other, and a group with members.
Of(o, vals) == {<<o, v>> : v \in vals}
SocketCase(opts) == [opts |-> opts, gopts |-> {}, memberConfigs |-> {}, maxMembers |-> 0,
                     maxConfig |-> 0]
OptionCases ==
    {SocketCase(Of("MSS", {75, 76, 1400}) \cup Of("UDP_SNDBUF", {60, 1000}) \cup
                Of("UDP_RCVBUF", {60, 1000}) \cup Of("RCVBUF", {1, 60000}) \cup
                Of("FC", {31, 40}) \cup Of("SNDBUF", {0, 50, 60000})),
     SocketCase(Of("PAYLOADSIZE", {0, 1440, 1450, 1456, 1457}) \cup
                Of("PACKETFILTER", {0, 4, 16}) \cup Of("TRANSTYPE", {"live", "file"}) \cup
                Of("CRYPTOMODE", {0, 2}) \cup Of("TSBPDMODE", BOOLEAN) \cup
                Of("LATENCY", {0, 200})),
     SocketCase(Of("KMREFRESHRATE", {0, 3, 8, 9000}) \cup
                Of("KMPREANNOUNCE", {0, 1, 2, 3, 4096, 4499}) \cup
                Of("PASSPHRASE", {0, 5, 10}) \cup Of("PBKEYLEN", {16, 17}) \cup
                Of("CONGESTION", {"vod", "none"}) \cup Of("OHEADBW", {4, 50}) \cup
                Of("LOSSMAXTTL", {3})),
     [opts |-> {}, maxMembers |-> 3, maxConfig |-> 3,
      gopts |-> Of("SNDDROPDELAY", {-2, 5}) \cup Of("SNDTIMEO", {7}) \cup
                Of("MSS", {1400}) \cup Of("UDP_SNDBUF", {1000}) \cup
                Of("PEERIDLETIMEO", {50, 100}) \cup Of("GROUPMINSTABLETIMEO", {80}) \cup
                Of("RCVSYN", {TRUE}),
      memberConfigs |-> {<< >>, <<<<"SNDDROPDELAY", 9>>>>}]}
OP == INSTANCE Options WITH
        Cases <- OptionCases,
        env <- v1, cfg <- v2, phase <- v3, tolerance <- v4, grp <- v5

\* Two links, broadcast and backup, with and without blocking calls, connecting from
\* nothing or joining a group in use.
GroupCase(type, sync, rsync, w2, up, breaks, calls, closes) ==
    [type |-> type, sync |-> sync, bconn |-> sync, rsync |-> rsync, weight |-> <<0, w2>>,
     up |-> up, breaks |-> breaks, calls |-> calls, closes |-> closes]
GroupCases ==
    {GroupCase("broadcast", FALSE, FALSE, 0, {1}, 1, 1, FALSE),
     GroupCase("broadcast", TRUE, TRUE, 0, {1, 2}, 1, 3, FALSE),
     GroupCase("broadcast", TRUE, FALSE, 0, {}, 1, 1, FALSE),
     GroupCase("backup", FALSE, FALSE, 1, {1, 2}, 1, 2, FALSE),
     GroupCase("backup", TRUE, FALSE, 0, {1}, 1, 1, FALSE),
     GroupCase("backup", TRUE, TRUE, 0, {1, 2}, 1, 2, TRUE),
     GroupCase("broadcast", TRUE, TRUE, 0, {1}, 0, 1, TRUE)}
GR == INSTANCE Group WITH
        Links <- {1, 2}, Cap <- 1, Cases <- GroupCases,
        env <- v1, link <- v2, grp <- v3, app <- v4, peer <- v5, rgrp <- v6, carried <- v7

-----------------------------------------------------------------------------
Init ==
    \/ which = "Fec" /\ FE!Init /\ v8 = 0 /\ v9 = 0
    \/ which = "Group" /\ GR!Init /\ v8 = 0 /\ v9 = 0
    \/ which = "KeyRefresh" /\ KR!Init
    \/ which = "Epoll" /\ EP!Init /\ v7 = 0 /\ v8 = 0 /\ v9 = 0
    \/ which = "Options" /\ OP!Init /\ v6 = 0 /\ v7 = 0 /\ v8 = 0 /\ v9 = 0

Next ==
    /\ \/ which = "Fec" /\ FE!Next /\ UNCHANGED <<v8, v9>>
       \/ which = "Group" /\ GR!Next /\ UNCHANGED <<v8, v9>>
       \/ which = "KeyRefresh" /\ KR!Next
       \/ which = "Epoll" /\ EP!Next /\ UNCHANGED <<v7, v8, v9>>
       \/ which = "Options" /\ OP!Next /\ UNCHANGED <<v6, v7, v8, v9>>
    /\ UNCHANGED which

Spec == Init /\ [][Next]_allVars

-----------------------------------------------------------------------------
\* A packet the filter rebuilds has the number and the contents of the one that was
\* lost (Fec: RcvRebuild from the clips the groups collected).
RebuiltIsOriginal == which = "Fec" => FE!RebuiltIsOriginal

\* A packet the filter's tables have passed was received, rebuilt or reported, and no
\* group is left that could give one back (Fec).
LossesSettled == which = "Fec" => FE!LossesSettled

\* The two ends keep their keys in step through delay, loss and repetition: what was
\* announced decrypts, what is confirmed is installed (KeyRefresh).
KeysInStep == which = "KeyRefresh" => KR!KeysInStep

\* A subscription knows whether its socket is ready, whatever the interleaving of the
\* subscription with the events of the socket (Epoll).
StateFollowsReadiness == which = "Epoll" => EP!StateFollowsReadiness

\* A wait reports what is subscribed and ready, each edge once (Epoll).
NoticeFollowsState == which = "Epoll" => EP!NoticeFollowsState

\* The options stay coherent whatever order they are set in (Options).
ConfigCoherent == which = "Options" => OP!ConfigCoherent

\* The members of a group have the same options however late they join (Options).
MembersAgree == which = "Options" => OP!MembersAgree

\* A payload has one sequence number on all links unless a link was left behind (Group:
\* sendBroadcast and sendBackup).
SameUnlessForked == which = "Group" => GR!SameUnlessForked

\* Reading over all members hands out no message twice or after a later one (Group).
DeliveredInOrder == which = "Group" => GR!DeliveredInOrder

\* A backup group keeps every message that has not reached the peer (Group).
BackupKeepsData == which = "Group" => GR!BackupKeepsData

\* Reading never passes over a packet that a live member already holds (Group).
NothingSkipped == [][which = "Group" => GR!SkipsNothing]_allVars
=============================================================================
