----------------------------- MODULE Lifecycle ------------------------------
(***************************************************************************)
(* The life of a socket in CUDTUnited (api.cpp): created, bound to a       *)
(* shared multiplexer, listening and accepting or connecting, closed by    *)
(* the application, by the peer or by the expiration timer, moved from     *)
(* m_Sockets to m_ClosedSockets, and removed by the garbage collector once *)
(* no worker list, API call or listener queue refers to it.                *)
(*                                                                         *)
(* The actors are application threads (one close() call may be under way   *)
(* per socket, one accept() per listener), the receive and send workers    *)
(* of the multiplexers, and the garbage collector.  A step is what an      *)
(* actor does under one lock.                                              *)
(***************************************************************************)
EXTENDS MuxMatch, FiniteSets, Sequences

CONSTANTS AppSocks,   (* ids of the sockets the application creates        *)
          PeerSocks,  (* ids of the sockets spawned by a listener          *)
          Cases       (* the options of a scenario, see env                *)

(* Ids of sockets are positive numbers, and 0 is none. *)
ASSUME IdsAssumption ==
  /\ AppSocks \subseteq Nat \ {0} /\ PeerSocks \subseteq Nat \ {0}
  /\ AppSocks \cap PeerSocks = {}
  /\ IsFiniteSet(AppSocks \cup PeerSocks)

VARIABLES sock,     (* the sockets: what CUDTSocket and CUDT know          *)
          mux,      (* m_mMultiplexer, by the id of the creating socket    *)
          closer,   (* the close() call of each socket                     *)
          acceptor, (* the blocking accept() call on each socket           *)
          conn,     (* the connection request a receive worker handles     *)
          gc,       (* the sockets the collector still has to remove       *)
          forced,   (* CUDTUnited::m_bClosing: cleanup() was called        *)
          env       (* the scenario: [addrs, cfg, linger, sync,  *)
                    (* socks, ops]                                         *)

vars == <<sock, mux, closer, acceptor, conn, gc, forced, env>>

Socks == AppSocks \cup PeerSocks
None  == 0
NoMux == [addr |-> [fam |-> 4, any |-> FALSE, ip |-> 0, port |-> 0],
          cfg |-> [v6only |-> -1, reuse |-> FALSE, chan |-> 0],
          refs |-> 0, listener |-> None]

(* m_Status in the order of SRT_SOCKSTATUS. *)
Statuses == <<"INIT", "OPENED", "LISTENING", "CONNECTING", "CONNECTED",
              "BROKEN", "CLOSING", "CLOSED">>

(* A CUDTSocket as its constructor and newSocket leave it. *)
NewSocket ==
  [at |-> "free", st |-> "INIT", opened |-> FALSE, connecting |-> FALSE,
   connected |-> FALSE, listening |-> FALSE, broken |-> FALSE,
   closing |-> FALSE, inbuf |-> FALSE, wait |-> 0, outbuf |-> "none",
   linger |-> "zero", age |-> 0, onRcv |-> FALSE, onSnd |-> FALSE,
   mux |-> None, lsn |-> None, queue |-> {}, ready |-> FALSE, used |-> FALSE, given |-> FALSE]

Init ==
  /\ sock = [s \in Socks |-> NewSocket]
  /\ mux = [s \in Socks |-> NoMux]
  /\ closer = [s \in Socks |-> "idle"]
  /\ acceptor = [s \in Socks |-> "idle"]
  /\ conn = [l |-> None, s |-> None, pc |-> "idle"]
  /\ gc = [pc |-> "idle", tbr |-> {}, cur |-> None]
  /\ forced = FALSE
  /\ env \in Cases

Open(s)   == sock[s].at = "open"
Exists(s) == sock[s].at \in {"open", "closed", "removing"}

(* m_iBusy: an API call or a close() call holds the socket. *)
isStillBusy(s) == sock[s].used \/ closer[s] # "idle"

(* m_ControlLock of a socket is held by its close() call. *)
ControlFree(s) == closer[s] \in {"idle", "entered"}

(* m_GlobControlLock is free except while a collector pass removes sockets; *)
(* the pass releases it only around closeInternal.                          *)
GlobFree == gc.pc \in {"idle", "unlocked", "reenter"}

locateSocket(s) == GlobFree /\ Open(s) /\ sock[s].st # "CLOSED"

setClosed(r) == [r EXCEPT !.st = "CLOSED", !.age = 0]

-----------------------------------------------------------------------------
(* Creating, binding and listening *)

newSocket(s) ==
  /\ GlobFree /\ ~forced
  /\ s \in AppSocks \cap env.socks /\ sock[s].at = "free"
  /\ sock' = [sock EXCEPT ![s].at = "open", ![s].given = TRUE]
  /\ UNCHANGED <<mux, closer, acceptor, conn, gc, forced, env>>

Muxes == {m \in Socks : mux[m] # NoMux}

(* The multiplexers are tried in the order of their ids until one answers. *)
FirstAnswer(req) ==
  {m \in Muxes : /\ Verdict(mux[m], req, env.cfg) # "pass"
                 /\ \A k \in Muxes :
                      k < m => Verdict(mux[k], req, env.cfg) = "pass"}

installNew(s, req) ==
  mux' = [mux EXCEPT ![s] = [addr |-> req, cfg |-> env.cfg, refs |-> 1,
                             listener |-> None]]

(* updateMux: reuse a multiplexer, or open a new one; a refusal and a      *)
(* failing bind() change nothing but m_bOpened.                            *)
bind(s, req) ==
  /\ GlobFree /\ Open(s) /\ ControlFree(s) /\ sock[s].given
  /\ sock[s].st = "INIT" /\ BindAllowed(req, env.cfg)
  /\ LET hit == FirstAnswer(req) IN
     \/ /\ hit = {} /\ mux[s] = NoMux
        /\ installNew(s, req)
        /\ sock' = [sock EXCEPT ![s].opened = TRUE, ![s].st = "OPENED", ![s].mux = s]
     \/ \E m \in hit :
          IF Verdict(mux[m], req, env.cfg) = "reuse"
          THEN /\ mux' = [mux EXCEPT ![m].refs = @ + 1]
               /\ sock' = [sock EXCEPT ![s].opened = TRUE, ![s].st = "OPENED",
                                       ![s].mux = m]
          ELSE /\ sock' = [sock EXCEPT ![s].opened = TRUE]
               /\ UNCHANGED mux
  /\ UNCHANGED <<closer, acceptor, conn, gc, forced, env>>

(* One listener per multiplexer, and only on an opened socket. *)
setListenState(s) ==
  /\ sock[s].opened /\ ~sock[s].connecting /\ ~sock[s].connected
  /\ mux[sock[s].mux].listener = None
  /\ mux' = [mux EXCEPT ![sock[s].mux].listener = s]

listen(s) ==
  /\ locateSocket(s) /\ ControlFree(s) /\ sock[s].given
  /\ sock[s].st = "OPENED"
  /\ setListenState(s)
  /\ sock' = [sock EXCEPT ![s].st = "LISTENING", ![s].listening = TRUE]
  /\ UNCHANGED <<closer, acceptor, conn, gc, forced, env>>

(* connectIn in non-blocking mode; an unbound socket gets a multiplexer of *)
(* its own on a port the system picks.                                     *)
Autoselect(s) == [fam |-> 4, any |-> TRUE, ip |-> 0, port |-> 1000 + s]

(* A scenario binds to no port the system picks, nor, with dual-stack       *)
(* sockets (IPV6ONLY off), both to the IPv6 wildcard and to one IPv4        *)
(* address of a port: updateMux lets those two overlap.                     *)
ASSUME CasesAssumption ==
  \A c \in Cases :
    /\ \A a \in c.addrs, s \in Socks : a.port # Autoselect(s).port
    /\ \A a, b \in c.addrs :
         (a.fam = 6 /\ a.any /\ b.fam = 4 /\ ~b.any /\ a.port = b.port) => c.cfg.v6only # 0

connectIn(s) ==
  /\ locateSocket(s) /\ ControlFree(s) /\ sock[s].given
  /\ \/ /\ sock[s].st = "INIT" /\ mux[s] = NoMux
        /\ installNew(s, Autoselect(s))
        /\ sock' = [sock EXCEPT ![s].opened = TRUE, ![s].st = "CONNECTING",
                                ![s].connecting = TRUE, ![s].mux = s]
     \/ /\ sock[s].st = "OPENED"
        /\ sock' = [sock EXCEPT ![s].st = "CONNECTING", ![s].connecting = TRUE]
        /\ UNCHANGED mux
  /\ UNCHANGED <<closer, acceptor, conn, gc, forced, env>>

(* postConnect: the connection is made unless the socket is closing. *)
postConnect(s) ==
  /\ GlobFree /\ sock[s].connecting /\ ~sock[s].closing /\ Open(s)
  /\ sock' = [sock EXCEPT ![s].connecting = FALSE, ![s].connected = TRUE,
                          ![s].st = "CONNECTED", ![s].onRcv = TRUE]
  /\ UNCHANGED <<mux, closer, acceptor, conn, gc, forced, env>>

(* CRendezvousQueue gives up: the socket waits for the application. *)
ConnectExpires(s) ==
  /\ sock[s].connecting /\ ~sock[s].closing
  /\ sock' = [sock EXCEPT ![s].connecting = FALSE]
  /\ UNCHANGED <<mux, closer, acceptor, conn, gc, forced, env>>

-----------------------------------------------------------------------------
(* closeInternal *)

(* The linger loop would go on: unacknowledged data on a live connection. *)
Lingers(r) == env.linger /\ ~r.broken /\ r.connected /\ r.outbuf # "none"

(* An asynchronous sender returns from the loop and leaves the rest to the *)
(* collector; the loop is left at once while an expiration lies ahead.     *)
Postponed(r) == Lingers(r) /\ ~env.sync /\ r.linger # "running"

Shut(r) == [r EXCEPT !.onSnd = @ /\ ~r.connected, !.closing = TRUE,
                     !.listening = FALSE, !.connected = FALSE, !.opened = FALSE]

closeInternal(r) ==
  CASE ~r.opened -> r
    [] r.opened /\ Postponed(r) -> [r EXCEPT !.linger = "running"]
    [] OTHER -> Shut(r)

(* The listener entries left once the sockets of S have been shut. *)
removeListener(S) ==
  [m \in Socks |-> IF mux[m].listener \in S /\ sock[mux[m].listener].listening
                   THEN [mux[m] EXCEPT !.listener = None] ELSE mux[m]]

-----------------------------------------------------------------------------
(* The connection request handled by a receive worker, which holds the     *)
(* shared lock on m_pListener from the first of these steps to the last    *)

(* Faulty: no reference is counted. *)
BadupdateListenerMux(s, l) ==
  /\ UNCHANGED mux
  /\ sock' = [sock EXCEPT ![s].at = "open", ![s].opened = TRUE, ![s].lsn = l,
                          ![s].mux = sock[l].mux]

(* processConnectRequest and newConnection: the new socket joins m_Sockets *)
(* and the listener's multiplexer.                                         *)
updateListenerMux(s, l) ==
  /\ mux' = [mux EXCEPT ![sock[l].mux].refs = @ + 1]
  /\ sock' = [sock EXCEPT ![s].at = "open", ![s].opened = TRUE, ![s].lsn = l,
                          ![s].mux = sock[l].mux]

newConnection(l, s) ==
  /\ conn.pc = "idle" /\ s \in PeerSocks \cap env.socks /\ sock[s].at = "free"
  /\ locateSocket(l) /\ sock[l].mux # None /\ mux[sock[l].mux].listener = l
  /\ ~sock[l].closing
  /\ updateListenerMux(s, l)
  /\ conn' = [l |-> l, s |-> s, pc |-> "made"]
  /\ UNCHANGED <<closer, acceptor, gc, forced, env>>

(* acceptAndRespond fails, and the new socket is rolled back. *)
ConnectionFails ==
  /\ conn.pc = "made" /\ GlobFree
  /\ sock' = [sock EXCEPT ![conn.s] =
                [setClosed(closeInternal(@)) EXCEPT !.at = "closed"]]
  /\ conn' = [l |-> None, s |-> None, pc |-> "idle"]
  /\ UNCHANGED <<mux, closer, acceptor, gc, forced, env>>

(* It succeeds: the socket enters the receive list and, under the accept   *)
(* lock, the queue of the listener.                                        *)
Connection ==
  /\ conn.pc = "made" /\ GlobFree
  /\ sock' = [sock EXCEPT ![conn.s].st = "CONNECTED", ![conn.s].connected = TRUE,
                          ![conn.s].onRcv = TRUE,
                          ![conn.l].queue = @ \cup {conn.s}]
  /\ conn' = [conn EXCEPT !.pc = "queued"]
  /\ UNCHANGED <<mux, closer, acceptor, gc, forced, env>>

(* The ACCEPT event is raised and a waiting accept() woken. *)
AnnounceConnection ==
  /\ conn.pc = "queued"
  /\ sock' = [sock EXCEPT ![conn.l].ready = TRUE]
  /\ acceptor' = [acceptor EXCEPT ![conn.l] = IF @ = "waiting" THEN "woken" ELSE @]
  /\ conn' = [l |-> None, s |-> None, pc |-> "idle"]
  /\ UNCHANGED <<mux, closer, gc, forced, env>>

-----------------------------------------------------------------------------
(* accept(), which keeps a pointer to the listener and no busy mark *)

StartAccept(l) ==
  /\ acceptor[l] = "idle" /\ locateSocket(l) /\ sock[l].st = "LISTENING"
  /\ acceptor' = [acceptor EXCEPT ![l] = "started"]
  /\ UNCHANGED <<sock, mux, closer, conn, gc, forced, env>>

StillReady(l, q) == sock[l].ready /\ q # {}

(* One turn of the loop under the accept lock. *)
accept(l) ==
  /\ acceptor[l] \in {"started", "woken"}
  /\ IF sock[l].st # "LISTENING" \/ sock[l].broken
     THEN /\ acceptor' = [acceptor EXCEPT ![l] = "idle"]
          /\ sock' = [sock EXCEPT ![l].ready = StillReady(l, sock[l].queue)]
     ELSE IF sock[l].queue # {}
     THEN LET u == CHOOSE u \in sock[l].queue : \A v \in sock[l].queue : u <= v
          IN  /\ sock' = [sock EXCEPT ![l].queue = @ \ {u},
                                      ![l].ready = StillReady(l, sock[l].queue \ {u}),
                                      ![u].given = TRUE]
              /\ acceptor' = [acceptor EXCEPT ![l] = "idle"]
     ELSE /\ sock' = [sock EXCEPT ![l].ready = FALSE]
          /\ acceptor' = [acceptor EXCEPT ![l] = "waiting"]
  /\ UNCHANGED <<mux, closer, conn, gc, forced, env>>

-----------------------------------------------------------------------------
(* close() *)

StartClose(s) ==
  /\ closer[s] = "idle" /\ locateSocket(s) /\ sock[s].given
  /\ closer' = [closer EXCEPT ![s] = "entered"]
  /\ UNCHANGED <<sock, mux, acceptor, conn, gc, forced, env>>

close(s) ==
  /\ closer[s] = "entered"
  /\ IF sock[s].st = "LISTENING"
     THEN IF sock[s].broken
          THEN closer' = [closer EXCEPT ![s] = "idle"] /\ UNCHANGED sock
          ELSE /\ closer' = [closer EXCEPT ![s] = "listener"]
               /\ sock' = [sock EXCEPT ![s].broken = TRUE, ![s].age = 0]
     ELSE /\ closer' = [closer EXCEPT ![s] = "internal"]
          /\ sock' = [sock EXCEPT ![s].st = "CLOSING"]
  /\ UNCHANGED <<mux, acceptor, conn, gc, forced, env>>

(* notListening waits for the request the worker is handling. *)
notListening(s) ==
  /\ closer[s] = "listener" /\ (conn.pc = "idle" \/ conn.l # s)
  /\ mux' = removeListener({s})
  /\ sock' = [sock EXCEPT ![s].listening = FALSE, ![s].st = "CLOSING"]
  /\ closer' = [closer EXCEPT ![s] = "notify"]
  /\ UNCHANGED <<acceptor, conn, gc, forced, env>>

NotifyAcceptors(s) ==
  /\ closer[s] = "notify"
  /\ acceptor' = [acceptor EXCEPT ![s] = IF @ = "waiting" THEN "woken" ELSE @]
  /\ closer' = [closer EXCEPT ![s] = "idle"]
  /\ UNCHANGED <<sock, mux, conn, gc, forced, env>>

(* closeInternal; a synchronous sender stays in the linger loop until the  *)
(* data is acknowledged, the connection breaks or the linger time is over. *)
CloseInternal(s) ==
  /\ closer[s] = "internal"
  /\ sock' = [sock EXCEPT ![s] = closeInternal(@)]
  /\ mux' = removeListener({s})
  /\ closer' = [closer EXCEPT ![s] = "unlocked"]
  /\ UNCHANGED <<acceptor, conn, gc, forced, env>>

(* Under the global lock, unless the collector was faster. *)
MoveToClosed(s) ==
  /\ closer[s] = "unlocked" /\ GlobFree
  /\ sock' = IF ~Open(s) \/ sock[s].st = "CLOSED" THEN sock
             ELSE [sock EXCEPT ![s] = [setClosed(@) EXCEPT !.at = "closed"]]
  /\ closer' = [closer EXCEPT ![s] = "idle"]
  /\ UNCHANGED <<mux, acceptor, conn, gc, forced, env>>

-----------------------------------------------------------------------------
(* Data and the workers of the multiplexers *)

(* An API call acquires the socket (SocketKeeper) and releases it. *)
Acquire(s) ==
  /\ locateSocket(s) /\ sock[s].given /\ ~sock[s].used
  /\ sock' = [sock EXCEPT ![s].used = TRUE]
  /\ UNCHANGED <<mux, closer, acceptor, conn, gc, forced, env>>

Release(s) ==
  /\ sock[s].used
  /\ sock' = [sock EXCEPT ![s].used = FALSE]
  /\ UNCHANGED <<mux, closer, acceptor, conn, gc, forced, env>>

(* send() under an acquired socket puts it on the send list. *)
Send(s) ==
  /\ sock[s].used /\ sock[s].connected /\ ~sock[s].broken /\ ~sock[s].closing
  /\ sock' = [sock EXCEPT ![s].outbuf = "unsent", ![s].onSnd = TRUE]
  /\ UNCHANGED <<mux, closer, acceptor, conn, gc, forced, env>>

Recv(s) ==
  /\ sock[s].used /\ sock[s].inbuf
  /\ sock' = [sock EXCEPT ![s].inbuf = FALSE]
  /\ UNCHANGED <<mux, closer, acceptor, conn, gc, forced, env>>

(* CSndQueue::worker takes the socket off the list and packs data only for *)
(* a live socket that is still found in m_Sockets.                         *)
SndWorker(s) ==
  /\ sock[s].onSnd
  /\ sock' = [sock EXCEPT ![s].onSnd = FALSE,
        ![s].outbuf = IF /\ sock[s].connected /\ ~sock[s].broken /\ Open(s)
                         /\ sock[s].st # "CLOSED" /\ @ = "unsent"
                      THEN "sent" ELSE @]
  /\ UNCHANGED <<mux, closer, acceptor, conn, gc, forced, env>>

OnLine(s) == sock[s].onRcv /\ sock[s].connected /\ ~sock[s].broken /\ ~sock[s].closing

(* Data or an acknowledgement arrives for a socket on the receive list. *)
Arrives(s) ==
  /\ OnLine(s) /\ "data" \in env.ops
  /\ \/ sock' = [sock EXCEPT ![s].inbuf = TRUE]
     \/ /\ sock[s].outbuf = "sent"
        /\ sock' = [sock EXCEPT ![s].outbuf = "none"]
  /\ UNCHANGED <<mux, closer, acceptor, conn, gc, forced, env>>

(* processClose: the peer has shut the connection down. *)
processClose(s) ==
  /\ OnLine(s) /\ "break" \in env.ops
  /\ sock' = [sock EXCEPT ![s].broken = TRUE, ![s].closing = TRUE, ![s].wait = 1]
  /\ UNCHANGED <<mux, closer, acceptor, conn, gc, forced, env>>

(* checkExpTimer: the peer is silent; the socket is put on the send list   *)
(* for the send worker to drop it.                                         *)
checkExpTimer(s) ==
  /\ OnLine(s) /\ "break" \in env.ops
  /\ sock' = [sock EXCEPT ![s].broken = TRUE, ![s].closing = TRUE, ![s].wait = 1,
                          ![s].onSnd = TRUE]
  /\ UNCHANGED <<mux, closer, acceptor, conn, gc, forced, env>>

(* CRcvQueue::worker drops a socket that is no longer alive. *)
removeFromLists(s) ==
  /\ sock[s].onRcv
  /\ ~(sock[s].connected /\ ~sock[s].broken /\ ~sock[s].closing)
  /\ sock' = [sock EXCEPT ![s].onRcv = FALSE]
  /\ UNCHANGED <<mux, closer, acceptor, conn, gc, forced, env>>

-----------------------------------------------------------------------------
(* The garbage collector *)

(* A broken socket the pass leaves for later: a listener whose close() is  *)
(* still under way, or data the application may yet read.                  *)
GraceListener(s) == ~forced /\ sock[s].st = "LISTENING" /\ sock[s].age < 2
GraceData(s) ==
  ~forced /\ sock[s].st # "LISTENING" /\ sock[s].inbuf /\ sock[s].wait > 0

ToClose == {s \in Socks : /\ Open(s) /\ (sock[s].broken \/ forced)
                          /\ ~GraceListener(s) /\ ~GraceData(s)}

(* The first loop of checkBrokenSockets, over m_Sockets. *)
CloseBroken ==
  [s \in Socks |->
     LET r == sock[s]
         q == r.queue \ ToClose
         k == [r EXCEPT !.queue = IF r.at \in {"open", "closed"} THEN q ELSE @,
                        !.broken = @ \/ (forced /\ Open(s)),
                        !.inbuf = @ /\ ~(forced /\ Open(s)),
                        !.wait = IF Open(s) /\ r.broken /\ GraceData(s) THEN @ - 1 ELSE @]
     IN  IF s \in ToClose THEN [setClosed(k) EXCEPT !.at = "closed"] ELSE k]

(* Faulty: the connection is not marked as closing. *)
BadEndLinger(r) ==
  IF r.linger # "zero" /\ (r.outbuf = "none" \/ r.linger = "over")
  THEN [r EXCEPT !.linger = "zero", !.age = 0] ELSE r

(* The second loop, over m_ClosedSockets: a linger that is over ends. *)
EndLinger(r) ==
  IF r.linger # "zero" /\ (r.outbuf = "none" \/ r.linger = "over")
  THEN [r EXCEPT !.linger = "zero", !.closing = TRUE, !.age = 0] ELSE r

checkBrokenSockets ==
  /\ gc.pc = "idle"
  /\ LET c == CloseBroken
         e == [s \in Socks |-> IF c[s].at = "closed" /\ ~isStillBusy(s)
                               THEN EndLinger(c[s]) ELSE c[s]]
         tbr == {s \in Socks : /\ e[s].at = "closed" /\ ~isStillBusy(s)
                               /\ e[s].age >= 1 /\ ~e[s].onRcv}
     IN  /\ sock' = e
         /\ gc' = [gc EXCEPT !.pc = IF tbr = {} THEN "idle" ELSE "locked", !.tbr = tbr]
  /\ UNCHANGED <<mux, closer, acceptor, conn, forced, env>>

(* Faulty: a socket held by an API call or a worker list is removed. *)
BadInUse(s) == FALSE

InUse(s) == sock[s].onSnd \/ sock[s].onRcv \/ isStillBusy(s)

(* removeSocket up to the release of the global lock: the sockets nobody   *)
(* accepted are broken and closed (breakSocket_LOCKED).                    *)
breakSocket(r) == setClosed(Shut([r EXCEPT !.broken = TRUE, !.wait = 0]))

removeSocket(u) ==
  /\ gc.pc = "locked" /\ u \in gc.tbr
  /\ IF InUse(u)
     THEN /\ gc' = [gc EXCEPT !.tbr = @ \ {u},
                              !.pc = IF gc.tbr = {u} THEN "idle" ELSE "locked"]
          /\ UNCHANGED <<sock, mux>>
     ELSE LET left == {q \in sock[u].queue : Open(q)} IN
          /\ sock' = [s \in Socks |->
                        CASE s = u -> [sock[s] EXCEPT !.at = "removing"]
                          [] s \in left -> [breakSocket(sock[s]) EXCEPT !.at = "closed"]
                          [] OTHER -> sock[s]]
          /\ mux' = removeListener(left)
          /\ gc' = [gc EXCEPT !.tbr = @ \ {u}, !.cur = u, !.pc = "unlocked"]
  /\ UNCHANGED <<closer, acceptor, conn, forced, env>>

(* closeInternal without the global lock, then the socket is deleted and   *)
(* its multiplexer released.                                               *)
GcCloseInternal ==
  /\ gc.pc = "unlocked"
  /\ sock' = [sock EXCEPT ![gc.cur] = closeInternal(@)]
  /\ mux' = removeListener({gc.cur})
  /\ gc' = [gc EXCEPT !.pc = "reenter"]
  /\ UNCHANGED <<closer, acceptor, conn, forced, env>>

GcDeletes ==
  /\ gc.pc = "reenter"
  /\ sock' = [sock EXCEPT ![gc.cur] =
                [NewSocket EXCEPT !.at = "deleted", !.opened = sock[gc.cur].opened,
                                  !.onRcv = sock[gc.cur].onRcv, !.used = sock[gc.cur].used,
                                  !.onSnd = sock[gc.cur].onSnd]]
  /\ LET m == sock[gc.cur].mux IN
     mux' = IF m = None \/ mux[m] = NoMux THEN mux
            ELSE IF mux[m].refs = 1 THEN [mux EXCEPT ![m] = NoMux]
            ELSE [mux EXCEPT ![m].refs = @ - 1]
  /\ gc' = [gc EXCEPT !.cur = None, !.pc = IF gc.tbr = {} THEN "idle" ELSE "locked"]
  /\ UNCHANGED <<closer, acceptor, conn, forced, env>>

(* The last call of the application: the collector closes every socket. *)
cleanup ==
  /\ "cleanup" \in env.ops
  /\ ~forced /\ forced' = TRUE
  /\ \A s \in Socks : ~isStillBusy(s) /\ acceptor[s] = "idle"
  /\ UNCHANGED <<sock, mux, closer, acceptor, conn, gc, env>>

-----------------------------------------------------------------------------
(* Time: the closure stamps grow older in steps of more than one second    *)
(* and, twice, of more than three.  A thread that is running finishes its  *)
(* step within a second; only a linger, an API call that blocks and a      *)
(* waiting accept() take longer.                                           *)
Prompt ==
  /\ conn.pc = "idle" /\ gc.pc = "idle"
  /\ \A s \in Socks : /\ closer[s] \in {"idle", "internal"}
                       /\ acceptor[s] \in {"idle", "waiting"}

Ages(s) == \/ sock[s].at = "closed" /\ sock[s].age < 1
           \/ Open(s) /\ sock[s].broken /\ sock[s].st = "LISTENING" /\ sock[s].age < 2

SecondsPass ==
  /\ Prompt
  /\ \E s \in Socks : Ages(s)
  /\ sock' = [s \in Socks |-> IF Ages(s) THEN [sock[s] EXCEPT !.age = @ + 1]
                             ELSE sock[s]]
  /\ UNCHANGED <<mux, closer, acceptor, conn, gc, forced, env>>

LingerExpires(s) ==
  /\ sock[s].linger = "running" /\ sock[s].at = "closed"
  /\ sock' = [sock EXCEPT ![s].linger = "over"]
  /\ UNCHANGED <<mux, closer, acceptor, conn, gc, forced, env>>

(* What the application does is bounded by the scenario. *)
Application(s) ==
  /\ ~forced
  /\ \/ "socket" \in env.ops /\ newSocket(s)
     \/ "bind" \in env.ops /\ \E a \in env.addrs : bind(s, a)
     \/ "listen" \in env.ops /\ listen(s)
     \/ "accept" \in env.ops /\ StartAccept(s)
     \/ "connect" \in env.ops /\ connectIn(s)
     \/ "close" \in env.ops /\ StartClose(s)
     \/ "data" \in env.ops /\ (Acquire(s) \/ Send(s) \/ Recv(s))

Peer(s) == postConnect(s) \/ ConnectExpires(s) \/ Arrives(s) \/ processClose(s)
           \/ checkExpTimer(s) \/ (\E l \in AppSocks : newConnection(l, s))

Worker(s) == SndWorker(s) \/ removeFromLists(s)

Closing(s) == close(s) \/ notListening(s) \/ NotifyAcceptors(s)
              \/ CloseInternal(s) \/ MoveToClosed(s)

Collector == checkBrokenSockets \/ (\E u \in Socks : removeSocket(u))
             \/ GcCloseInternal \/ GcDeletes

Next ==
  \/ \E s \in Socks : \/ Application(s) \/ Peer(s) \/ Worker(s) \/ Closing(s)
                       \/ accept(s) \/ Release(s) \/ LingerExpires(s)
  \/ ConnectionFails \/ Connection \/ AnnounceConnection
  \/ Collector \/ SecondsPass \/ cleanup

Spec == Init /\ [][Next]_vars

(* The worker threads and the collector run, a call that was begun goes on *)
(* and time passes; nothing obliges the application or the peer.           *)
Fairness ==
  /\ WF_vars(\E s \in Socks : Worker(s))
  /\ WF_vars(ConnectionFails \/ Connection \/ AnnounceConnection)
  /\ WF_vars(\E s \in Socks : Closing(s)) /\ WF_vars(\E s \in Socks : accept(s))
  /\ WF_vars(\E s \in Socks : Release(s) \/ LingerExpires(s))
  /\ WF_vars(Collector) /\ SF_vars(SecondsPass)

FairSpec == Spec /\ Fairness

-----------------------------------------------------------------------------
(* Properties *)

(* updateMux, updateListenerMux and removeSocket keep m_iRefCount equal to *)
(* the number of sockets on a multiplexer, so it is destroyed with the     *)
(* last of them and never under a socket; two multiplexers never receive   *)
(* on the same local address and port.                                     *)
MuxesExact ==
  /\ \A m \in Muxes :
       /\ mux[m].refs = Cardinality({s \in Socks : Exists(s) /\ sock[s].mux = m})
       /\ \A k \in Muxes : (k # m /\ mux[k].addr.port = mux[m].addr.port) =>
            Cover(mux[k].addr, mux[k].cfg, {1, 2})
              \cap Cover(mux[m].addr, mux[m].cfg, {1, 2}) = {}
  /\ \A s \in Socks : Exists(s) /\ sock[s].mux # None => sock[s].mux \in Muxes

(* removeSocket deletes no socket that a worker list, an API call, an      *)
(* accept() or close() in progress, a multiplexer's listener entry or the  *)
(* connection being set up still refers to.                                *)
NoDangling ==
  \A s \in Socks : sock[s].at = "deleted" =>
    /\ ~sock[s].onRcv /\ ~sock[s].onSnd
    /\ ~isStillBusy(s) /\ acceptor[s] = "idle"
    /\ conn.l # s /\ conn.s # s
    /\ \A m \in Muxes : mux[m].listener # s

(* What waits in the queue of a listener is a socket in m_Sockets that     *)
(* nobody was given: the collector takes a socket that broke before        *)
(* accept() out of the queue, so accept() never hands out a dead id        *)
(* (before cleanup(), which closes them all at once).                      *)
QueuedIsOpen ==
  \A l \in Socks : ~forced /\ sock[l].at \in {"open", "closed"} =>
    \A q \in sock[l].queue : Open(q) /\ sock[q].lsn = l /\ ~sock[q].given

(* A listener with a queued socket reports it to epoll, or newConnection   *)
(* is about to: accept() clears the event only for an empty queue.         *)
EventNotLost ==
  \A l \in Socks : Exists(l) /\ sock[l].queue # {} =>
    sock[l].ready \/ (conn.pc = "queued" /\ conn.l = l)

(* No interleaving of close(), the collector, the workers and accept()     *)
(* leaves a reference to a deleted socket, a dead socket in a queue, or a  *)
(* queued one unannounced.                                                 *)
SocketsConsistent == NoDangling /\ QueuedIsOpen /\ EventNotLost

(* m_ClosedSockets empties again and again, whatever the application and   *)
(* the peers do, and close() returns: no worker list, linger or API call   *)
(* keeps a closed socket, or with the last one its multiplexer, for ever.  *)
(* By NoDangling an accept() waiting on a closed listener has returned.    *)
ClosedIsReclaimed ==
  []<>(\A s \in Socks : /\ sock[s].at \notin {"closed", "removing"}
                        /\ closer[s] = "idle")

=============================================================================
