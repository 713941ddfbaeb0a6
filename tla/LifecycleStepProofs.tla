------------------------- MODULE LifecycleStepProofs -------------------------
(***************************************************************************)
(* Proofs about Lifecycle, first part: the invariant, and the steps that   *)
(* leave the number of users of every multiplexer alone.  Each of them     *)
(* keeps the invariant, for any number of sockets and any options.         *)
(***************************************************************************)
EXTENDS Lifecycle, TLAPS

-----------------------------------------------------------------------------
(* The invariant *)

SockFields ==
  {"at", "st", "opened", "connecting", "connected", "listening", "broken", "closing",
   "inbuf", "wait", "outbuf", "linger", "age", "onRcv", "onSnd", "mux", "lsn", "queue",
   "ready", "used", "given"}

IsRec(r) == r = [f \in SockFields |-> r[f]]

Typed(r) == r.age \in Nat /\ r.queue \subseteq PeerSocks /\ r.mux \in Socks \cup {None}

(* rp differs from r in the fields of S at most. *)
Same(r, rp, S) == IsRec(rp) /\ \A f \in SockFields \ S : rp[f] = r[f]

(* In m_Sockets, or in m_ClosedSockets since less than a second: the        *)
(* collector does not remove it yet.                                        *)
Fresh(r) == r.at = "open" \/ (r.at = "closed" /\ r.age = 0)

Unset == {"INIT", "OPENED", "LISTENING"}

(* What holds of a socket r with its close() call c and its accept() call a; *)
(* f is m_bClosing of the library.                                           *)
Local(r, c, a, f) ==
  /\ r.at = "free" => /\ r.st = "INIT" /\ r.mux = None /\ r.queue = {} /\ ~r.given
                      /\ ~r.onRcv /\ ~r.onSnd
  /\ r.at \in {"removing", "deleted"} => ~r.onRcv /\ ~r.onSnd /\ ~r.used /\ c = "idle"
  /\ a # "idle" => Fresh(r)
  /\ a = "waiting" => r.st = "LISTENING" \/ c = "notify"
  /\ r.st = "LISTENING" => r.at = "open"
  /\ r.st = "LISTENING" /\ r.broken /\ ~f => c = "listener" /\ r.age = 0
  /\ (c # "idle" \/ a # "idle" \/ r.used \/ r.listening \/ r.st \in {"OPENED", "LISTENING"})
        => r.given
  /\ (r.connected \/ r.connecting \/ c \in {"internal", "unlocked"}) => r.st \notin Unset
  /\ f => c = "idle" /\ a = "idle" /\ ~r.used
  /\ ~f /\ r.st \in {"INIT", "OPENED"} => ~r.broken
  /\ r.st = "INIT" /\ r.given => r.mux = None
  /\ r.st \in {"OPENED", "LISTENING"} => r.mux # None

SockOk(r, c, a, f) == IsRec(r) /\ Typed(r) /\ Local(r, c, a, f)

SocksOk == \A x \in Socks : SockOk(sock[x], closer[x], acceptor[x], forced)

Map(f) == f = [x \in Socks |-> f[x]]

Maps == Map(sock) /\ Map(closer) /\ Map(acceptor)

(* The connection request a worker handles: neither socket can be removed   *)
(* under it, and the new one is nobody's before it is queued.               *)
ConnOk ==
  /\ conn = [l |-> conn.l, s |-> conn.s, pc |-> conn.pc]
  /\ conn.pc \in {"idle", "made", "queued"}
  /\ conn.pc = "idle" => conn.l = None /\ conn.s = None
  /\ conn.pc # "idle" => /\ conn.l \in AppSocks /\ conn.s \in PeerSocks
                         /\ Fresh(sock[conn.l]) /\ Fresh(sock[conn.s])
  /\ conn.pc = "made" => /\ ~sock[conn.s].given /\ sock[conn.s].lsn = conn.l
                         /\ ~forced => sock[conn.s].at = "open" /\ sock[conn.s].st = "INIT"

QueueOk ==
  \A l \in Socks : \A q \in sock[l].queue :
    /\ sock[q].at # "free" /\ ~(conn.pc = "made" /\ conn.s = q)
    /\ ~forced /\ sock[l].at \in {"open", "closed"} =>
         /\ sock[q].at = "open" /\ sock[q].lsn = l
         /\ ~sock[q].given /\ sock[q].st # "INIT"

ReadyOk ==
  \A l \in Socks : Exists(l) /\ sock[l].queue # {} =>
    sock[l].ready \/ (conn.pc = "queued" /\ conn.l = l)

GcOk ==
  /\ gc = [pc |-> gc.pc, tbr |-> gc.tbr, cur |-> gc.cur]
  /\ gc.pc \in {"idle", "locked", "unlocked", "reenter"}
  /\ gc.pc = "idle" => gc.tbr = {}
  /\ gc.tbr \subseteq Socks
  /\ \A u \in gc.tbr : sock[u].at = "closed" /\ sock[u].age # 0
  /\ gc.pc \in {"unlocked", "reenter"} => gc.cur \in Socks /\ sock[gc.cur].at = "removing"
  /\ gc.pc = "reenter" => \A m \in Socks : mux[m].listener # gc.cur

ListenerOk ==
  \A m \in Socks : mux[m].listener # None =>
    /\ mux[m].listener \in Socks /\ sock[mux[m].listener].listening
    /\ sock[mux[m].listener].mux = m /\ Exists(mux[m].listener)

IsMux(x) == x = [addr |-> x.addr, cfg |-> x.cfg, refs |-> x.refs, listener |-> x.listener]

MuxOk ==
  /\ Map(mux)
  /\ \A m \in Socks : IsMux(mux[m]) /\ mux[m].refs \in Nat
  /\ \A m \in Socks : mux[m] # NoMux => mux[m].refs # 0

Users(m) == {x \in Socks : Exists(x) /\ sock[x].mux = m}

RefsOk ==
  /\ \A m \in Socks : mux[m] # NoMux => mux[m].refs = Cardinality(Users(m))
  /\ \A x \in Socks : Exists(x) /\ sock[x].mux # None => mux[sock[x].mux] # NoMux

Inv ==
  /\ Maps /\ SocksOk /\ ConnOk /\ QueueOk /\ ReadyOk
  /\ GcOk /\ ListenerOk /\ MuxOk /\ RefsOk

-----------------------------------------------------------------------------
(* Steps that change one socket and none of its ties to others *)

(* Everything the other sockets, the multiplexers and the collector know    *)
(* of a socket is the same in r and rp.                                     *)
Kept(r, rp) ==
  /\ rp.at = r.at /\ rp.lsn = r.lsn /\ rp.queue = r.queue /\ rp.mux = r.mux
  /\ rp.listening = r.listening /\ rp.given = r.given /\ rp.ready = r.ready
  /\ r.at # "open" => rp.age = r.age
  /\ rp.st = "INIT" => r.st = "INIT"
  /\ r.st = "INIT" /\ ~r.given => rp.st = "INIT"

(* Only what belongs to socket s changes. *)
Only(s) ==
  /\ Maps'
  /\ \A x \in Socks \ {s} : /\ sock'[x] = sock[x] /\ closer'[x] = closer[x]
                            /\ acceptor'[x] = acceptor[x]

(* When one socket changes, it is enough to look at that one. *)
LEMMA OneSockOk ==
  ASSUME Inv, NEW s \in Socks, Only(s), forced' = forced,
         SockOk(sock'[s], closer'[s], acceptor'[s], forced)
  PROVE  Maps' /\ SocksOk'
<1>1. Maps'
  BY DEF Only
<1>2. ASSUME NEW x \in Socks
      PROVE  SockOk(sock'[x], closer'[x], acceptor'[x], forced')
  <2>1. CASE x = s
    BY <2>1
  <2>2. CASE x # s
    <3>1. sock'[x] = sock[x] /\ closer'[x] = closer[x] /\ acceptor'[x] = acceptor[x]
      BY <2>2 DEF Only
    <3>2. SockOk(sock[x], closer[x], acceptor[x], forced)
      BY DEF Inv, SocksOk
    <3> QED BY <3>1, <3>2
  <2> QED BY <2>1, <2>2
<1> QED BY <1>1, <1>2, Zenon DEF SocksOk

(* The multiplexers, the request being handled and the collector stay. *)
Rest == UNCHANGED <<mux, conn, gc, forced, env>>

(* A step of one socket that keeps its ties keeps the invariant. *)
LEMMA KeptStep ==
  ASSUME Inv, NEW s \in Socks, Only(s), Rest, Kept(sock[s], sock'[s]),
         SockOk(sock'[s], closer'[s], acceptor'[s], forced)
  PROVE  Inv'
<1>1. Maps' /\ SocksOk'
  BY OneSockOk DEF Rest
<1>k. \A x \in Socks : Kept(sock[x], sock'[x])
  BY DEF Only, Kept
<1>2. ConnOk'
  BY <1>k, IdsAssumption DEF Inv, ConnOk, Rest, Kept, Fresh, Socks
<1>3. QueueOk'
  <2>1. SUFFICES ASSUME NEW l \in Socks, NEW q \in sock'[l].queue
                 PROVE  /\ sock'[q].at # "free" /\ ~(conn.pc = "made" /\ conn.s = q)
                        /\ ~forced /\ sock'[l].at \in {"open", "closed"} =>
                             /\ sock'[q].at = "open" /\ sock'[q].lsn = l
                             /\ ~sock'[q].given /\ sock'[q].st # "INIT"
    BY DEF QueueOk, Rest
  <2>2. q \in sock[l].queue /\ q \in Socks
    BY <1>k DEF Kept, Inv, SocksOk, SockOk, Typed, Socks
  <2> QED BY <1>k, <2>2 DEF Kept, Inv, QueueOk
<1>4. ReadyOk'
  BY <1>k DEF Kept, Inv, ReadyOk, Exists, Rest
<1>5. GcOk'
  BY <1>k DEF Kept, Inv, GcOk, Rest
<1>6. ListenerOk'
  BY <1>k DEF Kept, Inv, ListenerOk, Exists, Rest
<1>7. MuxOk'
  BY DEF Inv, MuxOk, Rest, Map, IsMux
<1>8. RefsOk'
  <2>1. \A m : Users(m)' = Users(m)
    BY <1>k DEF Kept, Users, Exists
  <2> QED BY <1>k, <2>1 DEF Kept, Inv, RefsOk, Exists, Rest
<1> QED BY <1>1, <1>2, <1>3, <1>4, <1>5, <1>6, <1>7, <1>8 DEF Inv

(* CRendezvousQueue gives a connection up. *)
LEMMA ConnectExpiresKeeps ==
  ASSUME Inv, NEW s \in Socks, ConnectExpires(s)
  PROVE  Inv'
<1> DEFINE r == sock[s]
           rp == sock'[s]
<1>1. SockOk(r, closer[s], acceptor[s], forced) /\ Maps
  BY DEF Inv, SocksOk
<1>2. rp = [r EXCEPT !.connecting = FALSE]
  BY <1>1 DEF ConnectExpires, Maps, Map
<1>3. Only(s) /\ Rest
  BY <1>1, Zenon DEF ConnectExpires, Only, Rest, Maps, Map
<1>4. closer'[s] = closer[s] /\ acceptor'[s] = acceptor[s]
  BY <1>1 DEF ConnectExpires, Maps, Map
<1> HIDE DEF r, rp
<1>5. IsRec(r)
  BY <1>1 DEF SockOk
<1>6. Same(r, rp, {"connecting"})
  BY <1>2, <1>5, Zenon DEF Same, IsRec, SockFields
<1>7. rp.connecting = FALSE
  BY <1>2, <1>5 DEF IsRec, SockFields
<1>8. Kept(r, rp)
  BY <1>1, <1>4, <1>6, <1>7 DEF SockOk, Same, SockFields, Local, Kept, Unset
<1>9. SockOk(rp, closer'[s], acceptor'[s], forced)
  BY <1>1, <1>4, <1>6, <1>7 DEF SockOk, Same, SockFields, Typed, Local, Fresh, Unset
<1> QED BY <1>3, <1>8, <1>9, KeptStep DEF r, rp

(* postConnect completes the connection of a caller. *)
LEMMA PostConnectKeeps ==
  ASSUME Inv, NEW s \in Socks, postConnect(s)
  PROVE  Inv'
<1> DEFINE r == sock[s]
           rp == sock'[s]
<1>1. SockOk(r, closer[s], acceptor[s], forced) /\ Maps
  BY DEF Inv, SocksOk
<1>2. rp = [r EXCEPT !.connecting = FALSE, !.connected = TRUE, !.st = "CONNECTED", !.onRcv = TRUE]
  BY <1>1 DEF postConnect, Open, Maps, Map
<1>3. Only(s) /\ Rest
  BY <1>1, Zenon DEF postConnect, Open, Only, Rest, Maps, Map
<1>4. closer'[s] = closer[s] /\ acceptor'[s] = acceptor[s] /\ r.at = "open" /\ r.connecting
  BY <1>1 DEF postConnect, Open, Maps, Map
<1> HIDE DEF r, rp
<1>5. IsRec(r)
  BY <1>1 DEF SockOk
<1>6. Same(r, rp, {"connecting", "connected", "st", "onRcv"})
  BY <1>2, <1>5, Zenon DEF Same, IsRec, SockFields
<1>7. rp.connecting = FALSE /\ rp.connected = TRUE /\ rp.st = "CONNECTED" /\ rp.onRcv = TRUE
  BY <1>2, <1>5 DEF IsRec, SockFields
<1>8. Kept(r, rp)
  BY <1>1, <1>4, <1>6, <1>7 DEF SockOk, Same, SockFields, Local, Kept, Unset
<1>9. SockOk(rp, closer'[s], acceptor'[s], forced)
  BY <1>1, <1>4, <1>6, <1>7 DEF SockOk, Same, SockFields, Typed, Local, Fresh, Unset
<1> QED BY <1>3, <1>8, <1>9, KeptStep DEF r, rp

(* An API call acquires the socket. *)
LEMMA AcquireKeeps ==
  ASSUME Inv, NEW s \in Socks, Acquire(s), ~forced
  PROVE  Inv'
<1> DEFINE r == sock[s]
           rp == sock'[s]
<1>1. SockOk(r, closer[s], acceptor[s], forced) /\ Maps
  BY DEF Inv, SocksOk
<1>2. rp = [r EXCEPT !.used = TRUE]
  BY <1>1 DEF Acquire, locateSocket, Open, Maps, Map
<1>3. Only(s) /\ Rest
  BY <1>1, Zenon DEF Acquire, locateSocket, Open, Only, Rest, Maps, Map
<1>4. closer'[s] = closer[s] /\ acceptor'[s] = acceptor[s] /\ r.at = "open" /\ r.given
  BY <1>1 DEF Acquire, locateSocket, Open, Maps, Map
<1> HIDE DEF r, rp
<1>5. IsRec(r)
  BY <1>1 DEF SockOk
<1>6. Same(r, rp, {"used"})
  BY <1>2, <1>5, Zenon DEF Same, IsRec, SockFields
<1>7. rp.used = TRUE
  BY <1>2, <1>5 DEF IsRec, SockFields
<1>8. Kept(r, rp)
  BY <1>1, <1>4, <1>6, <1>7, Zenon DEF SockOk, Same, SockFields, Local, Kept, Unset
<1>9. SockOk(rp, closer'[s], acceptor'[s], forced)
  BY <1>1, <1>4, <1>6, <1>7 DEF SockOk, Same, SockFields, Typed, Local, Fresh, Unset
<1> QED BY <1>3, <1>8, <1>9, KeptStep DEF r, rp

(* An API call releases the socket. *)
LEMMA ReleaseKeeps ==
  ASSUME Inv, NEW s \in Socks, Release(s)
  PROVE  Inv'
<1> DEFINE r == sock[s]
           rp == sock'[s]
<1>1. SockOk(r, closer[s], acceptor[s], forced) /\ Maps
  BY DEF Inv, SocksOk
<1>2. rp = [r EXCEPT !.used = FALSE]
  BY <1>1 DEF Release, Maps, Map
<1>3. Only(s) /\ Rest
  BY <1>1, Zenon DEF Release, Only, Rest, Maps, Map
<1>4. closer'[s] = closer[s] /\ acceptor'[s] = acceptor[s]
  BY <1>1 DEF Release, Maps, Map
<1> HIDE DEF r, rp
<1>5. IsRec(r)
  BY <1>1 DEF SockOk
<1>6. Same(r, rp, {"used"})
  BY <1>2, <1>5, Zenon DEF Same, IsRec, SockFields
<1>7. rp.used = FALSE
  BY <1>2, <1>5 DEF IsRec, SockFields
<1>8. Kept(r, rp)
  BY <1>1, <1>4, <1>6, <1>7 DEF SockOk, Same, SockFields, Local, Kept, Unset
<1>9. SockOk(rp, closer'[s], acceptor'[s], forced)
  BY <1>1, <1>4, <1>6, <1>7 DEF SockOk, Same, SockFields, Typed, Local, Fresh, Unset
<1> QED BY <1>3, <1>8, <1>9, KeptStep DEF r, rp

(* send() puts the socket on the send list. *)
LEMMA SendKeeps ==
  ASSUME Inv, NEW s \in Socks, Send(s)
  PROVE  Inv'
<1> DEFINE r == sock[s]
           rp == sock'[s]
<1>1. SockOk(r, closer[s], acceptor[s], forced) /\ Maps
  BY DEF Inv, SocksOk
<1>2. rp = [r EXCEPT !.outbuf = "unsent", !.onSnd = TRUE]
  BY <1>1 DEF Send, Maps, Map
<1>3. Only(s) /\ Rest
  BY <1>1, Zenon DEF Send, Only, Rest, Maps, Map
<1>4. closer'[s] = closer[s] /\ acceptor'[s] = acceptor[s] /\ r.used
  BY <1>1 DEF Send, Maps, Map
<1> HIDE DEF r, rp
<1>5. IsRec(r)
  BY <1>1 DEF SockOk
<1>6. Same(r, rp, {"outbuf", "onSnd"})
  BY <1>2, <1>5, Zenon DEF Same, IsRec, SockFields
<1>7. rp.onSnd = TRUE
  BY <1>2, <1>5 DEF IsRec, SockFields
<1>8. Kept(r, rp)
  BY <1>1, <1>4, <1>6, <1>7 DEF SockOk, Same, SockFields, Local, Kept, Unset
<1>9. SockOk(rp, closer'[s], acceptor'[s], forced)
  BY <1>1, <1>4, <1>6, <1>7 DEF SockOk, Same, SockFields, Typed, Local, Fresh, Unset
<1> QED BY <1>3, <1>8, <1>9, KeptStep DEF r, rp

(* recv() empties the buffer. *)
LEMMA RecvKeeps ==
  ASSUME Inv, NEW s \in Socks, Recv(s)
  PROVE  Inv'
<1> DEFINE r == sock[s]
           rp == sock'[s]
<1>1. SockOk(r, closer[s], acceptor[s], forced) /\ Maps
  BY DEF Inv, SocksOk
<1>2. rp = [r EXCEPT !.inbuf = FALSE]
  BY <1>1 DEF Recv, Maps, Map
<1>3. Only(s) /\ Rest
  BY <1>1, Zenon DEF Recv, Only, Rest, Maps, Map
<1>4. closer'[s] = closer[s] /\ acceptor'[s] = acceptor[s]
  BY <1>1 DEF Recv, Maps, Map
<1> HIDE DEF r, rp
<1>5. IsRec(r)
  BY <1>1 DEF SockOk
<1>6. Same(r, rp, {"inbuf"})
  BY <1>2, <1>5, Zenon DEF Same, IsRec, SockFields
<1>8. Kept(r, rp)
  BY <1>1, <1>4, <1>6 DEF SockOk, Same, SockFields, Local, Kept, Unset
<1>9. SockOk(rp, closer'[s], acceptor'[s], forced)
  BY <1>1, <1>4, <1>6 DEF SockOk, Same, SockFields, Typed, Local, Fresh, Unset
<1> QED BY <1>3, <1>8, <1>9, KeptStep DEF r, rp

(* The peer shuts the connection down. *)
LEMMA ProcessCloseKeeps ==
  ASSUME Inv, NEW s \in Socks, processClose(s)
  PROVE  Inv'
<1> DEFINE r == sock[s]
           rp == sock'[s]
<1>1. SockOk(r, closer[s], acceptor[s], forced) /\ Maps
  BY DEF Inv, SocksOk
<1>2. rp = [r EXCEPT !.broken = TRUE, !.closing = TRUE, !.wait = 1]
  BY <1>1 DEF processClose, OnLine, Maps, Map
<1>3. Only(s) /\ Rest
  BY <1>1, Zenon DEF processClose, OnLine, Only, Rest, Maps, Map
<1>4. closer'[s] = closer[s] /\ acceptor'[s] = acceptor[s] /\ r.connected /\ r.onRcv
  BY <1>1 DEF processClose, OnLine, Maps, Map
<1> HIDE DEF r, rp
<1>5. IsRec(r)
  BY <1>1 DEF SockOk
<1>6. Same(r, rp, {"broken", "closing", "wait"})
  BY <1>2, <1>5, Zenon DEF Same, IsRec, SockFields
<1>7. rp.broken = TRUE
  BY <1>2, <1>5 DEF IsRec, SockFields
<1>8. Kept(r, rp)
  BY <1>1, <1>4, <1>6, <1>7 DEF SockOk, Same, SockFields, Local, Kept, Unset
<1>9. SockOk(rp, closer'[s], acceptor'[s], forced)
  BY <1>1, <1>4, <1>6, <1>7 DEF SockOk, Same, SockFields, Typed, Local, Fresh, Unset
<1> QED BY <1>3, <1>8, <1>9, KeptStep DEF r, rp

(* The expiration timer breaks the connection and wakes the send worker. *)
LEMMA CheckExpTimerKeeps ==
  ASSUME Inv, NEW s \in Socks, checkExpTimer(s)
  PROVE  Inv'
<1> DEFINE r == sock[s]
           rp == sock'[s]
<1>1. SockOk(r, closer[s], acceptor[s], forced) /\ Maps
  BY DEF Inv, SocksOk
<1>2. rp = [r EXCEPT !.broken = TRUE, !.closing = TRUE, !.wait = 1, !.onSnd = TRUE]
  BY <1>1 DEF checkExpTimer, OnLine, Maps, Map
<1>3. Only(s) /\ Rest
  BY <1>1, Zenon DEF checkExpTimer, OnLine, Only, Rest, Maps, Map
<1>4. closer'[s] = closer[s] /\ acceptor'[s] = acceptor[s] /\ r.connected /\ r.onRcv
  BY <1>1 DEF checkExpTimer, OnLine, Maps, Map
<1> HIDE DEF r, rp
<1>5. IsRec(r)
  BY <1>1 DEF SockOk
<1>6. Same(r, rp, {"broken", "closing", "wait", "onSnd"})
  BY <1>2, <1>5, Zenon DEF Same, IsRec, SockFields
<1>7. rp.broken = TRUE /\ rp.onSnd = TRUE
  BY <1>2, <1>5 DEF IsRec, SockFields
<1>8. Kept(r, rp)
  BY <1>1, <1>4, <1>6, <1>7 DEF SockOk, Same, SockFields, Local, Kept, Unset
<1>9. SockOk(rp, closer'[s], acceptor'[s], forced)
  BY <1>1, <1>4, <1>6, <1>7 DEF SockOk, Same, SockFields, Typed, Local, Fresh, Unset
<1> QED BY <1>3, <1>8, <1>9, KeptStep DEF r, rp

(* The receive worker drops a dead socket. *)
LEMMA RemoveFromListsKeeps ==
  ASSUME Inv, NEW s \in Socks, removeFromLists(s)
  PROVE  Inv'
<1> DEFINE r == sock[s]
           rp == sock'[s]
<1>1. SockOk(r, closer[s], acceptor[s], forced) /\ Maps
  BY DEF Inv, SocksOk
<1>2. rp = [r EXCEPT !.onRcv = FALSE]
  BY <1>1 DEF removeFromLists, Maps, Map
<1>3. Only(s) /\ Rest
  BY <1>1, Zenon DEF removeFromLists, Only, Rest, Maps, Map
<1>4. closer'[s] = closer[s] /\ acceptor'[s] = acceptor[s]
  BY <1>1 DEF removeFromLists, Maps, Map
<1> HIDE DEF r, rp
<1>5. IsRec(r)
  BY <1>1 DEF SockOk
<1>6. Same(r, rp, {"onRcv"})
  BY <1>2, <1>5, Zenon DEF Same, IsRec, SockFields
<1>7. rp.onRcv = FALSE
  BY <1>2, <1>5 DEF IsRec, SockFields
<1>8. Kept(r, rp)
  BY <1>1, <1>4, <1>6, <1>7 DEF SockOk, Same, SockFields, Local, Kept, Unset
<1>9. SockOk(rp, closer'[s], acceptor'[s], forced)
  BY <1>1, <1>4, <1>6, <1>7 DEF SockOk, Same, SockFields, Typed, Local, Fresh, Unset
<1> QED BY <1>3, <1>8, <1>9, KeptStep DEF r, rp

(* A linger time is over. *)
LEMMA LingerExpiresKeeps ==
  ASSUME Inv, NEW s \in Socks, LingerExpires(s)
  PROVE  Inv'
<1> DEFINE r == sock[s]
           rp == sock'[s]
<1>1. SockOk(r, closer[s], acceptor[s], forced) /\ Maps
  BY DEF Inv, SocksOk
<1>2. rp = [r EXCEPT !.linger = "over"]
  BY <1>1 DEF LingerExpires, Maps, Map
<1>3. Only(s) /\ Rest
  BY <1>1, Zenon DEF LingerExpires, Only, Rest, Maps, Map
<1>4. closer'[s] = closer[s] /\ acceptor'[s] = acceptor[s]
  BY <1>1 DEF LingerExpires, Maps, Map
<1> HIDE DEF r, rp
<1>5. IsRec(r)
  BY <1>1 DEF SockOk
<1>6. Same(r, rp, {"linger"})
  BY <1>2, <1>5, Zenon DEF Same, IsRec, SockFields
<1>8. Kept(r, rp)
  BY <1>1, <1>4, <1>6 DEF SockOk, Same, SockFields, Local, Kept, Unset
<1>9. SockOk(rp, closer'[s], acceptor'[s], forced)
  BY <1>1, <1>4, <1>6, SMTT(20) DEF SockOk, Same, SockFields, Typed, Local, Fresh, Unset
<1> QED BY <1>3, <1>8, <1>9, KeptStep DEF r, rp

(* The send worker takes the socket off its list. *)
LEMMA SndWorkerKeeps ==
  ASSUME Inv, NEW s \in Socks, SndWorker(s)
  PROVE  Inv'
<1> DEFINE r == sock[s]
           rp == sock'[s]
<1>1. SockOk(r, closer[s], acceptor[s], forced) /\ Maps
  BY DEF Inv, SocksOk
<1>2. PICK b : rp = [r EXCEPT !.onSnd = FALSE, !.outbuf = b]
  BY <1>1, Zenon DEF SndWorker, Maps, Map
<1>3. Only(s) /\ Rest
  BY <1>1, Zenon DEF SndWorker, Only, Rest, Maps, Map
<1>4. closer' = closer /\ acceptor' = acceptor
  BY DEF SndWorker
<1> HIDE DEF r, rp
<1>5. IsRec(r)
  BY <1>1 DEF SockOk
<1>6. Same(r, rp, {"onSnd", "outbuf"})
  BY <1>2, <1>5, Zenon DEF Same, IsRec, SockFields
<1>7. rp.onSnd = FALSE
  BY <1>2, <1>5 DEF IsRec, SockFields
<1>8. Kept(r, rp)
  BY <1>6, <1>7 DEF Same, SockFields, Kept
<1>9. SockOk(rp, closer'[s], acceptor'[s], forced)
  BY <1>1, <1>4, <1>6, <1>7 DEF SockOk, Same, SockFields, Typed, Local, Fresh, Unset
<1> QED BY <1>3, <1>8, <1>9, KeptStep DEF r, rp

(* Data or an acknowledgement arrives. *)
LEMMA ArrivesKeeps ==
  ASSUME Inv, NEW s \in Socks, Arrives(s)
  PROVE  Inv'
<1> DEFINE r == sock[s]
           rp == sock'[s]
<1>1. SockOk(r, closer[s], acceptor[s], forced) /\ Maps
  BY DEF Inv, SocksOk
<1>2. rp = [r EXCEPT !.inbuf = TRUE] \/ rp = [r EXCEPT !.outbuf = "none"]
  BY <1>1, Zenon DEF Arrives, Maps, Map
<1>3. Only(s) /\ Rest
  BY <1>1, Zenon DEF Arrives, Only, Rest, Maps, Map
<1>4. closer' = closer /\ acceptor' = acceptor
  BY DEF Arrives
<1> HIDE DEF r, rp
<1>5. IsRec(r)
  BY <1>1 DEF SockOk
<1>6. Same(r, rp, {"inbuf", "outbuf"})
  <2>1. CASE rp = [r EXCEPT !.inbuf = TRUE]
    BY <2>1, <1>5, Zenon DEF Same, IsRec, SockFields
  <2>2. CASE rp = [r EXCEPT !.outbuf = "none"]
    BY <2>2, <1>5, Zenon DEF Same, IsRec, SockFields
  <2> QED BY <1>2, <2>1, <2>2
<1>8. Kept(r, rp)
  BY <1>6 DEF Same, SockFields, Kept
<1>9. SockOk(rp, closer'[s], acceptor'[s], forced)
  BY <1>1, <1>4, <1>6 DEF SockOk, Same, SockFields, Typed, Local, Fresh, Unset
<1> QED BY <1>3, <1>8, <1>9, KeptStep DEF r, rp

(* accept() is called. *)
LEMMA StartAcceptKeeps ==
  ASSUME Inv, NEW s \in Socks, StartAccept(s), ~forced
  PROVE  Inv'
<1>1. SockOk(sock[s], closer[s], acceptor[s], forced) /\ Maps
  BY DEF Inv, SocksOk
<1>2. Only(s) /\ Rest /\ sock' = sock
  BY <1>1, Zenon DEF StartAccept, Only, Rest, Maps, Map
<1>3. acceptor'[s] = "started" /\ closer' = closer /\ sock[s].st = "LISTENING"
  BY <1>1 DEF StartAccept, Maps, Map
<1>4. SockOk(sock'[s], closer'[s], acceptor'[s], forced)
  BY <1>1, <1>2, <1>3 DEF SockOk, Local, Fresh
<1>5. Kept(sock[s], sock'[s])
  BY <1>2 DEF Kept
<1> QED BY <1>2, <1>4, <1>5, KeptStep

(* close() is called. *)
LEMMA StartCloseKeeps ==
  ASSUME Inv, NEW s \in Socks, StartClose(s), ~forced
  PROVE  Inv'
<1>1. SockOk(sock[s], closer[s], acceptor[s], forced) /\ Maps
  BY DEF Inv, SocksOk
<1>2. Only(s) /\ Rest /\ sock' = sock
  BY <1>1, Zenon DEF StartClose, Only, Rest, Maps, Map
<1>3. /\ closer'[s] = "entered" /\ closer[s] = "idle" /\ acceptor' = acceptor
      /\ sock[s].given /\ sock[s].at = "open"
  BY <1>1 DEF StartClose, Maps, Map, locateSocket, Open
<1>4. SockOk(sock'[s], closer'[s], acceptor'[s], forced)
  BY <1>1, <1>2, <1>3 DEF SockOk, Local, Fresh
<1>5. Kept(sock[s], sock'[s])
  BY <1>2 DEF Kept
<1> QED BY <1>2, <1>4, <1>5, KeptStep

(* close() wakes the acceptors of a listener and returns. *)
LEMMA NotifyKeeps ==
  ASSUME Inv, NEW s \in Socks, NotifyAcceptors(s)
  PROVE  Inv'
<1>1. SockOk(sock[s], closer[s], acceptor[s], forced) /\ Maps
  BY DEF Inv, SocksOk
<1>2. Only(s) /\ Rest /\ sock' = sock
  BY <1>1, Zenon DEF NotifyAcceptors, Only, Rest, Maps, Map
<1>3. /\ closer'[s] = "idle" /\ closer[s] = "notify"
      /\ acceptor'[s] = IF acceptor[s] = "waiting" THEN "woken" ELSE acceptor[s]
  BY <1>1 DEF NotifyAcceptors, Maps, Map
<1>4. SockOk(sock'[s], closer'[s], acceptor'[s], forced)
  BY <1>1, <1>2, <1>3 DEF SockOk, Local, Fresh
<1>5. Kept(sock[s], sock'[s])
  BY <1>2 DEF Kept
<1> QED BY <1>2, <1>4, <1>5, KeptStep

(* close() decides between a listener and any other socket. *)
LEMMA CloseKeeps ==
  ASSUME Inv, NEW s \in Socks, close(s)
  PROVE  Inv'
<1> DEFINE r == sock[s]
           rp == sock'[s]
<1>1. SockOk(r, closer[s], acceptor[s], forced) /\ Maps
  BY DEF Inv, SocksOk
<1>2. Only(s) /\ Rest /\ acceptor' = acceptor /\ closer[s] = "entered"
  BY <1>1, Zenon DEF close, Only, Rest, Maps, Map
<1>5. IsRec(r)
  BY <1>1 DEF SockOk
<1>6. ~(r.st = "LISTENING" /\ r.broken)
  BY <1>1, <1>2 DEF SockOk, Local
<1>7. CASE r.st = "LISTENING"
  <2>1. rp = [r EXCEPT !.broken = TRUE, !.age = 0] /\ closer'[s] = "listener"
    BY <1>1, <1>6, <1>7 DEF close, Maps, Map
  <2> HIDE DEF r, rp
  <2>2. Same(r, rp, {"broken", "age"})
    BY <1>5, <2>1, Zenon DEF Same, IsRec, SockFields
  <2>3. rp.broken = TRUE /\ rp.age = 0
    BY <1>5, <2>1 DEF IsRec, SockFields
  <2>4. Kept(r, rp)
    BY <1>1, <1>7, <2>2, <2>3 DEF SockOk, Local, Same, SockFields, Kept
  <2>5. SockOk(rp, closer'[s], acceptor'[s], forced)
    BY <1>1, <1>2, <1>7, <2>1, <2>2, <2>3
       DEF SockOk, Same, SockFields, Typed, Local, Fresh, Unset
  <2> QED BY <1>2, <2>4, <2>5, KeptStep DEF r, rp
<1>8. CASE r.st # "LISTENING"
  <2>1. rp = [r EXCEPT !.st = "CLOSING"] /\ closer'[s] = "internal"
    BY <1>1, <1>8 DEF close, Maps, Map
  <2> HIDE DEF r, rp
  <2>2. Same(r, rp, {"st"})
    BY <1>5, <2>1, Zenon DEF Same, IsRec, SockFields
  <2>3. rp.st = "CLOSING"
    BY <1>5, <2>1 DEF IsRec, SockFields
  <2>4. Kept(r, rp)
    BY <1>1, <1>2, <2>2, <2>3 DEF SockOk, Local, Same, SockFields, Kept
  <2>5. SockOk(rp, closer'[s], acceptor'[s], forced)
    BY <1>1, <1>2, <1>8, <2>1, <2>2, <2>3
       DEF SockOk, Same, SockFields, Typed, Local, Fresh, Unset
  <2> QED BY <1>2, <2>4, <2>5, KeptStep DEF r, rp
<1> QED BY <1>7, <1>8

-----------------------------------------------------------------------------
(* Pieces of the invariant under steps that change more *)

(* A socket is in one of the lists after the step as before, with the same  *)
(* multiplexer.                                                             *)
SameUser(r, rp) ==
  /\ rp.at \in {"open", "closed", "removing"} <=> r.at \in {"open", "closed", "removing"}
  /\ rp.mux = r.mux

(* The counts of the multiplexers stay. *)
SameRefs ==
  \A m \in Socks : /\ mux'[m].refs = mux[m].refs
                   /\ mux'[m] = NoMux <=> mux[m] = NoMux

(* Steps that neither add nor remove a user of a multiplexer leave the      *)
(* reference counts right.                                                  *)
LEMMA RefsStay ==
  ASSUME RefsOk, \A x \in Socks : SameUser(sock[x], sock'[x]), SameRefs, SocksOk
  PROVE  RefsOk'
<1>1. \A m : Users(m)' = Users(m)
  BY DEF Users, Exists, SameUser
<1>2. \A x \in Socks : sock[x].mux \in Socks \cup {None}
  BY DEF SocksOk, SockOk, Typed
<1>3. ASSUME NEW m \in Socks, mux'[m] # NoMux
      PROVE  mux'[m].refs = Cardinality(Users(m)')
  BY <1>1, <1>3 DEF RefsOk, SameRefs
<1>4. ASSUME NEW x \in Socks, Exists(x)', sock'[x].mux # None
      PROVE  mux'[sock'[x].mux] # NoMux
  BY <1>2, <1>4 DEF RefsOk, SameRefs, SameUser, Exists
<1> QED BY <1>3, <1>4 DEF RefsOk

(* removeListener takes listener entries away and nothing else. *)
LEMMA ListenersRemoved ==
  ASSUME MuxOk, NEW S \in SUBSET Socks, mux' = removeListener(S)
  PROVE  /\ MuxOk' /\ SameRefs
         /\ \A m \in Socks : mux'[m].listener =
              IF mux[m].listener \in S /\ sock[mux[m].listener].listening
              THEN None ELSE mux[m].listener
<1>1. Map(mux')
  BY DEF removeListener, Map
<1>2. ASSUME NEW m \in Socks
      PROVE  /\ IsMux(mux'[m]) /\ mux'[m].refs = mux[m].refs
             /\ mux'[m] = NoMux <=> mux[m] = NoMux
             /\ mux'[m].listener =
                  IF mux[m].listener \in S /\ sock[mux[m].listener].listening
                  THEN None ELSE mux[m].listener
  <2>1. CASE mux[m].listener \in S /\ sock[mux[m].listener].listening
    <3>1. mux'[m] = [mux[m] EXCEPT !.listener = None]
      BY <2>1 DEF removeListener
    <3>2. IsMux(mux[m]) /\ mux[m].listener # None
      BY <2>1, IdsAssumption DEF MuxOk, Socks, None
    <3>3. mux[m] # NoMux
      BY <3>2 DEF NoMux
    <3>4. mux[m].refs # 0
      BY <3>3 DEF MuxOk
    <3>5. /\ IsMux(mux'[m]) /\ mux'[m].refs = mux[m].refs /\ mux'[m].listener = None
      BY <3>1, <3>2 DEF IsMux
    <3>6. mux'[m] # NoMux
      BY <3>4, <3>5 DEF NoMux
    <3> QED BY <2>1, <3>3, <3>5, <3>6
  <2>2. CASE ~(mux[m].listener \in S /\ sock[mux[m].listener].listening)
    BY <2>2 DEF removeListener, MuxOk
  <2> QED BY <2>1, <2>2
<1>3. MuxOk'
  BY <1>1, <1>2 DEF MuxOk
<1> QED BY <1>2, <1>3 DEF SameRefs

-----------------------------------------------------------------------------
(* Creating a socket, and listening *)

(* srt_create_socket: the socket enters m_Sockets. *)
LEMMA NewSocketKeeps ==
  ASSUME Inv, NEW s \in Socks, newSocket(s)
  PROVE  Inv'
<1> DEFINE r == sock[s]
           rp == sock'[s]
<1>1. SockOk(r, closer[s], acceptor[s], forced) /\ Maps
  BY DEF Inv, SocksOk
<1>2. rp = [r EXCEPT !.at = "open", !.given = TRUE]
  BY <1>1 DEF newSocket, Maps, Map
<1>3. Only(s) /\ Rest /\ closer' = closer /\ acceptor' = acceptor
  BY <1>1, Zenon DEF newSocket, Only, Rest, Maps, Map
<1>4. ~forced /\ r.at = "free" /\ s \in AppSocks /\ s \notin PeerSocks
  BY IdsAssumption DEF newSocket
<1> HIDE DEF r, rp
<1>5. IsRec(r)
  BY <1>1 DEF SockOk
<1>6. Same(r, rp, {"at", "given"})
  BY <1>2, <1>5, Zenon DEF Same, IsRec, SockFields
<1>7. rp.at = "open" /\ rp.given = TRUE
  BY <1>2, <1>5 DEF IsRec, SockFields
<1>8. SockOk(rp, closer'[s], acceptor'[s], forced)
  BY <1>1, <1>3, <1>4, <1>6, <1>7 DEF SockOk, Same, SockFields, Typed, Local, Fresh, Unset
<1>9. r.queue = {} /\ rp.queue = {} /\ r.mux = None /\ rp.mux = None /\ rp.listening = r.listening
  BY <1>1, <1>4, <1>6 DEF SockOk, Same, SockFields, Local
<1> USE <1>3, <1>4, <1>7, <1>9
<1>11. Maps' /\ SocksOk'
  BY <1>8, OneSockOk DEF Rest, rp
<1>12. ConnOk'
  BY IdsAssumption DEF Inv, ConnOk, Only, Rest, Fresh, r, rp, Socks
<1>13. QueueOk'
  <2>1. SUFFICES ASSUME NEW l \in Socks, NEW q \in sock'[l].queue
                 PROVE  /\ sock'[q].at # "free" /\ ~(conn.pc = "made" /\ conn.s = q)
                        /\ ~forced /\ sock'[l].at \in {"open", "closed"} =>
                             /\ sock'[q].at = "open" /\ sock'[q].lsn = l
                             /\ ~sock'[q].given /\ sock'[q].st # "INIT"
    BY DEF QueueOk, Rest
  <2>2. l # s /\ sock'[l] = sock[l]
    BY DEF Only, rp
  <2>3. q \in PeerSocks /\ sock'[q] = sock[q] /\ q \in sock[l].queue
    BY <2>2 DEF Inv, SocksOk, SockOk, Typed, Socks, Only
  <2> QED BY <2>2, <2>3 DEF Inv, QueueOk
<1>14. ReadyOk'
  BY DEF Inv, ReadyOk, Only, Rest, Exists, rp
<1>15. GcOk'
  BY DEF Inv, GcOk, Only, Rest, r
<1>16. ListenerOk'
  BY DEF Inv, ListenerOk, Only, Rest, Exists, r
<1>17. MuxOk'
  BY DEF Inv, MuxOk, Rest, Map, IsMux
<1>18. RefsOk'
  <2>1. ASSUME NEW m \in Socks PROVE Users(m)' = Users(m)
    <3>1. m # None
      BY IdsAssumption DEF Socks, None
    <3> QED BY <3>1 DEF Users, Exists, Only, r, rp
  <2> QED BY <2>1 DEF Inv, RefsOk, Only, Rest, Exists, r, rp
<1> QED BY <1>11, <1>12, <1>13, <1>14, <1>15, <1>16, <1>17, <1>18 DEF Inv

(* listen(): the socket becomes the listener of its multiplexer. *)
LEMMA ListenKeeps ==
  ASSUME Inv, NEW s \in Socks, listen(s), ~forced
  PROVE  Inv'
<1> DEFINE r == sock[s]
           rp == sock'[s]
           m == r.mux
<1>1. SockOk(r, closer[s], acceptor[s], forced) /\ Maps
  BY DEF Inv, SocksOk
<1>2. /\ r.at = "open" /\ r.given /\ r.st = "OPENED" /\ closer[s] \in {"idle", "entered"}
      /\ ~r.connecting /\ ~r.connected
      /\ closer' = closer /\ acceptor' = acceptor /\ UNCHANGED <<conn, gc, forced, env>>
  BY DEF listen, locateSocket, Open, ControlFree, setListenState
<1>3. m \in Socks /\ IsRec(r)
  BY <1>1, <1>2 DEF SockOk, Local, Typed
<1>4. Only(s)
  BY <1>1, Zenon DEF listen, Only, Maps, Map
<1>5. rp = [r EXCEPT !.st = "LISTENING", !.listening = TRUE]
  BY <1>1 DEF listen, Maps, Map
<1>6. mux' = [mux EXCEPT ![m].listener = s]
  BY DEF listen, setListenState
<1> HIDE DEF r, rp, m
<1>7. Same(r, rp, {"st", "listening"})
  BY <1>3, <1>5, Zenon DEF Same, IsRec, SockFields
<1>8. rp.st = "LISTENING" /\ rp.listening = TRUE
  BY <1>3, <1>5 DEF IsRec, SockFields
<1>9. SockOk(rp, closer'[s], acceptor'[s], forced)
  BY <1>1, <1>2, <1>7, <1>8 DEF SockOk, Same, SockFields, Typed, Local, Fresh, Unset
<1>10. /\ rp.at = "open" /\ rp.queue = r.queue /\ rp.lsn = r.lsn /\ rp.given
       /\ rp.mux = m /\ rp.ready = r.ready
  BY <1>2, <1>7 DEF Same, SockFields, m
<1>11. \A x \in Socks \ {s} : sock'[x] = sock[x]
  BY <1>4 DEF Only
<1>12. mux'[m] = [mux[m] EXCEPT !.listener = s] /\ \A k \in Socks \ {m} : mux'[k] = mux[k]
  BY <1>3, <1>6 DEF Inv, MuxOk, Map
<1>13. Map(mux')
  BY <1>6, Zenon DEF Inv, MuxOk, Map
<1>14. mux[m] # NoMux
  BY <1>2, <1>3, IdsAssumption DEF Inv, RefsOk, Exists, Socks, None, m, r
<1>15. mux[m].refs \in Nat \ {0} /\ IsMux(mux[m])
  BY <1>3, <1>14 DEF Inv, MuxOk
<1>16. IsMux(mux'[m]) /\ mux'[m].refs = mux[m].refs /\ mux'[m].listener = s
  BY <1>12, <1>15 DEF IsMux
<1>17. mux'[m] # NoMux
  BY <1>15, <1>16 DEF NoMux
<1>18. MuxOk'
  BY <1>12, <1>13, <1>15, <1>16, Zenon DEF Inv, MuxOk
<1>19. SameRefs
  BY <1>12, <1>14, <1>16, <1>17, Zenon DEF SameRefs
<1>20. RefsOk'
  <2>1. \A x \in Socks : SameUser(sock[x], sock'[x])
    BY <1>2, <1>10, <1>11 DEF SameUser, r, rp, m
  <2> QED BY <1>19, <2>1, RefsStay DEF Inv
<1>21. Maps' /\ SocksOk'
  BY <1>2, <1>4, <1>9, OneSockOk DEF rp
<1>22. ConnOk'
  BY <1>2, <1>10, <1>11, IdsAssumption, SMTT(20) DEF Inv, ConnOk, Fresh, Socks, r, rp
<1>23. QueueOk'
  <2>1. SUFFICES ASSUME NEW l \in Socks, NEW q \in sock'[l].queue
                 PROVE  /\ sock'[q].at # "free" /\ ~(conn.pc = "made" /\ conn.s = q)
                        /\ ~forced /\ sock'[l].at \in {"open", "closed"} =>
                             /\ sock'[q].at = "open" /\ sock'[q].lsn = l
                             /\ ~sock'[q].given /\ sock'[q].st # "INIT"
    BY <1>2 DEF QueueOk
  <2>2. q \in sock[l].queue /\ sock'[l].at = sock[l].at
    BY <1>2, <1>10, <1>11 DEF r, rp
  <2>3. q \in Socks
    BY <2>2 DEF Inv, SocksOk, SockOk, Typed, Socks
  <2> QED BY <1>2, <1>10, <1>11, <2>2, <2>3, SMTT(20) DEF Inv, QueueOk, r, rp
<1>24. ReadyOk'
  BY <1>2, <1>10, <1>11 DEF Inv, ReadyOk, Exists, r, rp
<1>25. GcOk'
  <2>1. gc.pc = "reenter" => \A k \in Socks : mux'[k].listener # gc.cur
    <3>1. SUFFICES ASSUME gc.pc = "reenter", NEW k \in Socks, mux'[k].listener = gc.cur
                   PROVE  FALSE
      OBVIOUS
    <3>2. mux[k].listener # gc.cur /\ sock[gc.cur].at = "removing"
      BY <3>1 DEF Inv, GcOk
    <3>3. mux'[k].listener \in {s, mux[k].listener}
      BY <1>12, <1>16, Zenon
    <3> QED BY <1>2, <3>1, <3>2, <3>3 DEF r
  <2> QED BY <1>2, <1>10, <1>11, <2>1 DEF Inv, GcOk, r, rp
<1>26. ListenerOk'
  <2>1. SUFFICES ASSUME NEW k \in Socks, mux'[k].listener # None
                 PROVE  /\ mux'[k].listener \in Socks /\ sock'[mux'[k].listener].listening
                        /\ sock'[mux'[k].listener].mux = k
                        /\ sock'[mux'[k].listener].at \in {"open", "closed", "removing"}
    BY DEF ListenerOk, Exists
  <2> DEFINE x == mux'[k].listener
  <2>2. \/ x = s /\ k = m
        \/ x # s /\ x = mux[k].listener
        \/ k # m /\ x = s /\ x = mux[k].listener
    BY <1>12, <1>16, Zenon
  <2>3. x = mux[k].listener =>
          /\ x \in Socks /\ sock[x].listening /\ sock[x].mux = k
          /\ sock[x].at \in {"open", "closed", "removing"}
    BY <2>1 DEF Inv, ListenerOk, Exists
  <2>4. rp.listening /\ rp.mux = m /\ rp.at = "open"
    BY <1>8, <1>10
  <2> HIDE DEF x
  <2>5. CASE x = s /\ k = m
    BY <2>4, <2>5 DEF rp, x
  <2>6. CASE x # s /\ x = mux[k].listener
    BY <1>11, <2>3, <2>6 DEF x, Exists
  <2>7. CASE k # m /\ x = s /\ x = mux[k].listener
    BY <2>3, <2>7 DEF m, r
  <2> QED BY <2>2, <2>5, <2>6, <2>7
<1> QED BY <1>18, <1>20, <1>21, <1>22, <1>23, <1>24, <1>25, <1>26 DEF Inv

-----------------------------------------------------------------------------
(* Closing *)

(* What closing a socket leaves alone: it may move to m_ClosedSockets, with *)
(* a fresh closure stamp, and its ties to other sockets stay.               *)
Closed(r, rp) ==
  /\ rp.lsn = r.lsn /\ rp.queue = r.queue /\ rp.mux = r.mux
  /\ rp.given = r.given /\ rp.ready = r.ready
  /\ rp.st = "INIT" => r.st = "INIT"
  /\ \/ rp.at = r.at /\ (r.at # "open" => rp.age = r.age)
     \/ r.at = "open" /\ rp.at = "closed" /\ rp.age = 0

(* The step belongs to a socket the application was given, or one being     *)
(* removed; or it ends the request that made the socket.                    *)
EndsConn(s) ==
  \/ conn' = conn /\ (sock[s].given \/ sock[s].at = "removing")
  \/ conn.pc = "made" /\ conn.s = s /\ conn' = [l |-> None, s |-> None, pc |-> "idle"]

(* The collector waits, or leaves closeInternal with no listener entry left. *)
LeavesClose ==
  \/ gc' = gc
  \/ /\ gc.pc = "unlocked" /\ gc' = [gc EXCEPT !.pc = "reenter"]
     /\ \A m \in Socks : mux'[m].listener # gc.cur

(* Closing one socket keeps the invariant. *)
LEMMA CloseStep ==
  ASSUME Inv, NEW s \in Socks, Only(s), Closed(sock[s], sock'[s]), EndsConn(s), LeavesClose,
         SockOk(sock'[s], closer'[s], acceptor'[s], forced), UNCHANGED <<forced, env>>,
         MuxOk', SameRefs,
         \A m \in Socks : mux'[m].listener # None =>
           /\ mux'[m].listener = mux[m].listener
           /\ mux'[m].listener = s => sock'[s].listening = sock[s].listening
  PROVE  Inv'
<1>1. Maps' /\ SocksOk'
  BY OneSockOk
<1>2. \A x \in Socks : Closed(sock[x], sock'[x])
  BY SMTT(20) DEF Only, Closed
<1>3. RefsOk'
  <2>1. \A x \in Socks : SameUser(sock[x], sock'[x])
    BY <1>2, SMTT(20) DEF Closed, SameUser
  <2> QED BY <2>1, RefsStay, SMTT(20) DEF Inv
<1>4. ConnOk'
  <2>1. CASE conn' = conn /\ (sock[s].given \/ sock[s].at = "removing")
    <3>1. ConnOk /\ (conn.pc # "idle" => conn.l \in Socks /\ conn.s \in Socks)
      BY SMTT(20) DEF Inv, ConnOk, Socks
    <3>2. \A x \in Socks : Fresh(sock[x]) => Fresh(sock'[x])
      BY <1>2 DEF Closed, Fresh
    <3>3. conn.pc = "made" => conn.s # s
      BY <2>1, <3>1 DEF ConnOk, Fresh
    <3>4. conn.pc = "made" => sock'[conn.s] = sock[conn.s]
      BY <3>1, <3>3, SMTT(20) DEF Only, ConnOk
    <3> QED BY <2>1, <3>1, <3>2, <3>4 DEF ConnOk
  <2>2. CASE conn' = [l |-> None, s |-> None, pc |-> "idle"]
    BY <2>2, SMTT(20) DEF ConnOk
  <2> QED BY <2>1, <2>2 DEF EndsConn
<1>5. QueueOk'
  <2>1. SUFFICES ASSUME NEW k \in Socks, NEW q \in sock'[k].queue
                 PROVE  /\ sock'[q].at # "free" /\ ~(conn'.pc = "made" /\ conn'.s = q)
                        /\ ~forced /\ sock'[k].at \in {"open", "closed"} =>
                             /\ sock'[q].at = "open" /\ sock'[q].lsn = k
                             /\ ~sock'[q].given /\ sock'[q].st # "INIT"
    BY SMTT(20) DEF QueueOk
  <2>2. q \in sock[k].queue /\ q \in Socks
    BY <1>2, Zenon DEF Closed, Inv, SocksOk, SockOk, Typed, Socks
  <2>3. /\ sock[q].at # "free" /\ ~(conn.pc = "made" /\ conn.s = q)
        /\ ~forced /\ sock[k].at \in {"open", "closed"} =>
             /\ sock[q].at = "open" /\ sock[q].lsn = k
             /\ ~sock[q].given /\ sock[q].st # "INIT"
    BY <2>2 DEF Inv, QueueOk
  <2>4. Closed(sock[q], sock'[q]) /\ Closed(sock[k], sock'[k])
    BY <1>2, <2>2, SMTT(20)
  <2>5. sock'[q].at # "free" /\ ~(conn'.pc = "made" /\ conn'.s = q)
    <3>1. sock'[q].at # "free"
      BY <2>3, <2>4, SMTT(20) DEF Closed
    <3>2. ~(conn'.pc = "made" /\ conn'.s = q)
      BY <2>3, SMTT(20) DEF EndsConn
    <3> QED BY <3>1, <3>2
  <2>6. ASSUME ~forced, sock'[k].at \in {"open", "closed"}
        PROVE  sock'[q].at = sock[q].at
    <3>1. sock[k].at \in {"open", "closed"}
      BY <2>4, <2>6, SMTT(20) DEF Closed
    <3>2. q # s
      BY <2>3, <2>6, <3>1, SMTT(20) DEF EndsConn
    <3> QED BY <2>2, <3>2, Zenon DEF Only
  <2> QED BY <2>3, <2>4, <2>5, <2>6, SMTT(20) DEF Closed
<1>6. ReadyOk'
  BY <1>2 DEF Inv, ReadyOk, Exists, Closed, EndsConn
<1>7. GcOk'
  <2>1. \A u \in gc.tbr : sock'[u].at = "closed" /\ sock'[u].age # 0
    BY <1>2 DEF Inv, GcOk, Closed
  <2>2. gc.pc \in {"unlocked", "reenter"} => gc.cur \in Socks /\ sock'[gc.cur].at = "removing"
    BY <1>2 DEF Inv, GcOk, Closed
  <2>3. CASE gc' = gc
    <3>1. gc.pc = "reenter" => \A m \in Socks : mux'[m].listener # gc.cur
      BY IdsAssumption DEF Inv, GcOk, Socks, None
    <3> QED BY <2>1, <2>2, <2>3, <3>1 DEF Inv, GcOk
  <2>4. CASE /\ gc.pc = "unlocked" /\ gc' = [gc EXCEPT !.pc = "reenter"]
             /\ \A m \in Socks : mux'[m].listener # gc.cur
    <3>1. gc = [pc |-> gc.pc, tbr |-> gc.tbr, cur |-> gc.cur] /\ gc.tbr \subseteq Socks
      BY DEF Inv, GcOk
    <3>2. gc' = [pc |-> "reenter", tbr |-> gc.tbr, cur |-> gc.cur]
      BY <2>4, <3>1, SMTT(20)
    <3> QED BY <2>1, <2>2, <2>4, <3>1, <3>2 DEF GcOk
  <2> QED BY <2>3, <2>4 DEF LeavesClose
<1>8. ListenerOk'
  <2>1. \A x \in Socks : Exists(x) => sock'[x].at \in {"open", "closed", "removing"}
                                      /\ sock'[x].mux = sock[x].mux
    BY <1>2, ZenonT(30) DEF Closed, Exists
  <2>2. \A x \in Socks \ {s} : sock'[x].listening = sock[x].listening
    BY Zenon DEF Only
  <2>3. SUFFICES ASSUME NEW m \in Socks, mux'[m].listener # None
                 PROVE  /\ mux'[m].listener \in Socks /\ sock'[mux'[m].listener].listening
                        /\ sock'[mux'[m].listener].mux = m
                        /\ sock'[mux'[m].listener].at \in {"open", "closed", "removing"}
    BY DEF ListenerOk, Exists
  <2>4. mux'[m].listener = mux[m].listener
    BY <2>3, SMTT(20)
  <2>5. /\ mux[m].listener \in Socks /\ sock[mux[m].listener].listening
        /\ sock[mux[m].listener].mux = m /\ Exists(mux[m].listener)
    BY <2>3, <2>4, SMTT(20) DEF Inv, ListenerOk
  <2>6. sock'[mux[m].listener].listening = sock[mux[m].listener].listening
    BY <2>2, <2>3, <2>4, <2>5, Zenon
  <2> QED BY <2>1, <2>4, <2>5, <2>6, ZenonT(30)
<1> QED BY <1>1, <1>3, <1>4, <1>5, <1>6, <1>7, <1>8, SMTT(20) DEF Inv

CloseFields == {"linger", "onSnd", "closing", "listening", "connected", "opened"}

(* What closeInternal may change, and never sets. *)
Shuts(r, rp) ==
  /\ Same(r, rp, CloseFields)
  /\ rp.listening => r.listening
  /\ rp.connected => r.connected
  /\ rp.onSnd => r.onSnd

(* closeInternal, postponed by a linger or not, touches these fields only. *)
LEMMA CloseInternalShuts ==
  ASSUME NEW r, IsRec(r)
  PROVE  Shuts(r, closeInternal(r))
<1>1. Same(r, r, CloseFields)
  BY Zenon DEF Same
<1>2. Shuts(r, [r EXCEPT !.linger = "running"])
  <2> DEFINE rp == [r EXCEPT !.linger = "running"]
  <2>1. Same(r, rp, {"linger"})
    BY Zenon DEF Same, IsRec, SockFields
  <2> HIDE DEF rp
  <2>2. Shuts(r, rp)
    BY <2>1 DEF Same, Shuts, SockFields, CloseFields
  <2> QED BY <2>2 DEF rp
<1>3. Shuts(r, Shut(r))
  <2> DEFINE rp == Shut(r)
  <2>1. Same(r, rp, CloseFields)
    BY Zenon DEF Same, IsRec, SockFields, CloseFields, Shut
  <2>2. rp.onSnd = (r.onSnd /\ ~r.connected) /\ rp.listening = FALSE /\ rp.connected = FALSE
    BY DEF IsRec, SockFields, Shut
  <2> HIDE DEF rp
  <2>3. Shuts(r, rp)
    BY <2>1, <2>2, Zenon DEF Shuts
  <2> QED BY <2>3 DEF rp
<1>4. Shuts(r, r)
  BY <1>1, Zenon DEF Shuts
<1>5. closeInternal(r) \in {r, [r EXCEPT !.linger = "running"], Shut(r)}
  BY ZenonT(30) DEF closeInternal
<1> QED BY <1>2, <1>3, <1>4, <1>5, Zenon

(* A rejected connection request: the new socket is rolled back. *)
LEMMA ConnectionFailsKeeps ==
  ASSUME Inv, ConnectionFails
  PROVE  Inv'
<1> DEFINE s == conn.s
           r == sock[s]
           c == closeInternal(r)
           rp == sock'[s]
<1>1. conn.pc = "made" /\ s \in Socks /\ ~r.given /\ Fresh(r)
  BY DEF Inv, ConnOk, ConnectionFails, Socks
<1>2. SockOk(r, closer[s], acceptor[s], forced) /\ Maps /\ IsRec(r)
  BY <1>1 DEF Inv, SocksOk, SockOk
<1>3. rp = [[c EXCEPT !.st = "CLOSED", !.age = 0] EXCEPT !.at = "closed"]
  BY <1>1, <1>2, Zenon DEF ConnectionFails, Maps, Map, setClosed
<1>4. Only(s) /\ closer' = closer /\ acceptor' = acceptor /\ UNCHANGED <<mux, gc, forced, env>>
  BY <1>1, <1>2, Zenon DEF ConnectionFails, Only, Maps, Map
<1>5. conn' = [l |-> None, s |-> None, pc |-> "idle"]
  BY DEF ConnectionFails
<1>6. Shuts(r, c)
  BY <1>2, CloseInternalShuts
<1> HIDE DEF r, rp, c
<1>7. Same(c, rp, {"st", "age", "at"})
  BY <1>3, <1>6, Zenon DEF Shuts, Same, IsRec, SockFields
<1>8. rp.st = "CLOSED" /\ rp.age = 0 /\ rp.at = "closed"
  BY <1>3, <1>6 DEF Shuts, Same, IsRec, SockFields
<1>9. ~r.listening /\ closer[s] = "idle" /\ acceptor[s] = "idle" /\ ~r.used
  BY <1>1, <1>2 DEF SockOk, Local
<1>10. SockOk(rp, closer'[s], acceptor'[s], forced)
  <2>1. Typed(rp) /\ IsRec(rp)
    BY <1>2, <1>6, <1>7, <1>8 DEF SockOk, Shuts, Same, SockFields, CloseFields, Typed
  <2>2. ~rp.listening /\ ~rp.used
    BY <1>6, <1>7, <1>9 DEF Shuts, Same, SockFields, CloseFields
  <2>3. Local(rp, closer'[s], acceptor'[s], forced)
    BY <1>4, <1>8, <1>9, <2>2 DEF Local, Unset
  <2> QED BY <2>1, <2>3 DEF SockOk
<1>11. Closed(r, rp)
  <2>1. /\ rp.lsn = r.lsn /\ rp.queue = r.queue /\ rp.mux = r.mux
        /\ rp.given = r.given /\ rp.ready = r.ready
    BY <1>6, <1>7 DEF Shuts, Same, SockFields, CloseFields
  <2> QED BY <1>1, <1>8, <2>1 DEF Closed, Fresh
<1>12. EndsConn(s) /\ LeavesClose
  BY <1>1, <1>4, <1>5 DEF EndsConn, LeavesClose
<1>13. MuxOk' /\ SameRefs
  BY <1>4 DEF Inv, MuxOk, Map, IsMux, SameRefs
<1>14. \A m \in Socks : mux[m].listener # s
  BY <1>1, <1>9, IdsAssumption DEF Inv, ListenerOk, r, Socks, None
<1>15. \A m \in Socks : mux'[m].listener # None =>
           /\ mux'[m].listener = mux[m].listener
           /\ mux'[m].listener = s => sock'[s].listening = sock[s].listening
  BY <1>4, <1>14, SMTT(20)
<1> HIDE DEF s
<1> QED BY <1>1, <1>4, <1>10, <1>11, <1>12, <1>13, <1>15, CloseStep DEF r, rp

(* notListening: the entry of the listener is gone before its status. *)
LEMMA NotListeningKeeps ==
  ASSUME Inv, NEW s \in Socks, notListening(s)
  PROVE  Inv'
<1> DEFINE r == sock[s]
           rp == sock'[s]
<1>1. SockOk(r, closer[s], acceptor[s], forced) /\ Maps /\ IsRec(r)
  BY DEF Inv, SocksOk, SockOk
<1>2. /\ closer[s] = "listener" /\ closer'[s] = "notify" /\ acceptor' = acceptor
      /\ UNCHANGED <<conn, gc, forced, env>> /\ mux' = removeListener({s})
  BY <1>1 DEF notListening, Maps, Map
<1>3. rp = [r EXCEPT !.listening = FALSE, !.st = "CLOSING"]
  BY <1>1 DEF notListening, Maps, Map
<1>4. Only(s)
  BY <1>1, Zenon DEF notListening, Only, Maps, Map
<1> HIDE DEF r, rp
<1>5. Same(r, rp, {"listening", "st"})
  BY <1>1, <1>3, Zenon DEF Same, IsRec, SockFields
<1>6. rp.listening = FALSE /\ rp.st = "CLOSING"
  BY <1>1, <1>3, SMTT(20) DEF IsRec, SockFields
<1>7. SockOk(rp, closer'[s], acceptor'[s], forced)
  BY <1>1, <1>2, <1>5, <1>6, SMTT(20) DEF SockOk, Same, SockFields, Typed, Local, Fresh, Unset
<1>8. Closed(r, rp)
  BY <1>5, <1>6 DEF Closed, Same, SockFields
<1>9. EndsConn(s) /\ LeavesClose
  <2>1. r.given
    BY <1>1, <1>2, SMTT(20) DEF SockOk, Local
  <2> QED BY <1>2, <2>1 DEF EndsConn, LeavesClose, r
<1>10. /\ MuxOk' /\ SameRefs
       /\ \A m \in Socks : mux'[m].listener =
              IF mux[m].listener \in {s} /\ sock[mux[m].listener].listening
              THEN None ELSE mux[m].listener
  BY <1>2, ListenersRemoved DEF Inv
<1>11. \A m \in Socks : mux[m].listener = s => r.listening
  BY IdsAssumption DEF Inv, ListenerOk, r, Socks, None
<1>12. \A m \in Socks : mux'[m].listener # None =>
           /\ mux'[m].listener = mux[m].listener
           /\ mux'[m].listener = s => sock'[s].listening = sock[s].listening
  BY <1>10, <1>11, SMTT(20) DEF r
<1> QED BY <1>2, <1>4, <1>7, <1>8, <1>9, <1>10, <1>12, CloseStep, Zenon DEF r, rp

(* closeInternal inside close(). *)
LEMMA CloseInternalKeeps ==
  ASSUME Inv, NEW s \in Socks, CloseInternal(s)
  PROVE  Inv'
<1> DEFINE r == sock[s]
           rp == sock'[s]
<1>1. SockOk(r, closer[s], acceptor[s], forced) /\ Maps /\ IsRec(r)
  BY DEF Inv, SocksOk, SockOk
<1>2. /\ closer[s] = "internal" /\ closer'[s] = "unlocked" /\ acceptor' = acceptor
      /\ UNCHANGED <<conn, gc, forced, env>> /\ mux' = removeListener({s})
  BY <1>1 DEF CloseInternal, Maps, Map
<1>3. rp = closeInternal(r)
  BY <1>1, Zenon DEF CloseInternal, Maps, Map
<1>4. Only(s)
  BY <1>1, Zenon DEF CloseInternal, Only, Maps, Map
<1>5. Shuts(r, rp)
  BY <1>1, <1>3, CloseInternalShuts
<1> HIDE DEF r, rp
<1>6. /\ rp.at = r.at /\ rp.st = r.st /\ rp.age = r.age /\ rp.lsn = r.lsn
      /\ rp.queue = r.queue /\ rp.mux = r.mux /\ rp.given = r.given /\ rp.ready = r.ready
      /\ rp.onRcv = r.onRcv /\ rp.used = r.used /\ rp.broken = r.broken
      /\ rp.connecting = r.connecting /\ IsRec(rp)
  BY <1>5, SMTT(20) DEF Shuts, Same, SockFields, CloseFields
<1>7. SockOk(rp, closer'[s], acceptor'[s], forced)
  BY <1>1, <1>2, <1>5, <1>6, SMTT(20) DEF SockOk, Shuts, Typed, Local, Fresh, Unset
<1>8. Closed(r, rp)
  BY <1>6 DEF Closed
<1>9. EndsConn(s) /\ LeavesClose
  <2>1. r.given
    BY <1>1, <1>2, SMTT(20) DEF SockOk, Local
  <2> QED BY <1>2, <2>1 DEF EndsConn, LeavesClose, r
<1>10. /\ MuxOk' /\ SameRefs
       /\ \A m \in Socks : mux'[m].listener =
              IF mux[m].listener \in {s} /\ sock[mux[m].listener].listening
              THEN None ELSE mux[m].listener
  BY <1>2, ListenersRemoved, Zenon DEF Inv
<1>11. \A m \in Socks : mux[m].listener = s => r.listening
  BY IdsAssumption DEF Inv, ListenerOk, r, Socks, None
<1>12. \A m \in Socks : mux'[m].listener # None =>
           /\ mux'[m].listener = mux[m].listener
           /\ mux'[m].listener = s => sock'[s].listening = sock[s].listening
  BY <1>10, <1>11 DEF r
<1> QED BY <1>2, <1>4, <1>7, <1>8, <1>9, <1>10, <1>12, CloseStep, Zenon DEF r, rp

(* close() moves the socket to m_ClosedSockets. *)
LEMMA MoveToClosedKeeps ==
  ASSUME Inv, NEW s \in Socks, MoveToClosed(s)
  PROVE  Inv'
<1> DEFINE r == sock[s]
           rp == sock'[s]
<1>1. SockOk(r, closer[s], acceptor[s], forced) /\ Maps /\ IsRec(r)
  BY DEF Inv, SocksOk, SockOk
<1>2. /\ closer[s] = "unlocked" /\ closer'[s] = "idle" /\ acceptor' = acceptor
      /\ UNCHANGED <<conn, gc, forced, env, mux>>
  BY <1>1 DEF MoveToClosed, Maps, Map
<1>3. \/ rp = r
      \/ rp = [[r EXCEPT !.st = "CLOSED", !.age = 0] EXCEPT !.at = "closed"] /\ r.at = "open"
  BY <1>1, Zenon DEF MoveToClosed, Maps, Map, setClosed, Open
<1>4. Only(s)
  BY <1>1, Zenon DEF MoveToClosed, Only, Maps, Map
<1> HIDE DEF r, rp
<1>5. /\ Same(r, rp, {"st", "age", "at"})
      /\ rp = r \/ (rp.st = "CLOSED" /\ rp.age = 0 /\ rp.at = "closed" /\ r.at = "open")
  <2>1. CASE rp = r
    BY <1>1, <2>1, Zenon DEF Same
  <2>2. CASE rp = [[r EXCEPT !.st = "CLOSED", !.age = 0] EXCEPT !.at = "closed"] /\ r.at = "open"
    <3>1. Same(r, rp, {"st", "age", "at"})
      BY <1>1, <2>2, Zenon DEF Same, IsRec, SockFields
    <3>2. rp.st = "CLOSED" /\ rp.age = 0 /\ rp.at = "closed"
      BY <1>1, <2>2 DEF IsRec, SockFields
    <3> QED BY <2>2, <3>1, <3>2
  <2> QED BY <1>3, <2>1, <2>2
<1>6. /\ rp.lsn = r.lsn /\ rp.queue = r.queue /\ rp.mux = r.mux /\ rp.given = r.given
      /\ rp.ready = r.ready /\ rp.onRcv = r.onRcv /\ rp.onSnd = r.onSnd /\ rp.used = r.used
      /\ rp.broken = r.broken /\ rp.connecting = r.connecting /\ rp.connected = r.connected
      /\ rp.listening = r.listening /\ IsRec(rp)
  BY <1>5 DEF Same, SockFields
<1>7. r.given /\ r.st \notin Unset
  BY <1>1, <1>2, SMTT(20) DEF SockOk, Local
<1>8. SockOk(rp, closer'[s], acceptor'[s], forced)
  BY <1>1, <1>2, <1>5, <1>6, <1>7 DEF SockOk, Typed, Local, Fresh, Unset
<1>9. Closed(r, rp)
  BY <1>5, <1>6 DEF Closed
<1>10. EndsConn(s) /\ LeavesClose
  BY <1>2, <1>7 DEF EndsConn, LeavesClose, r
<1>11. MuxOk' /\ SameRefs
  BY <1>2 DEF Inv, MuxOk, Map, IsMux, SameRefs
<1>12. \A m \in Socks : mux'[m].listener # None =>
           /\ mux'[m].listener = mux[m].listener
           /\ mux'[m].listener = s => sock'[s].listening = sock[s].listening
  BY <1>2, <1>6 DEF r, rp
<1> QED BY <1>2, <1>4, <1>8, <1>9, <1>10, <1>11, <1>12, CloseStep DEF r, rp

(* closeInternal called by the collector. *)
LEMMA GcCloseInternalKeeps ==
  ASSUME Inv, GcCloseInternal
  PROVE  Inv'
<1> DEFINE s == gc.cur
           r == sock[s]
           rp == sock'[s]
<1>1. gc.pc = "unlocked" /\ s \in Socks /\ r.at = "removing"
  BY DEF Inv, GcOk, GcCloseInternal
<1>2. SockOk(r, closer[s], acceptor[s], forced) /\ Maps /\ IsRec(r)
  BY <1>1 DEF Inv, SocksOk, SockOk
<1>3. /\ closer' = closer /\ acceptor' = acceptor /\ UNCHANGED <<conn, forced, env>>
      /\ mux' = removeListener({s}) /\ gc' = [gc EXCEPT !.pc = "reenter"]
  BY DEF GcCloseInternal
<1>4. rp = closeInternal(r)
  BY <1>1, <1>2, Zenon DEF GcCloseInternal, Maps, Map
<1>5. Only(s)
  BY <1>1, <1>2, Zenon DEF GcCloseInternal, Only, Maps, Map
<1>6. Shuts(r, rp)
  BY <1>2, <1>4, CloseInternalShuts
<1> HIDE DEF r, rp
<1>7. /\ rp.at = r.at /\ rp.st = r.st /\ rp.age = r.age /\ rp.lsn = r.lsn
      /\ rp.queue = r.queue /\ rp.mux = r.mux /\ rp.given = r.given /\ rp.ready = r.ready
      /\ rp.onRcv = r.onRcv /\ rp.used = r.used /\ rp.broken = r.broken
      /\ rp.connecting = r.connecting /\ IsRec(rp)
  BY <1>6 DEF Shuts, Same, SockFields, CloseFields
<1>8. SockOk(rp, closer'[s], acceptor'[s], forced)
  BY <1>2, <1>3, <1>6, <1>7 DEF SockOk, Shuts, Typed, Local, Fresh, Unset
<1>9. Closed(r, rp)
  BY <1>7 DEF Closed
<1>10. /\ MuxOk' /\ SameRefs
       /\ \A m \in Socks : mux'[m].listener =
              IF mux[m].listener \in {s} /\ sock[mux[m].listener].listening
              THEN None ELSE mux[m].listener
  BY <1>1, <1>3, ListenersRemoved, Zenon DEF Inv
<1>11. \A m \in Socks : mux[m].listener = s => r.listening
  BY <1>1, IdsAssumption DEF Inv, ListenerOk, r, Socks, None
<1>12. \A m \in Socks : mux'[m].listener # s
  BY <1>1, <1>10, <1>11, IdsAssumption DEF r, Socks, None
<1>13. EndsConn(s) /\ LeavesClose
  BY <1>1, <1>3, <1>12, Zenon DEF EndsConn, LeavesClose, r
<1>14. \A m \in Socks : mux'[m].listener # None =>
           /\ mux'[m].listener = mux[m].listener
           /\ mux'[m].listener = s => sock'[s].listening = sock[s].listening
  BY <1>10, <1>12
<1> HIDE DEF s
<1> QED BY <1>1, <1>3, <1>5, <1>8, <1>9, <1>10, <1>13, <1>14, CloseStep, Zenon DEF r, rp

-----------------------------------------------------------------------------
(* Steps that keep every socket where it is *)

(* What the multiplexers and the collector know of a socket; the age of a   *)
(* closed one only while the collector has chosen sockets to remove.        *)
Alike(r, rp) ==
  /\ rp.at = r.at /\ rp.lsn = r.lsn /\ rp.mux = r.mux /\ rp.listening = r.listening
  /\ gc.tbr # {} => rp.age = r.age

(* Such a step leaves these parts of the invariant alone. *)
LEMMA AlikeKeeps ==
  ASSUME Inv, \A x \in Socks : Alike(sock[x], sock'[x]), UNCHANGED <<mux, gc>>
  PROVE  GcOk' /\ ListenerOk' /\ MuxOk' /\ RefsOk'
<1>1. GcOk'
  <2>1. \A u \in gc.tbr : sock'[u].at = "closed" /\ sock'[u].age # 0
    BY DEF Inv, GcOk, Alike
  <2> QED BY <2>1 DEF Inv, GcOk, Alike
<1>2. ListenerOk'
  BY DEF Inv, ListenerOk, Exists, Alike
<1>3. MuxOk' /\ SameRefs
  BY DEF Inv, MuxOk, Map, IsMux, SameRefs
<1>4. RefsOk'
  <2>1. \A x \in Socks : SameUser(sock[x], sock'[x])
    BY DEF Alike, SameUser
  <2> QED BY <1>3, <2>1, RefsStay DEF Inv
<1> QED BY <1>1, <1>2, <1>3, <1>4

(* The ACCEPT event of the queued connection. *)
LEMMA AnnounceKeeps ==
  ASSUME Inv, AnnounceConnection
  PROVE  Inv'
<1> DEFINE l == conn.l
           r == sock[l]
           rp == sock'[l]
<1>1. conn.pc = "queued" /\ l \in Socks
  BY DEF Inv, ConnOk, AnnounceConnection, Socks
<1>2. SockOk(r, closer[l], acceptor[l], forced) /\ Maps /\ IsRec(r)
  BY <1>1 DEF Inv, SocksOk, SockOk
<1>3. /\ closer' = closer /\ UNCHANGED <<mux, gc, forced, env>>
      /\ conn' = [l |-> None, s |-> None, pc |-> "idle"]
      /\ acceptor'[l] = IF acceptor[l] = "waiting" THEN "woken" ELSE acceptor[l]
  BY <1>1, <1>2 DEF AnnounceConnection, Maps, Map
<1>4. rp = [r EXCEPT !.ready = TRUE]
  BY <1>1, <1>2 DEF AnnounceConnection, Maps, Map
<1>5. Only(l)
  BY <1>1, <1>2, Zenon DEF AnnounceConnection, Only, Maps, Map
<1> HIDE DEF r, rp
<1>6. Same(r, rp, {"ready"})
  BY <1>2, <1>4, Zenon DEF Same, IsRec, SockFields
<1>7. rp.ready = TRUE
  BY <1>2, <1>4, SMTT(20) DEF IsRec, SockFields
<1>8. SockOk(rp, closer'[l], acceptor'[l], forced)
  BY <1>2, <1>3, <1>6, SMTT(20) DEF SockOk, Same, SockFields, Typed, Local, Fresh, Unset
<1>9. \A x \in Socks : /\ Alike(sock[x], sock'[x]) /\ sock'[x].queue = sock[x].queue
                       /\ sock'[x].given = sock[x].given /\ sock'[x].st = sock[x].st
                       /\ x # l => sock'[x].ready = sock[x].ready
  BY <1>5, <1>6, SMTT(20) DEF Only, Alike, Same, SockFields, r, rp
<1>10. GcOk' /\ ListenerOk' /\ MuxOk' /\ RefsOk'
  BY <1>3, <1>9, AlikeKeeps, ZenonT(30)
<1>11. Maps' /\ SocksOk'
  BY <1>1, <1>3, <1>5, <1>8, OneSockOk DEF rp
<1>12. ConnOk'
  BY <1>3 DEF ConnOk
<1>13. QueueOk'
  <2>1. \A k \in Socks : \A q \in sock[k].queue : q \in Socks
    BY DEF Inv, SocksOk, SockOk, Typed, Socks
  <2> QED BY <1>3, <1>9, <2>1 DEF Inv, QueueOk, Alike
<1>14. ReadyOk'
  BY <1>7, <1>9, SMTT(20) DEF Inv, ReadyOk, Exists, Alike, rp
<1> QED BY <1>10, <1>11, <1>12, <1>13, <1>14 DEF Inv

(* The new socket is connected and enters the queue of its listener. *)
LEMMA ConnectionKeeps ==
  ASSUME Inv, Connection
  PROVE  Inv'
<1> DEFINE l == conn.l
           s == conn.s
           r == sock[s]
           rp == sock'[s]
           t == sock[l]
           tp == sock'[l]
<1>1. /\ conn.pc = "made" /\ l \in Socks /\ s \in Socks /\ s \in PeerSocks /\ l # s
      /\ ~r.given /\ r.lsn = l /\ Fresh(r) /\ (~forced => r.at = "open")
  BY IdsAssumption, SMTT(20) DEF Inv, ConnOk, Connection, Socks
<1>2. /\ SockOk(r, closer[s], acceptor[s], forced) /\ Maps /\ IsRec(r)
      /\ SockOk(t, closer[l], acceptor[l], forced) /\ IsRec(t)
  BY <1>1 DEF Inv, SocksOk, SockOk
<1>3. /\ closer' = closer /\ acceptor' = acceptor /\ UNCHANGED <<mux, gc, forced, env>>
      /\ conn' = [conn EXCEPT !.pc = "queued"]
  BY DEF Connection
<1>4. rp = [r EXCEPT !.st = "CONNECTED", !.connected = TRUE, !.onRcv = TRUE]
  BY <1>1, <1>2, Zenon DEF Connection, Maps, Map
<1>5. tp = [t EXCEPT !.queue = @ \cup {s}]
  BY <1>1, <1>2, ZenonT(20) DEF Connection, Maps, Map
<1>6. Maps' /\ \A x \in Socks \ {s, l} : sock'[x] = sock[x]
  BY <1>1, <1>2, Zenon DEF Connection, Maps, Map
<1>7. conn' = [l |-> l, s |-> s, pc |-> "queued"]
  BY <1>3 DEF Inv, ConnOk
<1> HIDE DEF r, rp, t, tp
<1>8. Same(r, rp, {"st", "connected", "onRcv"}) /\ Same(t, tp, {"queue"})
  BY <1>2, <1>4, <1>5, Zenon DEF Same, IsRec, SockFields
<1>9. rp.st = "CONNECTED" /\ tp.queue = t.queue \cup {s}
  BY <1>2, <1>4, <1>5 DEF IsRec, SockFields
<1>10. SockOk(rp, closer'[s], acceptor'[s], forced)
  BY <1>1, <1>2, <1>3, <1>8, <1>9 DEF SockOk, Same, SockFields, Typed, Local, Fresh, Unset
<1>11. SockOk(tp, closer'[l], acceptor'[l], forced)
  <2>1. tp.at # "free"
    BY <1>1, <1>8, SMTT(20) DEF Inv, ConnOk, Fresh, Same, SockFields, t
  <2> QED BY <1>1, <1>2, <1>3, <1>8, <1>9, <2>1
          DEF SockOk, Same, SockFields, Typed, Local, Fresh, Unset
<1>12. \A x \in Socks : /\ Alike(sock[x], sock'[x]) /\ sock'[x].age = sock[x].age
                        /\ x # l => sock'[x].queue = sock[x].queue
                        /\ sock'[x].given = sock[x].given /\ sock'[x].ready = sock[x].ready
                        /\ x # s => sock'[x].st = sock[x].st
  BY <1>6, <1>8 DEF Alike, Same, SockFields, r, rp, t, tp
<1>13. GcOk' /\ ListenerOk' /\ MuxOk' /\ RefsOk'
  BY <1>3, <1>12, AlikeKeeps
<1>14. SocksOk'
  BY <1>3, <1>6, <1>10, <1>11 DEF Inv, SocksOk, rp, tp
<1>15. ConnOk'
  <2>1. \A x \in Socks : Fresh(sock[x]) => Fresh(sock'[x])
    BY <1>12 DEF Fresh, Alike
  <2> QED BY <1>1, <1>7, <2>1 DEF Inv, ConnOk
<1>16. QueueOk'
  <2>1. SUFFICES ASSUME NEW k \in Socks, NEW q \in sock'[k].queue
                 PROVE  /\ sock'[q].at # "free" /\ ~(conn'.pc = "made" /\ conn'.s = q)
                        /\ ~forced /\ sock'[k].at \in {"open", "closed"} =>
                             /\ sock'[q].at = "open" /\ sock'[q].lsn = k
                             /\ ~sock'[q].given /\ sock'[q].st # "INIT"
    BY <1>3 DEF QueueOk
  <2>2. CASE q = s /\ k = l
    BY <1>1, <1>7, <1>8, <1>9, <2>2, SMTT(20) DEF Fresh, Same, SockFields, rp
  <2>3. CASE q \in sock[k].queue
    <3>1. q \in Socks
      BY <2>3 DEF Inv, SocksOk, SockOk, Typed, Socks
    <3>2. q # s
      BY <1>1, <2>3, SMTT(20) DEF Inv, QueueOk
    <3> QED BY <1>7, <1>12, <2>3, <3>1, <3>2, SMTT(20) DEF Inv, QueueOk, Alike
  <2> QED BY <1>9, <1>12, <2>1, <2>2, <2>3 DEF t, tp
<1>17. ReadyOk'
  BY <1>1, <1>7, <1>12 DEF Inv, ReadyOk, Exists, Alike
<1> QED BY <1>6, <1>13, <1>14, <1>15, <1>16, <1>17 DEF Inv

(* Time passes only when every running thread has finished its step. *)
LEMMA SecondsPassKeeps ==
  ASSUME Inv, SecondsPass
  PROVE  Inv'
<1>1. /\ closer' = closer /\ acceptor' = acceptor /\ UNCHANGED <<mux, conn, gc, forced, env>>
      /\ sock' = [s \in Socks |-> IF Ages(s) THEN [sock[s] EXCEPT !.age = @ + 1] ELSE sock[s]]
      /\ Prompt
  BY DEF SecondsPass
<1>2. ConnOk /\ GcOk /\ conn.pc = "idle" /\ gc.tbr = {}
  BY <1>1 DEF Inv, GcOk, Prompt
<1>3. Maps'
  BY <1>1, Zenon DEF Inv, Maps, Map
<1>4. ASSUME NEW s \in Socks
      PROVE  /\ Same(sock[s], sock'[s], {"age"})
             /\ SockOk(sock'[s], closer'[s], acceptor'[s], forced)
  <2> DEFINE r == sock[s]
             rp == sock'[s]
  <2>1. SockOk(r, closer[s], acceptor[s], forced) /\ IsRec(r)
    BY DEF Inv, SocksOk, SockOk
  <2>2. /\ rp = r \/ (Ages(s) /\ rp = [r EXCEPT !.age = @ + 1])
        /\ closer[s] \in {"idle", "internal"} /\ acceptor[s] \in {"idle", "waiting"}
    BY <1>1, Zenon DEF Prompt
  <2>3. Ages(s) => r.at = "closed" \/ (r.at = "open" /\ r.broken /\ r.st = "LISTENING")
    BY DEF Ages, Open
  <2> HIDE DEF r, rp
  <2>4. CASE rp = r
    BY <1>1, <2>1, <2>4, Zenon DEF Same, r, rp
  <2>5. CASE Ages(s) /\ rp = [r EXCEPT !.age = @ + 1]
    <3>1. Same(r, rp, {"age"})
      BY <2>1, <2>5, Zenon DEF Same, IsRec, SockFields
    <3>2. rp.age = r.age + 1
      BY <2>1, <2>5 DEF IsRec, SockFields
    <3>3. SockOk(rp, closer'[s], acceptor'[s], forced)
      BY <1>1, <2>1, <2>2, <2>3, <2>5, <3>1, <3>2
    , SMTT(20) DEF SockOk, Same, SockFields, Typed, Local, Fresh, Unset
    <3> QED BY <3>1, <3>3 DEF r, rp
  <2> QED BY <2>2, <2>4, <2>5
<1>5. \A x \in Socks : /\ Alike(sock[x], sock'[x]) /\ sock'[x].queue = sock[x].queue
                       /\ sock'[x].given = sock[x].given /\ sock'[x].st = sock[x].st
                       /\ sock'[x].ready = sock[x].ready
  BY <1>2, <1>4 DEF Alike, Same, SockFields
<1>6. GcOk' /\ ListenerOk' /\ MuxOk' /\ RefsOk'
  BY <1>1, <1>5, AlikeKeeps
<1>7. SocksOk'
  BY <1>1, <1>4 DEF SocksOk
<1>8. ConnOk'
  BY <1>1, <1>2 DEF ConnOk
<1>9. QueueOk'
  <2>1. \A k \in Socks : \A q \in sock[k].queue : q \in Socks
    BY DEF Inv, SocksOk, SockOk, Typed, Socks
  <2> QED BY <1>1, <1>5, <2>1 DEF Inv, QueueOk, Alike
<1>10. ReadyOk'
  BY <1>1, <1>5 DEF Inv, ReadyOk, Exists, Alike
<1> QED BY <1>3, <1>6, <1>7, <1>8, <1>9, <1>10 DEF Inv

(* cleanup() is called when no API call is under way. *)
LEMMA CleanupKeeps ==
  ASSUME Inv, cleanup
  PROVE  Inv'
<1>1. /\ UNCHANGED <<sock, mux, closer, acceptor, conn, gc, env>> /\ ~forced /\ forced' = TRUE
      /\ \A s \in Socks : ~sock[s].used /\ closer[s] = "idle" /\ acceptor[s] = "idle"
  BY DEF cleanup, isStillBusy
<1>2. SocksOk'
  <2>1. \A x \in Socks : SockOk(sock[x], closer[x], acceptor[x], TRUE)
    BY <1>1, Zenon DEF Inv, SocksOk, SockOk, Local
  <2> QED BY <1>1, <2>1, Zenon DEF SocksOk
<1>3. Maps' /\ ReadyOk' /\ GcOk' /\ ListenerOk' /\ MuxOk'
  BY <1>1, ZenonT(30) DEF Inv, Maps, Map, ReadyOk, GcOk, ListenerOk, MuxOk, Exists
<1>4. ConnOk'
  BY <1>1 DEF Inv, ConnOk
<1>5. QueueOk'
  BY <1>1 DEF Inv, QueueOk
<1>6. RefsOk'
  BY <1>1 DEF Inv, RefsOk, Users, Exists
<1> QED BY <1>2, <1>3, <1>4, <1>5, <1>6 DEF Inv

-----------------------------------------------------------------------------
(* The collector *)

SweepFields ==
  {"queue", "broken", "inbuf", "wait", "at", "st", "age", "linger", "closing"}

(* What a pass over both lists makes of a socket. *)
Swept(s, rp) ==
  LET r == sock[s] IN
  /\ Same(r, rp, SweepFields)
  /\ rp.queue = IF r.at \in {"open", "closed"} THEN r.queue \ ToClose ELSE r.queue
  /\ rp.broken <=> r.broken \/ (forced /\ r.at = "open")
  /\ s \in ToClose => rp.at = "closed" /\ rp.st = "CLOSED" /\ rp.age = 0
  /\ s \notin ToClose => /\ rp.at = r.at /\ rp.st = r.st
                         /\ rp.age = r.age \/ (r.at = "closed" /\ rp.age = 0)

(* The first loop of checkBrokenSockets. *)
LEMMA CloseBrokenSweeps ==
  ASSUME Inv, NEW s \in Socks
  PROVE  Swept(s, CloseBroken[s]) /\ (s \notin ToClose => CloseBroken[s].age = sock[s].age)
<1> DEFINE r == sock[s]
           f == forced /\ Open(s)
           w == IF Open(s) /\ r.broken /\ GraceData(s) THEN r.wait - 1 ELSE r.wait
           q == IF r.at \in {"open", "closed"} THEN r.queue \ ToClose ELSE r.queue
           k == [r EXCEPT !.queue = q, !.broken = r.broken \/ f, !.inbuf = r.inbuf /\ ~f,
                          !.wait = w]
           c == [[k EXCEPT !.st = "CLOSED", !.age = 0] EXCEPT !.at = "closed"]
           d == CloseBroken[s]
<1>1. IsRec(r)
  BY DEF Inv, SocksOk, SockOk
<1>2. d = IF s \in ToClose THEN c ELSE k
  BY Zenon DEF CloseBroken, setClosed
<1>3. f <=> forced /\ r.at = "open"
  BY DEF Open
<1>q. q = IF r.at \in {"open", "closed"} THEN r.queue \ ToClose ELSE r.queue
  OBVIOUS
<1> HIDE DEF r, f, w, q
<1>4. Same(r, k, SweepFields) /\ k.queue = q /\ k.broken = (r.broken \/ f) /\ k.at = r.at
      /\ k.st = r.st /\ k.age = r.age /\ IsRec(k)
  <2>1. Same(r, k, {"queue", "broken", "inbuf", "wait"})
    BY <1>1, Zenon DEF Same, IsRec, SockFields
  <2>2. k.queue = q /\ k.broken = (r.broken \/ f)
    BY <1>1, Zenon DEF IsRec, SockFields
  <2> HIDE DEF k
  <2>3. Same(r, k, SweepFields) /\ k.at = r.at /\ k.st = r.st /\ k.age = r.age /\ IsRec(k)
    BY <2>1 DEF Same, SockFields, SweepFields
  <2> QED BY <2>2, <2>3
<1> HIDE DEF k
<1>5. Same(r, c, SweepFields) /\ c.queue = q /\ c.broken = k.broken
      /\ c.at = "closed" /\ c.st = "CLOSED" /\ c.age = 0
  <2>1. Same(k, c, {"st", "age", "at"})
    BY <1>4, Zenon DEF Same, IsRec, SockFields
  <2>2. c.at = "closed" /\ c.st = "CLOSED" /\ c.age = 0
    BY <1>4 DEF IsRec, SockFields
  <2> HIDE DEF c
  <2>3. Same(r, c, SweepFields) /\ c.queue = q /\ c.broken = k.broken
    BY <1>4, <2>1 DEF Same, SockFields, SweepFields
  <2> QED BY <2>2, <2>3
<1> HIDE DEF c, d
<1>6. d.broken <=> r.broken \/ (forced /\ r.at = "open")
  BY <1>2, <1>3, <1>4, <1>5, Zenon
<1>7. /\ Same(r, d, SweepFields) /\ d.queue = q
      /\ s \in ToClose => d.at = "closed" /\ d.st = "CLOSED" /\ d.age = 0
      /\ s \notin ToClose => d.at = r.at /\ d.st = r.st /\ d.age = r.age
  BY <1>2, <1>4, <1>5, Zenon
<1> QED BY <1>6, <1>7, <1>q, Zenon DEF Swept, r, d

(* Both loops. *)
LEMMA CheckBrokenSweeps ==
  ASSUME Inv, NEW s \in Socks, checkBrokenSockets
  PROVE  Swept(s, sock'[s])
<1> DEFINE d == CloseBroken[s]
           rp == sock'[s]
           e == [d EXCEPT !.linger = "zero", !.closing = TRUE, !.age = 0]
<1>1. Swept(s, d) /\ (s \notin ToClose => d.age = sock[s].age)
  BY CloseBrokenSweeps
<1>2. rp = d \/ (d.at = "closed" /\ rp = e)
  BY Zenon DEF checkBrokenSockets, EndLinger
<1> HIDE DEF d, rp
<1>3. IsRec(d)
  BY <1>1 DEF Swept, Same
<1>4. Same(d, e, {"linger", "closing", "age"})
  BY <1>3, Zenon DEF Same, IsRec, SockFields
<1>5. e.age = 0
  BY <1>3 DEF IsRec, SockFields
<1> HIDE DEF e
<1>6. Same(sock[s], e, SweepFields) /\ e.queue = d.queue /\ e.broken = d.broken
      /\ e.at = d.at /\ e.st = d.st
  BY <1>1, <1>4 DEF Swept, Same, SockFields, SweepFields
<1>7. CASE rp = d
  BY <1>1, <1>7 DEF rp
<1>8. CASE d.at = "closed" /\ rp = e
  BY <1>1, <1>5, <1>6, <1>8, Zenon DEF Swept, rp
<1> QED BY <1>2, <1>7, <1>8

(* checkBrokenSockets: a broken socket leaves m_Sockets and the queue of    *)
(* its listener at once, and only sockets closed for a second are chosen.   *)
LEMMA CheckBrokenKeeps ==
  ASSUME Inv, checkBrokenSockets
  PROVE  Inv'
<1>1. /\ closer' = closer /\ acceptor' = acceptor /\ UNCHANGED <<mux, conn, forced, env>>
      /\ gc.pc = "idle"
  BY DEF checkBrokenSockets
<1>2. PICK T \in SUBSET Socks :
        /\ \A x \in T : sock'[x].at = "closed" /\ sock'[x].age >= 1
        /\ gc' = [gc EXCEPT !.pc = IF T = {} THEN "idle" ELSE "locked", !.tbr = T]
  BY Zenon DEF checkBrokenSockets
<1>3. Maps'
  <2>1. sock' = [x \in Socks |-> sock'[x]]
    BY Zenon DEF checkBrokenSockets
  <2> QED BY <1>1, <2>1, Zenon DEF Inv, Maps, Map
<1>4. \A x \in Socks : Swept(x, sock'[x])
  BY CheckBrokenSweeps
<1>5. \A x \in Socks : /\ sock'[x].lsn = sock[x].lsn /\ sock'[x].mux = sock[x].mux
                       /\ sock'[x].listening = sock[x].listening
                       /\ sock'[x].given = sock[x].given /\ sock'[x].ready = sock[x].ready
                       /\ sock'[x].queue \subseteq sock[x].queue
                       /\ sock'[x].at = sock[x].at \/
                            (sock[x].at = "open" /\ sock'[x].at = "closed")
                       /\ Fresh(sock[x]) => Fresh(sock'[x])
  <2>1. SUFFICES ASSUME NEW x \in Socks
                 PROVE  /\ sock'[x].lsn = sock[x].lsn /\ sock'[x].mux = sock[x].mux
                        /\ sock'[x].listening = sock[x].listening
                        /\ sock'[x].given = sock[x].given /\ sock'[x].ready = sock[x].ready
                        /\ sock'[x].queue \subseteq sock[x].queue
                        /\ sock'[x].at = sock[x].at \/
                             (sock[x].at = "open" /\ sock'[x].at = "closed")
                        /\ Fresh(sock[x]) => Fresh(sock'[x])
    OBVIOUS
  <2> DEFINE r == sock[x]
             rp == sock'[x]
  <2>2. Same(r, rp, SweepFields)
    BY <1>4, Zenon DEF Swept
  <2>3. rp.queue \subseteq r.queue
    BY <1>4, Zenon DEF Swept
  <2>4. \/ r.at = "open" /\ rp.at = "closed" /\ rp.age = 0
        \/ rp.at = r.at /\ (rp.age = r.age \/ (r.at = "closed" /\ rp.age = 0))
    BY <1>4, Zenon DEF Swept, ToClose, Open
  <2> HIDE DEF r, rp
  <2>5. /\ rp.lsn = r.lsn /\ rp.mux = r.mux /\ rp.listening = r.listening
        /\ rp.given = r.given /\ rp.ready = r.ready
    BY <2>2 DEF Same, SockFields, SweepFields
  <2>6. Fresh(r) => Fresh(rp)
    BY <2>4 DEF Fresh
  <2> QED BY <2>3, <2>4, <2>5, <2>6 DEF r, rp
<1>6. SocksOk'
  <2>1. SUFFICES ASSUME NEW s \in Socks
                 PROVE  SockOk(sock'[s], closer[s], acceptor[s], forced)
    BY <1>1 DEF SocksOk
  <2> DEFINE r == sock[s]
             rp == sock'[s]
  <2>2. SockOk(r, closer[s], acceptor[s], forced)
    BY SMTT(20) DEF Inv, SocksOk
  <2>3. Same(r, rp, SweepFields) /\ Swept(s, rp)
    BY <1>4 DEF Swept
  <2>4. s \in ToClose => r.at = "open" /\ ~(~forced /\ r.st = "LISTENING" /\ r.age < 2)
                         /\ (forced \/ r.broken)
    BY SMTT(20) DEF ToClose, Open, GraceListener
  <2>5. rp.queue \subseteq r.queue /\ (r.at = "free" => rp.queue = r.queue)
    BY <1>5, <2>3, SMTT(20) DEF Swept, r
  <2>6. rp.broken <=> r.broken \/ (forced /\ r.at = "open")
    BY <2>3 DEF Swept, r
  <2>7. /\ s \in ToClose => rp.at = "closed" /\ rp.st = "CLOSED" /\ rp.age = 0
        /\ s \notin ToClose => /\ rp.at = r.at /\ rp.st = r.st
                               /\ rp.age = r.age \/ (r.at = "closed" /\ rp.age = 0)
    BY <2>3 DEF Swept, r
  <2> HIDE DEF r, rp
  <2>8. Typed(rp) /\ IsRec(rp)
    BY <2>2, <2>3, <2>5, <2>7 DEF SockOk, Typed, Same, SockFields, SweepFields
  <2>f. /\ rp.mux = r.mux /\ rp.listening = r.listening /\ rp.given = r.given
        /\ rp.onRcv = r.onRcv /\ rp.onSnd = r.onSnd /\ rp.used = r.used
        /\ rp.connecting = r.connecting /\ rp.connected = r.connected
    BY <2>3 DEF Same, SockFields, SweepFields
  <2>9. CASE s \in ToClose
    <3>1. acceptor[s] = "waiting" => closer[s] = "notify"
      BY <2>2, <2>4, <2>9 DEF SockOk, Local
    <3>2. rp.at = "closed" /\ rp.st = "CLOSED" /\ rp.age = 0
      BY <2>7, <2>9, SMTT(20)
    <3>3. Local(rp, closer[s], acceptor[s], forced)
      BY <2>2, <2>f, <3>1, <3>2, Zenon DEF SockOk, Local, Fresh, Unset
    <3> QED BY <2>8, <3>3, SMTT(20) DEF SockOk, rp
  <2>10. CASE s \notin ToClose
    <3>1. rp.at = r.at /\ rp.st = r.st /\ (rp.age = r.age \/ (r.at = "closed" /\ rp.age = 0))
      BY <2>7, <2>10, SMTT(20)
    <3>2. Fresh(r) => Fresh(rp)
      BY <3>1 DEF Fresh
    <3>3. ~forced => (rp.broken <=> r.broken)
      BY <2>6, SMTT(20)
    <3>4. Local(rp, closer[s], acceptor[s], forced)
      BY <2>2, <2>5, <2>f, <3>1, <3>2, <3>3, Zenon DEF SockOk, Local, Unset
    <3> QED BY <2>8, <3>4 DEF SockOk, rp
  <2> QED BY <2>9, <2>10 DEF rp
<1>7. ConnOk'
  <2>1. ConnOk /\ (conn.pc # "idle" => conn.l \in Socks /\ conn.s \in Socks)
    BY DEF Inv, ConnOk, Socks
  <2>2. ASSUME conn.pc = "made", ~forced
        PROVE  sock'[conn.s].at = "open" /\ sock'[conn.s].st = "INIT"
    <3>1. conn.s \in Socks /\ sock[conn.s].at = "open" /\ sock[conn.s].st = "INIT"
      BY <2>1, <2>2, SMTT(20) DEF ConnOk
    <3>2. ~sock[conn.s].broken
      BY <2>2, <3>1 DEF Inv, SocksOk, SockOk, Local
    <3>3. conn.s \notin ToClose
      BY <2>2, <3>2 DEF ToClose
    <3> QED BY <1>4, <3>1, <3>3, Zenon DEF Swept
  <2> QED BY <1>1, <1>5, <2>1, <2>2 DEF ConnOk
<1>8. QueueOk'
  <2>1. SUFFICES ASSUME NEW k \in Socks, NEW q \in sock'[k].queue
                 PROVE  /\ sock'[q].at # "free" /\ ~(conn.pc = "made" /\ conn.s = q)
                        /\ ~forced /\ sock'[k].at \in {"open", "closed"} =>
                             /\ sock'[q].at = "open" /\ sock'[q].lsn = k
                             /\ ~sock'[q].given /\ sock'[q].st # "INIT"
    BY <1>1 DEF QueueOk
  <2>2. q \in sock[k].queue
    BY <1>5
  <2>3. q \in Socks
    BY <2>2 DEF Inv, SocksOk, SockOk, Typed, Socks
  <2>4. /\ sock[q].at # "free" /\ ~(conn.pc = "made" /\ conn.s = q)
        /\ ~forced /\ sock[k].at \in {"open", "closed"} =>
             /\ sock[q].at = "open" /\ sock[q].lsn = k
             /\ ~sock[q].given /\ sock[q].st # "INIT"
    BY <2>2 DEF Inv, QueueOk
  <2>5. sock[k].at \in {"open", "closed"} => q \notin ToClose
    BY <1>4, <2>1, Zenon DEF Swept
  <2>6. q \notin ToClose => sock'[q].at = sock[q].at /\ sock'[q].st = sock[q].st
    BY <1>4, <2>3, Zenon DEF Swept
  <2>7. sock'[k].at \in {"open", "closed"} => sock[k].at \in {"open", "closed"}
    BY <1>5
  <2>8. sock'[q].at # "free" /\ sock'[q].lsn = sock[q].lsn /\ sock'[q].given = sock[q].given
    BY <1>5, <2>3, <2>4
  <2> QED BY <2>4, <2>5, <2>6, <2>7, <2>8, SMTT(20)
<1>9. ReadyOk'
  BY <1>1, <1>5 DEF Inv, ReadyOk, Exists
<1>10. GcOk'
  <2>1. gc' = [pc |-> IF T = {} THEN "idle" ELSE "locked", tbr |-> T, cur |-> gc.cur]
    <3>1. gc = [pc |-> gc.pc, tbr |-> gc.tbr, cur |-> gc.cur]
      BY DEF Inv, GcOk
    <3> QED BY <1>2, <3>1, Zenon
  <2>2. \A x \in T : sock'[x].age # 0
    BY <1>2, SMTT(20)
  <2> QED BY <1>2, <2>1, <2>2, Zenon DEF GcOk
<1>11. ListenerOk'
  BY <1>1, <1>5 DEF Inv, ListenerOk, Exists
<1>12. MuxOk' /\ SameRefs
  BY <1>1 DEF Inv, MuxOk, Map, IsMux, SameRefs
<1>13. RefsOk'
  <2>1. \A x \in Socks : SameUser(sock[x], sock'[x])
    BY <1>5 DEF SameUser
  <2> QED BY <1>12, <2>1, RefsStay, SMTT(20) DEF Inv
<1> QED BY <1>3, <1>6, <1>7, <1>8, <1>9, <1>10, <1>11, <1>12, <1>13 DEF Inv

BreakFields ==
  {"broken", "wait", "onSnd", "closing", "listening", "connected", "opened", "st", "age", "at"}

(* breakSocket_LOCKED and the move to m_ClosedSockets. *)
LEMMA BreakSocketCloses ==
  ASSUME NEW r, NEW rp, IsRec(r), rp = [breakSocket(r) EXCEPT !.at = "closed"]
  PROVE  /\ Same(r, rp, BreakFields)
         /\ rp.at = "closed" /\ rp.st = "CLOSED" /\ rp.age = 0
         /\ ~rp.listening /\ ~rp.connected
<1> DEFINE b == [r EXCEPT !.broken = TRUE, !.wait = 0]
           c == Shut(b)
           o == b.onSnd /\ ~b.connected
<1>1. Same(r, b, {"broken", "wait"})
  BY Zenon DEF Same, IsRec, SockFields
<1> HIDE DEF b
<1>2. c = [b EXCEPT !.onSnd = o, !.closing = TRUE, !.listening = FALSE,
                    !.connected = FALSE, !.opened = FALSE]
  BY DEF Shut
<1> HIDE DEF c, o
<1>3. Same(b, c, {"onSnd", "closing", "listening", "connected", "opened"})
  BY <1>1, <1>2, ZenonT(30) DEF Same, IsRec, SockFields
<1>4. c.listening = FALSE /\ c.connected = FALSE /\ IsRec(c)
  BY <1>1, <1>2, <1>3, Zenon DEF Same, IsRec, SockFields
<1>5. rp = [[c EXCEPT !.st = "CLOSED", !.age = 0] EXCEPT !.at = "closed"]
  BY DEF breakSocket, setClosed, b, c
<1>6. Same(c, rp, {"st", "age", "at"})
  BY <1>4, <1>5, ZenonT(30) DEF Same, IsRec, SockFields
<1>7. rp.at = "closed" /\ rp.st = "CLOSED" /\ rp.age = 0
  BY <1>4, <1>5, Zenon DEF IsRec, SockFields
<1>8. Same(r, rp, BreakFields) /\ rp.listening = c.listening /\ rp.connected = c.connected
  BY <1>1, <1>3, <1>6, Zenon DEF Same, SockFields, BreakFields
<1> QED BY <1>4, <1>7, <1>8

(* removeSocket takes a socket nobody refers to out of m_ClosedSockets, and *)
(* closes what is left in its queue; one still in use is left for later.    *)
LEMMA RemoveSocketKeeps ==
  ASSUME Inv, NEW u \in Socks, removeSocket(u)
  PROVE  Inv'
<1>1. /\ closer' = closer /\ acceptor' = acceptor /\ UNCHANGED <<conn, forced, env>>
      /\ gc.pc = "locked" /\ u \in gc.tbr
  BY DEF removeSocket
<1>2. /\ sock[u].at = "closed" /\ sock[u].age # 0 /\ Maps
      /\ gc = [pc |-> gc.pc, tbr |-> gc.tbr, cur |-> gc.cur] /\ gc.tbr \subseteq Socks
      /\ \A x \in gc.tbr : sock[x].at = "closed" /\ sock[x].age # 0
  BY <1>1 DEF Inv, GcOk
<1>3. CASE InUse(u)
  <2>1. /\ UNCHANGED <<sock, mux>>
        /\ gc' = [gc EXCEPT !.tbr = @ \ {u},
                            !.pc = IF gc.tbr = {u} THEN "idle" ELSE "locked"]
    BY <1>3 DEF removeSocket
  <2>2. gc' = [pc |-> IF gc.tbr = {u} THEN "idle" ELSE "locked", tbr |-> gc.tbr \ {u},
               cur |-> gc.cur]
    BY <1>2, <2>1, Zenon
  <2>3. GcOk'
    BY <1>2, <2>1, <2>2, ZenonT(30) DEF GcOk
  <2>4. Maps' /\ SocksOk'
    BY <1>1, <2>1, Zenon DEF Inv, Maps, Map, SocksOk
  <2>5. ConnOk'
    BY <1>1, <2>1, Zenon DEF Inv, ConnOk
  <2>6. QueueOk' /\ ReadyOk' /\ ListenerOk' /\ MuxOk'
    <3>1. QueueOk'
      BY <1>1, <2>1 DEF Inv, QueueOk
    <3>2. ReadyOk'
      BY <1>1, <2>1 DEF Inv, ReadyOk, Exists
    <3>3. ListenerOk' /\ MuxOk'
      BY <2>1, Zenon DEF Inv, ListenerOk, MuxOk, Map, Exists
    <3> QED BY <3>1, <3>2, <3>3
  <2>7. RefsOk'
    BY <2>1 DEF Inv, RefsOk, Users, Exists
  <2> QED BY <2>3, <2>4, <2>5, <2>6, <2>7 DEF Inv
<1>4. CASE ~InUse(u)
  <2> DEFINE left == {q \in sock[u].queue : Open(q)}
             g(s) == CASE s = u -> [sock[s] EXCEPT !.at = "removing"]
                       [] s \in left -> [breakSocket(sock[s]) EXCEPT !.at = "closed"]
                       [] OTHER -> sock[s]
  <2>1. /\ sock' = [s \in Socks |-> g(s)]
        /\ mux' = removeListener(left)
        /\ gc' = [gc EXCEPT !.tbr = @ \ {u}, !.cur = u, !.pc = "unlocked"]
    BY <1>4 DEF removeSocket
  <2>2. /\ left \subseteq Socks /\ u \notin left
        /\ \A q \in left : q \in sock[u].queue /\ sock[q].at = "open"
    BY <1>2 DEF Inv, SocksOk, SockOk, Typed, Socks, Open
  <2> HIDE DEF left
  <2>g. /\ g(u) = [sock[u] EXCEPT !.at = "removing"]
        /\ \A q \in left : g(q) = [breakSocket(sock[q]) EXCEPT !.at = "closed"]
        /\ \A x \in Socks \ (left \cup {u}) : g(x) = sock[x]
    BY <2>2, Zenon
  <2> HIDE DEF g
  <2>3. Maps'
    <3>1. sock' = [x \in Socks |-> sock'[x]]
      BY <2>1
    <3> QED BY <1>1, <1>2, <3>1, Zenon DEF Maps, Map
  <2>4. sock'[u] = [sock[u] EXCEPT !.at = "removing"]
    BY <2>1, <2>g
  <2>5. \A q \in left : sock'[q] = [breakSocket(sock[q]) EXCEPT !.at = "closed"]
    BY <2>1, <2>2, <2>g
  <2>6. \A x \in Socks \ (left \cup {u}) : sock'[x] = sock[x]
    BY <2>1, <2>2, <2>g
  <2>7. \A x \in Socks : SockOk(sock[x], closer[x], acceptor[x], forced) /\ IsRec(sock[x])
    BY DEF Inv, SocksOk, SockOk
  <2>8. Same(sock[u], sock'[u], {"at"}) /\ sock'[u].at = "removing"
    <3> DEFINE r == sock[u]
               rp == sock'[u]
    <3>1. IsRec(r)
      BY <2>7
    <3> HIDE DEF r
    <3>2. rp = [r EXCEPT !.at = "removing"]
      BY <2>4 DEF r
    <3> HIDE DEF rp
    <3>3. Same(r, rp, {"at"})
      BY <3>1, <3>2, Zenon DEF Same, IsRec, SockFields
    <3>4. rp.at = "removing"
      BY <3>1, <3>2, SMTT(20) DEF IsRec, SockFields
    <3> QED BY <3>3, <3>4 DEF r, rp
  <2>9. \A q \in left : /\ Same(sock[q], sock'[q], BreakFields)
                        /\ sock'[q].at = "closed" /\ sock'[q].st = "CLOSED"
                        /\ sock'[q].age = 0 /\ ~sock'[q].listening /\ ~sock'[q].connected
    <3>1. SUFFICES ASSUME NEW q \in left
                   PROVE  /\ Same(sock[q], sock'[q], BreakFields)
                          /\ sock'[q].at = "closed" /\ sock'[q].st = "CLOSED"
                          /\ sock'[q].age = 0 /\ ~sock'[q].listening /\ ~sock'[q].connected
      OBVIOUS
    <3> DEFINE r == sock[q]
               rp == sock'[q]
    <3>2. IsRec(r) /\ rp = [breakSocket(r) EXCEPT !.at = "closed"]
      BY <2>2, <2>5, <2>7
    <3> HIDE DEF r, rp
    <3>3. /\ Same(r, rp, BreakFields)
          /\ rp.at = "closed" /\ rp.st = "CLOSED" /\ rp.age = 0
          /\ ~rp.listening /\ ~rp.connected
      BY <3>2, BreakSocketCloses, Zenon
    <3> QED BY <3>3 DEF r, rp
  <2>10. \A x \in Socks : /\ sock'[x].lsn = sock[x].lsn /\ sock'[x].mux = sock[x].mux
                          /\ sock'[x].given = sock[x].given /\ sock'[x].ready = sock[x].ready
                          /\ sock'[x].queue = sock[x].queue
                          /\ sock'[x].used = sock[x].used /\ sock'[x].onRcv = sock[x].onRcv
                          /\ sock'[x].connecting = sock[x].connecting
                          /\ IsRec(sock'[x])
    <3>1. \A q \in left : /\ sock'[q].lsn = sock[q].lsn /\ sock'[q].mux = sock[q].mux
                          /\ sock'[q].given = sock[q].given /\ sock'[q].ready = sock[q].ready
                          /\ sock'[q].queue = sock[q].queue
                          /\ sock'[q].used = sock[q].used /\ sock'[q].onRcv = sock[q].onRcv
                          /\ sock'[q].connecting = sock[q].connecting
                          /\ IsRec(sock'[q])
      BY <2>9 DEF Same, SockFields, BreakFields
    <3>2. /\ sock'[u].lsn = sock[u].lsn /\ sock'[u].mux = sock[u].mux
          /\ sock'[u].given = sock[u].given /\ sock'[u].ready = sock[u].ready
          /\ sock'[u].queue = sock[u].queue
          /\ sock'[u].used = sock[u].used /\ sock'[u].onRcv = sock[u].onRcv
          /\ sock'[u].connecting = sock[u].connecting
          /\ IsRec(sock'[u])
      BY <2>8 DEF Same, SockFields
    <3> QED BY <2>6, <2>7, <3>1, <3>2, Zenon
  <2>11. /\ sock'[u].st = sock[u].st /\ sock'[u].listening = sock[u].listening
         /\ sock'[u].onSnd = sock[u].onSnd /\ sock'[u].connected = sock[u].connected
         /\ sock'[u].broken = sock[u].broken /\ sock'[u].age = sock[u].age
    BY <2>8, SMTT(20) DEF Same, SockFields
  <2>12. SocksOk'
    <3>1. SockOk(sock'[u], closer[u], acceptor[u], forced)
      <4>1. acceptor[u] = "idle"
        BY <1>2, <2>7 DEF SockOk, Local, Fresh
      <4>2. closer[u] = "idle" /\ ~sock[u].onRcv /\ ~sock[u].onSnd /\ ~sock[u].used
        BY <1>4 DEF InUse, isStillBusy
      <4>3. SockOk(sock[u], closer[u], acceptor[u], forced)
        BY <2>7
      <4>4. sock'[u].at = "removing"
        BY <2>8
      <4>5. Typed(sock'[u]) /\ IsRec(sock'[u])
        BY <2>10, <2>11, <4>3, SMTT(20) DEF SockOk, Typed
      <4>6. Local(sock'[u], closer[u], acceptor[u], forced)
        BY <1>2, <2>10, <2>11, <4>1, <4>2, <4>3, <4>4, SMTT(20) DEF SockOk, Local, Unset
      <4> QED BY <4>5, <4>6 DEF SockOk
    <3>2. ASSUME NEW q \in left
          PROVE  SockOk(sock'[q], closer[q], acceptor[q], forced)
      <4>1. SockOk(sock[q], closer[q], acceptor[q], forced) /\ q \in Socks
        BY <2>2, <2>7, SMTT(20)
      <4>2. closer[q] = "idle" /\ acceptor[q] = "idle" /\ ~sock[q].used
        <5>1. forced \/ ~sock[q].given
          BY <1>2, <2>2, SMTT(20) DEF Inv, QueueOk
        <5> QED BY <4>1, <5>1 DEF SockOk, Local
      <4>3. Typed(sock'[q]) /\ IsRec(sock'[q])
        <5>1. IsRec(sock'[q]) /\ sock'[q].queue = sock[q].queue /\ sock'[q].mux = sock[q].mux
          BY <2>10, <4>1, ZenonT(30)
        <5>2. sock'[q].age = 0
          BY <2>9, Zenon
        <5> QED BY <4>1, <5>1, <5>2, SMTT(20) DEF SockOk, Typed
      <4>4. ~sock'[q].used
        BY <2>10, <4>1, <4>2, SMTT(20)
      <4>5. Local(sock'[q], closer[q], acceptor[q], forced)
        BY <2>9, <4>2, <4>4 DEF Local, Unset
      <4> QED BY <4>3, <4>5, ZenonT(30) DEF SockOk
    <3> QED BY <1>1, <2>6, <2>7, <3>1, <3>2, SMTT(20) DEF SocksOk
  <2>13. ConnOk'
    <3>1. ConnOk /\ (conn.pc # "idle" => conn.l \in Socks /\ conn.s \in Socks)
      BY DEF Inv, ConnOk, Socks
    <3>2. \A x \in Socks : Fresh(sock[x]) => Fresh(sock'[x])
      BY <1>2, <2>6, <2>9, SMTT(20) DEF Fresh
    <3>3. conn.pc = "made" => conn.s # u
      BY <1>2, <3>1 DEF ConnOk, Fresh
    <3>4. conn.pc = "made" => conn.s \notin left
      BY <2>2 DEF Inv, QueueOk
    <3>5. conn.pc = "made" => sock'[conn.s] = sock[conn.s]
      BY <2>6, <3>1, <3>3, <3>4 DEF ConnOk
    <3> QED BY <1>1, <3>1, <3>2, <3>5, SMTT(20) DEF ConnOk
  <2>14. QueueOk'
    <3>1. SUFFICES ASSUME NEW k \in Socks, NEW q \in sock'[k].queue
                   PROVE  /\ sock'[q].at # "free" /\ ~(conn.pc = "made" /\ conn.s = q)
                          /\ ~forced /\ sock'[k].at \in {"open", "closed"} =>
                               /\ sock'[q].at = "open" /\ sock'[q].lsn = k
                               /\ ~sock'[q].given /\ sock'[q].st # "INIT"
      BY <1>1, SMTT(20) DEF QueueOk
    <3>2. q \in sock[k].queue /\ q \in Socks
      BY <2>10 DEF Inv, SocksOk, SockOk, Typed, Socks
    <3>3. /\ sock[q].at # "free" /\ ~(conn.pc = "made" /\ conn.s = q)
          /\ ~forced /\ sock[k].at \in {"open", "closed"} =>
               /\ sock[q].at = "open" /\ sock[q].lsn = k
               /\ ~sock[q].given /\ sock[q].st # "INIT"
      BY <3>2 DEF Inv, QueueOk
    <3>4. sock'[q].at # "free"
      BY <2>6, <2>8, <2>9, <3>2, <3>3
    <3>5. ASSUME ~forced, sock'[k].at \in {"open", "closed"}
          PROVE  sock'[q] = sock[q] /\ sock[k].at \in {"open", "closed"}
      <4>1. k # u /\ sock[k].at \in {"open", "closed"}
        BY <2>2, <2>6, <2>8, <3>5
      <4>2. sock[q].at = "open" /\ sock[q].lsn = k
        BY <3>3, <3>5, <4>1
      <4>3. q \in left => sock[q].lsn = u
        BY <1>2, <2>2, <3>5 DEF Inv, QueueOk
      <4>4. q \notin left /\ q # u
        BY <1>2, <4>1, <4>2, <4>3
      <4> QED BY <2>6, <3>2, <4>1, <4>4
    <3> QED BY <3>3, <3>4, <3>5
  <2>15. \A x \in Socks : SameUser(sock[x], sock'[x])
    <3>1. SameUser(sock[u], sock'[u])
      BY <1>2, <2>8, <2>10, SMTT(20) DEF SameUser
    <3>2. \A q \in left : SameUser(sock[q], sock'[q])
      BY <2>2, <2>9, <2>10, SMTT(20) DEF SameUser
    <3> QED BY <2>6, <3>1, <3>2 DEF SameUser
  <2>16. ReadyOk'
    BY <1>1, <2>10, <2>15 DEF Inv, ReadyOk, Exists, SameUser
  <2>17. GcOk'
    <3>1. gc' = [pc |-> "unlocked", tbr |-> gc.tbr \ {u}, cur |-> u]
      BY <1>2, <2>1, Zenon
    <3>2. \A x \in gc.tbr \ {u} : sock'[x] = sock[x]
      BY <1>2, <2>2, <2>6
    <3> QED BY <1>2, <2>8, <3>1, <3>2 DEF GcOk
  <2>18. /\ MuxOk' /\ SameRefs
         /\ \A m \in Socks : mux'[m].listener =
                IF mux[m].listener \in left /\ sock[mux[m].listener].listening
                THEN None ELSE mux[m].listener
    BY <2>1, <2>2, ListenersRemoved DEF Inv
  <2>19. ListenerOk'
    <3>1. SUFFICES ASSUME NEW m \in Socks, mux'[m].listener # None
                   PROVE  /\ mux'[m].listener \in Socks /\ sock'[mux'[m].listener].listening
                          /\ sock'[mux'[m].listener].mux = m
                          /\ sock'[mux'[m].listener].at \in {"open", "closed", "removing"}
      BY DEF ListenerOk, Exists
    <3>2. mux'[m].listener = mux[m].listener
          /\ ~(mux[m].listener \in left /\ sock[mux[m].listener].listening)
      BY <2>18, <3>1, SMTT(20)
    <3> DEFINE y == mux[m].listener
    <3>3. y \in Socks /\ sock[y].listening /\ sock[y].mux = m /\ Exists(y)
      BY <3>1, <3>2, SMTT(20) DEF Inv, ListenerOk
    <3>4. y \notin left
      BY <3>2, <3>3, SMTT(20)
    <3> HIDE DEF y
    <3>5. sock'[y].listening = sock[y].listening
      BY <2>6, <2>11, <3>3, <3>4, Zenon
    <3>6. sock'[y].at \in {"open", "closed", "removing"} /\ sock'[y].mux = sock[y].mux
      BY <2>15, <3>3 DEF SameUser, Exists
    <3> QED BY <3>2, <3>3, <3>5, <3>6 DEF y
  <2>20. RefsOk'
    BY <2>15, <2>18, RefsStay DEF Inv
  <2> QED BY <2>3, <2>12, <2>13, <2>14, <2>16, <2>17, <2>18, <2>19, <2>20 DEF Inv
<1> QED BY <1>3, <1>4
=============================================================================
