------------------------ MODULE CallerListenerProofs ------------------------
(* The caller-listener connection, for every set of options, backlog and    *)
(* bound on the network, whatever is lost, duplicated or reordered: the two *)
(* ends agree on what they negotiated and are secured where one insists on  *)
(* it, and a caller has one connected socket.  The invariant says which     *)
(* requests and answers may be on their way (NetOk), that every spawned     *)
(* socket has negotiated (SocksOk), how far the caller is (CallerOk, Early) *)
(* and that a connected caller matches the socket it names (Linked).        *)
EXTENDS CallerListener, HsExtProofs, FiniteSetTheorems, WellFoundedInduction, TLAPS

(****************************** the network *******************************)

(* The bound on the network drops datagrams and adds none. *)
LEMMA CappedElems ==
  ASSUME NEW q, IsSeq(q)
  PROVE  IsSeq(Capped(q)) /\ Elems(Capped(q)) \subseteq Elems(q)
<1> DEFINE n == Min({MaxNet, Len(q)})
<1>1. MaxNet \in Nat /\ Len(q) \in Nat
  BY CasesAssumption DEF IsSeq
<1>2. n \in 0 .. Len(q)
  <2>1. \E x \in {MaxNet, Len(q)} : \A y \in {MaxNet, Len(q)} : x <= y
    BY <1>1
  <2>2. n \in {MaxNet, Len(q)} /\ \A y \in {MaxNet, Len(q)} : n <= y
    BY <2>1 DEF Min
  <2> QED BY <1>1, <2>2
<1> HIDE DEF n
<1>3. SubSeq(q, 1, n) \in Seq(Elems(q))
  BY <1>1, <1>2 DEF IsSeq
<1> QED BY <1>3, SequenceElems, ZenonT(30) DEF Capped, n

(* A duplicated datagram adds only its copy. *)
LEMMA DoubledElems ==
  ASSUME NEW q, IsSeq(q), q # <<>>
  PROVE  IsSeq(Doubled(q)) /\ Elems(Doubled(q)) \subseteq Elems(q) \cup {[Head(q) EXCEPT !.twin = TRUE]}
<1> DEFINE m == [Head(q) EXCEPT !.twin = TRUE]
           S == Elems(q) \cup {m}
<1> HIDE DEF m
<1>1. Tail(q) \in Seq(Elems(q))
  BY DEF IsSeq
<1>2. Tail(q) \in Seq(S) /\ <<m, m>> \in Seq(S)
  BY <1>1
<1>3. <<m, m>> \o Tail(q) \in Seq(S)
  BY <1>2
<1>4. Doubled(q) = <<m, m>> \o Tail(q)
  BY Zenon DEF Doubled, m
<1>5. IsSeq(Doubled(q)) /\ Elems(Doubled(q)) \subseteq S
  BY <1>3, <1>4, SequenceElems, ZenonT(30)
<1> QED BY <1>5, Zenon DEF m

(***************************** the invariant ******************************)

PacketFields == {"type", "ext", "cookie", "reason", "sock", "twin"}

IsPacket(m) == m = [f \in PacketFields |-> m[f]]

(* A datagram towards the listener's port. *)
RequestOk(m, e) ==
  /\ IsPacket(m)
  /\ m.sock = 0 => /\ m.type \in {"INDUCTION", "CONCLUSION"}
                   /\ m.type = "CONCLUSION" => m.ext = RequestOf(e.c, "C")

(* A datagram towards the caller: an answer with extensions is one that the *)
(* socket it names may give.                                                *)
AnswerOk(m, e, sk) ==
  /\ IsPacket(m)
  /\ m.type \in {"INDUCTION", "CONCLUSION", "FAILURE", "SHUTDOWN", "KEEPALIVE"}
  /\ m.type = "CONCLUSION" => m.sock # 0
  /\ m.type = "CONCLUSION" /\ m.ext # NoExt =>
       m.sock \in DOMAIN sk /\ Negotiated(e.c, e.l, "C", sk[m.sock].u, m.ext)

IsEntry(s) == s = [f \in {"u", "hadKm", "queued", "status"} |-> s[f]]

(* A spawned socket has negotiated with the caller. *)
SockOk(s, e) ==
  /\ IsEntry(s) /\ s.hadKm = (e.c.secret # "") /\ IsSocket(s.u)
  /\ \E x : Negotiated(e.c, e.l, "C", s.u, x)

CallerFields == {"u", "phase", "sync", "req", "cookie", "stored", "peer"}

IsCaller(c) == c = [f \in CallerFields |-> c[f]]

(* The caller's socket before the induction's answer, and after it. *)
Fresh(u, c) ==
  /\ IsSocket(u) /\ u.cfg = c /\ u.side = "DRAW" /\ u.filter = c.filter /\ u.id = "C"
  /\ u.crypto = FALSE /\ u.tsbpd = FALSE /\ u.peerTsbpd = FALSE /\ u.connected = FALSE
  /\ u.peerId = "none"

Ready(u, c) == Requesting(u, c, "C") /\ u.crypto = TRUE /\ u.peerId = "none"

Placed(c, e) ==
  /\ IsCaller(c) /\ c.sync \in BOOLEAN
  /\ \/ c.req = "INDUCTION" /\ Fresh(c.u, e.c)
     \/ c.req = "CONCLUSION" /\ Ready(c.u, e.c)
  /\ IsSeq(c.stored) /\ \A m \in Elems(c.stored) : RequestOk(m, e)

CallerOk(c, e) ==
  /\ c.phase = "opened" => c.req = "INDUCTION"
  /\ c.phase \in {"opened", "connecting"} => Placed(c, e)

(* Nothing of a conclusion exists before the induction is answered. *)
Early(c, sk, tl, tc) ==
  c.req = "INDUCTION" =>
    /\ DOMAIN sk = {}
    /\ \A m \in Elems(tl) \cup Elems(c.stored) : m.type # "CONCLUSION"
    /\ \A m \in Elems(tc) : m.type # "CONCLUSION"

(* A connected caller agrees with the socket it is connected to. *)
Linked(c, sk) ==
  c.phase = "connected" =>
    /\ c.peer \in DOMAIN sk /\ IsCaller(c) /\ IsSocket(c.u)
    /\ Matching(c.u, sk[c.peer].u) /\ Matching(sk[c.peer].u, c.u) /\ Encrypted(c.u)

NetOk ==
  /\ IsSeq(toL) /\ \A m \in Elems(toL) : RequestOk(m, env)
  /\ IsSeq(toC) /\ \A m \in Elems(toC) : AnswerOk(m, env, socks)

SocksOk == IsSeq(socks) /\ \A i \in DOMAIN socks : SockOk(socks[i], env)

Inv ==
  /\ env \in Cases /\ CallerOk(caller, env)
  /\ SocksOk /\ NetOk /\ Early(caller, socks, toL, toC) /\ Linked(caller, socks)

(******************************** datagrams *******************************)

Made(m, type, ext, sock) == IsPacket(m) /\ m.type = type /\ m.ext = ext /\ m.sock = sock

(* What a packet is made with is what its reader finds. *)
LEMMA PacketMade ==
  ASSUME NEW type, NEW ext, NEW cookie, NEW reason, NEW sock
  PROVE  Made(Packet(type, ext, cookie, reason, sock), type, ext, sock)
  BY DEF Made, Packet, IsPacket, PacketFields

(* A copy of a datagram has the same contents. *)
LEMMA TwinMade ==
  ASSUME NEW m, IsPacket(m)
  PROVE  LET t == [m EXCEPT !.twin = TRUE]
         IN IsPacket(t) /\ t.type = m.type /\ t.ext = m.ext /\ t.sock = m.sock
  BY ZenonT(30) DEF IsPacket, PacketFields

(* A copy of a datagram is as good as the datagram. *)
LEMMA TwinOk ==
  ASSUME NEW m, NEW e, NEW sk
  PROVE  LET t == [m EXCEPT !.twin = TRUE]
         IN (RequestOk(m, e) => RequestOk(t, e)) /\ (AnswerOk(m, e, sk) => AnswerOk(t, e, sk))
<1> DEFINE t == [m EXCEPT !.twin = TRUE]
<1>1. IsPacket(m) => IsPacket(t) /\ t.type = m.type /\ t.ext = m.ext /\ t.sock = m.sock
  BY TwinMade
<1> HIDE DEF t
<1>2. RequestOk(m, e) => RequestOk(t, e)
  BY <1>1, Zenon DEF RequestOk
<1>3. AnswerOk(m, e, sk) => AnswerOk(t, e, sk)
  BY <1>1, Zenon DEF AnswerOk
<1> QED BY <1>2, <1>3 DEF t

(* q has the sockets of p, each as negotiated. *)
Grown(p, q) ==
  DOMAIN p \subseteq DOMAIN q /\ \A i \in DOMAIN p : Alike(p[i].u, q[i].u)

(* An answer on its way stays one that its socket may give. *)
LEMMA AnswersStay ==
  ASSUME NEW m, NEW e, NEW p, NEW q, AnswerOk(m, e, p), Grown(p, q)
  PROVE  AnswerOk(m, e, q)
<1> SUFFICES ASSUME m.type = "CONCLUSION", m.ext # NoExt
             PROVE  m.sock \in DOMAIN q /\ Negotiated(e.c, e.l, "C", q[m.sock].u, m.ext)
  BY Zenon DEF AnswerOk
<1>1. m.sock \in DOMAIN p /\ Negotiated(e.c, e.l, "C", p[m.sock].u, m.ext)
  BY Zenon DEF AnswerOk
<1>2. m.sock \in DOMAIN q /\ Alike(p[m.sock].u, q[m.sock].u)
  BY <1>1, Zenon DEF Grown
<1> QED BY <1>1, <1>2, StillNegotiated, Zenon

(* A connected caller still agrees with a socket that negotiates nothing new. *)
LEMMA LinkStays ==
  ASSUME NEW c, NEW p, NEW q, Linked(c, p), Grown(p, q)
  PROVE  Linked(c, q)
<1> SUFFICES ASSUME c.phase = "connected" PROVE Linked(c, q)
  BY DEF Linked
<1>1. /\ c.peer \in DOMAIN p /\ IsCaller(c) /\ IsSocket(c.u)
      /\ Matching(c.u, p[c.peer].u) /\ Matching(p[c.peer].u, c.u) /\ Encrypted(c.u)
  BY Zenon DEF Linked
<1>2. c.peer \in DOMAIN q /\ Alike(p[c.peer].u, q[c.peer].u)
  BY <1>1, Zenon DEF Grown
<1>3. Alike(c.u, c.u)
  BY <1>1 DEF Alike, Kept
<1>4. Matching(c.u, q[c.peer].u) /\ Matching(q[c.peer].u, c.u)
  BY <1>1, <1>2, <1>3, StillMatching, Zenon
<1> QED BY <1>1, <1>2, <1>4, Zenon DEF Linked

(******************************* the caller *******************************)

(* A caller that has its place serializes a request, and keeps its place. *)
LEMMA RequestSent ==
  ASSUME NEW c, NEW e, ConfigOk(e.c), Placed(c, e)
  PROVE  LET r == Request(c)
         IN /\ Placed(r.c, e) /\ r.c.u.fail = FALSE /\ RequestOk(r.m, e) /\ r.m.type = c.req
            /\ r.c.req = c.req /\ r.c.phase = c.phase /\ r.c.stored = c.stored /\ r.c.sync = c.sync
<1> DEFINE w == IF c.req = "CONCLUSION" THEN createSrtHandshake(c.u, "HSREQ", NoKm)
                ELSE [u |-> [c.u EXCEPT !.fail = FALSE], ext |-> NoExt]
           r == Request(c)
<1>1. r.c = [c EXCEPT !.u = w.u] /\ r.m = Packet(c.req, w.ext, c.cookie, "", 0)
  BY DEF Request
<1>2. IsCaller(c)
  BY DEF Placed
<1> HIDE DEF r, w
<1>3. /\ IsCaller(r.c) /\ r.c.u = w.u
      /\ \A f \in CallerFields \ {"u"} : r.c[f] = c[f]
  BY <1>1, <1>2 DEF IsCaller, CallerFields
<1>4. /\ r.c.req = c.req /\ r.c.phase = c.phase /\ r.c.stored = c.stored /\ r.c.sync = c.sync
  BY <1>3 DEF CallerFields
<1>5. IsPacket(r.m) /\ r.m.type = c.req /\ r.m.ext = w.ext /\ r.m.sock = 0
  <2>2. Made(Packet(c.req, w.ext, c.cookie, "", 0), c.req, w.ext, 0)
    BY PacketMade
  <2>3. r.m = Packet(c.req, w.ext, c.cookie, "", 0)
    BY <1>1
  <2>1. Made(r.m, c.req, w.ext, 0)
    BY <2>3, <2>2, Zenon
  <2> QED BY <2>1, Zenon DEF Made
<1>6. CASE c.req = "INDUCTION"
  <2>1. w.u = [c.u EXCEPT !.fail = FALSE] /\ Fresh(c.u, e.c)
    <3>1. Fresh(c.u, e.c)
      BY <1>6 DEF Placed
    <3>2. w = [u |-> [c.u EXCEPT !.fail = FALSE], ext |-> NoExt]
      BY <1>6 DEF w
    <3> QED BY <3>1, <3>2
  <2>2. Kept(c.u, w.u, {"fail"}) /\ w.u.fail = FALSE
    BY <2>1, Cleared, Zenon DEF Fresh
  <2>3. Fresh(w.u, e.c)
    BY <2>1, <2>2 DEF Kept, Fields, Fresh
  <2>4. RequestOk(r.m, e)
    BY <1>5, <1>6 DEF RequestOk
  <2>5. Placed(r.c, e)
    BY <1>3, <1>4, <1>6, <2>3, Zenon DEF Placed
  <2> QED BY <1>3, <1>4, <1>5, <2>2, <2>4, <2>5, Zenon DEF r
<1>7. CASE c.req = "CONCLUSION"
  <2>1. w = createSrtHandshake(c.u, "HSREQ", NoKm)
    BY <1>7 DEF w
  <2>2. Ready(c.u, e.c)
    BY <1>7 DEF Placed
  <2>3. /\ IsSocket(c.u) /\ c.u.side = "INITIATOR" /\ c.u.crypto = TRUE /\ c.u.cfg = e.c
        /\ c.u.kmMsg = KmOf(e.c, "C") /\ c.u.filter = e.c.filter
    BY <2>2 DEF Ready, Requesting
  <2>4. (e.c.secret # "" => c.u.kmMsg # NoKm) /\ e.c.tsbpd \in BOOLEAN
    <3>1. e.c.secret # "" => KmOf(e.c, "C") # NoKm
      BY KeyMessage, Zenon
    <3> QED BY <2>3, <3>1 DEF ConfigOk
  <2>5. /\ Kept(c.u, w.u, {"delay", "peerDelay", "fail"}) /\ w.u.fail = FALSE
        /\ w.ext = [cmd |-> "HSREQ", hs |-> RequestHs(c.u.cfg),
                    km |-> IF c.u.cfg.secret # "" THEN c.u.kmMsg ELSE NoKm,
                    filter |-> c.u.filter, congctl |-> OwnCongctl(c.u)]
    BY <2>1, <2>3, <2>4, RequestMade, Zenon
  <2>6. Ready(w.u, e.c)
    BY <2>2, <2>5 DEF Ready, Requesting, Kept, Fields
  <2>7. w.ext = RequestOf(e.c, "C")
    <3>1. KmOf(e.c, "C") = IF e.c.secret # "" THEN c.u.kmMsg ELSE NoKm
      BY <2>3, Zenon DEF KmOf
    <3> QED BY <2>3, <2>5, <3>1, Zenon DEF RequestOf, OwnCongctl
  <2>8. RequestOk(r.m, e)
    BY <1>5, <1>7, <2>7, Zenon DEF RequestOk
  <2>9. Placed(r.c, e)
    BY <1>3, <1>4, <1>7, <2>6, Zenon DEF Placed
  <2> QED BY <1>3, <1>4, <1>5, <2>5, <2>8, <2>9, Zenon DEF r
<1> QED BY <1>6, <1>7, ZenonT(30) DEF Placed

(* What a step of the caller may change in its record. *)
LEMMA CallerSet ==
  ASSUME NEW c, IsCaller(c), NEW u
  PROVE  LET d == [c EXCEPT !.u = u]
         IN IsCaller(d) /\ d.u = u /\ \A f \in CallerFields \ {"u"} : d[f] = c[f]
  BY DEF IsCaller, CallerFields

(* Noting a reason (setRejectReason) changes nothing else of a socket. *)
LEMMA ReasonSet ==
  ASSUME NEW u, IsSocket(u), NEW why
  PROVE  Kept(u, [u EXCEPT !.reason = why], {"reason"})
  BY DEF IsSocket, Kept, Fields

(* d is the caller c but for the reason it would report. *)
Renamed(c, d) ==
  /\ IsCaller(d) /\ Kept(c.u, d.u, {"reason"})
  /\ \A f \in CallerFields \ {"u"} : d[f] = c[f]

Noted(c, why) == [c EXCEPT !.u.reason = why]

(* Noting a reason changes nothing else of the caller. *)
LEMMA ReasonNoted ==
  ASSUME NEW c, IsCaller(c), IsSocket(c.u), NEW why
  PROVE  Renamed(c, Noted(c, why))
<1> DEFINE d == Noted(c, why)
<1>1. IsCaller(d) /\ d.u = [c.u EXCEPT !.reason = why] /\ \A f \in CallerFields \ {"u"} : d[f] = c[f]
  BY DEF IsCaller, CallerFields, Noted
<1> HIDE DEF d
<1>2. Kept(c.u, d.u, {"reason"})
  BY <1>1, ReasonSet
<1> QED BY <1>1, <1>2, Zenon DEF Renamed, d

(* A caller that has noted a reason keeps its place in the handshake. *)
LEMMA RenamedPlaced ==
  ASSUME NEW c, NEW d, NEW e, Placed(c, e), Renamed(c, d)
  PROVE  Placed(d, e) /\ d.req = c.req /\ d.phase = c.phase /\ d.stored = c.stored
         /\ d.sync = c.sync /\ d.u.peerId = "none"
<1>1. d.req = c.req /\ d.phase = c.phase /\ d.stored = c.stored /\ d.sync = c.sync
  BY DEF Renamed, CallerFields
<1>2. IsCaller(d) /\ Kept(c.u, d.u, {"reason"})
  BY DEF Renamed
<1>3. Fresh(c.u, e.c) => Fresh(d.u, e.c)
  BY <1>2 DEF Fresh, Kept, Fields
<1>4. Ready(c.u, e.c) => Ready(d.u, e.c)
  BY <1>2 DEF Ready, Requesting, Kept, Fields
<1>5. Placed(d, e)
  BY <1>1, <1>2, <1>3, <1>4, Zenon DEF Placed
<1>6. d.u.peerId = "none"
  BY <1>5 DEF Placed, Fresh, Ready
<1> QED BY <1>1, <1>5, <1>6

(* A caller with its place has a socket. *)
LEMMA PlacedCaller ==
  ASSUME NEW c, NEW e, Placed(c, e)
  PROVE  IsCaller(c) /\ IsSocket(c.u) /\ c.u.peerId = "none" /\ c.sync \in BOOLEAN
  BY DEF Placed, Fresh, Ready, Requesting

(* The answer to the induction makes the caller an initiator with a key;    *)
(* another one changes nothing.                                             *)
LEMMA InitiatorMade ==
  ASSUME NEW u, NEW c, Fresh(u, c) \/ Ready(u, c)
  PROVE  Ready(createCrypter([u EXCEPT !.side = "INITIATOR"]), c)
<1> DEFINE a == [u EXCEPT !.side = "INITIATOR"]
           v == createCrypter(a)
<1>1. IsSocket(u)
  BY DEF Fresh, Ready, Requesting
<1>2. Kept(u, a, {"side"}) /\ a.side = "INITIATOR"
  BY <1>1 DEF Kept, IsSocket, Fields
<1> HIDE DEF a
<1>3. CASE Fresh(u, c)
  <2>1. /\ IsSocket(a) /\ a.crypto = FALSE /\ a.cfg = c /\ a.filter = c.filter /\ a.id = "C"
        /\ a.tsbpd = FALSE /\ a.peerTsbpd = FALSE /\ a.connected = FALSE /\ a.peerId = "none"
    BY <1>2, <1>3 DEF Fresh, Kept, Fields
  <2>2. /\ Kept(a, v, {"crypto", "sndKm", "rcvKm", "sndCtx", "rcvCtx", "kmMsg"})
        /\ v.crypto = TRUE /\ v.rcvKm = "UNSECURED"
        /\ v.sndKm = IF c.secret # "" THEN "SECURING" ELSE "UNSECURED"
        /\ v.kmMsg = IF c.secret # "" /\ a.side = "INITIATOR" THEN [pw |-> c.secret, key |-> a.id] ELSE NoKm
    BY <2>1, Crypter, Zenon
  <2> HIDE DEF v
  <2>3. v.kmMsg = KmOf(c, "C")
    BY <1>2, <2>1, <2>2, Zenon DEF KmOf
  <2>4. c.secret = "" => v.sndKm = "UNSECURED"
    BY <2>2, Zenon
  <2>5. /\ IsSocket(v) /\ v.cfg = a.cfg /\ v.side = a.side /\ v.filter = a.filter
        /\ v.tsbpd = a.tsbpd /\ v.peerTsbpd = a.peerTsbpd /\ v.connected = a.connected
        /\ v.peerId = a.peerId
    <3>1. IsSocket(v) /\ \A f \in Fields \ {"crypto", "sndKm", "rcvKm", "sndCtx", "rcvCtx", "kmMsg"} : v[f] = a[f]
      BY <2>2, Zenon DEF Kept
    <3> QED BY <3>1 DEF Fields
  <2>6. Ready(v, c)
    BY <1>2, <2>1, <2>2, <2>3, <2>4, <2>5, Zenon DEF Ready, Requesting
  <2> QED BY <2>6, Zenon DEF v, a
<1>4. CASE Ready(u, c)
  <2>1. a = u
    <3>1. u.side = "INITIATOR"
      BY <1>4 DEF Ready, Requesting
    <3> QED BY <1>1, <3>1 DEF a, IsSocket, Fields
  <2>2. v = u
    <3>1. u.crypto = TRUE
      BY <1>4 DEF Ready
    <3> QED BY <2>1, <3>1, Zenon DEF createCrypter
  <2> QED BY <1>4, <2>2, Zenon DEF v, a
<1> QED BY <1>3, <1>4

(* p is what becomes of the caller c at a packet: it goes on, it is         *)
(* refused, or it is connected to one of the sockets sk.                    *)
Outcome(p, c, e, sk) ==
  /\ p.c.stored = c.stored /\ p.c.sync = c.sync
  /\ \/ /\ p.cst \in {"CONTINUE", "CONFUSED"} /\ Placed(p.c, e) /\ p.c.phase = c.phase
        /\ p.c.req = "INDUCTION" => c.req = "INDUCTION"
     \/ /\ p.cst = "REJECT" /\ p.c.req = c.req /\ IsCaller(p.c)
        /\ p.c.u.peerId = "none" \/ p.c.peer # 0
     \/ p.cst = "ACCEPT" /\ p.c.phase = "connected" /\ p.c.req = c.req /\ Linked(p.c, sk)

(* A failure notice or a shutdown ends the attempt (processConnectResponse). *)
LEMMA ResponseRefused ==
  ASSUME NEW c, NEW e, NEW sk, Placed(c, e), NEW why
  PROVE  Outcome(Refused(c, why), c, e, sk)
<1> DEFINE p == Refused(c, why)
<1>1. p.cst = "REJECT" /\ p.c = Noted(c, why)
  BY DEF Refused, Noted
<1> HIDE DEF p
<1>2. Renamed(c, p.c)
  BY <1>1, PlacedCaller, ReasonNoted, Zenon
<1>3. p.c.req = c.req /\ p.c.stored = c.stored /\ p.c.sync = c.sync /\ p.c.u.peerId = "none"
  BY <1>2, RenamedPlaced, Zenon
<1>4. IsCaller(p.c)
  BY <1>2, Zenon DEF Renamed
<1> QED BY <1>1, <1>3, <1>4, Zenon DEF Outcome, p

Confused(c, why) == [cst |-> "CONFUSED", c |-> Noted(c, why)]

(* A keepalive is no answer: the caller notes it and goes on (processConnectResponse). *)
LEMMA ResponseNoted ==
  ASSUME NEW c, NEW e, NEW sk, Placed(c, e), NEW why
  PROVE  Outcome(Confused(c, why), c, e, sk)
<1> DEFINE p == Confused(c, why)
<1>1. p.cst = "CONFUSED" /\ p.c = Noted(c, why)
  BY DEF Confused
<1> HIDE DEF p
<1>2. Renamed(c, p.c)
  BY <1>1, PlacedCaller, ReasonNoted, Zenon
<1>3. Placed(p.c, e) /\ p.c.req = c.req /\ p.c.phase = c.phase /\ p.c.stored = c.stored /\ p.c.sync = c.sync
  BY <1>2, RenamedPlaced, Zenon
<1>4. p.cst \in {"CONTINUE", "CONFUSED"}
  BY <1>1
<1> QED BY <1>3, <1>4, Zenon DEF Outcome, p

Continued(c, cookie) ==
  [cst |-> "CONTINUE",
   c |-> [c EXCEPT !.cookie = cookie, !.req = "CONCLUSION",
                   !.u = createCrypter([c.u EXCEPT !.side = "INITIATOR"])]]

(* The answer to the induction makes the caller an initiator with its crypto*)
(* ready (processConnectResponse).                                          *)
LEMMA ResponseContinues ==
  ASSUME NEW c, NEW e, NEW sk, Placed(c, e), NEW cookie
  PROVE  Outcome(Continued(c, cookie), c, e, sk)
<1> DEFINE v == createCrypter([c.u EXCEPT !.side = "INITIATOR"])
           d == [c EXCEPT !.cookie = cookie, !.req = "CONCLUSION", !.u = v]
           p == [cst |-> "CONTINUE", c |-> d]
<1>1. IsCaller(c) /\ (Fresh(c.u, e.c) \/ Ready(c.u, e.c))
  BY DEF Placed
<1>2. Ready(v, e.c)
  BY <1>1, InitiatorMade, Zenon
<1> HIDE DEF v
<1>3. /\ IsCaller(d) /\ d.u = v /\ d.req = "CONCLUSION" /\ d.sync = c.sync /\ d.stored = c.stored
      /\ d.phase = c.phase
  BY <1>1, ZenonT(30) DEF IsCaller, CallerFields
<1>4. p.cst = "CONTINUE" /\ p.c = d
  OBVIOUS
<1> HIDE DEF d, p
<1>5. Placed(d, e)
  BY <1>2, <1>3, Zenon DEF Placed
<1>6. p.cst \in {"CONTINUE", "CONFUSED"} /\ p.c.req # "INDUCTION"
  BY <1>3, <1>4
<1>7. Outcome(p, c, e, sk)
  BY <1>3, <1>4, <1>5, <1>6, Zenon DEF Outcome
<1> QED BY <1>7, Zenon DEF Continued, p, d, v

Concluded(c, m) ==
  LET applied == [c EXCEPT !.peer = m.sock, !.u.peerId = "L"]
      v == interpretSrtHandshake(createCrypter(applied.u), m.ext).u
  IN IF v.fail THEN [cst |-> "REJECT", c |-> [applied EXCEPT !.u = v]]
     ELSE [cst |-> "ACCEPT",
           c |-> [applied EXCEPT !.u = [v EXCEPT !.connected = TRUE], !.phase = "connected"]]

(* The conclusion's answer: refused, or accepted and in agreement. *)
LEMMA ResponseConcludes ==
  ASSUME NEW c, NEW e, NEW sk, NEW m, ConfigOk(e.c), ConfigOk(e.l), Placed(c, e),
         c.req = "CONCLUSION", AnswerOk(m, e, sk), m.type = "CONCLUSION"
  PROVE  Outcome(Concluded(c, m), c, e, sk)
<1> DEFINE applied == [c EXCEPT !.peer = m.sock, !.u.peerId = "L"]
           u == createCrypter(applied.u)
           v == interpretSrtHandshake(u, m.ext).u
           no == [cst |-> "REJECT", c |-> [applied EXCEPT !.u = v]]
           w == [v EXCEPT !.connected = TRUE]
           yes == [cst |-> "ACCEPT", c |-> [applied EXCEPT !.u = w, !.phase = "connected"]]
           p == IF v.fail THEN no ELSE yes
<1>1. IsCaller(c) /\ Ready(c.u, e.c) /\ m.sock # 0
  BY DEF Placed, AnswerOk
<1>2. IsSocket(c.u) /\ c.u.crypto = TRUE
  BY <1>1 DEF Ready, Requesting
<1>3. /\ IsCaller(applied) /\ applied.peer = m.sock /\ applied.u = [c.u EXCEPT !.peerId = "L"]
      /\ applied.req = c.req /\ applied.sync = c.sync /\ applied.stored = c.stored
  BY <1>1, ZenonT(30) DEF IsCaller, CallerFields
<1>4. Kept(c.u, applied.u, {"peerId"})
  BY <1>2, <1>3 DEF IsSocket, Kept, Fields
<1> HIDE DEF applied
<1>5. applied.u.crypto = TRUE /\ Requesting(applied.u, e.c, "C")
  BY <1>1, <1>2, <1>4 DEF Ready, Requesting, Kept, Fields
<1>6. u = applied.u
  BY <1>5, Zenon DEF createCrypter
<1> HIDE DEF u, v, w
<1>7. CASE v.fail
  <2>1. p = no
    BY <1>7, Zenon
  <2>2. no.cst = "REJECT" /\ no.c = [applied EXCEPT !.u = v]
    OBVIOUS
  <2> HIDE DEF p, no, yes
  <2>3. /\ IsCaller(no.c) /\ no.c.peer = applied.peer /\ no.c.req = applied.req
        /\ no.c.sync = applied.sync /\ no.c.stored = applied.stored
    BY <1>3, <2>2 DEF IsCaller, CallerFields
  <2>4. no.c.peer # 0
    BY <1>1, <1>3, <2>3
  <2>5. Outcome(p, c, e, sk)
    BY <1>3, <2>1, <2>2, <2>3, <2>4, Zenon DEF Outcome
  <2> QED BY <2>5, Zenon DEF Concluded, p, no, yes, w, v, u, applied
<1>8. CASE ~v.fail
  <2>1. p = yes
    BY <1>8, Zenon
  <2>2. yes.cst = "ACCEPT" /\ yes.c = [applied EXCEPT !.u = w, !.phase = "connected"]
    OBVIOUS
  <2> HIDE DEF p, no, yes
  <2>3. /\ IsCaller(yes.c) /\ yes.c.peer = m.sock /\ yes.c.req = c.req /\ yes.c.u = w
        /\ yes.c.sync = c.sync /\ yes.c.stored = c.stored /\ yes.c.phase = "connected"
    BY <1>3, <2>2, ZenonT(30) DEF IsCaller, CallerFields
  <2>4. interpretSrtHandshake(u, m.ext).u.fail # TRUE
    BY <1>8, Zenon DEF v
  <2>5. m.ext # NoExt
    BY <1>4, <1>6, <2>4, Stages, Zenon DEF Kept
  <2>6. m.sock \in DOMAIN sk /\ Negotiated(e.c, e.l, "C", sk[m.sock].u, m.ext)
    BY <2>5, Zenon DEF AnswerOk
  <2> DEFINE s == sk[m.sock].u
  <2>7. IsSocket(v) /\ v.cfg = e.c /\ Matching(v, s) /\ Matching(s, v) /\ Encrypted(v)
    <3> HIDE DEF s
    <3>1. Negotiated(e.c, e.l, "C", s, m.ext) /\ Requesting(u, e.c, "C")
      BY <1>5, <1>6, <2>6, Zenon DEF s
    <3> QED BY <2>4, <3>1, InitiatorAgrees, Zenon DEF v
  <2>8. Alike(v, w) /\ w.sndKm = v.sndKm /\ w.rcvKm = v.rcvKm /\ w.cfg = v.cfg /\ IsSocket(w)
    BY <2>7, ZenonT(30) DEF w, Alike, Kept, IsSocket, Fields
  <2>9. Alike(s, s)
    <3>1. IsSocket(s)
      BY <2>6 DEF Negotiated
    <3> QED BY <3>1 DEF Alike, Kept
  <2>10. Matching(w, s) /\ Matching(s, w)
    BY <2>7, <2>8, <2>9, StillMatching, Zenon
  <2>11. Encrypted(w)
    BY <2>7, <2>8, Zenon DEF Encrypted
  <2>12. Linked(yes.c, sk)
    BY <2>3, <2>6, <2>8, <2>10, <2>11, Zenon DEF Linked
  <2>13. Outcome(p, c, e, sk)
    BY <2>1, <2>2, <2>3, <2>12, Zenon DEF Outcome
  <2> QED BY <2>13, Zenon DEF Concluded, p, no, yes, w, v, u, applied
<1> QED BY <1>7, <1>8

(* processConnectResponse, for every packet that can reach a connecting caller. *)
LEMMA ResponseTaken ==
  ASSUME NEW c, NEW e, NEW sk, NEW m, ConfigOk(e.c), ConfigOk(e.l), Placed(c, e),
         AnswerOk(m, e, sk), m.type = "CONCLUSION" => c.req = "CONCLUSION"
  PROVE  Outcome(processConnectResponse(c, m), c, e, sk)
<1>1. m.type \in {"INDUCTION", "CONCLUSION", "FAILURE", "SHUTDOWN", "KEEPALIVE"}
  BY DEF AnswerOk
<1>2. CASE m.type = "SHUTDOWN"
  <2>1. processConnectResponse(c, m) = Refused(c, "ROGUE")
    BY <1>2 DEF processConnectResponse, NotHandshake
  <2> QED BY <2>1, ResponseRefused, Zenon
<1>3. CASE m.type = "KEEPALIVE"
  <2>1. processConnectResponse(c, m) = Confused(c, "ROGUE")
    BY <1>3 DEF processConnectResponse, NotHandshake, Confused, Noted
  <2> QED BY <2>1, ResponseNoted, Zenon
<1>4. CASE m.type = "FAILURE"
  <2>1. processConnectResponse(c, m) = Refused(c, m.reason)
    BY <1>4 DEF processConnectResponse
  <2> QED BY <2>1, ResponseRefused, Zenon
<1>5. CASE m.type = "INDUCTION"
  <2>1. processConnectResponse(c, m) = Continued(c, m.cookie)
    BY <1>5 DEF processConnectResponse, Continued
  <2> QED BY <2>1, ResponseContinues, Zenon
<1>6. CASE m.type = "CONCLUSION"
  <2>1. processConnectResponse(c, m) = Concluded(c, m)
    BY <1>6 DEF processConnectResponse, Concluded
  <2> QED BY <1>6, <2>1, ResponseConcludes, Zenon
<1> QED BY <1>1, <1>2, <1>3, <1>4, <1>5, <1>6

(* The caller keeps the request it has made. *)
Storing(c, m) == [c EXCEPT !.stored = <<m>>]

(* The caller keeps its place when it stores the request. *)
LEMMA RequestStored ==
  ASSUME NEW c, NEW e, Placed(c, e), NEW m, RequestOk(m, e)
  PROVE  LET d == Storing(c, m)
         IN /\ Placed(d, e) /\ d.req = c.req /\ d.phase = c.phase
            /\ Elems(d.stored) = {m}
<1> DEFINE d == Storing(c, m)
<1>1. IsCaller(c)
  BY DEF Placed
<1>2. /\ IsCaller(d) /\ d.u = c.u /\ d.req = c.req /\ d.phase = c.phase /\ d.sync = c.sync
      /\ d.stored = <<m>>
  BY <1>1 DEF IsCaller, CallerFields, Storing
<1> HIDE DEF d
<1>3. IsSeq(d.stored) /\ Elems(d.stored) = {m}
  BY <1>2, OneElem, Zenon
<1>4. \A x \in Elems(d.stored) : RequestOk(x, e)
  BY <1>3
<1>5. Placed(d, e)
  BY <1>2, <1>3, <1>4, Zenon DEF Placed
<1> QED BY <1>2, <1>3, <1>5, Zenon DEF d

(* The options of the case at hand. *)
LEMMA CaseOk ==
  ASSUME env \in Cases
  PROVE  ConfigOk(env.c) /\ ConfigOk(env.l) /\ env.sync \in BOOLEAN
  BY CasesAssumption

(* The network after datagrams were sent to the listener. *)
LEMMA SentOk ==
  ASSUME NEW q, NEW r, NEW e, IsSeq(q), IsSeq(r),
         \A m \in Elems(q) : RequestOk(m, e), \A m \in Elems(r) : RequestOk(m, e)
  PROVE  /\ IsSeq(q \o r) /\ IsSeq(Capped(q \o r))
         /\ \A m \in Elems(q \o r) \cup Elems(Capped(q \o r)) : RequestOk(m, e)
         /\ Elems(q \o r) \cup Elems(Capped(q \o r)) \subseteq Elems(q) \cup Elems(r)
<1>1. IsSeq(q \o r) /\ Elems(q \o r) \subseteq Elems(q) \cup Elems(r)
  BY ConcatElems
<1>2. IsSeq(Capped(q \o r)) /\ Elems(Capped(q \o r)) \subseteq Elems(q \o r)
  BY <1>1, CappedElems
<1> QED BY <1>1, <1>2

(* The network after one datagram was sent. *)
LEMMA AppendedOk ==
  ASSUME NEW q, IsSeq(q), NEW m
  PROVE  IsSeq(Capped(Append(q, m))) /\ Elems(Capped(Append(q, m))) \subseteq Elems(q) \cup {m}
<1>1. IsSeq(Append(q, m)) /\ Elems(Append(q, m)) \subseteq Elems(q) \cup {m}
  BY AppendElems
<1> QED BY <1>1, CappedElems

(* startConnect preserves the invariant. *)
LEMMA StartKeeps == ASSUME Inv, startConnect PROVE Inv'
<1> DEFINE c == [caller EXCEPT !.phase = "connecting", !.req = "INDUCTION"]
           r == Request(c)
<1>1. /\ caller.phase = "opened" /\ caller' = Storing(r.c, r.m)
      /\ toL' = Capped(Append(toL, r.m))
      /\ env' = env /\ socks' = socks /\ toC' = toC
  BY DEF startConnect, Storing
<1>2. caller.req = "INDUCTION" /\ Placed(caller, env)
  BY <1>1 DEF Inv, CallerOk
<1>3. /\ IsCaller(c) /\ c.u = caller.u /\ c.req = "INDUCTION" /\ c.sync = caller.sync
      /\ c.stored = caller.stored /\ c.phase = "connecting"
  <2>1. IsCaller(caller)
    BY <1>2 DEF Placed
  <2> QED BY <2>1, ZenonT(30) DEF IsCaller, CallerFields
<1> HIDE DEF c
<1>4. Placed(c, env)
  BY <1>2, <1>3, Zenon DEF Placed
<1>5. ConfigOk(env.c)
  BY CaseOk DEF Inv
<1>6. /\ Placed(r.c, env) /\ RequestOk(r.m, env) /\ r.m.type = c.req
      /\ r.c.req = c.req /\ r.c.phase = c.phase
  BY <1>4, <1>5, RequestSent, Zenon
<1> HIDE DEF r
<1>7. /\ Placed(caller', env) /\ caller'.req = "INDUCTION" /\ caller'.phase = "connecting"
      /\ Elems(caller'.stored) = {r.m}
  <2> DEFINE d == Storing(r.c, r.m)
  <2>1. Placed(d, env) /\ d.req = r.c.req /\ d.phase = r.c.phase /\ Elems(d.stored) = {r.m}
    BY <1>6, RequestStored, Zenon
  <2>2. caller' = d
    BY <1>1
  <2> HIDE DEF d
  <2> QED BY <1>3, <1>6, <2>1, <2>2
<1>8. IsSeq(toL') /\ Elems(toL') \subseteq Elems(toL) \cup {r.m}
  <2>1. IsSeq(toL)
    BY DEF Inv, NetOk
  <2> QED BY <1>1, <2>1, AppendedOk, Zenon
<1>9. CallerOk(caller', env')
  BY <1>1, <1>7 DEF CallerOk
<1>10. NetOk' /\ SocksOk'
  BY <1>1, <1>6, <1>8 DEF Inv, NetOk, SocksOk
<1>11. Early(caller', socks', toL', toC')
  BY <1>1, <1>2, <1>3, <1>6, <1>7, <1>8 DEF Inv, Early
<1>12. Linked(caller', socks')
  BY <1>7 DEF Linked
<1> QED BY <1>1, <1>9, <1>10, <1>11, <1>12 DEF Inv

(* The shutdown of a caller that gives up goes to the socket it knows, if any. *)
LEMMA ShutdownOk ==
  ASSUME NEW c, NEW e, c.u.peerId = "none" \/ c.peer # 0
  PROVE  /\ IsSeq(Shutdown(c))
         /\ \A m \in Elems(Shutdown(c)) : RequestOk(m, e) /\ m.type # "CONCLUSION"
<1> DEFINE m == Packet("SHUTDOWN", NoExt, 0, "", c.peer)
<1>1. CASE c.u.peerId = "none"
  <2>1. Shutdown(c) = <<>>
    BY <1>1, Zenon DEF Shutdown
  <2> QED BY <2>1, NoElems
<1>2. CASE c.u.peerId # "none"
  <2>1. Shutdown(c) = <<m>>
    BY <1>2, Zenon DEF Shutdown
  <2>2. Made(m, "SHUTDOWN", NoExt, c.peer)
    BY PacketMade, Zenon
  <2> HIDE DEF m
  <2>3. RequestOk(m, e) /\ m.type # "CONCLUSION"
    BY <1>2, <2>2 DEF RequestOk, Made
  <2>4. IsSeq(Shutdown(c)) /\ Elems(Shutdown(c)) = {m}
    BY <2>1, OneElem, Zenon
  <2> QED BY <2>3, <2>4
<1> QED BY <1>1, <1>2

(* Repeating the request (startConnect, processAsyncConnectRequest) preserves*)
(* the invariant.                                                           *)
LEMMA ResendKeeps == ASSUME Inv, Resend PROVE Inv'
<1> DEFINE r == Request(caller)
<1>1. /\ caller.phase = "connecting" /\ env' = env /\ socks' = socks /\ toC' = toC
      /\ caller.sync => toL' = toL \o caller.stored /\ caller' = caller
      /\ ~caller.sync =>
           /\ caller' = IF r.c.u.fail THEN [r.c EXCEPT !.phase = "failed"] ELSE r.c
           /\ toL' = Capped(toL \o (IF r.c.u.fail THEN Shutdown(r.c) ELSE <<r.m>>))
  BY Zenon DEF Resend
<1>2. /\ Placed(caller, env) /\ IsSeq(toL) /\ \A m \in Elems(toL) : RequestOk(m, env)
      /\ IsSeq(caller.stored) /\ \A m \in Elems(caller.stored) : RequestOk(m, env)
      /\ caller.sync \in BOOLEAN
  <2>1. Placed(caller, env) /\ IsSeq(toL) /\ \A m \in Elems(toL) : RequestOk(m, env)
    BY <1>1 DEF Inv, CallerOk, NetOk
  <2> QED BY <2>1 DEF Placed
<1>3. CASE caller.sync
  <2>1. toL' = toL \o caller.stored /\ caller' = caller
    BY <1>1, <1>3
  <2>2. /\ IsSeq(toL') /\ \A m \in Elems(toL') : RequestOk(m, env)
        /\ Elems(toL') \subseteq Elems(toL) \cup Elems(caller.stored)
    BY <1>2, <2>1, SentOk, ZenonT(30)
  <2>3. NetOk' /\ SocksOk'
    BY <1>1, <2>2 DEF Inv, NetOk, SocksOk
  <2>4. Early(caller', socks', toL', toC')
    BY <1>1, <2>1, <2>2 DEF Inv, Early
  <2> QED BY <1>1, <2>1, <2>3, <2>4 DEF Inv
<1>4. CASE ~caller.sync
  <2>1. ConfigOk(env.c)
    BY CaseOk DEF Inv
  <2>2. /\ Placed(r.c, env) /\ r.c.u.fail = FALSE /\ RequestOk(r.m, env) /\ r.m.type = caller.req
        /\ r.c.req = caller.req /\ r.c.phase = caller.phase /\ r.c.stored = caller.stored
    BY <1>2, <2>1, RequestSent, Zenon
  <2> HIDE DEF r
  <2>3. caller' = r.c /\ toL' = Capped(toL \o <<r.m>>)
    BY <1>1, <1>4, <2>2, Zenon
  <2>4. IsSeq(<<r.m>>) /\ Elems(<<r.m>>) = {r.m}
    BY OneElem
  <2>5. /\ IsSeq(toL') /\ \A m \in Elems(toL') : RequestOk(m, env)
        /\ Elems(toL') \subseteq Elems(toL) \cup {r.m}
    <3> DEFINE one == <<r.m>>
    <3> HIDE DEF one
    <3>1. IsSeq(one) /\ Elems(one) = {r.m} /\ toL' = Capped(toL \o one)
      BY <2>3, <2>4 DEF one
    <3>2. \A m \in Elems(one) : RequestOk(m, env)
      BY <2>2, <3>1
    <3> QED BY <1>2, <3>1, <3>2, SentOk, ZenonT(30)
  <2>6. NetOk' /\ SocksOk'
    BY <1>1, <2>5 DEF Inv, NetOk, SocksOk
  <2>7. Early(caller', socks', toL', toC')
    BY <1>1, <2>2, <2>3, <2>5 DEF Inv, Early
  <2>8. CallerOk(caller', env') /\ Linked(caller', socks')
    BY <1>1, <2>2, <2>3 DEF CallerOk, Linked
  <2> QED BY <1>1, <2>6, <2>7, <2>8 DEF Inv
<1> QED BY <1>2, <1>3, <1>4

(* What a datagram taken from the network leaves behind. *)
LEMMA DatagramTaken ==
  Inv /\ toC # <<>> /\ toC' = Tail(toC) /\ socks' = socks /\ env' = env =>
    /\ IsSeq(toC') /\ (\A m \in Elems(toC') : AnswerOk(m, env', socks'))
    /\ Elems(toC') \subseteq Elems(toC) /\ AnswerOk(Head(toC), env, socks)
    /\ Head(toC) \in Elems(toC) /\ SocksOk'
<1> HAVE Inv /\ toC # <<>> /\ toC' = Tail(toC) /\ socks' = socks /\ env' = env
<1>1. IsSeq(toC) /\ \A m \in Elems(toC) : AnswerOk(m, env, socks)
  BY DEF Inv, NetOk
<1>2. IsSeq(toC') /\ Elems(toC') \subseteq Elems(toC) /\ Head(toC) \in Elems(toC)
  BY <1>1, TailElems
<1>3. SocksOk'
  BY DEF Inv, SocksOk
<1> QED BY <1>1, <1>2, <1>3

(* A packet at a connecting caller preserves the invariant. *)
LEMMA CallerPacketKeeps == ASSUME Inv, CallerPacket PROVE Inv'
<1> DEFINE p == processConnectResponse(caller, Head(toC))
           r == Request(p.c)
<1>1. /\ caller.phase = "connecting" /\ toC # <<>> /\ toC' = Tail(toC)
      /\ env' = env /\ socks' = socks
      /\ CASE p.cst = "REJECT" \/ (p.cst # "ACCEPT" /\ r.c.u.fail) ->
               /\ caller' = [p.c EXCEPT !.phase = "failed"]
               /\ toL' = Capped(toL \o Shutdown(p.c))
          [] p.cst = "ACCEPT" -> caller' = p.c /\ UNCHANGED toL
          [] p.cst \in {"CONTINUE", "CONFUSED"} /\ ~r.c.u.fail ->
               /\ caller' = Storing(r.c, r.m)
               /\ toL' = IF caller.sync THEN toL ELSE Capped(Append(toL, r.m))
  BY ZenonT(30) DEF CallerPacket, Storing
<1>2. /\ IsSeq(toC') /\ (\A m \in Elems(toC') : AnswerOk(m, env', socks'))
      /\ Elems(toC') \subseteq Elems(toC) /\ AnswerOk(Head(toC), env, socks)
      /\ Head(toC) \in Elems(toC) /\ SocksOk'
  BY <1>1, DatagramTaken
<1>3. /\ Placed(caller, env) /\ ConfigOk(env.c) /\ ConfigOk(env.l)
      /\ caller.req \in {"INDUCTION", "CONCLUSION"} /\ caller.sync \in BOOLEAN
      /\ IsSeq(toL) /\ \A m \in Elems(toL) : RequestOk(m, env)
  <2>1. Placed(caller, env) /\ IsSeq(toL) /\ \A m \in Elems(toL) : RequestOk(m, env)
    BY <1>1 DEF Inv, CallerOk, NetOk
  <2>2. ConfigOk(env.c) /\ ConfigOk(env.l)
    BY CaseOk DEF Inv
  <2> QED BY <2>1, <2>2 DEF Placed
<1>4. Head(toC).type = "CONCLUSION" => caller.req = "CONCLUSION"
  BY <1>2, <1>3 DEF Inv, Early
<1>5. Outcome(p, caller, env, socks)
  BY <1>2, <1>3, <1>4, ResponseTaken
<1>6. Placed(p.c, env) =>
        /\ Placed(r.c, env) /\ r.c.u.fail = FALSE /\ RequestOk(r.m, env) /\ r.m.type = p.c.req
        /\ r.c.req = p.c.req /\ r.c.phase = p.c.phase
  BY <1>3, RequestSent, Zenon
<1> HIDE DEF p, r
<1>7. CASE p.cst \in {"CONTINUE", "CONFUSED"} /\ Placed(p.c, env)
  <2> DEFINE d == Storing(r.c, r.m)
  <2>1. /\ Placed(r.c, env) /\ r.c.u.fail = FALSE /\ RequestOk(r.m, env) /\ r.m.type = p.c.req
        /\ r.c.req = p.c.req /\ r.c.phase = p.c.phase
    BY <1>6, <1>7
  <2>2. caller' = d /\ toL' = IF caller.sync THEN toL ELSE Capped(Append(toL, r.m))
    BY <1>1, <1>7, <2>1, ZenonT(30)
  <2>3. Placed(d, env) /\ d.req = r.c.req /\ d.phase = r.c.phase /\ Elems(d.stored) = {r.m}
    BY <2>1, RequestStored, ZenonT(30)
  <2> HIDE DEF d
  <2>4. p.c.phase = "connecting" /\ (p.c.req = "INDUCTION" => caller.req = "INDUCTION")
    BY <1>1, <1>5, <1>7 DEF Outcome
  <2>5. IsSeq(toL') /\ Elems(toL') \subseteq Elems(toL) \cup {r.m}
    <3>1. CASE caller.sync
      BY <1>3, <2>2, <3>1
    <3>2. CASE ~caller.sync
      BY <1>3, <2>2, <3>2, AppendedOk
    <3> QED BY <1>3, <3>1, <3>2
  <2>6. NetOk'
    BY <1>1, <1>2, <1>3, <2>1, <2>5 DEF NetOk
  <2>7. CallerOk(caller', env') /\ Linked(caller', socks')
    BY <1>1, <2>1, <2>2, <2>3, <2>4, ZenonT(30) DEF CallerOk, Linked
  <2>8. Early(caller', socks', toL', toC')
    BY <1>1, <1>2, <2>1, <2>2, <2>3, <2>4, <2>5 DEF Inv, Early
  <2> QED BY <1>1, <1>2, <2>6, <2>7, <2>8 DEF Inv
<1>8. CASE p.cst = "REJECT"
  <2>1. caller' = [p.c EXCEPT !.phase = "failed"] /\ toL' = Capped(toL \o Shutdown(p.c))
    BY <1>1, <1>8
  <2>2. /\ p.c.stored = caller.stored /\ p.c.req = caller.req /\ IsCaller(p.c)
        /\ p.c.u.peerId = "none" \/ p.c.peer # 0
    BY <1>5, <1>8 DEF Outcome
  <2>3. caller'.phase = "failed" /\ caller'.stored = caller.stored /\ caller'.req = caller.req
    BY <2>1, <2>2 DEF IsCaller, CallerFields
  <2>4. /\ IsSeq(Shutdown(p.c))
        /\ \A m \in Elems(Shutdown(p.c)) : RequestOk(m, env) /\ m.type # "CONCLUSION"
    BY <2>2, ShutdownOk, Zenon
  <2>5. /\ IsSeq(toL') /\ \A m \in Elems(toL') : RequestOk(m, env)
        /\ Elems(toL') \subseteq Elems(toL) \cup Elems(Shutdown(p.c))
    BY <1>3, <2>1, <2>4, SentOk, ZenonT(30)
  <2>6. NetOk'
    BY <1>1, <1>2, <2>5 DEF NetOk
  <2>7. CallerOk(caller', env') /\ Linked(caller', socks')
    BY <2>3 DEF CallerOk, Linked
  <2>8. Early(caller', socks', toL', toC')
    BY <1>1, <1>2, <2>3, <2>4, <2>5 DEF Inv, Early
  <2> QED BY <1>1, <1>2, <2>6, <2>7, <2>8 DEF Inv
<1>9. CASE p.cst = "ACCEPT"
  <2>1. caller' = p.c /\ toL' = toL
    BY <1>1, <1>9
  <2>2. /\ p.c.stored = caller.stored /\ p.c.req = caller.req
        /\ p.c.phase = "connected" /\ Linked(p.c, socks)
    BY <1>5, <1>9 DEF Outcome
  <2>3. NetOk' /\ CallerOk(caller', env') /\ Linked(caller', socks')
    BY <1>1, <1>2, <1>3, <2>1, <2>2 DEF NetOk, CallerOk
  <2>4. Early(caller', socks', toL', toC')
    BY <1>1, <1>2, <2>1, <2>2 DEF Inv, Early
  <2> QED BY <1>1, <1>2, <2>3, <2>4 DEF Inv
<1> QED BY <1>5, <1>7, <1>8, <1>9, ZenonT(30) DEF Outcome

(* A caller that gives up, breaks or is closed is no longer bound by what   *)
(* it has negotiated.                                                       *)
LEMMA CallerGone ==
  ASSUME NEW c, NEW e, NEW sk, c.phase \in {"failed", "broken", "expired"}
  PROVE  CallerOk(c, e) /\ Linked(c, sk)
  BY DEF CallerOk, Linked

(* A packet at a caller that is closed preserves the invariant. *)
LEMMA CallerIgnoresKeeps == ASSUME Inv, CallerIgnores PROVE Inv'
<1>1. /\ toC # <<>> /\ toC' = Tail(toC) /\ caller' = caller /\ env' = env
      /\ socks' = socks /\ toL' = toL
  BY DEF CallerIgnores
<1>2. NetOk' /\ SocksOk' /\ Elems(toC') \subseteq Elems(toC)
  BY <1>1, DatagramTaken DEF Inv, NetOk
<1>3. Early(caller', socks', toL', toC')
  BY <1>1, <1>2 DEF Inv, Early
<1> QED BY <1>1, <1>2, <1>3 DEF Inv

(* The connection timeout preserves the invariant. *)
LEMMA CallerExpiresKeeps == ASSUME Inv, CallerExpires PROVE Inv'
<1> DEFINE why == IF caller.u.reason = "UNKNOWN" \/ caller.sync THEN "TIMEOUT" ELSE caller.u.reason
<1>1. /\ caller.phase = "connecting" /\ env' = env /\ socks' = socks /\ toL' = toL /\ toC' = toC
      /\ caller' = [caller EXCEPT !.phase = "expired", !.u.reason = why]
  BY DEF CallerExpires
<1> HIDE DEF why
<1>2. IsCaller(caller)
  BY <1>1 DEF Inv, CallerOk, Placed
<1>3. caller'.phase = "expired" /\ caller'.stored = caller.stored /\ caller'.req = caller.req
  BY <1>1, <1>2 DEF IsCaller, CallerFields
<1>4. CallerOk(caller', env') /\ Linked(caller', socks')
  BY <1>3, CallerGone
<1>5. Early(caller', socks', toL', toC') /\ SocksOk' /\ NetOk'
  BY <1>1, <1>3 DEF Inv, Early, SocksOk, NetOk
<1> QED BY <1>1, <1>4, <1>5 DEF Inv

(* A handshake or a shutdown at a connected caller preserves the invariant. *)
LEMMA CallerConnectedPacketKeeps == ASSUME Inv, CallerConnectedPacket PROVE Inv'
<1> DEFINE m == Head(toC)
           breaks == m.type \in {"INDUCTION", "FAILURE"}
           ends == breaks \/ m.type = "SHUTDOWN"
           f == Packet("FAILURE", NoExt, 0, "ROGUE", caller.peer)
<1>1. /\ caller.phase = "connected" /\ toC # <<>> /\ toC' = Tail(toC)
      /\ env' = env /\ socks' = socks
      /\ caller' = [caller EXCEPT !.phase = IF ends THEN "broken" ELSE @,
                                  !.u.reason = IF breaks THEN "ROGUE" ELSE @]
      /\ toL' = IF breaks THEN Capped(Append(toL, f)) ELSE toL
  BY DEF CallerConnectedPacket
<1>2. /\ IsSeq(toC') /\ (\A x \in Elems(toC') : AnswerOk(x, env', socks'))
      /\ Elems(toC') \subseteq Elems(toC) /\ SocksOk'
  BY <1>1, DatagramTaken
<1>3. /\ caller.peer \in DOMAIN socks /\ IsCaller(caller) /\ IsSocket(caller.u)
      /\ IsSeq(toL) /\ \A x \in Elems(toL) : RequestOk(x, env)
  BY <1>1 DEF Inv, Linked, NetOk
<1>4. caller.peer # 0
  <2>1. DOMAIN socks = 1 .. Len(socks) /\ Len(socks) \in Nat
    BY SequenceElems DEF Inv, SocksOk, IsSeq
  <2> QED BY <1>3, <2>1
<1>5. RequestOk(f, env) /\ f.type # "CONCLUSION"
  <2>1. Made(f, "FAILURE", NoExt, caller.peer)
    BY PacketMade, Zenon
  <2> HIDE DEF f
  <2> QED BY <1>4, <2>1 DEF Made, RequestOk
<1> HIDE DEF m, breaks, ends, f
<1>6. caller'.stored = caller.stored /\ caller'.req = caller.req
  BY <1>1, <1>3 DEF IsCaller, CallerFields
<1>7. IsSeq(toL') /\ Elems(toL') \subseteq Elems(toL) \cup {f}
  <2>1. CASE breaks
    <3>1. toL' = Capped(Append(toL, f))
      BY <1>1, <2>1
    <3> QED BY <1>3, <3>1, AppendedOk
  <2>2. CASE ~breaks
    <3>1. toL' = toL
      BY <1>1, <2>2
    <3> QED BY <1>3, <3>1
  <2> QED BY <2>1, <2>2
<1>8. CallerOk(caller', env') /\ Linked(caller', socks')
  <2>1. CASE ends
    <3>1. caller'.phase = "broken"
      BY <1>1, <1>3, <2>1 DEF IsCaller, CallerFields
    <3> QED BY <3>1, CallerGone
  <2>2. CASE ~ends
    <3>1. ~breaks
      BY <2>2 DEF ends
    <3>2. caller' = [caller EXCEPT !.phase = @, !.u.reason = @]
      BY <1>1, <2>2, <3>1
    <3>3. [caller.u EXCEPT !.reason = @] = caller.u
      BY <1>3 DEF IsSocket, Fields
    <3>4. caller' = caller
      BY <1>3, <3>2, <3>3, ZenonT(30) DEF IsCaller, CallerFields
    <3> QED BY <1>1, <3>4 DEF Inv
  <2> QED BY <2>1, <2>2
<1>9. NetOk'
  BY <1>1, <1>2, <1>3, <1>5, <1>7 DEF NetOk
<1>10. Early(caller', socks', toL', toC')
  BY <1>1, <1>2, <1>5, <1>6, <1>7 DEF Inv, Early
<1> QED BY <1>1, <1>2, <1>8, <1>9, <1>10 DEF Inv

(****************************** the listener ******************************)

(* The youngest of the sockets is one of them. *)
LEMMA MaxIsMember ==
  ASSUME NEW n \in Nat, NEW S \in SUBSET (1 .. n), S # {}
  PROVE  Max(S) \in S /\ \A y \in S : Max(S) >= y
<1> DEFINE Less == {p \in Nat \X Nat : p[1] < p[2]}
           T == {n - y : y \in S}
<1>1. IsWellFoundedOn(Less, Nat)
  BY NatLessThanWellFounded DEF OpToRel
<1>2. /\ \A y \in S : y \in Nat /\ n - y \in Nat
      /\ \A y \in S : n - y \in T
      /\ \A t \in T : \E y \in S : t = n - y
  <2>1. \A y \in S : y \in 1 .. n
    OBVIOUS
  <2>2. \A y \in S : y \in Nat /\ n - y \in Nat
    BY <2>1
  <2> QED BY <2>2, Zenon
<1>3. \A x, y \in Nat : y < x => <<y, x>> \in Less
  OBVIOUS
<1> HIDE DEF Less, T
<1>4. T \in SUBSET Nat /\ T # {}
  BY <1>2, ZenonT(30)
<1>5. PICK x \in T : \A y \in T : ~(<<y, x>> \in Less)
  BY <1>1, <1>4, WFMin, ZenonT(30)
<1>6. PICK z \in S : x = n - z
  BY <1>2, <1>5
<1>7. ASSUME NEW y \in S PROVE z >= y
  <2>1. ~(n - y < n - z)
    BY <1>2, <1>3, <1>5, <1>6, ZenonT(30)
  <2> QED BY <1>2, <2>1
<1> QED BY <1>7, ZenonT(30) DEF Max

(* The socket a repeated request leads to (locatePeer) is the youngest of   *)
(* those that are not closed.                                               *)
LEMMA PeerLocated ==
  ASSUME IsSeq(socks)
  PROVE  LET known == {i \in DOMAIN socks : socks[i].status # "gone"}
         IN /\ locatePeer # 0 => locatePeer \in known
            /\ \A i \in known : i <= locatePeer
<1> DEFINE known == {i \in DOMAIN socks : socks[i].status # "gone"}
<1>1. DOMAIN socks = 1 .. Len(socks) /\ Len(socks) \in Nat
  BY SequenceElems DEF IsSeq
<1>2. known \in SUBSET (1 .. Len(socks))
  BY <1>1
<1>3. locatePeer = IF known = {} THEN 0 ELSE Max(known)
  BY DEF locatePeer
<1> HIDE DEF known
<1>4. CASE known = {}
  BY <1>3, <1>4 DEF known
<1>5. CASE known # {}
  <2>1. Max(known) \in known /\ \A y \in known : Max(known) >= y
    BY <1>1, <1>2, <1>5, MaxIsMember, ZenonT(30)
  <2>2. locatePeer = Max(known)
    BY <1>3, <1>5
  <2>3. \A y \in known : y <= Max(known)
    BY <1>1, <1>2, <2>1
  <2> QED BY <2>1, <2>2, <2>3 DEF known
<1> QED BY <1>4, <1>5

(* A socket that answers a request of the caller has negotiated with it. *)
LEMMA AcceptNegotiates ==
  ASSUME ConfigOk(env.c), ConfigOk(env.l), NEW m, m.ext = RequestOf(env.c, "C"),
         ~acceptAndRespond(m).u.fail
  PROVE  LET a == acceptAndRespond(m)
         IN Negotiated(env.c, env.l, "C", a.u, a.ext)
<1> DEFINE s == Socket("L", env.l)
           b == [s EXCEPT !.side = "RESPONDER", !.peerId = "C"]
           u == createCrypter(b)
           k == interpretSrtHandshake(u, m.ext)
           w == createSrtHandshake(k.u, "HSRSP", k.km)
           d == [w.u EXCEPT !.connected = TRUE]
           a == acceptAndRespond(m)
<1>1. a = IF k.u.fail THEN [u |-> k.u, ext |-> NoExt] ELSE [u |-> d, ext |-> w.ext]
  BY Zenon DEF acceptAndRespond
<1>2. /\ IsSocket(s) /\ s.cfg = env.l /\ s.filter = env.l.filter /\ s.tsbpd = FALSE
      /\ s.peerTsbpd = FALSE /\ s.crypto = FALSE /\ s.fail = FALSE
  BY DEF Socket, IsSocket, Fields
<1> HIDE DEF s
<1>3. /\ IsSocket(b) /\ b.cfg = env.l /\ b.filter = env.l.filter /\ b.tsbpd = FALSE
      /\ b.peerTsbpd = FALSE /\ b.crypto = FALSE /\ b.fail = FALSE /\ b.side = "RESPONDER"
  BY <1>2, ZenonT(30) DEF IsSocket, Fields
<1> HIDE DEF b
<1>4. Answering(u, env.l)
  <2> DEFINE ctx == b.cfg.secret # "" /\ b.side = "INITIATOR"
  <2>1. /\ Kept(b, u, {"crypto", "sndKm", "rcvKm", "sndCtx", "rcvCtx", "kmMsg"})
        /\ u.crypto = TRUE /\ u.rcvKm = "UNSECURED"
        /\ u.sndKm = IF b.cfg.secret # "" THEN "SECURING" ELSE "UNSECURED"
        /\ u.sndCtx = ctx /\ u.rcvCtx = ctx
        /\ u.kmMsg = IF ctx THEN [pw |-> b.cfg.secret, key |-> b.id] ELSE NoKm
    BY <1>3, Crypter, Zenon
  <2>2. ctx = FALSE
    BY <1>3
  <2> HIDE DEF u, ctx
  <2>3. u.sndCtx = FALSE /\ u.rcvCtx = FALSE /\ u.kmMsg = NoKm
    BY <2>1, <2>2, Zenon
  <2>4. /\ IsSocket(u) /\ u.cfg = env.l /\ u.filter = env.l.filter /\ u.tsbpd = FALSE
        /\ u.peerTsbpd = FALSE /\ u.fail = FALSE /\ u.side = "RESPONDER"
    <3>1. Kept(b, u, {"crypto", "sndKm", "rcvKm", "sndCtx", "rcvCtx", "kmMsg"})
      BY <2>1
    <3> QED BY <1>3, <3>1 DEF Kept, Fields
  <2>5. u.side # "INITIATOR"
    BY <2>4
  <2>6. b.cfg = u.cfg
    BY <1>3, <2>4
  <2> QED BY <2>1, <2>3, <2>4, <2>5, <2>6, Zenon DEF Answering, NoKeysYet
<1> HIDE DEF u
<1>5. ~k.u.fail
  <2> HIDE DEF k, w, d
  <2> SUFFICES ASSUME k.u.fail PROVE FALSE
    OBVIOUS
  <2>1. a.u = k.u
    BY <1>1
  <2> QED BY <2>1
<1>6. w.u.fail = FALSE /\ Negotiated(env.c, env.l, "C", w.u, w.ext)
  <2> DEFINE x == RequestOf(env.c, "C")
             kk == interpretSrtHandshake(u, x)
             ww == createSrtHandshake(kk.u, "HSRSP", kk.km)
  <2>1. kk = k /\ ww = w
    BY Zenon
  <2>2. kk.u.fail # TRUE
    BY <1>5, <2>1, ZenonT(30)
  <2>3. NegotiatesWith(env.c, env.l, "C", u)
    BY <1>4, <2>2, ResponderNegotiates, Zenon
  <2>4. ww.u.fail = FALSE /\ Negotiated(env.c, env.l, "C", ww.u, ww.ext)
    BY <2>3, Zenon DEF NegotiatesWith
  <2> HIDE DEF kk, ww, k, w
  <2> QED BY <2>1, <2>4
<1> HIDE DEF k, w
<1>7. a.u = d /\ a.ext = w.ext
  BY <1>1, <1>5
<1>8. Alike(w.u, d)
  <2>1. IsSocket(w.u)
    BY <1>6 DEF Negotiated
  <2> QED BY <2>1, ZenonT(30) DEF Alike, Kept, IsSocket, Fields
<1> HIDE DEF d, a
<1>9. Negotiated(env.c, env.l, "C", d, w.ext)
  BY <1>6, <1>8, StillNegotiated, Zenon
<1> QED BY <1>7, <1>9 DEF a

(* A change of the entry of a spawned socket that leaves the socket alone. *)
SameEntry(s, t) == IsEntry(t) /\ t.u = s.u /\ t.hadKm = s.hadKm

(* q is a table of as many sockets as p. *)
SameShape(p, q) == q = [i \in DOMAIN p |-> q[i]]

(* The table of sockets is still a sequence when entries change. *)
LEMMA ShapeKept ==
  ASSUME NEW p, NEW q, IsSeq(p), SameShape(p, q)
  PROVE  IsSeq(q) /\ DOMAIN q = DOMAIN p /\ Len(q) = Len(p)
<1>1. DOMAIN p = 1 .. Len(p) /\ Len(p) \in Nat
  BY SequenceElems DEF IsSeq
<1>2. DOMAIN q = DOMAIN p
  BY DEF SameShape
<1>3. \A i \in 1 .. Len(p) : q[i] \in Elems(q)
  BY <1>1, <1>2 DEF Elems
<1>4. q = [i \in 1 .. Len(p) |-> q[i]]
  BY <1>1 DEF SameShape
<1>5. q \in Seq(Elems(q)) /\ Len(q) = Len(p)
  BY <1>1, <1>3, <1>4
<1> QED BY <1>2, <1>5 DEF IsSeq

(* The sockets of the table are as good as before when only their status changes. *)
LEMMA SocksTouched ==
  ASSUME NEW e, NEW p, NEW q, IsSeq(p), \A i \in DOMAIN p : SockOk(p[i], e),
         SameShape(p, q), \A i \in DOMAIN p : SameEntry(p[i], q[i])
  PROVE  /\ IsSeq(q) /\ DOMAIN q = DOMAIN p /\ Len(q) = Len(p) /\ Grown(p, q)
         /\ \A i \in DOMAIN q : SockOk(q[i], e)
<1>1. IsSeq(q) /\ DOMAIN q = DOMAIN p /\ Len(q) = Len(p)
  BY ShapeKept
<1>2. ASSUME NEW i \in DOMAIN p PROVE SockOk(q[i], e) /\ Alike(p[i].u, q[i].u)
  <2>1. SockOk(p[i], e) /\ SameEntry(p[i], q[i])
    OBVIOUS
  <2>2. IsEntry(q[i]) /\ q[i].u = p[i].u /\ q[i].hadKm = p[i].hadKm /\ IsSocket(p[i].u)
    BY <2>1 DEF SameEntry, SockOk
  <2>3. Alike(p[i].u, q[i].u)
    BY <2>2 DEF Alike, Kept
  <2> QED BY <2>1, <2>2, <2>3, Zenon DEF SockOk
<1> QED BY <1>1, <1>2 DEF Grown

(* The status of a spawned socket, and its place in the accept queue. *)
LEMMA EntrySet ==
  ASSUME NEW s, IsEntry(s), NEW x, NEW y
  PROVE  /\ SameEntry(s, [s EXCEPT !.status = x]) /\ SameEntry(s, [s EXCEPT !.queued = y])
         /\ SameEntry(s, [s EXCEPT !.status = x, !.queued = y]) /\ SameEntry(s, s)
  BY ZenonT(30) DEF SameEntry, IsEntry

(* A step of the listener's side: sockets keep what they negotiated, and    *)
(* what is sent is an answer that one of them may give.                     *)
ListenerSide ==
  /\ env' = env /\ caller' = caller
  /\ IsSeq(toL') /\ (\A m \in Elems(toL') : m \in Elems(toL))
  /\ IsSeq(socks') /\ (\A i \in DOMAIN socks' : SockOk(socks'[i], env)) /\ Grown(socks, socks')
  /\ IsSeq(toC') /\ (\A m \in Elems(toC') : m \in Elems(toC) \/ AnswerOk(m, env, socks'))
  /\ caller.req = "INDUCTION" =>
       DOMAIN socks' = {} /\ \A m \in Elems(toC') : m \in Elems(toC) \/ m.type # "CONCLUSION"

(* What the listener and its sockets do preserves the invariant. *)
LEMMA ListenerSideKeeps == ASSUME Inv, ListenerSide PROVE Inv'
<1>1. env' = env /\ caller' = caller /\ Grown(socks, socks')
  BY DEF ListenerSide
<1>2. env' \in Cases /\ CallerOk(caller', env')
  BY <1>1 DEF Inv
<1>3. SocksOk'
  BY <1>1 DEF ListenerSide, SocksOk
<1>4. \A m \in Elems(toC') : AnswerOk(m, env, socks')
  <2>1. \A m \in Elems(toC) : AnswerOk(m, env, socks)
    BY DEF Inv, NetOk
  <2>2. \A m \in Elems(toC) : AnswerOk(m, env, socks')
    BY <1>1, <2>1, AnswersStay
  <2> QED BY <2>2 DEF ListenerSide
<1>5. NetOk'
  BY <1>1, <1>4 DEF ListenerSide, Inv, NetOk
<1>6. Early(caller', socks', toL', toC')
  <2> SUFFICES ASSUME caller.req = "INDUCTION" PROVE Early(caller', socks', toL', toC')
    BY <1>1 DEF Early
  <2>1. /\ \A m \in Elems(toL) \cup Elems(caller.stored) : m.type # "CONCLUSION"
        /\ \A m \in Elems(toC) : m.type # "CONCLUSION"
    BY DEF Inv, Early
  <2> QED BY <1>1, <2>1 DEF ListenerSide, Early
<1>7. Linked(caller', socks')
  <2>1. Linked(caller, socks)
    BY DEF Inv
  <2>2. Linked(caller, socks')
    BY <1>1, <2>1, LinkStays
  <2> QED BY <1>1, <2>2
<1> QED BY <1>2, <1>3, <1>5, <1>6, <1>7 DEF Inv

(* Datagrams without extensions. *)
LEMMA NoticeOk ==
  ASSUME NEW m, NEW e, NEW sk, NEW type, NEW s, Made(m, type, NoExt, s),
         \/ type \in {"INDUCTION", "FAILURE", "SHUTDOWN", "KEEPALIVE"}
         \/ type = "CONCLUSION" /\ s # 0
  PROVE  AnswerOk(m, e, sk) /\ (type # "CONCLUSION" => m.type # "CONCLUSION")
  BY DEF Made, AnswerOk

(* One entry of the table of sockets is changed. *)
LEMMA OneTouched ==
  ASSUME NEW p, NEW i, NEW s
  PROVE  LET q == [p EXCEPT ![i] = s]
         IN SameShape(p, q) /\ \A j \in DOMAIN p : q[j] = IF j = i THEN s ELSE p[j]
  BY DEF SameShape

(* The table of sockets after one of them changed its status. *)
LEMMA EntryChanged ==
  ASSUME Inv, NEW i, i \in DOMAIN socks => IsEntry(socks[i]), NEW s,
         i \in DOMAIN socks => SameEntry(socks[i], s)
  PROVE  LET q == [socks EXCEPT ![i] = s]
         IN /\ IsSeq(q) /\ DOMAIN q = DOMAIN socks /\ Grown(socks, q)
            /\ \A j \in DOMAIN q : SockOk(q[j], env)
<1> DEFINE q == [socks EXCEPT ![i] = s]
<1>1. SameShape(socks, q) /\ \A j \in DOMAIN socks : q[j] = IF j = i THEN s ELSE socks[j]
  BY OneTouched, ZenonT(30)
<1>2. IsSeq(socks) /\ \A j \in DOMAIN socks : SockOk(socks[j], env)
  BY DEF Inv, SocksOk
<1> HIDE DEF q
<1>3. ASSUME NEW j \in DOMAIN socks PROVE SameEntry(socks[j], q[j])
  <2>1. IsEntry(socks[j])
    BY <1>2 DEF SockOk
  <2>2. SameEntry(socks[j], socks[j])
    BY <2>1, EntrySet, Zenon
  <2> QED BY <1>1, <2>2
<1>4. /\ IsSeq(q) /\ DOMAIN q = DOMAIN socks /\ Grown(socks, q)
      /\ \A j \in DOMAIN q : SockOk(q[j], env)
  BY <1>1, <1>2, <1>3, SocksTouched
<1> QED BY <1>4 DEF q

(* The table of sockets and the network as the invariant has them. *)
LEMMA SocksSame ==
  ASSUME Inv
  PROVE  /\ IsSeq(socks) /\ (\A i \in DOMAIN socks : SockOk(socks[i], env) /\ IsEntry(socks[i]))
         /\ Grown(socks, socks) /\ DOMAIN socks = 1 .. Len(socks) /\ Len(socks) \in Nat
         /\ caller.req = "INDUCTION" => DOMAIN socks = {}
         /\ IsSeq(toL) /\ IsSeq(toC)
<1>1. IsSeq(socks) /\ (\A i \in DOMAIN socks : SockOk(socks[i], env)) /\ IsSeq(toL) /\ IsSeq(toC)
  BY DEF Inv, SocksOk, NetOk
<1>2. \A i \in DOMAIN socks : IsEntry(socks[i]) /\ Alike(socks[i].u, socks[i].u)
  <2> TAKE i \in DOMAIN socks
  <2>1. IsEntry(socks[i]) /\ IsSocket(socks[i].u)
    BY <1>1 DEF SockOk
  <2> QED BY <2>1 DEF Alike, Kept
<1>3. DOMAIN socks = 1 .. Len(socks) /\ Len(socks) \in Nat
  BY <1>1, SequenceElems DEF IsSeq
<1>4. caller.req = "INDUCTION" => DOMAIN socks = {}
  BY DEF Inv, Early
<1> QED BY <1>1, <1>2, <1>3, <1>4 DEF Grown

(* A keepalive of a spawned socket preserves the invariant. *)
LEMMA KeepaliveKeeps == ASSUME Inv, NEW i \in DOMAIN socks, AcceptedKeepalive(i) PROVE Inv'
<1> DEFINE m == Packet("KEEPALIVE", NoExt, 0, "", i)
           t == [m EXCEPT !.twin = TRUE]
<1>1. /\ toC = <<>> /\ toC' = <<t>>
      /\ env' = env /\ caller' = caller /\ socks' = socks /\ toL' = toL
  BY Zenon DEF AcceptedKeepalive
<1>2. Made(m, "KEEPALIVE", NoExt, i)
  BY PacketMade, Zenon
<1> HIDE DEF m
<1>3. Made(t, "KEEPALIVE", NoExt, i)
  BY <1>2, TwinMade DEF Made
<1> HIDE DEF t
<1>4. AnswerOk(t, env, socks) /\ t.type # "CONCLUSION"
  BY <1>3, NoticeOk
<1>5. IsSeq(toC') /\ Elems(toC') = {t}
  BY <1>1, OneElem
<1>6. ListenerSide
  BY <1>1, <1>4, <1>5, SocksSame DEF ListenerSide
<1> QED BY <1>6, ListenerSideKeeps

(* The expiration of a spawned socket (checkExpTimer) preserves the invariant. *)
LEMMA ExpiresKeeps == ASSUME Inv, NEW i \in DOMAIN socks, AcceptedExpires(i) PROVE Inv'
<1> DEFINE s == [socks[i] EXCEPT !.status = "broken"]
<1>1. /\ socks' = [socks EXCEPT ![i] = s]
      /\ env' = env /\ caller' = caller /\ toC' = toC /\ toL' = toL
  BY ZenonT(30) DEF AcceptedExpires
<1>2. SameEntry(socks[i], s) /\ IsEntry(socks[i])
  BY SocksSame, EntrySet, ZenonT(30)
<1> HIDE DEF s
<1>3. /\ IsSeq(socks') /\ DOMAIN socks' = DOMAIN socks /\ Grown(socks, socks')
      /\ \A j \in DOMAIN socks' : SockOk(socks'[j], env)
  BY <1>1, <1>2, EntryChanged, ZenonT(30)
<1>4. ListenerSide
  BY <1>1, <1>3, SocksSame DEF ListenerSide
<1> QED BY <1>4, ListenerSideKeeps

(* Closing a spawned socket (closeInternal) preserves the invariant. *)
LEMMA ClosesKeeps == ASSUME Inv, NEW i \in DOMAIN socks, AcceptedCloses(i) PROVE Inv'
<1> DEFINE s == [socks[i] EXCEPT !.status = "gone", !.queued = FALSE]
           m == Packet("SHUTDOWN", NoExt, 0, "", i)
<1>1. /\ socks' = [socks EXCEPT ![i].status = "gone", ![i].queued = FALSE]
      /\ toC' = IF socks[i].status = "shutdown" THEN toC ELSE Capped(Append(toC, m))
      /\ env' = env /\ caller' = caller /\ toL' = toL
  BY Zenon DEF AcceptedCloses
<1>2. SameEntry(socks[i], s) /\ IsEntry(socks[i])
  BY SocksSame, EntrySet, ZenonT(30)
<1>3. Made(m, "SHUTDOWN", NoExt, i)
  BY PacketMade, Zenon
<1> HIDE DEF m
<1>4. socks' = [socks EXCEPT ![i] = s]
  BY <1>1, ZenonT(30)
<1> HIDE DEF s
<1>5. AnswerOk(m, env, socks') /\ m.type # "CONCLUSION"
  BY <1>3, NoticeOk
<1>6. /\ IsSeq(socks') /\ DOMAIN socks' = DOMAIN socks /\ Grown(socks, socks')
      /\ \A j \in DOMAIN socks' : SockOk(socks'[j], env)
  BY <1>2, <1>4, EntryChanged, ZenonT(30)
<1>7. IsSeq(toC') /\ Elems(toC') \subseteq Elems(toC) \cup {m}
  <2>1. CASE socks[i].status = "shutdown"
    BY <1>1, <2>1, SocksSame
  <2>2. CASE socks[i].status # "shutdown"
    <3>1. toC' = Capped(Append(toC, m))
      BY <1>1, <2>2
    <3> QED BY <3>1, SocksSame, AppendedOk
  <2> QED BY <2>1, <2>2
<1>8. ListenerSide
  BY <1>1, <1>5, <1>6, <1>7, SocksSame, ZenonT(30) DEF ListenerSide
<1> QED BY <1>8, ListenerSideKeeps

(* accept preserves the invariant. *)
LEMMA AcceptKeeps == ASSUME Inv, accept PROVE Inv'
<1>1. env' = env /\ caller' = caller /\ toC' = toC /\ toL' = toL
  BY DEF accept
<1>2. CASE socks' = socks
  <2>1. ListenerSide
    BY <1>1, <1>2, SocksSame DEF ListenerSide
  <2> QED BY <2>1, ListenerSideKeeps
<1>3. CASE \E i \in DOMAIN socks : socks' = [socks EXCEPT ![i].queued = FALSE]
  <2>1. PICK i \in DOMAIN socks : socks' = [socks EXCEPT ![i].queued = FALSE]
    BY <1>3, ZenonT(30)
  <2> DEFINE s == [socks[i] EXCEPT !.queued = FALSE]
  <2>2. SameEntry(socks[i], s) /\ IsEntry(socks[i])
    BY SocksSame, EntrySet, ZenonT(30)
  <2>3. socks' = [socks EXCEPT ![i] = s]
    BY <2>1
  <2> HIDE DEF s
  <2>4. /\ IsSeq(socks') /\ DOMAIN socks' = DOMAIN socks /\ Grown(socks, socks')
        /\ \A j \in DOMAIN socks' : SockOk(socks'[j], env)
    BY <2>2, <2>3, EntryChanged, ZenonT(30)
  <2>5. ListenerSide
    BY <1>1, <2>4, SocksSame DEF ListenerSide
  <2> QED BY <2>5, ListenerSideKeeps
<1> QED BY <1>2, <1>3 DEF accept

(* A step that moves neither end nor the network preserves the invariant. *)
LEMMA QuietKeeps ==
  ASSUME Inv, env' = env, caller' = caller, socks' = socks, toC' = toC, toL' = toL
  PROVE  Inv'
<1>1. ListenerSide
  BY SocksSame DEF ListenerSide
<1> QED BY <1>1, ListenerSideKeeps

(* A packet for a spawned socket preserves the invariant. *)
LEMMA AcceptedPacketKeeps == ASSUME Inv, AcceptedPacket PROVE Inv'
<1> DEFINE h == Head(toL)
           live == h.sock \in DOMAIN socks /\ socks[h.sock].status = "connected"
           s == [socks[h.sock] EXCEPT !.status = "shutdown"]
           m == Packet("CONCLUSION", NoExt, 0, "", h.sock)
<1>1. /\ toL # <<>> /\ toL' = Tail(toL) /\ env' = env /\ caller' = caller /\ h.sock # 0
      /\ socks' = IF live /\ h.type = "SHUTDOWN" THEN [socks EXCEPT ![h.sock].status = "shutdown"]
                  ELSE socks
      /\ toC' = IF live /\ h.type = "FAILURE" THEN Capped(Append(toC, m)) ELSE toC
  BY Zenon DEF AcceptedPacket
<1>2. Made(m, "CONCLUSION", NoExt, h.sock)
  BY PacketMade, Zenon
<1> HIDE DEF m
<1>3. AnswerOk(m, env, socks')
  BY <1>1, <1>2, NoticeOk
<1>4. IsSeq(toL') /\ Elems(toL') \subseteq Elems(toL)
  BY <1>1, SocksSame, TailElems
<1> HIDE DEF h
<1>5. /\ IsSeq(socks') /\ DOMAIN socks' = DOMAIN socks /\ Grown(socks, socks')
      /\ \A j \in DOMAIN socks' : SockOk(socks'[j], env)
  <2>1. CASE live /\ h.type = "SHUTDOWN"
    <3>1. SameEntry(socks[h.sock], s) /\ IsEntry(socks[h.sock])
      BY <2>1, SocksSame, EntrySet, ZenonT(30)
    <3>2. socks' = [socks EXCEPT ![h.sock] = s]
      BY <1>1, <2>1
    <3> HIDE DEF s
    <3> QED BY <3>1, <3>2, EntryChanged, ZenonT(30)
  <2>2. CASE ~(live /\ h.type = "SHUTDOWN")
    <3>1. socks' = socks
      BY <1>1, <2>2
    <3> QED BY <3>1, SocksSame
  <2> QED BY <2>1, <2>2
<1>6. IsSeq(toC') /\ (Elems(toC') \subseteq Elems(toC) \/ (live /\ Elems(toC') \subseteq Elems(toC) \cup {m}))
  <2>1. CASE live /\ h.type = "FAILURE"
    <3>1. toC' = Capped(Append(toC, m))
      BY <1>1, <2>1
    <3> QED BY <2>1, <3>1, SocksSame, AppendedOk
  <2>2. CASE ~(live /\ h.type = "FAILURE")
    BY <1>1, <2>2, SocksSame
  <2> QED BY <2>1, <2>2
<1>7. live => caller.req # "INDUCTION"
  BY SocksSame
<1> HIDE DEF live
<1>8. ListenerSide
  BY <1>1, <1>3, <1>4, <1>5, <1>6, <1>7, SocksSame DEF ListenerSide
<1> QED BY <1>8, ListenerSideKeeps

(******************************* the network ******************************)

(* A lost datagram preserves the invariant. *)
LEMMA LoseKeeps == ASSUME Inv, Lose PROVE Inv'
<1>1. env' = env /\ caller' = caller /\ socks' = socks
  BY DEF Lose
<1>2. IsSeq(toL') /\ Elems(toL') \subseteq Elems(toL) /\ IsSeq(toC') /\ Elems(toC') \subseteq Elems(toC)
  BY SocksSame, TailElems, ZenonT(30) DEF Lose
<1>3. ListenerSide
  BY <1>1, <1>2, SocksSame DEF ListenerSide
<1> QED BY <1>3, ListenerSideKeeps

(* Reordering preserves the invariant. *)
LEMMA OvertakeKeeps == ASSUME Inv, Overtake PROVE Inv'
<1>1. env' = env /\ caller' = caller /\ socks' = socks
  BY DEF Overtake
<1>2. ASSUME NEW q, IsSeq(q), Len(q) > 1
      PROVE  IsSeq(Append(Tail(q), Head(q))) /\ Elems(Append(Tail(q), Head(q))) \subseteq Elems(q)
  <2>1. q # <<>>
    BY <1>2
  <2> QED BY <1>2, <2>1, TailElems, AppendElems
<1>3. IsSeq(toL') /\ Elems(toL') \subseteq Elems(toL) /\ IsSeq(toC') /\ Elems(toC') \subseteq Elems(toC)
  BY <1>2, SocksSame, ZenonT(30) DEF Overtake
<1>4. ListenerSide
  BY <1>1, <1>3, SocksSame DEF ListenerSide
<1> QED BY <1>4, ListenerSideKeeps

(* The copy of a datagram. *)
LEMMA CopyMade ==
  ASSUME NEW q, IsSeq(q), q # <<>>, \A m \in Elems(q) : IsPacket(m)
  PROVE  /\ IsSeq(Doubled(q))
         /\ \A t \in Elems(Doubled(q)) : t \in Elems(q) \/
              \E m \in Elems(q) : t = [m EXCEPT !.twin = TRUE] /\ t.type = m.type
<1>1. Head(q) \in Elems(q)
  BY TailElems
<1>2. [Head(q) EXCEPT !.twin = TRUE].type = Head(q).type
  BY <1>1, TwinMade
<1> QED BY <1>1, <1>2, DoubledElems, ZenonT(30)

(* A duplicated datagram preserves the invariant. *)
LEMMA DuplicateKeeps == ASSUME Inv, Duplicate PROVE Inv'
<1>1. env' = env /\ caller' = caller /\ socks' = socks
  BY DEF Duplicate
<1>2. /\ IsSeq(toL) /\ \A m \in Elems(toL) : RequestOk(m, env) /\ IsPacket(m)
      /\ IsSeq(toC) /\ \A m \in Elems(toC) : AnswerOk(m, env, socks) /\ IsPacket(m)
  BY DEF Inv, NetOk, RequestOk, AnswerOk
<1>3. CASE toL # <<>> /\ toL' = Doubled(toL) /\ toC' = toC
  <2>1. /\ IsSeq(toL')
        /\ \A t \in Elems(toL') : t \in Elems(toL) \/
             \E m \in Elems(toL) : t = [m EXCEPT !.twin = TRUE] /\ t.type = m.type
    BY <1>2, <1>3, CopyMade
  <2>2. \A t \in Elems(toL') : RequestOk(t, env)
    BY <1>2, <2>1, TwinOk
  <2>3. NetOk' /\ SocksOk'
    BY <1>1, <1>2, <1>3, <2>1, <2>2 DEF Inv, NetOk, SocksOk
  <2>4. Early(caller', socks', toL', toC')
    BY <1>1, <1>3, <2>1 DEF Inv, Early
  <2> QED BY <1>1, <2>3, <2>4 DEF Inv
<1>4. CASE toC # <<>> /\ toC' = Doubled(toC) /\ toL' = toL
  <2>1. /\ IsSeq(toC')
        /\ \A t \in Elems(toC') : t \in Elems(toC) \/
             \E m \in Elems(toC) : t = [m EXCEPT !.twin = TRUE] /\ t.type = m.type
    BY <1>2, <1>4, CopyMade
  <2>2. \A t \in Elems(toC') : AnswerOk(t, env, socks)
    BY <1>2, <2>1, TwinOk
  <2>3. NetOk' /\ SocksOk'
    BY <1>1, <1>2, <1>4, <2>1, <2>2 DEF Inv, NetOk, SocksOk
  <2>4. Early(caller', socks', toL', toC')
    BY <1>1, <1>4, <2>1 DEF Inv, Early
  <2> QED BY <1>1, <2>3, <2>4 DEF Inv
<1> QED BY <1>3, <1>4 DEF Duplicate

(* A request taken from the network. *)
LEMMA FirstTaken ==
  ASSUME Inv, toL # <<>>
  PROVE  /\ IsSeq(Tail(toL)) /\ Elems(Tail(toL)) \subseteq Elems(toL)
         /\ RequestOk(Head(toL), env)
         /\ caller.req = "INDUCTION" => Head(toL).type # "CONCLUSION"
<1>1. IsSeq(toL) /\ \A m \in Elems(toL) : RequestOk(m, env)
  BY DEF Inv, NetOk
<1>2. IsSeq(Tail(toL)) /\ Elems(Tail(toL)) \subseteq Elems(toL) /\ Head(toL) \in Elems(toL)
  BY <1>1, TailElems
<1> QED BY <1>1, <1>2 DEF Inv, Early

(* A repeated request is answered by the socket that answered it before. *)
LEMMA RepeatKeeps ==
  ASSUME Inv, env' = env, caller' = caller, toL # <<>>, toL' = Tail(toL),
         caller.req # "INDUCTION", NEW i \in DOMAIN socks, RepeatResponse(i)
  PROVE  Inv'
<1> DEFINE s == socks[i].u
           hadKm == socks[i].hadKm
           k == craftKmResponse([s EXCEPT !.fail = FALSE], hadKm)
           w == createSrtHandshake(k.u, "HSRSP", k.km)
           m == Packet("CONCLUSION", w.ext, 0, "", i)
           t == [socks[i] EXCEPT !.u = w.u]
<1>1. IF k.u.fail THEN socks' = [socks EXCEPT ![i].u = k.u] /\ toC' = toC
      ELSE /\ socks' = [socks EXCEPT ![i].u = w.u]
           /\ toC' = Capped(Append(toC, IF w.u.fail THEN Failure("IPE") ELSE m))
  BY Zenon DEF RepeatResponse
<1>2. SockOk(socks[i], env) /\ ConfigOk(env.c) /\ i # 0
  BY SocksSame, CaseOk DEF Inv
<1>3. PICK x : Negotiated(env.c, env.l, "C", s, x)
  BY <1>2 DEF SockOk
<1>4. /\ k.u.fail = FALSE /\ w.u.fail = FALSE
      /\ Alike(s, w.u) /\ Negotiated(env.c, env.l, "C", w.u, w.ext)
  <2>1. hadKm = (env.c.secret # "")
    BY <1>2, Zenon DEF SockOk
  <2>2. hadKm \in BOOLEAN
    BY <2>1, Zenon
  <2>3. Repeated(env.c, env.l, "C", s, hadKm)
    BY <1>2, <1>3, <2>1, <2>2, RepeatAnswer, Zenon
  <2> QED BY <2>3, Zenon DEF Repeated
<1>5. Made(m, "CONCLUSION", w.ext, i)
  BY PacketMade, Zenon
<1> HIDE DEF k, w, m
<1>6. socks' = [socks EXCEPT ![i] = t] /\ toC' = Capped(Append(toC, m))
  BY <1>1, <1>4
<1>7. IsEntry(t) /\ t.hadKm = hadKm /\ t.u = w.u
  <2>1. IsEntry(socks[i])
    BY <1>2 DEF SockOk
  <2> QED BY <2>1, ZenonT(30) DEF IsEntry
<1> HIDE DEF t
<1>8. SockOk(t, env)
  <2>1. IsSocket(w.u)
    BY <1>4 DEF Alike, Kept
  <2> QED BY <1>2, <1>4, <1>7, <2>1, Zenon DEF SockOk
<1>9. /\ SameShape(socks, socks')
      /\ \A j \in DOMAIN socks : socks'[j] = IF j = i THEN t ELSE socks[j]
  BY <1>6, OneTouched, ZenonT(30)
<1>10. IsSeq(socks') /\ DOMAIN socks' = DOMAIN socks
  BY <1>9, SocksSame, ShapeKept
<1>11. Grown(socks, socks')
  <2>1. \A j \in DOMAIN socks : Alike(socks[j].u, socks'[j].u)
    BY <1>4, <1>7, <1>9, SocksSame DEF Grown
  <2> QED BY <1>10, <2>1 DEF Grown
<1>12. \A j \in DOMAIN socks' : SockOk(socks'[j], env)
  BY <1>8, <1>9, <1>10, SocksSame
<1>13. AnswerOk(m, env, socks')
  <2>1. socks'[i].u = w.u /\ i \in DOMAIN socks'
    BY <1>7, <1>9, <1>10
  <2>2. IsPacket(m) /\ m.type = "CONCLUSION" /\ m.ext = w.ext /\ m.sock = i
    BY <1>5 DEF Made
  <2>3. m.type \in {"INDUCTION", "CONCLUSION", "FAILURE", "SHUTDOWN", "KEEPALIVE"}
    BY <2>2
  <2> QED BY <1>2, <1>4, <2>1, <2>2, <2>3, Zenon DEF AnswerOk
<1>14. IsSeq(toC') /\ Elems(toC') \subseteq Elems(toC) \cup {m}
  BY <1>6, SocksSame, AppendedOk
<1>15. ListenerSide
  BY <1>10, <1>11, <1>12, <1>13, <1>14, FirstTaken DEF ListenerSide
<1> QED BY <1>15, ListenerSideKeeps

(* The request of a caller with a passphrase carries its key. *)
LEMMA RequestHasKey ==
  ASSUME NEW c, ConfigOk(c), NEW id
  PROVE  (RequestOf(c, id).km # NoKm) = (c.secret # "")
<1>1. RequestOf(c, id).km = KmOf(c, id)
  <2> HIDE DEF KmOf
  <2>1. \A h, k, f, g : [cmd |-> "HSREQ", hs |-> h, km |-> k, filter |-> f, congctl |-> g].km = k
    OBVIOUS
  <2> QED BY <2>1, Zenon DEF RequestOf
<1>2. CASE c.secret # ""
  BY <1>1, <1>2, KeyMessage, Zenon
<1>3. CASE c.secret = ""
  <2>1. KmOf(c, id) = NoKm
    BY <1>3, Zenon DEF KmOf
  <2> QED BY <1>1, <1>3, <2>1, Zenon
<1> QED BY <1>2, <1>3, Zenon

(* The table of sockets with one more at its end. *)
LEMMA OneMore ==
  ASSUME NEW p, NEW q, NEW s, NEW e, IsSeq(q), Grown(p, q), \A i \in DOMAIN q : SockOk(q[i], e),
         SockOk(s, e)
  PROVE  LET r == Append(q, s)
         IN /\ IsSeq(r) /\ Grown(p, r) /\ \A i \in DOMAIN r : SockOk(r[i], e)
            /\ Len(q) + 1 \in DOMAIN r /\ r[Len(q) + 1] = s /\ Len(q) + 1 # 0
<1> DEFINE r == Append(q, s)
<1>1. DOMAIN q = 1 .. Len(q) /\ Len(q) \in Nat /\ q \in Seq(Elems(q))
  BY SequenceElems DEF IsSeq
<1>2. IsSeq(r)
  BY AppendElems
<1>3. /\ DOMAIN r = 1 .. Len(q) + 1 /\ r[Len(q) + 1] = s
      /\ \A i \in DOMAIN q : r[i] = q[i]
  <2>1. q \in Seq(Elems(q) \cup {s})
    BY <1>1
  <2> QED BY <1>1, <2>1
<1> HIDE DEF r
<1>4. \A i \in DOMAIN r : SockOk(r[i], e)
  <2> TAKE i \in DOMAIN r
  <2>1. i \in DOMAIN q \/ i = Len(q) + 1
    BY <1>1, <1>3
  <2> QED BY <1>3, <2>1
<1>5. Grown(p, r)
  <2>1. \A i \in DOMAIN q : i \in DOMAIN r
    BY <1>1, <1>3
  <2> QED BY <1>3, <2>1 DEF Grown
<1>6. Len(q) + 1 # 0 /\ Len(q) + 1 \in DOMAIN r
  BY <1>1, <1>3
<1> QED BY <1>2, <1>3, <1>4, <1>5, <1>6, ZenonT(30) DEF r

(* A first request spawns a socket that has negotiated, or is refused. *)
LEMMA NewConnectionKeeps ==
  ASSUME Inv, env' = env, caller' = caller, toL # <<>>, toL' = Tail(toL),
         caller.req # "INDUCTION", NEW m, m.ext = RequestOf(env.c, "C"), newConnection(m)
  PROVE  Inv'
<1> DEFINE old  == locatePeer
           sk   == [i \in DOMAIN socks |->
                      IF i = old THEN [socks[i] EXCEPT !.queued = FALSE] ELSE socks[i]]
           full == others + Cardinality({i \in DOMAIN sk : sk[i].queued}) >= Backlog
           a    == acceptAndRespond(m)
           why  == IF full THEN "BACKLOG" ELSE IF env.l.hookRejects THEN "PEER" ELSE a.u.reason
           no   == full \/ env.l.hookRejects \/ a.u.fail
           s    == [u |-> a.u, hadKm |-> m.ext.km # NoKm, queued |-> TRUE, status |-> "connected"]
           f    == Failure(why)
           r    == Packet("CONCLUSION", a.ext, 0, "", Len(sk) + 1)
<1>1. IF no THEN socks' = sk /\ toC' = Capped(Append(toC, f))
      ELSE socks' = Append(sk, s) /\ toC' = Capped(Append(toC, r))
  BY Zenon DEF newConnection
<1>2. ConfigOk(env.c) /\ ConfigOk(env.l)
  BY CaseOk DEF Inv
<1>3. ~a.u.fail => Negotiated(env.c, env.l, "C", a.u, a.ext)
  BY <1>2, AcceptNegotiates
<1>4. Made(f, "FAILURE", NoExt, 0) /\ Made(r, "CONCLUSION", a.ext, Len(sk) + 1)
  BY PacketMade, Zenon DEF Failure
<1>5. /\ IsSeq(sk) /\ DOMAIN sk = DOMAIN socks /\ Len(sk) = Len(socks) /\ Grown(socks, sk)
      /\ \A i \in DOMAIN sk : SockOk(sk[i], env)
  <2>1. SameShape(socks, sk)
    BY DEF SameShape
  <2>2. \A i \in DOMAIN socks :
          sk[i] = IF i = old THEN [socks[i] EXCEPT !.queued = FALSE] ELSE socks[i]
    OBVIOUS
  <2> HIDE DEF sk
  <2>3. \A i \in DOMAIN socks : SameEntry(socks[i], sk[i])
    <3> TAKE i \in DOMAIN socks
    <3>1. IsEntry(socks[i])
      BY SocksSame
    <3>2. SameEntry(socks[i], socks[i]) /\ SameEntry(socks[i], [socks[i] EXCEPT !.queued = FALSE])
      BY <3>1, EntrySet, Zenon
    <3> QED BY <2>2, <3>2, Zenon
  <2> QED BY <2>1, <2>3, SocksSame, SocksTouched, ZenonT(30)
<1> HIDE DEF sk, full, a, why, f, r
<1>6. CASE no
  <2>1. socks' = sk /\ toC' = Capped(Append(toC, f))
    BY <1>1, <1>6
  <2>2. AnswerOk(f, env, socks')
    BY <1>4, NoticeOk
  <2>3. IsSeq(toC') /\ Elems(toC') \subseteq Elems(toC) \cup {f}
    BY <2>1, SocksSame, AppendedOk
  <2>4. ListenerSide
    BY <1>5, <2>1, <2>2, <2>3, FirstTaken, SMTT(20) DEF ListenerSide
  <2> QED BY <2>4, ListenerSideKeeps
<1>7. CASE ~no
  <2>1. socks' = Append(sk, s) /\ toC' = Capped(Append(toC, r))
    BY <1>1, <1>7
  <2>2. Negotiated(env.c, env.l, "C", a.u, a.ext)
    BY <1>3, <1>7
  <2>3. IsEntry(s) /\ s.u = a.u /\ s.hadKm = (m.ext.km # NoKm)
    BY DEF IsEntry
  <2> HIDE DEF s
  <2>4. s.hadKm = (env.c.secret # "")
    BY <1>2, <2>3, RequestHasKey, ZenonT(30)
  <2>5. SockOk(s, env)
    <3>1. IsSocket(a.u)
      BY <2>2, Zenon DEF Negotiated
    <3> QED BY <2>2, <2>3, <2>4, <3>1, Zenon DEF SockOk
  <2> DEFINE n == Len(sk) + 1
  <2>6. /\ IsSeq(socks') /\ Grown(socks, socks') /\ \A i \in DOMAIN socks' : SockOk(socks'[i], env)
        /\ n \in DOMAIN socks' /\ socks'[n] = s /\ n # 0
    BY <1>5, <2>1, <2>5, OneMore
  <2>7. IsPacket(r) /\ r.type = "CONCLUSION" /\ r.ext = a.ext /\ r.sock = n
    BY <1>4, Zenon DEF Made
  <2> HIDE DEF n
  <2>8. AnswerOk(r, env, socks')
    <3>1. r.type \in {"INDUCTION", "CONCLUSION", "FAILURE", "SHUTDOWN", "KEEPALIVE"}
      BY <2>7
    <3>2. socks'[n].u = a.u
      BY <2>3, <2>6
    <3> QED BY <2>2, <2>6, <2>7, <3>1, <3>2, Zenon DEF AnswerOk
  <2>9. IsSeq(toC') /\ Elems(toC') \subseteq Elems(toC) \cup {r}
    BY <2>1, SocksSame, AppendedOk
  <2>10. ListenerSide
    BY <2>6, <2>8, <2>9, FirstTaken DEF ListenerSide
  <2> QED BY <2>10, ListenerSideKeeps
<1> QED BY <1>6, <1>7

(* processConnectRequest preserves the invariant. *)
LEMMA ConnectRequestKeeps == ASSUME Inv, processConnectRequest PROVE Inv'
<1> DEFINE m == Head(toL)
           i == locatePeer
           n == Packet("INDUCTION", NoExt, minute, "", 0)
<1>1. /\ toL # <<>> /\ m.sock = 0 /\ toL' = Tail(toL) /\ env' = env /\ caller' = caller
      /\ CASE m.type = "INDUCTION" -> toC' = Capped(Append(toC, n)) /\ socks' = socks
           [] m.type = "CONCLUSION" /\ m.cookie \notin FreshCookies -> socks' = socks /\ toC' = toC
           [] m.type = "CONCLUSION" /\ m.cookie \in FreshCookies ->
                IF i # 0 /\ socks[i].status = "connected" THEN RepeatResponse(i)
                ELSE newConnection(m)
  BY Zenon DEF processConnectRequest
<1>2. /\ IsSeq(Tail(toL)) /\ Elems(Tail(toL)) \subseteq Elems(toL)
      /\ RequestOk(m, env) /\ (caller.req = "INDUCTION" => m.type # "CONCLUSION")
  BY <1>1, FirstTaken
<1>3. m.type \in {"INDUCTION", "CONCLUSION"} /\ (m.type = "CONCLUSION" => m.ext = RequestOf(env.c, "C"))
  BY <1>1, <1>2 DEF RequestOk
<1>4. Made(n, "INDUCTION", NoExt, 0)
  BY PacketMade, Zenon
<1>5. i # 0 => i \in DOMAIN socks
  BY SocksSame, PeerLocated
<1> HIDE DEF m, i, n
<1>6. CASE m.type = "INDUCTION"
  <2>1. toC' = Capped(Append(toC, n)) /\ socks' = socks
    BY <1>1, <1>6
  <2>2. AnswerOk(n, env, socks) /\ n.type # "CONCLUSION"
    BY <1>4, NoticeOk
  <2>3. IsSeq(toC') /\ Elems(toC') \subseteq Elems(toC) \cup {n}
    BY <2>1, SocksSame, AppendedOk
  <2>4. ListenerSide
    BY <1>1, <1>2, <2>1, <2>2, <2>3, SocksSame DEF ListenerSide
  <2> QED BY <2>4, ListenerSideKeeps
<1>7. CASE m.type = "CONCLUSION" /\ m.cookie \notin FreshCookies
  <2>1. socks' = socks /\ toC' = toC
    BY <1>1, <1>7, ZenonT(30)
  <2>2. ListenerSide
    BY <1>1, <1>2, <2>1, SocksSame DEF ListenerSide
  <2> QED BY <2>2, ListenerSideKeeps
<1>8. CASE m.type = "CONCLUSION" /\ m.cookie \in FreshCookies
  <2>1. IF i # 0 /\ socks[i].status = "connected" THEN RepeatResponse(i) ELSE newConnection(m)
    BY <1>1, <1>8, ZenonT(30)
  <2>2. caller.req # "INDUCTION" /\ m.ext = RequestOf(env.c, "C")
    BY <1>2, <1>3, <1>8
  <2>3. CASE i # 0 /\ socks[i].status = "connected"
    <3>1. i \in DOMAIN socks /\ RepeatResponse(i)
      BY <1>5, <2>1, <2>3
    <3> QED BY <1>1, <2>2, <3>1, RepeatKeeps
  <2>4. CASE ~(i # 0 /\ socks[i].status = "connected")
    <3>1. newConnection(m)
      BY <2>1, <2>4
    <3> QED BY <1>1, <2>2, <3>1, NewConnectionKeeps
  <2> QED BY <2>3, <2>4
<1> QED BY <1>3, <1>6, <1>7, <1>8

(****************************** the theorems ******************************)

(* The invariant is inductive. *)
LEMMA StepKeeps == ASSUME Inv, [Next]_vars PROVE Inv'
<1>1. CASE UNCHANGED vars
  BY <1>1, QuietKeeps DEF vars
<1>2. CASE OtherCaller \/ MinutePasses
  BY <1>2, QuietKeeps DEF OtherCaller, MinutePasses
<1>3. ASSUME NEW i \in DOMAIN socks, AcceptedKeepalive(i) \/ AcceptedExpires(i) \/ AcceptedCloses(i)
      PROVE  Inv'
  BY <1>3, KeepaliveKeeps, ExpiresKeeps, ClosesKeeps, ZenonT(30)
<1> QED
  BY <1>1, <1>2, <1>3, StartKeeps, ResendKeeps, CallerPacketKeeps, CallerConnectedPacketKeeps,
     CallerIgnoresKeeps, CallerExpiresKeeps, ConnectRequestKeeps, AcceptedPacketKeeps, AcceptKeeps,
     LoseKeeps, DuplicateKeeps, OvertakeKeeps
  DEF Next, CallerHandles, ListenerHandles

(* The invariant holds before the caller connects. *)
LEMMA StartsInPlace == ASSUME Init PROVE Inv
<1> DEFINE s == Socket("C", env.c)
           no == <<>>
<1>1. /\ env \in Cases /\ socks = no /\ toL = no /\ toC = no
      /\ caller = [u |-> s, phase |-> "opened", sync |-> env.sync,
                   req |-> "INDUCTION", cookie |-> 0, stored |-> no, peer |-> 0]
  BY DEF Init
<1>2. env.sync \in BOOLEAN
  BY <1>1, CaseOk, ZenonT(30)
<1>3. Fresh(s, env.c)
  BY DEF Fresh, Socket, IsSocket, Fields
<1> HIDE DEF s
<1>4. IsSeq(no) /\ Elems(no) = {} /\ DOMAIN no = {}
  BY NoElems
<1> HIDE DEF no
<1>5. /\ IsCaller(caller) /\ caller.u = s /\ caller.phase = "opened" /\ caller.sync = env.sync
      /\ caller.req = "INDUCTION" /\ caller.stored = no
  BY <1>1 DEF IsCaller, CallerFields
<1>6. CallerOk(caller, env)
  <2>1. Placed(caller, env)
    BY <1>2, <1>3, <1>4, <1>5, ZenonT(30) DEF Placed
  <2> QED BY <1>5, <2>1 DEF CallerOk
<1>7. SocksOk /\ NetOk
  BY <1>1, <1>4 DEF SocksOk, NetOk
<1>8. Early(caller, socks, toL, toC) /\ Linked(caller, socks)
  BY <1>1, <1>4, <1>5 DEF Early, Linked
<1> QED BY <1>1, <1>6, <1>7, <1>8, ZenonT(30) DEF Inv

(* The invariant is strong enough for both ends to agree and be secured. *)
LEMMA InvAgrees == ASSUME Inv PROVE AgreedAndSecured
<1>1. Agreement
  <2> SUFFICES ASSUME caller.phase = "connected"
               PROVE  Matching(caller.u, socks[caller.peer].u) /\ Matching(socks[caller.peer].u, caller.u)
    BY Zenon DEF Agreement, Matching
  <2> QED BY DEF Inv, Linked
<1>2. EnforcedIsSecured
  <2>1. caller.phase = "connected" => Encrypted(caller.u)
    BY DEF Inv, Linked
  <2>2. ASSUME NEW i \in DOMAIN socks PROVE Encrypted(socks[i].u)
    <3>1. PICK x : Negotiated(env.c, env.l, "C", socks[i].u, x)
      BY DEF Inv, SocksOk, SockOk
    <3> QED BY <3>1, ResponderEncrypted, ZenonT(30)
  <2> QED BY <2>1, <2>2, Zenon DEF EnforcedIsSecured, Encrypted
<1> QED BY <1>1, <1>2, ZenonT(30) DEF AgreedAndSecured

(* Whatever options the two ends have, and whatever is lost, duplicated or  *)
(* reordered, a connected caller and the socket that serves it agree on the *)
(* latencies, the filter, the congestion control and the keys, and an end   *)
(* that enforces encryption has it.                                         *)
THEOREM HandshakeAgrees == Spec => []AgreedAndSecured
<1>1. Init => Inv
  BY StartsInPlace
<1>2. Inv /\ [Next]_vars => Inv'
  BY StepKeeps
<1>3. Inv => AgreedAndSecured
  BY InvAgrees
<1> QED BY <1>1, <1>2, <1>3, PTL DEF Spec

(* A connected socket is younger than any other that is not closed. *)
Youngest(sk) ==
  \A i, j \in DOMAIN sk : sk[i].status = "connected" /\ sk[j].status # "gone" => j <= i

(* Sockets do not come back from the dead. *)
Ageing(p, q) ==
  /\ DOMAIN q = DOMAIN p
  /\ \A i \in DOMAIN p : /\ q[i].status = "connected" => p[i].status = "connected"
                         /\ q[i].status # "gone" => p[i].status # "gone"

(* Sockets that end leave the youngest one the youngest. *)
LEMMA AgeingKeeps == ASSUME NEW p, NEW q, Youngest(p), Ageing(p, q) PROVE Youngest(q)
  BY DEF Youngest, Ageing

(* The status of an entry after one of its fields is set. *)
LEMMA StatusSet ==
  ASSUME NEW s, IsEntry(s), NEW x, NEW y
  PROVE  /\ [s EXCEPT !.status = x].status = x /\ [s EXCEPT !.queued = y].status = s.status
         /\ [s EXCEPT !.status = x, !.queued = y].status = x /\ [s EXCEPT !.u = y].status = s.status
  BY DEF IsEntry

(* One entry of the table ages. *)
LEMMA OneAges ==
  ASSUME Inv, Youngest(socks), NEW i, NEW s, socks' = [socks EXCEPT ![i] = s],
         i \in DOMAIN socks => /\ s.status = "connected" => socks[i].status = "connected"
                               /\ s.status # "gone" => socks[i].status # "gone"
  PROVE  Youngest(socks')
<1>1. DOMAIN socks' = DOMAIN socks /\ \A j \in DOMAIN socks : socks'[j] = IF j = i THEN s ELSE socks[j]
  OBVIOUS
<1>2. Ageing(socks, socks')
  BY <1>1 DEF Ageing
<1> QED BY <1>2, AgeingKeeps

(* No request of the caller spawns a socket beside one that is connected.   *)
LEMMA SpawnKeepsYoungest ==
  ASSUME Inv, Youngest(socks), NEW m, newConnection(m),
         ~(locatePeer # 0 /\ socks[locatePeer].status = "connected")
  PROVE  Youngest(socks')
<1> DEFINE old  == locatePeer
           sk   == [i \in DOMAIN socks |->
                      IF i = old THEN [socks[i] EXCEPT !.queued = FALSE] ELSE socks[i]]
           a    == acceptAndRespond(m)
           s    == [u |-> a.u, hadKm |-> m.ext.km # NoKm, queued |-> TRUE, status |-> "connected"]
<1>1. socks' = sk \/ socks' = Append(sk, s)
  BY Zenon DEF newConnection
<1>2. /\ IsSeq(sk) /\ DOMAIN sk = DOMAIN socks /\ Len(sk) = Len(socks)
      /\ \A i \in DOMAIN sk : sk[i].status = socks[i].status
  <2>1. SameShape(socks, sk)
    BY DEF SameShape
  <2>2. \A i \in DOMAIN socks :
          sk[i] = IF i = old THEN [socks[i] EXCEPT !.queued = FALSE] ELSE socks[i]
    OBVIOUS
  <2> HIDE DEF sk
  <2>3. IsSeq(sk) /\ DOMAIN sk = DOMAIN socks /\ Len(sk) = Len(socks)
    BY <2>1, SocksSame, ShapeKept
  <2>4. \A i \in DOMAIN socks : [socks[i] EXCEPT !.queued = FALSE].status = socks[i].status
    BY SocksSame, StatusSet
  <2>5. \A i \in DOMAIN socks : sk[i].status = socks[i].status
    BY <2>2, <2>4, Zenon
  <2> QED BY <2>3, <2>5
<1>3. s.status = "connected"
  OBVIOUS
<1> HIDE DEF sk, s
<1>4. CASE socks' = sk
  BY <1>2, <1>4 DEF Youngest
<1>5. CASE socks' = Append(sk, s)
  <2>1. DOMAIN socks = 1 .. Len(socks) /\ Len(socks) \in Nat
    BY SocksSame
  <2>2. \A i \in DOMAIN socks : socks[i].status # "connected"
    <3> SUFFICES ASSUME NEW i \in DOMAIN socks, socks[i].status = "connected" PROVE FALSE
      OBVIOUS
    <3>1. locatePeer # 0 => locatePeer \in DOMAIN socks /\ socks[locatePeer].status # "gone"
      BY SocksSame, PeerLocated
    <3>2. i <= locatePeer
      BY SocksSame, PeerLocated
    <3>3. i \in 1 .. Len(socks)
      BY <2>1
    <3>4. locatePeer # 0
      BY <2>1, <3>2, <3>3
    <3>5. locatePeer <= i
      BY <3>1, <3>4 DEF Youngest
    <3>6. locatePeer \in 1 .. Len(socks)
      BY <2>1, <3>1, <3>4
    <3>7. locatePeer = i
      BY <2>1, <3>2, <3>3, <3>5, <3>6
    <3> QED BY <3>4, <3>7
  <2>3. /\ DOMAIN socks' = 1 .. Len(socks) + 1
        /\ \A i \in DOMAIN socks : socks'[i].status = socks[i].status
    <3>1. sk \in Seq(Elems(sk) \cup {s})
      BY <1>2 DEF IsSeq
    <3>2. DOMAIN socks' = 1 .. Len(sk) + 1 /\ \A i \in 1 .. Len(sk) : socks'[i] = sk[i]
      BY <1>5, <3>1
    <3> QED BY <1>2, <2>1, <3>2
  <2>4. \A i \in DOMAIN socks' : socks'[i].status = "connected" => i = Len(socks) + 1
    <3>1. ASSUME NEW i \in DOMAIN socks PROVE socks'[i].status # "connected"
      BY <2>2, <2>3, ZenonT(30)
    <3>2. ASSUME NEW i \in DOMAIN socks', i \notin DOMAIN socks PROVE i = Len(socks) + 1
      BY <2>1, <2>3, <3>2
    <3> QED BY <3>1, <3>2, ZenonT(30)
  <2> QED BY <2>1, <2>3, <2>4 DEF Youngest
<1> QED BY <1>1, <1>4, <1>5

(* No step connects a socket that is not the youngest. *)
LEMMA YoungestKept == ASSUME Inv, Youngest(socks), [Next]_vars PROVE Youngest(socks')
<1>1. CASE socks' = socks
  BY <1>1
<1>2. ASSUME NEW i, i \in DOMAIN socks, AcceptedExpires(i) PROVE Youngest(socks')
  <2> DEFINE s == [socks[i] EXCEPT !.status = "broken"]
  <2>1. socks' = [socks EXCEPT ![i] = s] /\ socks[i].status = "connected"
    BY <1>2 DEF AcceptedExpires
  <2>2. s.status = "broken"
    BY <1>2, SocksSame, StatusSet
  <2> HIDE DEF s
  <2> QED BY <2>1, <2>2, OneAges, ZenonT(30)
<1>3. ASSUME NEW i, i \in DOMAIN socks, AcceptedCloses(i) PROVE Youngest(socks')
  <2> DEFINE s == [socks[i] EXCEPT !.status = "gone", !.queued = FALSE]
  <2>1. socks' = [socks EXCEPT ![i].status = "gone", ![i].queued = FALSE]
    BY <1>3, Zenon DEF AcceptedCloses
  <2>2. socks' = [socks EXCEPT ![i] = s]
    BY <2>1, ZenonT(30)
  <2>3. s.status = "gone"
    BY <1>3, SocksSame, StatusSet
  <2> HIDE DEF s
  <2> QED BY <2>2, <2>3, OneAges, ZenonT(30)
<1>4. ASSUME NEW i, i \in DOMAIN socks, socks' = [socks EXCEPT ![i].queued = FALSE]
      PROVE  Youngest(socks')
  <2> DEFINE s == [socks[i] EXCEPT !.queued = FALSE]
  <2>1. socks' = [socks EXCEPT ![i] = s]
    BY <1>4
  <2>2. s.status = socks[i].status
    BY <1>4, SocksSame, StatusSet
  <2> HIDE DEF s
  <2> QED BY <2>1, <2>2, OneAges, ZenonT(30)
<1>5. CASE AcceptedPacket
  <2> DEFINE i == Head(toL).sock
             s == [socks[i] EXCEPT !.status = "shutdown"]
  <2>1. \/ socks' = socks
        \/ /\ i \in DOMAIN socks /\ socks[i].status = "connected"
           /\ socks' = [socks EXCEPT ![i].status = "shutdown"]
    BY <1>5, Zenon DEF AcceptedPacket
  <2> HIDE DEF i
  <2>2. CASE i \in DOMAIN socks /\ socks[i].status = "connected" /\ socks' = [socks EXCEPT ![i] = s]
    <3>1. s.status = "shutdown"
      BY <2>2, SocksSame, StatusSet
    <3> HIDE DEF s
    <3> QED BY <2>2, <3>1, OneAges, ZenonT(30)
  <2> QED BY <1>1, <2>1, <2>2
<1>6. ASSUME NEW i, i \in DOMAIN socks, RepeatResponse(i) PROVE Youngest(socks')
  <2>1. PICK x : socks' = [socks EXCEPT ![i].u = x]
    BY <1>6, Zenon DEF RepeatResponse
  <2> DEFINE s == [socks[i] EXCEPT !.u = x]
  <2>2. socks' = [socks EXCEPT ![i] = s]
    BY <2>1
  <2>3. s.status = socks[i].status
    BY <1>6, SocksSame, StatusSet
  <2> HIDE DEF s
  <2> QED BY <2>2, <2>3, OneAges, ZenonT(30)
<1>7. CASE processConnectRequest
  <2> DEFINE i == locatePeer
             m == Head(toL)
  <2>1. m.type \in {"INDUCTION", "CONCLUSION"}
    BY <1>7, FirstTaken DEF processConnectRequest, RequestOk
  <2>2. \/ socks' = socks
        \/ i # 0 /\ socks[i].status = "connected" /\ RepeatResponse(i)
        \/ ~(i # 0 /\ socks[i].status = "connected") /\ newConnection(m)
    <3> HIDE DEF i, m
    <3>1. CASE m.type = "INDUCTION"
      BY <1>7, <3>1 DEF processConnectRequest, m
    <3>2. CASE m.type = "CONCLUSION"
      BY <1>7, <3>2 DEF processConnectRequest, m, i
    <3> QED BY <2>1, <3>1, <3>2
  <2>3. i # 0 => i \in DOMAIN socks
    BY SocksSame, PeerLocated
  <2> HIDE DEF i, m
  <2>4. CASE ~(i # 0 /\ socks[i].status = "connected") /\ newConnection(m)
    BY <2>4, SpawnKeepsYoungest DEF i
  <2> QED BY <1>1, <1>6, <2>2, <2>3, <2>4, SMTT(20)
<1>8. CASE accept
  BY <1>1, <1>4, <1>8 DEF accept
<1> QED
  BY <1>1, <1>2, <1>3, <1>5, <1>7, <1>8, ZenonT(30)
  DEF Next, vars, startConnect, Resend, CallerHandles, CallerPacket, CallerConnectedPacket,
      CallerIgnores, ListenerHandles, CallerExpires, AcceptedKeepalive, OtherCaller, MinutePasses,
      Lose, Duplicate, Overtake

(* Of the sockets of a caller only the youngest can be connected. *)
LEMMA YoungestIsAlone == ASSUME Inv, Youngest(socks) PROVE OneSocketPerCaller
<1> DEFINE C == {i \in DOMAIN socks : socks[i].status = "connected"}
<1>1. \A i \in DOMAIN socks : i \in Nat
  BY SocksSame
<1>2. \A i, j \in C : i = j
  BY <1>1 DEF Youngest
<1> HIDE DEF C
<1>3. CASE C = {}
  BY <1>3, FS_EmptySet DEF OneSocketPerCaller, C
<1>4. CASE C # {}
  <2>1. PICK i \in C : TRUE
    BY <1>4
  <2>2. C = {i}
    BY <1>2, <2>1
  <2>3. Cardinality(C) = 1
    BY <2>2, FS_Singleton, ZenonT(30)
  <2> QED BY <2>3 DEF OneSocketPerCaller, C
<1> QED BY <1>3, <1>4

(* However often the caller's request is repeated, lost or duplicated, the  *)
(* listener has at most one connected socket for it (locatePeer finds the   *)
(* one that exists before a new one is spawned).                            *)
THEOREM CallerHasOneSocket == Spec => []OneSocketPerCaller
<1>1. Init => Inv /\ Youngest(socks)
  BY StartsInPlace DEF Init, Youngest
<1>2. Inv /\ Youngest(socks) /\ [Next]_vars => Inv' /\ Youngest(socks')
  BY StepKeeps, YoungestKept
<1>3. Inv /\ Youngest(socks) => OneSocketPerCaller
  BY YoungestIsAlone
<1>4. Youngest(socks)' <=> Youngest(socks')
  BY DEF Youngest
<1> QED BY <1>1, <1>2, <1>3, <1>4, PTL DEF Spec
====
