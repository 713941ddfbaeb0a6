--------------------------- MODULE RdvTurnProofs ---------------------------
(* The rendezvous connection, first part: the invariant, what one agent's   *)
(* turn may change in it, what processRendezvous does to an agent whatever  *)
(* its role, the turns of the initiator, and what the responder becomes     *)
(* when it turns.  The cookies give the two sockets complementary roles     *)
(* (Roles).  The invariant says how far the initiator and the responder are *)
(* (InitiatorOk, ResponderOk), which requests and answers may be on their   *)
(* way (RequestOk, AnswerOk), that neither is ahead of what the other has   *)
(* sent (Progress), and that a connected initiator has the filter of the    *)
(* responder (Linked).                                                      *)
EXTENDS Rendezvous, HsExtProofs, TLAPS

(****************************** the invariant *****************************)

(* The role the cookies give to a socket. *)
Role(e, a) ==
  IF e.cookie[a] = 0 \/ e.cookie[Peer(a)] = 0 THEN "DRAW"
  ELSE backwardCompatibleCookieContest(e.cookie[a], e.cookie[Peer(a)])

AgentFields == {"u", "cookie", "sync", "phase", "rdv", "req", "reqExt", "res", "stored"}

IsAgent(s) == s = [f \in AgentFields |-> s[f]]

(* t is the agent s but for the members in S. *)
Same(s, t, S) == IsAgent(t) /\ \A f \in AgentFields \ S : t[f] = s[f]

PacketFields == {"type", "ext", "reason", "addressed", "twin"}

IsPacket(m) == m = [f \in PacketFields |-> m[f]]

(* A socket that has negotiated nothing. *)
Untouched(u, c, a) ==
  /\ IsSocket(u) /\ u.cfg = c /\ u.id = a /\ u.side = "DRAW" /\ u.filter = c.filter
  /\ u.crypto = FALSE /\ u.tsbpd = FALSE /\ u.peerTsbpd = FALSE /\ u.connected = FALSE
  /\ u.fail = FALSE

(* An agent that has sent nothing but waves. *)
Early(s, c, a) ==
  /\ \/ s.phase = "opened"
     \/ s.phase = "connecting" /\ s.rdv = "WAVING" /\ s.req = "WAVEAHAND"
  /\ Untouched(s.u, c, a) /\ s.res = NoRes /\ s.reqExt = FALSE

(* An agent that has no role. *)
DrawOk(s, c, a) == IsAgent(s) /\ (Early(s, c, a) \/ s.phase = "failed")

Dead(s) == s.phase \in {"failed", "broken"}

(* An initiator's socket that waits for the answer to its request. *)
Asking(u, c, i) ==
  /\ Requesting(u, c, i) /\ u.crypto = TRUE
  /\ u.sndCtx = (c.secret # "") /\ u.rcvCtx = (c.secret # "")

(* The last handshake that was loaded had no extensions. *)
Bare(res) == res.flags = FALSE /\ res.type \in {"WAVEAHAND", "CONCLUSION"}

Inquiring(s, c, i) ==
  /\ s.phase = "connecting" /\ s.rdv \in {"ATTENTION", "FINE"}
  /\ s.req = "CONCLUSION" /\ Bare(s.res) /\ Asking(s.u, c, i)

InitiatorOk(s, c, l, i) ==
  /\ IsAgent(s)
  /\ \/ Early(s, c, i)
     \/ Inquiring(s, c, i)
     \/ s.phase = "connected" /\ Confirmed(s.u, c, l, i)
     \/ Dead(s)

Awaiting(t, l) ==
  /\ t.phase = "connecting" /\ t.rdv = "ATTENTION" /\ t.req = "CONCLUSION"
  /\ Bare(t.res) /\ Answering(t.u, l) /\ t.u.side = "RESPONDER"

(* A responder's socket that has answered the request of i. *)
Served(u, c, l, i) == u.side = "RESPONDER" /\ \E x : Negotiated(c, l, i, u, x)

Offering(t, c, l, i) ==
  /\ t.phase = "connecting" /\ t.rdv \in {"FINE", "INITIATED"} /\ t.req = "CONCLUSION"
  /\ t.res.type = "CONCLUSION" /\ t.res.flags \in BOOLEAN /\ t.res.km = (c.secret # "")
  /\ Served(t.u, c, l, i)

ResponderOk(t, c, l, i) ==
  /\ IsAgent(t)
  /\ \/ Early(t, l, Peer(i))
     \/ Awaiting(t, l)
     \/ Offering(t, c, l, i)
     \/ t.phase = "connected" /\ Served(t.u, c, l, i)
     \/ Dead(t)

Alive(s) == s.phase \in {"opened", "connecting", "connected"}

Been(s) == s.phase \in {"connected", "broken"}

(* An initiator that may have sent a request, a responder that has answered. *)
Asked(s) == s.phase \in {"connected", "failed", "broken"} \/ (s.phase = "connecting" /\ s.rdv # "WAVING")

Serving(t) == t.phase = "connected" \/ (t.phase = "connecting" /\ t.rdv \in {"FINE", "INITIATED"})

(* A datagram of the initiator s, and one of the responder t: an answer     *)
(* with extensions is one that a socket with t's options and filter gives.  *)
RequestOk(m, s, c, i) ==
  /\ IsPacket(m)
  /\ m.ext # NoExt => m.type = "CONCLUSION" /\ m.ext = RequestOf(c, i) /\ Asked(s)
  /\ m.type \in {"AGREEMENT", "KEEPALIVE"} => Been(s)

Offer(x, t, c, l, i) ==
  \E v : /\ Negotiated(c, l, i, v, x)
         /\ Alive(t) => Serving(t) /\ SameFilter(v.filter, t.u.filter, l.filterDefaults)

AnswerOk(m, s, t, c, l, i) ==
  /\ IsPacket(m)
  /\ m.ext # NoExt => m.type = "CONCLUSION" /\ Asked(s) /\ Offer(m.ext, t, c, l, i)
  /\ m.type \in {"AGREEMENT", "KEEPALIVE"} => Been(t)

RequestsOk(q, s, c, i) == IsSeq(q) /\ \A m \in Elems(q) : RequestOk(m, s, c, i)

AnswersOk(q, s, t, c, l, i) == IsSeq(q) /\ \A m \in Elems(q) : AnswerOk(m, s, t, c, l, i)

Progress(s, t) ==
  /\ Serving(t) => Asked(s)
  /\ Been(t) => Been(s)
  /\ Been(s) /\ Alive(t) => Serving(t)

Linked(s, t, l) ==
  s.phase = "connected" /\ Alive(t) => SameFilter(s.u.filter, t.u.filter, l.filterDefaults)

(* The initiator i is s, the responder t; ni and nr are on their way to     *)
(* them.  A connecting socket may repeat the request that is stored.        *)
PairOk(c, l, i, s, t, ni, nr) ==
  /\ InitiatorOk(s, c, l, i) /\ ResponderOk(t, c, l, i)
  /\ RequestsOk(nr, s, c, i) /\ (s.phase = "connecting" => RequestsOk(s.stored, s, c, i))
  /\ AnswersOk(ni, s, t, c, l, i) /\ (t.phase = "connecting" => AnswersOk(t.stored, s, t, c, l, i))
  /\ Progress(s, t) /\ Linked(s, t, l)

Inv ==
  /\ env \in Cases
  /\ ag = [a \in Agents |-> ag[a]] /\ net = [a \in Agents |-> net[a]]
  /\ \A a \in Agents : ag[a].cookie = env.cookie[a]
  /\ \A a \in Agents : Role(env, a) = "DRAW" => DrawOk(ag[a], env.cfg[a], a)
  /\ \A i \in Agents : Role(env, i) = "INITIATOR" =>
       PairOk(env.cfg[i], env.cfg[Peer(i)], i, ag[i], ag[Peer(i)], net[i], net[Peer(i)])

(******************************** the roles *******************************)

(* The two cookies give complementary roles, or none to either             *)
(* (backwardCompatibleCookieContest computes both from the same numbers).   *)
LEMMA Contests ==
  ASSUME NEW x \in Int, NEW y \in Int
  PROVE  LET f == backwardCompatibleCookieContest(x, y)
             g == backwardCompatibleCookieContest(y, x)
         IN \/ f = "DRAW" /\ g = "DRAW"
            \/ f = "INITIATOR" /\ g = "RESPONDER"
            \/ f = "RESPONDER" /\ g = "INITIATOR"
<1> DEFINE M == 2 ^ Width
           H == M \div 2
           Low(z) == ((z % M) + M) % M
           p == Low(x - y)
           q == Low(y - x)
<1>1. M \in Nat \ {0}
  BY CasesAssumption
<1> HIDE DEF M
<1>2. \A z \in Int : Low(z) = z % M /\ z % M \in 0 .. M - 1
  BY <1>1
<1>3. p \in 0 .. M - 1 /\ q \in 0 .. M - 1
  BY <1>2
<1>4. (p = 0 /\ q = 0) \/ (p # 0 /\ q # 0 /\ p + q = M)
  <2> DEFINE k == (x - y) \div M
             j == (y - x) \div M
             n == 0 - (k + j)
  <2>0. \A z \in Int : z \div M \in Int /\ z = M * (z \div M) + (z % M)
    BY <1>1
  <2>1. k \in Int /\ j \in Int /\ p = (x - y) - M * k /\ q = (y - x) - M * j
    <3>1. x - y \in Int /\ y - x \in Int
      OBVIOUS
    <3>2. p = (x - y) % M /\ q = (y - x) % M
      BY <3>1, <1>2
    <3>3. k \in Int /\ j \in Int /\ x - y = M * k + p /\ y - x = M * j + q
      BY <3>1, <3>2, <2>0
    <3> HIDE DEF k, j, p, q
    <3> QED BY <3>3, <1>1, <1>3
  <2> HIDE DEF k, j, p, q
  <2>2. n \in Int /\ p + q = M * n
    BY <2>1, <1>1
  <2> HIDE DEF n
  <2>3. n \in {0, 1}
    <3>1. ~(n <= -1)
      BY <2>2, <1>1, <1>3
    <3>2. ~(n >= 2)
      BY <2>2, <1>1, <1>3
    <3> QED BY <3>1, <3>2, <2>2
  <2> QED BY <2>2, <2>3, <1>1, <1>3
<1>5. H \in Nat /\ (M = 2 * H \/ M = 2 * H + 1)
  BY <1>1
<1>6. p # 0 => x # y
  BY <1>1, <1>2
<1> HIDE DEF H, Low, p, q
<1>7. /\ backwardCompatibleCookieContest(x, y) =
           IF p = 0 THEN "DRAW"
           ELSE IF p >= H THEN IF q >= H /\ x > y THEN "INITIATOR" ELSE "RESPONDER" ELSE "INITIATOR"
      /\ backwardCompatibleCookieContest(y, x) =
           IF q = 0 THEN "DRAW"
           ELSE IF q >= H THEN IF p >= H /\ y > x THEN "INITIATOR" ELSE "RESPONDER" ELSE "INITIATOR"
  BY DEF backwardCompatibleCookieContest, M, H, Low, p, q
<1> QED BY <1>3, <1>4, <1>5, <1>6, <1>7

(* Every case has an initiator and a responder, or a draw. *)
LEMMA Roles ==
  ASSUME NEW e \in Cases, NEW a \in Agents
  PROVE  /\ Peer(a) \in Agents /\ Peer(a) # a /\ Peer(Peer(a)) = a
         /\ \/ Role(e, a) = "DRAW" /\ Role(e, Peer(a)) = "DRAW"
            \/ Role(e, a) = "INITIATOR" /\ Role(e, Peer(a)) = "RESPONDER"
            \/ Role(e, a) = "RESPONDER" /\ Role(e, Peer(a)) = "INITIATOR"
<1>1. Peer(a) \in Agents /\ Peer(a) # a /\ Peer(Peer(a)) = a
  BY DEF Agents, Peer
<1>2. e.cookie[a] \in Int /\ e.cookie[Peer(a)] \in Int
  BY <1>1, CasesAssumption
<1> QED BY <1>1, <1>2, Contests DEF Role

(************************** one agent takes a turn ************************)

(* What a turn of the initiator, or of the responder, may do. *)
InitiatorStep(c, l, i, s, s2, t) ==
  /\ InitiatorOk(s2, c, l, i)
  /\ Asked(s) => Asked(s2)
  /\ Been(s) => Been(s2)
  /\ Been(s2) /\ Alive(t) => Serving(t)
  /\ Linked(s2, t, l)

ResponderStep(c, l, i, t, t2, s) ==
  /\ ResponderOk(t2, c, l, i)
  /\ Alive(t2) => Alive(t)
  /\ Serving(t) /\ Alive(t2) => Serving(t2) /\ SameFilter(t.u.filter, t2.u.filter, l.filterDefaults)
  /\ Been(t) => Been(t2)
  /\ Serving(t2) => Asked(s)
  /\ Been(t2) => Been(s)

InitiatorTurn(c, l, i, s, s2, t, q) ==
  /\ InitiatorStep(c, l, i, s, s2, t) /\ RequestsOk(q, s2, c, i)
  /\ s2.phase = "connecting" => RequestsOk(s2.stored, s2, c, i)

ResponderTurn(c, l, i, t, t2, s, q) ==
  /\ ResponderStep(c, l, i, t, t2, s) /\ AnswersOk(q, s, t2, c, l, i)
  /\ t2.phase = "connecting" => AnswersOk(t2.stored, s, t2, c, l, i)

(* A request that was sent stays one when the initiator goes on. *)
LEMMA RequestsLater ==
  ASSUME NEW q, NEW s, NEW c, NEW i, RequestsOk(q, s, c, i), NEW s2,
         Asked(s) => Asked(s2), Been(s) => Been(s2)
  PROVE  RequestsOk(q, s2, c, i)
  BY Zenon DEF RequestsOk, RequestOk

(* An answer stays one when the initiator goes on. *)
LEMMA AnswersLater ==
  ASSUME NEW q, NEW s, NEW t, NEW c, NEW l, NEW i, AnswersOk(q, s, t, c, l, i), NEW s2,
         Asked(s) => Asked(s2)
  PROVE  AnswersOk(q, s2, t, c, l, i)
  BY Zenon DEF AnswersOk, AnswerOk

(* The extensions of an answer stay an offer when the responder goes on. *)
LEMMA OfferLater ==
  ASSUME NEW x, NEW c, NEW l, NEW i, NEW t, Offer(x, t, c, l, i), NEW t2, NEW s,
         ResponderStep(c, l, i, t, t2, s)
  PROVE  Offer(x, t2, c, l, i)
<1>1. PICK v : /\ Negotiated(c, l, i, v, x)
               /\ Alive(t) => Serving(t) /\ SameFilter(v.filter, t.u.filter, l.filterDefaults)
  BY Zenon DEF Offer
<1>2. ASSUME Alive(t2) PROVE Serving(t2) /\ SameFilter(v.filter, t2.u.filter, l.filterDefaults)
  <2>1. Alive(t) /\ Serving(t) /\ SameFilter(v.filter, t.u.filter, l.filterDefaults)
    BY <1>1, <1>2, Zenon DEF ResponderStep
  <2>2. Serving(t2) /\ SameFilter(t.u.filter, t2.u.filter, l.filterDefaults)
    BY <1>2, <2>1, Zenon DEF ResponderStep
  <2> QED BY <2>1, <2>2, Zenon DEF SameFilter
<1> QED BY <1>1, <1>2, Zenon DEF Offer

(* An answer stays one when the responder goes on. *)
LEMMA OffersLater ==
  ASSUME NEW q, NEW s, NEW t, NEW c, NEW l, NEW i, AnswersOk(q, s, t, c, l, i), NEW t2,
         ResponderStep(c, l, i, t, t2, s)
  PROVE  AnswersOk(q, s, t2, c, l, i)
<1>1. IsSeq(q)
  BY DEF AnswersOk
<1>2. ASSUME NEW m \in Elems(q) PROVE AnswerOk(m, s, t2, c, l, i)
  <2>1. AnswerOk(m, s, t, c, l, i)
    BY DEF AnswersOk
  <2>2. ASSUME m.ext # NoExt PROVE Offer(m.ext, t2, c, l, i)
    BY <2>1, <2>2, OfferLater, Zenon DEF AnswerOk
  <2>3. Been(t) => Been(t2)
    BY DEF ResponderStep
  <2> QED BY <2>1, <2>2, <2>3, Zenon DEF AnswerOk
<1> QED BY <1>1, <1>2, Zenon DEF AnswersOk

(* A full path drops what it cannot hold. *)
LEMMA PathElems ==
  ASSUME NEW q, IsSeq(q)
  PROVE  IsSeq(Capped(q)) /\ Elems(Capped(q)) \subseteq Elems(q)
<1>1. MaxNet \in Nat /\ Len(q) \in Nat
  BY CasesAssumption DEF IsSeq
<1>2. Len(q) > MaxNet => SubSeq(q, 1, MaxNet) \in Seq(Elems(q))
  BY <1>1 DEF IsSeq
<1> QED BY <1>2, SequenceElems, Zenon DEF Capped, IsSeq

(* What is on the way after a turn was on the way before, or is sent by it. *)
LEMMA SentElems ==
  ASSUME NEW q, IsSeq(q), NEW p, IsSeq(p)
  PROVE  IsSeq(Capped(q \o p)) /\ Elems(Capped(q \o p)) \subseteq Elems(q) \cup Elems(p)
<1>1. IsSeq(q \o p) /\ Elems(q \o p) \subseteq Elems(q) \cup Elems(p)
  BY ConcatElems
<1> QED BY <1>1, PathElems

(* A datagram that the network has duplicated. *)
Twin(m) == [m EXCEPT !.twin = TRUE]

(* The path q holds datagrams of S and their twins. *)
Within(q, S) == IsSeq(q) /\ \A m \in Elems(q) : m \in S \/ \E n \in S : m = Twin(n)

(* A twin says what its original says. *)
LEMMA TwinsSay ==
  ASSUME NEW m, IsPacket(m)
  PROVE  IsPacket(Twin(m)) /\ Twin(m).type = m.type /\ Twin(m).ext = m.ext
  BY Zenon DEF Twin, IsPacket, PacketFields

(* A path that holds only requests and their twins holds requests. *)
LEMMA RequestsWithin ==
  ASSUME NEW S, NEW s, NEW c, NEW i, \A m \in S : RequestOk(m, s, c, i), NEW q, Within(q, S)
  PROVE  RequestsOk(q, s, c, i)
<1>1. IsSeq(q)
  BY DEF Within
<1>2. ASSUME NEW m \in Elems(q) PROVE RequestOk(m, s, c, i)
  <2>1. CASE m \in S
    BY <2>1
  <2>2. CASE \E n \in S : m = Twin(n)
    <3>1. PICK n \in S : m = Twin(n)
      BY <2>2
    <3>2. RequestOk(n, s, c, i)
      OBVIOUS
    <3>3. IsPacket(m) /\ m.type = n.type /\ m.ext = n.ext
      BY <3>1, <3>2, TwinsSay, Zenon DEF RequestOk
    <3> QED BY <3>2, <3>3, Zenon DEF RequestOk
  <2> QED BY <2>1, <2>2 DEF Within
<1> QED BY <1>1, <1>2, Zenon DEF RequestsOk

(* A path that holds only answers and their twins holds answers. *)
LEMMA AnswersWithin ==
  ASSUME NEW S, NEW s, NEW t, NEW c, NEW l, NEW i, \A m \in S : AnswerOk(m, s, t, c, l, i),
         NEW q, Within(q, S)
  PROVE  AnswersOk(q, s, t, c, l, i)
<1>1. IsSeq(q)
  BY DEF Within
<1>2. ASSUME NEW m \in Elems(q) PROVE AnswerOk(m, s, t, c, l, i)
  <2>1. CASE m \in S
    BY <2>1
  <2>2. CASE \E n \in S : m = Twin(n)
    <3>1. PICK n \in S : m = Twin(n)
      BY <2>2
    <3>2. AnswerOk(n, s, t, c, l, i)
      OBVIOUS
    <3>3. IsPacket(m) /\ m.type = n.type /\ m.ext = n.ext
      BY <3>1, <3>2, TwinsSay, Zenon DEF AnswerOk
    <3> QED BY <3>2, <3>3, Zenon DEF AnswerOk
  <2> QED BY <2>1, <2>2 DEF Within
<1> QED BY <1>1, <1>2, Zenon DEF AnswersOk

(* A turn of the initiator keeps the pair in order. *)
LEMMA InitiatorMoves ==
  ASSUME NEW c, NEW l, NEW i, NEW s, NEW t, NEW ni, NEW nr, PairOk(c, l, i, s, t, ni, nr),
         NEW s2, NEW q, InitiatorTurn(c, l, i, s, s2, t, q),
         NEW mi, Within(mi, Elems(ni)), NEW mr, Within(mr, Elems(nr) \cup Elems(q))
  PROVE  PairOk(c, l, i, s2, t, mi, mr)
<1>1. (Asked(s) => Asked(s2)) /\ (Been(s) => Been(s2)) /\ InitiatorOk(s2, c, l, i) /\ Linked(s2, t, l)
  BY Zenon DEF InitiatorTurn, InitiatorStep
<1>2. Progress(s2, t)
  BY Zenon DEF InitiatorTurn, InitiatorStep, PairOk, Progress
<1>3. RequestsOk(nr, s2, c, i) /\ RequestsOk(q, s2, c, i)
  BY <1>1, RequestsLater, Zenon DEF PairOk, InitiatorTurn
<1>4. RequestsOk(mr, s2, c, i)
  <2>1. \A m \in Elems(nr) \cup Elems(q) : RequestOk(m, s2, c, i)
    BY <1>3, Zenon DEF RequestsOk
  <2> QED BY <2>1, RequestsWithin, Zenon
<1>5. AnswersOk(mi, s2, t, c, l, i)
  <2>1. \A m \in Elems(ni) : AnswerOk(m, s2, t, c, l, i)
    BY <1>1, AnswersLater, Zenon DEF PairOk, AnswersOk
  <2> QED BY <2>1, AnswersWithin, Zenon
<1>6. t.phase = "connecting" => AnswersOk(t.stored, s2, t, c, l, i)
  BY <1>1, AnswersLater, Zenon DEF PairOk
<1>7. s2.phase = "connecting" => RequestsOk(s2.stored, s2, c, i)
  BY DEF InitiatorTurn
<1>8. ResponderOk(t, c, l, i)
  BY Zenon DEF PairOk
<1> QED BY <1>1, <1>2, <1>4, <1>5, <1>6, <1>7, <1>8, Zenon DEF PairOk

(* A turn of the responder keeps the pair in order. *)
LEMMA ResponderMoves ==
  ASSUME NEW c, NEW l, NEW i, NEW s, NEW t, NEW ni, NEW nr, PairOk(c, l, i, s, t, ni, nr),
         NEW t2, NEW q, ResponderTurn(c, l, i, t, t2, s, q),
         NEW mi, Within(mi, Elems(ni) \cup Elems(q)), NEW mr, Within(mr, Elems(nr))
  PROVE  PairOk(c, l, i, s, t2, mi, mr)
<1>1. ResponderStep(c, l, i, t, t2, s)
  BY DEF ResponderTurn
<1>2. Progress(s, t2)
  BY <1>1, Zenon DEF ResponderStep, PairOk, Progress
<1>3. Linked(s, t2, l)
  <2> SUFFICES ASSUME s.phase = "connected", Alive(t2)
               PROVE  SameFilter(s.u.filter, t2.u.filter, l.filterDefaults)
    BY Zenon DEF Linked
  <2>1. Alive(t)
    BY <1>1, Zenon DEF ResponderStep
  <2>2. Been(s)
    BY DEF Been
  <2>3. Serving(t) /\ SameFilter(s.u.filter, t.u.filter, l.filterDefaults)
    BY <2>1, <2>2, Zenon DEF PairOk, Progress, Linked
  <2>4. SameFilter(t.u.filter, t2.u.filter, l.filterDefaults)
    BY <1>1, <2>3, Zenon DEF ResponderStep
  <2> QED BY <2>3, <2>4, Zenon DEF SameFilter
<1>4. AnswersOk(ni, s, t2, c, l, i) /\ AnswersOk(q, s, t2, c, l, i)
  BY <1>1, OffersLater, Zenon DEF PairOk, ResponderTurn
<1>5. AnswersOk(mi, s, t2, c, l, i)
  <2>1. \A m \in Elems(ni) \cup Elems(q) : AnswerOk(m, s, t2, c, l, i)
    BY <1>4, Zenon DEF AnswersOk
  <2> QED BY <2>1, AnswersWithin, Zenon
<1>6. RequestsOk(mr, s, c, i)
  <2>1. \A m \in Elems(nr) : RequestOk(m, s, c, i)
    BY Zenon DEF PairOk, RequestsOk
  <2> QED BY <2>1, RequestsWithin, Zenon
<1>7. t2.phase = "connecting" => AnswersOk(t2.stored, s, t2, c, l, i)
  BY DEF ResponderTurn
<1>8. /\ InitiatorOk(s, c, l, i) /\ ResponderOk(t2, c, l, i)
      /\ s.phase = "connecting" => RequestsOk(s.stored, s, c, i)
  BY <1>1, Zenon DEF PairOk, ResponderStep
<1> QED BY <1>2, <1>3, <1>5, <1>6, <1>7, <1>8, Zenon DEF PairOk

(* What agent a may become and send, whatever its role. *)
Allowed(a, s2, q) ==
  LET s == ag[a]  t == ag[Peer(a)]  c == env.cfg[a]  l == env.cfg[Peer(a)]
  IN /\ s2.cookie = s.cookie
     /\ Role(env, a) = "DRAW" => DrawOk(s2, c, a)
     /\ Role(env, a) = "INITIATOR" => InitiatorTurn(c, l, a, s, s2, t, q)
     /\ Role(env, a) = "RESPONDER" => ResponderTurn(l, c, Peer(a), s, s2, t, q)

(* The network of a pair is made of sequences. *)
LEMMA PathsAreSeqs ==
  ASSUME Inv, NEW a \in Agents, Role(env, a) # "DRAW"
  PROVE  IsSeq(net[a]) /\ IsSeq(net[Peer(a)])
<1>1. /\ Peer(a) \in Agents /\ Peer(Peer(a)) = a
      /\ Role(env, a) = "INITIATOR" \/ Role(env, Peer(a)) = "INITIATOR"
  BY Roles, Zenon DEF Inv
<1>2. \A i \in Agents : Role(env, i) = "INITIATOR" => IsSeq(net[i]) /\ IsSeq(net[Peer(i)])
  BY Zenon DEF Inv, PairOk, RequestsOk, AnswersOk
<1> QED BY <1>1, <1>2, Zenon

(* The network may have taken q from a; it loses, duplicates and reorders. *)
Delivered(a, q) ==
  /\ net' = [x \in Agents |-> net'[x]]
  /\ Role(env, a) # "DRAW" => /\ Within(net'[a], Elems(net[a]))
                              /\ Within(net'[Peer(a)], Elems(net[Peer(a)]) \cup Elems(q))

(* A turn that is allowed preserves the invariant. *)
LEMMA TurnKeeps ==
  ASSUME Inv, env' = env, NEW a \in Agents, NEW s2, NEW q,
         ag' = [ag EXCEPT ![a] = s2], Delivered(a, q), Allowed(a, s2, q)
  PROVE  Inv'
<1> DEFINE b == Peer(a)
<1>1. b \in Agents /\ b # a /\ Peer(b) = a /\ Agents = {a, b} /\ env \in Cases
  BY Roles DEF Inv, Agents, Peer
<1>2. /\ ag' = [x \in Agents |-> ag'[x]] /\ ag'[a] = s2 /\ ag'[b] = ag[b]
      /\ net' = [x \in Agents |-> net'[x]]
      /\ Role(env, a) # "DRAW" => Within(net'[a], Elems(net[a])) /\ Within(net'[b], Elems(net[b]) \cup Elems(q))
  <2>1. ag = [x \in Agents |-> ag[x]]
    BY DEF Inv
  <2>2. ag' = [x \in Agents |-> ag'[x]] /\ ag'[a] = s2 /\ ag'[b] = ag[b]
    <3> HIDE DEF b
    <3> QED BY <1>1, <2>1, Zenon
  <2> QED BY <2>2, Zenon DEF Delivered
<1>3. \A x \in Agents : ag'[x].cookie = env.cookie[x]
  <2>1. \A x \in Agents : ag[x].cookie = env.cookie[x]
    BY DEF Inv
  <2>2. s2.cookie = ag[a].cookie
    BY DEF Allowed
  <2> QED BY <1>1, <1>2, <2>1, <2>2, Zenon
<1>4. \A x \in Agents : Role(env, x) = "DRAW" => DrawOk(ag'[x], env.cfg[x], x)
  <2>1. Role(env, b) = "DRAW" => DrawOk(ag[b], env.cfg[b], b)
    BY <1>1 DEF Inv
  <2>2. Role(env, a) = "DRAW" => DrawOk(s2, env.cfg[a], a)
    BY DEF Allowed
  <2> QED BY <1>1, <1>2, <2>1, <2>2, Zenon
<1>5. ASSUME Role(env, a) = "INITIATOR"
      PROVE  PairOk(env.cfg[a], env.cfg[b], a, ag'[a], ag'[b], net'[a], net'[b])
  <2>1. PairOk(env.cfg[a], env.cfg[b], a, ag[a], ag[b], net[a], net[b])
    BY <1>5, Zenon DEF Inv
  <2>2. InitiatorTurn(env.cfg[a], env.cfg[b], a, ag[a], s2, ag[b], q)
    BY <1>5, Zenon DEF Allowed
  <2>3. Within(net'[a], Elems(net[a])) /\ Within(net'[b], Elems(net[b]) \cup Elems(q))
    BY <1>2, <1>5
  <2>4. PairOk(env.cfg[a], env.cfg[b], a, s2, ag[b], net'[a], net'[b])
    BY <2>1, <2>2, <2>3, InitiatorMoves, Zenon
  <2> QED BY <1>2, <2>4, Zenon
<1>6. ASSUME Role(env, b) = "INITIATOR"
      PROVE  PairOk(env.cfg[b], env.cfg[a], b, ag'[b], ag'[a], net'[b], net'[a])
  <2>1. PairOk(env.cfg[b], env.cfg[a], b, ag[b], ag[a], net[b], net[a])
    BY <1>1, <1>6, Zenon DEF Inv
  <2>2. Role(env, a) = "RESPONDER"
    <3>1. Role(env, b) = "INITIATOR" => Role(env, a) = "RESPONDER"
      BY <1>1, Roles
    <3> QED BY <3>1, <1>6
  <2>3. ResponderTurn(env.cfg[b], env.cfg[a], b, ag[a], s2, ag[b], q)
    BY <2>2, Zenon DEF Allowed
  <2>4. Within(net'[a], Elems(net[a])) /\ Within(net'[b], Elems(net[b]) \cup Elems(q))
    BY <1>2, <2>2
  <2>5. PairOk(env.cfg[b], env.cfg[a], b, ag[b], s2, net'[b], net'[a])
    BY <2>1, <2>3, <2>4, ResponderMoves, Zenon
  <2> QED BY <1>2, <2>5, Zenon
<1>7. \A i \in Agents : Role(env, i) = "INITIATOR" =>
        PairOk(env.cfg[i], env.cfg[Peer(i)], i, ag'[i], ag'[Peer(i)], net'[i], net'[Peer(i)])
  <2> SUFFICES ASSUME NEW i \in Agents, Role(env, i) = "INITIATOR"
               PROVE  PairOk(env.cfg[i], env.cfg[Peer(i)], i, ag'[i], ag'[Peer(i)], net'[i], net'[Peer(i)])
    OBVIOUS
  <2>1. CASE i = a
    BY <1>5, <2>1, Zenon
  <2>2. CASE i = b
    BY <1>1, <1>6, <2>2, Zenon
  <2> QED BY <1>1, <2>1, <2>2
<1>8. env' \in Cases
  BY <1>1
<1> QED BY <1>2, <1>3, <1>4, <1>7, <1>8, Zenon DEF Inv

(* A turn that sends what is allowed preserves the invariant. *)
LEMMA SendKeeps ==
  ASSUME Inv, env' = env, NEW a \in Agents, NEW s2, NEW q, NEW rest,
         ag' = [ag EXCEPT ![a] = s2], Send(a, q, rest), Allowed(a, s2, q),
         Role(env, a) # "DRAW" => IsSeq(rest) /\ Elems(rest) \subseteq Elems(net[a])
  PROVE  Inv'
<1> DEFINE b == Peer(a)
<1>1. b \in Agents /\ b # a /\ Role(env, a) \in {"DRAW", "INITIATOR", "RESPONDER"}
  <2>1. env \in Cases
    BY DEF Inv
  <2> QED BY <2>1, Roles
<1>2. net' = [x \in Agents |-> net'[x]] /\ net'[a] = rest /\ net'[b] = Capped(net[b] \o q)
  <2>1. net = [x \in Agents |-> net[x]]
    BY DEF Inv
  <2>2. net' = [net EXCEPT ![a] = rest, ![b] = Capped(@ \o q)]
    BY DEF Send
  <2> HIDE DEF b
  <2> QED BY <1>1, <2>1, <2>2, Zenon
<1>3. ASSUME Role(env, a) # "DRAW"
      PROVE  Within(rest, Elems(net[a])) /\ Within(Capped(net[b] \o q), Elems(net[b]) \cup Elems(q))
  <2>1. IsSeq(net[b])
    BY <1>3, PathsAreSeqs, Zenon
  <2>2. IsSeq(q)
    <3>1. CASE Role(env, a) = "INITIATOR"
      BY <3>1, Zenon DEF Allowed, InitiatorTurn, RequestsOk
    <3>2. CASE Role(env, a) = "RESPONDER"
      BY <3>2, Zenon DEF Allowed, ResponderTurn, AnswersOk
    <3> QED BY <1>1, <1>3, <3>1, <3>2
  <2>3. IsSeq(Capped(net[b] \o q)) /\ Elems(Capped(net[b] \o q)) \subseteq Elems(net[b]) \cup Elems(q)
    BY <2>1, <2>2, SentElems, Zenon
  <2>4. IsSeq(rest) /\ Elems(rest) \subseteq Elems(net[a])
    BY <1>3
  <2> QED BY <2>3, <2>4 DEF Within
<1>4. Delivered(a, q)
  BY <1>2, <1>3, Zenon DEF Delivered
<1> QED BY <1>4, TurnKeeps, Zenon

(* An agent that waits while the network loses, duplicates or reorders. *)
LEMMA NetworkKeeps ==
  ASSUME Inv, env' = env, ag' = ag, NEW a \in Agents, NEW q, net' = [net EXCEPT ![a] = q],
         Role(env, a) # "DRAW" => Within(q, Elems(net[a])), Allowed(a, ag[a], <<>>)
  PROVE  Inv'
<1> DEFINE b == Peer(a)
<1>1. b \in Agents /\ b # a
  BY DEF Agents, Peer
<1>2. net' = [x \in Agents |-> net'[x]] /\ net'[a] = q /\ net'[b] = net[b]
  <2>1. net = [x \in Agents |-> net[x]]
    BY DEF Inv
  <2> HIDE DEF b
  <2> QED BY <1>1, <2>1
<1>3. ag' = [ag EXCEPT ![a] = ag[a]]
  BY Zenon DEF Inv
<1>4. Role(env, a) # "DRAW" => Within(net[b], Elems(net[b]) \cup Elems(<<>>))
  BY PathsAreSeqs DEF Within
<1>5. Delivered(a, <<>>)
  BY <1>2, <1>4, Zenon DEF Delivered
<1> QED BY <1>3, <1>5, TurnKeeps, Zenon

(******************************* giving up ********************************)

(* The members of a datagram. *)
LEMMA PacketMade ==
  ASSUME NEW type, NEW ext, NEW reason, NEW addressed
  PROVE  LET m == Packet(type, ext, reason, addressed)
         IN IsPacket(m) /\ m.type = type /\ m.ext = ext
  BY DEF Packet, IsPacket, PacketFields

(* Datagrams that negotiate nothing and confirm nothing. *)
Harmless(q) ==
  /\ IsSeq(q)
  /\ \A m \in Elems(q) : IsPacket(m) /\ m.ext = NoExt /\ m.type \notin {"AGREEMENT", "KEEPALIVE"}

(* Such datagrams may be sent at any time. *)
LEMMA HarmlessOk ==
  ASSUME NEW q, Harmless(q), NEW s, NEW t, NEW c, NEW l, NEW i
  PROVE  RequestsOk(q, s, c, i) /\ AnswersOk(q, s, t, c, l, i)
  BY Zenon DEF Harmless, RequestsOk, RequestOk, AnswersOk, AnswerOk

(* Sending nothing, or one such datagram. *)
LEMMA OneHarmless ==
  /\ Harmless(<<>>)
  /\ \A type, reason, addressed : type \notin {"AGREEMENT", "KEEPALIVE"} =>
       Harmless(<<Packet(type, NoExt, reason, addressed)>>)
<1>1. Harmless(<<>>)
  BY NoElems DEF Harmless
<1>2. ASSUME NEW type, NEW reason, NEW addressed, type \notin {"AGREEMENT", "KEEPALIVE"}
      PROVE  Harmless(<<Packet(type, NoExt, reason, addressed)>>)
  <2> DEFINE m == Packet(type, NoExt, reason, addressed)
  <2>1. IsPacket(m) /\ m.type = type /\ m.ext = NoExt
    BY PacketMade
  <2> HIDE DEF m
  <2>2. IsSeq(<<m>>) /\ Elems(<<m>>) = {m}
    BY OneElem
  <2> QED BY <1>2, <2>1, <2>2 DEF Harmless, m
<1> QED BY <1>1, <1>2

(* The agent s has failed with p. *)
Ended(s, p) ==
  /\ IsAgent(p.s) /\ p.s.phase = "failed" /\ p.s.cookie = s.cookie
  /\ Harmless(p.out) /\ p.cst = "REJECT"

(* Giving up (processAsyncConnectRequest, startConnect) sends at most a     *)
(* failure and a shutdown.                                                  *)
LEMMA GivesUp ==
  ASSUME NEW s, IsAgent(s), NEW rejected
  PROVE  Ended(s, GiveUp(s, rejected))
<1> DEFINE r == IF s.u.reason = "UNKNOWN" THEN "ROGUE" ELSE s.u.reason
           t == [s EXCEPT !.phase = "failed", !.u.reason = r]
           f == IF rejected THEN <<Packet("FAILURE", NoExt, r, TRUE)>> ELSE <<>>
           h == Shutdown(s)
           p == GiveUp(s, rejected)
<1>1. p = [s |-> t, cst |-> "REJECT", out |-> f \o h]
  BY Zenon DEF GiveUp, Outcome
<1>2. Harmless(h)
  <2>1. h = <<>> \/ h = <<Packet("SHUTDOWN", NoExt, "", TRUE)>>
    BY Zenon DEF Shutdown
  <2>2. "SHUTDOWN" \notin {"AGREEMENT", "KEEPALIVE"}
    OBVIOUS
  <2> QED BY <2>1, <2>2, OneHarmless, Zenon
<1>3. Harmless(f)
  <2> HIDE DEF r
  <2>1. f = <<>> \/ f = <<Packet("FAILURE", NoExt, r, TRUE)>>
    BY Zenon
  <2>2. "FAILURE" \notin {"AGREEMENT", "KEEPALIVE"}
    OBVIOUS
  <2> QED BY <2>1, <2>2, OneHarmless, Zenon
<1> HIDE DEF f, h, r
<1>4. IsAgent(t) /\ t.phase = "failed" /\ t.cookie = s.cookie
  BY Zenon DEF IsAgent, AgentFields
<1> HIDE DEF p, t
<1>5. Harmless(f \o h)
  <2>1. IsSeq(f \o h) /\ Elems(f \o h) \subseteq Elems(f) \cup Elems(h)
    BY <1>2, <1>3, ConcatElems DEF Harmless
  <2> QED BY <1>2, <1>3, <2>1 DEF Harmless
<1>6. p.s = t /\ p.cst = "REJECT" /\ p.out = f \o h
  BY <1>1
<1> QED BY <1>4, <1>5, <1>6, Zenon DEF Ended, p

(* A connecting socket may give up at any time. *)
LEMMA EndAllowed ==
  ASSUME NEW a, ag[a].phase = "connecting", NEW p, Ended(ag[a], p)
  PROVE  Allowed(a, p.s, p.out)
<1> DEFINE s == ag[a]  t == ag[Peer(a)]  c == env.cfg[a]  l == env.cfg[Peer(a)]
           s2 == p.s  q == p.out
<1>1. IsAgent(s2) /\ s2.phase = "failed" /\ s2.cookie = s.cookie /\ Harmless(q)
  BY DEF Ended
<1>2. s.phase = "connecting"
  OBVIOUS
<1> HIDE DEF s, t, c, l, s2, q
<1>3. ~Been(s) /\ Asked(s2) /\ ~Been(s2) /\ ~Alive(s2) /\ ~Serving(s2) /\ Dead(s2)
  BY <1>1, <1>2 DEF Been, Asked, Alive, Serving, Dead
<1>4. s2.phase # "connecting" /\ s2.phase # "connected"
  BY <1>1
<1>5. InitiatorTurn(c, l, a, s, s2, t, q)
  <2>1. InitiatorStep(c, l, a, s, s2, t)
    BY <1>1, <1>3, <1>4, Zenon DEF InitiatorStep, InitiatorOk, Linked
  <2> QED BY <1>1, <1>4, <2>1, HarmlessOk, Zenon DEF InitiatorTurn
<1>6. ResponderTurn(l, c, Peer(a), s, s2, t, q)
  <2>1. ResponderStep(l, c, Peer(a), s, s2, t)
    BY <1>1, <1>3, <1>4, Zenon DEF ResponderStep, ResponderOk
  <2> QED BY <1>1, <1>4, <2>1, HarmlessOk, Zenon DEF ResponderTurn
<1> QED BY <1>1, <1>5, <1>6, Zenon DEF Allowed, DrawOk, s, t, c, l, s2, q

(**************************** processRendezvous ***************************)

SwitchOf(s) == rendezvousSwitchState(s.rdv, s.u.side = "INITIATOR", s.res.type, s.res.flags)

Told(u, id) == [createCrypter(u) EXCEPT !.peerId = id]

(* The agent after the switch, before the extensions are looked at. *)
Entered(s, sw) ==
  [s EXCEPT !.rdv = sw.rdv, !.req = sw.rsp, !.reqExt = sw.ext, !.u = Told(s.u, s.res.id)]

Learnt(u, sw, ext, fresh) ==
  IF u.side = "INITIATOR" /\ sw.rsp = "AGREEMENT" /\ fresh
  THEN interpretSrtHandshake(u, ext).u ELSE [u EXCEPT !.fail = FALSE]

Joined(s) == IF s.rdv = "CONNECTED" THEN postConnect(s) ELSE s

Recalled(s, ext, fresh) ==
  IF fresh THEN interpretSrtHandshake(s.u, ext)
  ELSE craftKmResponse([s.u EXCEPT !.fail = FALSE], s.res.km)

Replied(s, k) == createSrtHandshake(k.u, "HSRSP", k.km)

Message(type, ext) == Packet(type, ext, "", TRUE)

(* The agent e has been rejected. *)
Refused(e, p) == p.cst = "REJECT" /\ Same(e, p.s, {"u", "rdv", "req", "reqExt"})

(* It has answered the extensions of a request, or something else. *)
AnsweredHsreq(e, p, ext, fresh) ==
  LET k == Recalled(e, ext, fresh)  w == Replied(e, k)
  IN /\ k.u.fail # TRUE /\ w.u.fail # TRUE
     /\ p.cst = "CONTINUE" /\ p.s = [e EXCEPT !.u = w.u, !.reqExt = TRUE]
     /\ p.out = <<Message("CONCLUSION", w.ext)>>

AnsweredOther(e, p, sw) ==
  LET w == IF sw.ext THEN createSrtHandshake(e.u, "HSREQ", NoKm) ELSE [u |-> e.u, ext |-> NoExt]
  IN \/ sw.rsp = "DONE" /\ p.cst = "ACCEPT" /\ p.s = e /\ p.out = <<>>
     \/ /\ sw.rsp # "DONE" /\ w.u.fail # TRUE
        /\ p.cst = (IF sw.rsp = "AGREEMENT" THEN "ACCEPT" ELSE "CONTINUE")
        /\ p.s = [e EXCEPT !.u = w.u] /\ p.out = <<Message(sw.rsp, w.ext)>>

(* Changing members of an agent. *)
LEMMA AgentChanged ==
  ASSUME NEW s, IsAgent(s), NEW v
  PROVE  /\ Same(s, [s EXCEPT !.u = v], {"u"}) /\ [s EXCEPT !.u = v].u = v
         /\ Same(s, [s EXCEPT !.u = v, !.reqExt = TRUE], {"u", "reqExt"})
         /\ [s EXCEPT !.u = v, !.reqExt = TRUE].u = v
         /\ Same(s, [s EXCEPT !.stored = v], {"stored"}) /\ [s EXCEPT !.stored = v].stored = v
         /\ Same(s, [s EXCEPT !.res = v], {"res"}) /\ [s EXCEPT !.res = v].res = v
         /\ Same(s, [s EXCEPT !.rdv = v], {"rdv"})
         /\ Same(s, [s EXCEPT !.u.reason = v], {"u"})
         /\ Same(s, [s EXCEPT !.u.side = v], {"u"})
         /\ [s EXCEPT !.u.side = v].u = [s.u EXCEPT !.side = v]
  BY Zenon DEF IsAgent, AgentFields, Same

(* The answer to the extensions of a request (case 2 of processRendezvous). *)
LEMMA HsreqTurn ==
  ASSUME NEW e, IsAgent(e), NEW ext, NEW fresh \in BOOLEAN
  PROVE  LET p == AnswerHsreq(e, ext, fresh)
         IN Refused(e, p) \/ AnsweredHsreq(e, p, ext, fresh)
<1> DEFINE k == Recalled(e, ext, fresh)
           w == Replied(e, k)
           p == AnswerHsreq(e, ext, fresh)
           sent == <<Message("CONCLUSION", w.ext)>>
<1>1. p = IF k.u.fail THEN Outcome([e EXCEPT !.u = k.u], "REJECT", <<>>)
          ELSE IF w.u.fail THEN Outcome([e EXCEPT !.u = w.u, !.reqExt = TRUE], "REJECT", <<>>)
          ELSE Outcome([e EXCEPT !.u = w.u, !.reqExt = TRUE], "CONTINUE", sent)
  BY Zenon DEF AnswerHsreq, Recalled, Replied, Message
<1> HIDE DEF k, w, p, sent
<1>2. /\ Same(e, [e EXCEPT !.u = k.u], {"u"})
      /\ Same(e, [e EXCEPT !.u = w.u, !.reqExt = TRUE], {"u", "reqExt"})
  BY AgentChanged, Zenon
<1>3. CASE k.u.fail = TRUE
  <2>1. p = Outcome([e EXCEPT !.u = k.u], "REJECT", <<>>)
    BY <1>1, <1>3, Zenon
  <2>2. p.cst = "REJECT" /\ p.s = [e EXCEPT !.u = k.u]
    BY <2>1 DEF Outcome
  <2> QED BY <1>2, <2>2 DEF Refused, Same, p
<1>4. CASE k.u.fail # TRUE /\ w.u.fail = TRUE
  <2>1. p = Outcome([e EXCEPT !.u = w.u, !.reqExt = TRUE], "REJECT", <<>>)
    BY <1>1, <1>4, Zenon
  <2>2. p.cst = "REJECT" /\ p.s = [e EXCEPT !.u = w.u, !.reqExt = TRUE]
    BY <2>1 DEF Outcome
  <2> QED BY <1>2, <2>2 DEF Refused, Same, p
<1>5. CASE k.u.fail # TRUE /\ w.u.fail # TRUE
  <2>1. p = Outcome([e EXCEPT !.u = w.u, !.reqExt = TRUE], "CONTINUE", sent)
    BY <1>1, <1>5, Zenon
  <2>2. p.cst = "CONTINUE" /\ p.s = [e EXCEPT !.u = w.u, !.reqExt = TRUE] /\ p.out = sent
    BY <2>1 DEF Outcome
  <2> QED BY <1>5, <2>2, Zenon DEF AnsweredHsreq, p, k, w, sent
<1> QED BY <1>3, <1>4, <1>5, Zenon

(* Any other answer (the rest of processRendezvous). *)
LEMMA OtherTurn ==
  ASSUME NEW e, IsAgent(e), NEW sw
  PROVE  LET p == AnswerOther(e, sw)
         IN (p.cst = "REJECT" /\ Same(e, p.s, {"u"})) \/ AnsweredOther(e, p, sw)
<1> DEFINE w == IF sw.ext THEN createSrtHandshake(e.u, "HSREQ", NoKm) ELSE [u |-> e.u, ext |-> NoExt]
           p == AnswerOther(e, sw)
           status == IF sw.rsp = "AGREEMENT" THEN "ACCEPT" ELSE "CONTINUE"
           sent == <<Message(sw.rsp, w.ext)>>
<1>1. p = IF sw.rsp = "DONE" THEN Outcome(e, "ACCEPT", <<>>)
          ELSE IF w.u.fail THEN Outcome([e EXCEPT !.u = w.u], "REJECT", <<>>)
          ELSE Outcome([e EXCEPT !.u = w.u], status, sent)
  <2>1. CASE sw.ext = TRUE
    BY <2>1, Zenon DEF AnswerOther, Message
  <2>2. CASE sw.ext # TRUE
    BY <2>2, Zenon DEF AnswerOther, Message
  <2> QED BY <2>1, <2>2, Zenon
<1> HIDE DEF w, p, sent, status
<1>2. Same(e, [e EXCEPT !.u = w.u], {"u"})
  BY AgentChanged, Zenon
<1>3. CASE sw.rsp = "DONE"
  <2>1. p = Outcome(e, "ACCEPT", <<>>)
    BY <1>1, <1>3, Zenon
  <2>2. p.cst = "ACCEPT" /\ p.s = e /\ p.out = <<>>
    BY <2>1 DEF Outcome
  <2> QED BY <1>3, <2>2, Zenon DEF AnsweredOther, p
<1>4. CASE sw.rsp # "DONE" /\ w.u.fail = TRUE
  <2>1. p = Outcome([e EXCEPT !.u = w.u], "REJECT", <<>>)
    BY <1>1, <1>4, Zenon
  <2>2. p.cst = "REJECT" /\ p.s = [e EXCEPT !.u = w.u]
    BY <2>1 DEF Outcome
  <2> QED BY <1>2, <2>2, Zenon DEF p
<1>5. CASE sw.rsp # "DONE" /\ w.u.fail # TRUE
  <2>1. p = Outcome([e EXCEPT !.u = w.u], status, sent)
    BY <1>1, <1>5, Zenon
  <2>2. p.cst = status /\ p.s = [e EXCEPT !.u = w.u] /\ p.out = sent
    BY <2>1, SMTT(20) DEF Outcome
  <2> QED BY <1>5, <2>2, Zenon DEF AnsweredOther, p, w, sent, status
<1> QED BY <1>3, <1>4, <1>5, Zenon

(* Being connected changes these members. *)
LEMMA PostConnected ==
  ASSUME NEW s, IsAgent(s)
  PROVE  LET v == postConnect(s)
         IN /\ Same(s, v, {"u", "phase", "rdv"}) /\ v.phase = "connected"
            /\ v.u = [s.u EXCEPT !.connected = TRUE]
  BY ZenonT(30) DEF IsAgent, AgentFields, Same, postConnect

(* A switch changes these members. *)
LEMMA EnteredAs ==
  ASSUME NEW s, IsAgent(s), NEW sw
  PROVE  LET e == Entered(s, sw)
         IN /\ Same(s, e, {"u", "rdv", "req", "reqExt"})
            /\ e.rdv = sw.rdv /\ e.req = sw.rsp /\ e.u = Told(s.u, s.res.id)
  BY Zenon DEF IsAgent, AgentFields, Same, Entered

(* The contest changes at most the side. *)
LEMMA ContestedAs ==
  ASSUME NEW s, IsAgent(s)
  PROVE  /\ Same(s, cookieContest(s), {"u"})
         /\ cookieContest(s).u = s.u \/ \E side : cookieContest(s).u = [s.u EXCEPT !.side = side]
<1>1. Same(s, s, {"u"})
  BY DEF Same
<1>2. \A v : /\ Same(s, [s EXCEPT !.u.side = v], {"u"})
             /\ [s EXCEPT !.u.side = v].u = [s.u EXCEPT !.side = v]
  BY AgentChanged, Zenon
<1> QED BY <1>1, <1>2, Zenon DEF cookieContest

Interpreting(e, sw, ext, fresh) == [e EXCEPT !.u = Learnt(e.u, sw, ext, fresh)]

(* How processRendezvous has left the agent s: rejected, or with an answer. *)
Turned(s, ext, fresh, p) ==
  LET sw == SwitchOf(s)
      e == Entered(s, sw)
      f == Interpreting(e, sw, ext, fresh)
  IN \/ p.cst = "REJECT" /\ IsAgent(p.s) /\ p.s.cookie = s.cookie
     \/ /\ s.u.side # "DRAW" /\ sw.rsp # "FAILURE"
        /\ sw.hsrsp = TRUE => AnsweredHsreq(e, p, ext, fresh)
        /\ sw.hsrsp # TRUE => f.u.fail # TRUE /\ AnsweredOther(Joined(f), p, sw)

(* processRendezvous step by step. *)
LEMMA RendezvousTurn ==
  ASSUME NEW s0, IsAgent(s0), s0.rdv # "CONNECTED", NEW ext, NEW fresh \in BOOLEAN
  PROVE  Turned(cookieContest(s0), ext, fresh, processRendezvous(s0, ext, fresh))
<1> DEFINE p == processRendezvous(s0, ext, fresh)
           s == cookieContest(s0)
           sw == SwitchOf(s)
           e == Entered(s, sw)
           f == Interpreting(e, sw, ext, fresh)
<1>1. p = IF s.u.side = "DRAW" THEN Rejected(s, "RDVCOOKIE")
          ELSE IF sw.rsp = "FAILURE" THEN Rejected([s EXCEPT !.rdv = sw.rdv], "ROGUE")
          ELSE IF sw.hsrsp THEN AnswerHsreq(e, ext, fresh)
          ELSE IF f.u.fail THEN Outcome(f, "REJECT", <<>>)
          ELSE AnswerOther(Joined(f), sw)
  BY Zenon DEF processRendezvous, SwitchOf, Entered, Told, Interpreting, Learnt, Joined
<1>2. IsAgent(s)
  BY ContestedAs DEF Same
<1> HIDE DEF p, s, sw
<1>3. IsAgent(e) /\ e.cookie = s.cookie
  BY <1>2, EnteredAs DEF Same, AgentFields
<1> HIDE DEF e
<1>4. IsAgent(f) /\ f.cookie = s.cookie
  <2>1. Same(e, f, {"u"})
    BY <1>3, AgentChanged, Zenon DEF Interpreting
  <2> HIDE DEF f
  <2> QED BY <1>3, <2>1 DEF Same, AgentFields
<1> HIDE DEF f
<1>5. IsAgent(Joined(f)) /\ Joined(f).cookie = s.cookie
  <2>1. Joined(f) = postConnect(f) \/ Joined(f) = f
    BY Zenon DEF Joined
  <2>2. Same(f, postConnect(f), {"u", "phase", "rdv"})
    BY <1>4, PostConnected, Zenon
  <2> QED BY <1>4, <2>1, <2>2 DEF Same, AgentFields
<1>6. ASSUME NEW t, IsAgent(t), t.cookie = s.cookie, NEW r, p = Rejected(t, r)
      PROVE  p.cst = "REJECT" /\ IsAgent(p.s) /\ p.s.cookie = s.cookie
  <2>1. p.cst = "REJECT" /\ p.s = [t EXCEPT !.u.reason = r]
    BY <1>6 DEF Rejected
  <2>2. Same(t, [t EXCEPT !.u.reason = r], {"u"})
    BY <1>6, AgentChanged, Zenon
  <2> QED BY <1>6, <2>1, <2>2 DEF Same, AgentFields
<1> DEFINE Out == p.cst = "REJECT" /\ IsAgent(p.s) /\ p.s.cookie = s.cookie
<1>7. CASE s.u.side = "DRAW"
  <2>1. p = Rejected(s, "RDVCOOKIE")
    BY <1>1, <1>7, Zenon
  <2>2. Out
    BY <1>2, <1>6, <2>1, Zenon
  <2> QED BY <2>2, Zenon DEF Turned, p, s
<1>8. CASE s.u.side # "DRAW" /\ sw.rsp = "FAILURE"
  <2> DEFINE t == [s EXCEPT !.rdv = sw.rdv]
  <2>1. p = Rejected(t, "ROGUE")
    BY <1>1, <1>8, Zenon
  <2>2. IsAgent(t) /\ t.cookie = s.cookie
    <3>1. Same(s, t, {"rdv"})
      BY <1>2, AgentChanged, Zenon
    <3> HIDE DEF t
    <3> QED BY <3>1 DEF Same, AgentFields
  <2> HIDE DEF t
  <2>3. Out
    BY <1>6, <2>1, <2>2, Zenon
  <2> QED BY <2>3, Zenon DEF Turned, p, s
<1>9. CASE s.u.side # "DRAW" /\ sw.rsp # "FAILURE" /\ sw.hsrsp = TRUE
  <2>1. p = AnswerHsreq(e, ext, fresh)
    BY <1>1, <1>9, Zenon
  <2>2. Refused(e, p) \/ AnsweredHsreq(e, p, ext, fresh)
    BY <1>3, <2>1, HsreqTurn, Zenon
  <2>3. Refused(e, p) => Out
    BY <1>3 DEF Refused, Same, AgentFields
  <2> HIDE DEF Out
  <2> QED BY <1>9, <2>2, <2>3, Zenon DEF Turned, p, s, sw, e, Out
<1>10. CASE s.u.side # "DRAW" /\ sw.rsp # "FAILURE" /\ sw.hsrsp # TRUE /\ f.u.fail = TRUE
  <2>1. p = Outcome(f, "REJECT", <<>>)
    BY <1>1, <1>10, Zenon
  <2>2. Out
    BY <1>4, <2>1 DEF Outcome
  <2> QED BY <2>2, Zenon DEF Turned, p, s
<1>11. CASE s.u.side # "DRAW" /\ sw.rsp # "FAILURE" /\ sw.hsrsp # TRUE /\ f.u.fail # TRUE
  <2>1. p = AnswerOther(Joined(f), sw)
    BY <1>1, <1>11, Zenon
  <2>2. (p.cst = "REJECT" /\ Same(Joined(f), p.s, {"u"})) \/ AnsweredOther(Joined(f), p, sw)
    BY <1>5, <2>1, OtherTurn, Zenon
  <2>3. p.cst = "REJECT" /\ Same(Joined(f), p.s, {"u"}) => Out
    BY <1>5 DEF Same, AgentFields
  <2> HIDE DEF Out
  <2> QED BY <1>11, <2>2, <2>3, Zenon DEF Turned, p, s, sw, e, f, Out
<1> QED BY <1>7, <1>8, <1>9, <1>10, <1>11, Zenon

(***************************** roles and sockets **************************)

(* A socket that has its role and nothing else. *)
Chosen(u, c, a, side) ==
  /\ IsSocket(u) /\ u.cfg = c /\ u.id = a /\ u.side = side /\ u.filter = c.filter
  /\ u.crypto = FALSE /\ u.tsbpd = FALSE /\ u.peerTsbpd = FALSE /\ u.connected = FALSE
  /\ u.fail = FALSE

(* The first handshake of the peer gives an agent its role (cookieContest). *)
LEMMA FirstContest ==
  ASSUME NEW s, IsAgent(s), NEW c, NEW a, Untouched(s.u, c, a), NEW e,
         s.cookie = e.cookie[a], s.res.cookie = e.cookie[Peer(a)]
  PROVE  LET z == cookieContest(s)
         IN Same(s, z, {"u"}) /\ Chosen(z.u, c, a, Role(e, a))
<1> DEFINE z == cookieContest(s)
           r == Role(e, a)
<1>1. Same(s, z, {"u"})
  BY ContestedAs
<1>2. s.u.side = "DRAW" /\ Chosen(s.u, c, a, "DRAW")
  BY DEF Untouched, Chosen
<1>3. CASE s.cookie = 0 \/ s.res.cookie = 0
  <2>1. z = s /\ r = "DRAW"
    BY <1>3, Zenon DEF cookieContest, Role
  <2> QED BY <1>1, <1>2, <2>1, Zenon
<1>4. CASE ~(s.cookie = 0 \/ s.res.cookie = 0)
  <2>1. z = [s EXCEPT !.u.side = r]
    BY <1>2, <1>4, Zenon DEF cookieContest, Role
  <2> HIDE DEF r, z
  <2>2. z.u = [s.u EXCEPT !.side = r]
    BY <2>1 DEF IsAgent, AgentFields
  <2>3. Chosen(z.u, c, a, r)
    BY <2>2 DEF Untouched, Chosen, IsSocket, Fields
  <2> QED BY <1>1, <2>3, Zenon DEF z, r
<1> QED BY <1>3, <1>4

(* Without a handshake of the peer there is no contest, and a role is kept. *)
LEMMA NoContest ==
  ASSUME NEW s, s.u.side # "DRAW" \/ s.res = NoRes
  PROVE  cookieContest(s) = s
<1>1. NoRes.cookie = 0
  BY DEF NoRes
<1> QED BY <1>1, Zenon DEF cookieContest

(* A socket that is told the id of its peer for the first time, as an       *)
(* initiator or as a responder.                                             *)
LEMMA FirstTold ==
  ASSUME NEW u, NEW c, NEW a, NEW side, Chosen(u, c, a, side), NEW id
  PROVE  /\ side = "INITIATOR" => Asking(Told(u, id), c, a)
         /\ side = "RESPONDER" => Answering(Told(u, id), c) /\ Told(u, id).side = "RESPONDER"
<1> DEFINE v == createCrypter(u)
           w == Told(u, id)
           ctx == u.cfg.secret # "" /\ u.side = "INITIATOR"
<1>1. IsSocket(u) /\ u.crypto = FALSE /\ u.cfg = c /\ u.id = a /\ u.side = side
  BY DEF Chosen
<1>2. /\ Kept(u, v, {"crypto", "sndKm", "rcvKm", "sndCtx", "rcvCtx", "kmMsg"})
      /\ v.crypto = TRUE /\ v.rcvKm = "UNSECURED"
      /\ v.sndKm = IF u.cfg.secret # "" THEN "SECURING" ELSE "UNSECURED"
      /\ v.sndCtx = ctx /\ v.rcvCtx = ctx
      /\ v.kmMsg = IF ctx THEN [pw |-> u.cfg.secret, key |-> u.id] ELSE NoKm
  BY <1>1, Crypter, Zenon
<1>3. w = [v EXCEPT !.peerId = id]
  BY Zenon DEF Told
<1> HIDE DEF v, w, ctx
<1>4. Kept(v, w, {"peerId"})
  BY <1>2, <1>3, Zenon DEF Kept, IsSocket, Fields
<1>5. /\ IsSocket(w) /\ w.cfg = c /\ w.side = side /\ w.filter = c.filter
      /\ w.tsbpd = FALSE /\ w.peerTsbpd = FALSE /\ w.connected = FALSE /\ w.fail = FALSE
  BY <1>2, <1>4, Zenon DEF Kept, Fields, Chosen
<1>6. /\ w.crypto = TRUE /\ w.rcvKm = "UNSECURED" /\ w.sndKm = v.sndKm
      /\ w.sndCtx = v.sndCtx /\ w.rcvCtx = v.rcvCtx /\ w.kmMsg = v.kmMsg
  BY <1>2, <1>4, Zenon DEF Kept, Fields
<1>7. /\ c.secret # "" => w.sndKm = "SECURING"
      /\ c.secret = "" => w.sndKm = "UNSECURED"
  BY <1>1, <1>2, <1>6, Zenon
<1>8. ASSUME side = "INITIATOR" PROVE Asking(w, c, a)
  <2>1. ctx = (c.secret # "")
    BY <1>1, <1>8, Zenon DEF ctx
  <2>2. w.kmMsg = KmOf(c, a)
    BY <1>1, <1>2, <1>6, <2>1, Zenon DEF KmOf
  <2>3. w.sndCtx = (c.secret # "") /\ w.rcvCtx = (c.secret # "")
    BY <1>2, <1>6, <2>1, Zenon
  <2>4. Requesting(w, c, a)
    BY <1>5, <1>6, <1>7, <1>8, <2>2, Zenon DEF Requesting
  <2> QED BY <1>6, <2>3, <2>4, Zenon DEF Asking
<1>9. ASSUME side = "RESPONDER" PROVE Answering(w, c) /\ w.side = "RESPONDER"
  <2>0. "RESPONDER" # "INITIATOR"
    OBVIOUS
  <2>1. ctx = FALSE
    BY <1>1, <1>9, <2>0, Zenon DEF ctx
  <2>2. w.kmMsg = NoKm /\ w.sndCtx = FALSE /\ w.rcvCtx = FALSE
    BY <1>2, <1>6, <2>1, Zenon
  <2>3. NoKeysYet(w)
    BY <1>5, <1>7, <2>2, Zenon DEF NoKeysYet
  <2> QED BY <1>5, <1>6, <1>9, <2>0, <2>3, Zenon DEF Answering
<1> QED BY <1>8, <1>9, Zenon DEF w

(* The crypter is made once (createCrypter). *)
LEMMA ToldAgain ==
  ASSUME NEW u, IsSocket(u), u.crypto = TRUE, NEW id
  PROVE  Kept(u, Told(u, id), {"peerId"})
<1>1. Told(u, id) = [u EXCEPT !.peerId = id]
  BY Zenon DEF Told, createCrypter
<1> QED BY <1>1 DEF Kept, IsSocket, Fields

(* A socket that asks still does after a change of these members. *)
LEMMA StillAsking ==
  ASSUME NEW u, NEW c, NEW i, Asking(u, c, i), NEW v,
         Kept(u, v, {"peerId", "fail", "delay", "peerDelay", "reason"})
  PROVE  Asking(v, c, i)
<1>1. /\ IsSocket(v) /\ v.cfg = u.cfg /\ v.side = u.side /\ v.filter = u.filter /\ v.tsbpd = u.tsbpd
      /\ v.peerTsbpd = u.peerTsbpd /\ v.connected = u.connected /\ v.kmMsg = u.kmMsg
      /\ v.rcvKm = u.rcvKm /\ v.sndKm = u.sndKm /\ v.crypto = u.crypto
      /\ v.sndCtx = u.sndCtx /\ v.rcvCtx = u.rcvCtx
  BY DEF Kept, Fields
<1> QED BY <1>1, Zenon DEF Asking, Requesting

(* A socket that waits for a request still does after a change of these. *)
LEMMA StillAnswering ==
  ASSUME NEW u, NEW l, Answering(u, l), NEW v, Kept(u, v, {"peerId", "fail"}), v.fail = FALSE
  PROVE  Answering(v, l) /\ v.side = u.side
<1>1. /\ IsSocket(v) /\ v.cfg = u.cfg /\ v.side = u.side /\ v.filter = u.filter /\ v.tsbpd = u.tsbpd
      /\ v.peerTsbpd = u.peerTsbpd /\ v.kmMsg = u.kmMsg
      /\ v.rcvKm = u.rcvKm /\ v.sndKm = u.sndKm /\ v.crypto = u.crypto
      /\ v.sndCtx = u.sndCtx /\ v.rcvCtx = u.rcvCtx
  BY DEF Kept, Fields
<1> QED BY <1>1, Zenon DEF Answering, NoKeysYet

(* What was served stays so after a change of what no negotiation looks at. *)
LEMMA StillServed ==
  ASSUME NEW u, NEW c, NEW l, NEW i, Served(u, c, l, i), NEW v, Alike(u, v)
  PROVE  Served(v, c, l, i) /\ v.filter = u.filter
<1>1. v.side = u.side /\ v.filter = u.filter
  BY DEF Alike, Kept, Fields
<1> QED BY <1>1, StillNegotiated, Zenon DEF Served

(* An initiator may ask as often as it likes (createSrtHandshake). *)
LEMMA AskAgain ==
  ASSUME NEW c, ConfigOk(c), NEW i, NEW u, Asking(u, c, i)
  PROVE  LET w == createSrtHandshake(u, "HSREQ", NoKm)
         IN Asking(w.u, c, i) /\ w.ext = RequestOf(c, i)
<1> DEFINE w == createSrtHandshake(u, "HSREQ", NoKm)
<1>1. /\ IsSocket(u) /\ u.side = "INITIATOR" /\ u.crypto = TRUE /\ u.cfg = c
      /\ u.kmMsg = KmOf(c, i) /\ u.filter = c.filter
  BY Zenon DEF Asking, Requesting
<1>2. u.cfg.secret # "" => u.kmMsg # NoKm
  BY <1>1, KeyMessage, Zenon
<1>3. u.cfg.tsbpd \in BOOLEAN
  BY <1>1, Zenon DEF ConfigOk
<1>4. /\ Kept(u, w.u, {"delay", "peerDelay", "fail"})
      /\ w.ext = [cmd |-> "HSREQ", hs |-> RequestHs(u.cfg),
                  km |-> IF u.cfg.secret # "" THEN u.kmMsg ELSE NoKm,
                  filter |-> u.filter, congctl |-> OwnCongctl(u)]
  BY <1>1, <1>2, <1>3, RequestMade, Zenon
<1> HIDE DEF w
<1>5. (IF u.cfg.secret # "" THEN u.kmMsg ELSE NoKm) = KmOf(c, i)
  BY <1>1, Zenon DEF KmOf
<1>6. w.ext = RequestOf(c, i)
  BY <1>1, <1>4, <1>5, Zenon DEF RequestOf, OwnCongctl
<1>7. Kept(u, w.u, {"peerId", "fail", "delay", "peerDelay", "reason"})
  BY <1>4, Zenon DEF Kept
<1>8. Asking(w.u, c, i)
  BY <1>7, StillAsking, Zenon
<1> QED BY <1>6, <1>8, Zenon DEF w

(****************************** the initiator *****************************)

(* A switch of the winner of the contest. *)
InitiatorSwitched(sw, req, flags) ==
  \/ sw.rsp = "FAILURE"
  \/ /\ sw.rsp = "CONCLUSION" /\ sw.hsrsp = FALSE /\ sw.rdv \in {"ATTENTION", "FINE"}
     /\ flags = FALSE /\ req \in {"WAVEAHAND", "CONCLUSION"}
  \/ /\ sw.rsp = "AGREEMENT" /\ sw.hsrsp = FALSE /\ sw.rdv = "CONNECTED"
     /\ sw.ext = FALSE /\ flags = TRUE

(* rendezvousSwitchState for the winner of the contest, which gets no       *)
(* agreement, and extensions only after it has asked for them.              *)
LEMMA InitiatorSwitch ==
  ASSUME NEW rdv \in {"WAVING", "ATTENTION", "FINE"}, NEW req, req # "AGREEMENT",
         NEW flags \in BOOLEAN, flags => req = "CONCLUSION" /\ rdv # "WAVING"
  PROVE  InitiatorSwitched(rendezvousSwitchState(rdv, TRUE, req, flags), req, flags)
<1>1. CASE rdv = "WAVING"
  BY <1>1 DEF InitiatorSwitched, rendezvousSwitchState, Switch, SwitchRogue
<1>2. CASE rdv = "ATTENTION"
  BY <1>2 DEF InitiatorSwitched, rendezvousSwitchState, SwitchFromAttention, Switch, SwitchRogue
<1>3. CASE rdv = "FINE"
  BY <1>3 DEF InitiatorSwitched, rendezvousSwitchState, SwitchFromFine, Switch, SwitchRogue
<1> QED BY <1>1, <1>2, <1>3, Zenon

(* The initiator z asks with p, or is connected with p. *)
AsksWith(z, p, c, i) ==
  /\ Same(z, p.s, {"u", "rdv", "req", "reqExt"}) /\ Inquiring(p.s, c, i) /\ p.cst = "CONTINUE"
  /\ \E x \in {NoExt, RequestOf(c, i)} : p.out = <<Message("CONCLUSION", x)>>

ConfirmsWith(z, p, t, c, l, i) ==
  /\ IsAgent(p.s) /\ p.s.cookie = z.cookie /\ p.s.phase = "connected" /\ Confirmed(p.s.u, c, l, i)
  /\ p.cst = "ACCEPT" /\ p.out = <<Message("AGREEMENT", NoExt)>>
  /\ Alive(t) => Serving(t) /\ SameFilter(p.s.u.filter, t.u.filter, l.filterDefaults)

(* What processRendezvous makes of an initiator that is not rejected.       *)
LEMMA InitiatorAsks ==
  ASSUME NEW c, ConfigOk(c), NEW i, NEW z, IsAgent(z), z.phase = "connecting",
         NEW sw, sw.rsp = "CONCLUSION", sw.rdv \in {"ATTENTION", "FINE"}, Bare(z.res),
         Asking(Told(z.u, z.res.id), c, i), NEW ext, NEW fresh, NEW p,
         AnsweredOther(Joined(Interpreting(Entered(z, sw), sw, ext, fresh)), p, sw)
  PROVE  AsksWith(z, p, c, i)
<1> DEFINE e == Entered(z, sw)
           v == [e.u EXCEPT !.fail = FALSE]
           f == Interpreting(e, sw, ext, fresh)
           w == IF sw.ext THEN createSrtHandshake(f.u, "HSREQ", NoKm) ELSE [u |-> f.u, ext |-> NoExt]
<1>1. /\ Same(z, e, {"u", "rdv", "req", "reqExt"}) /\ e.rdv = sw.rdv /\ e.req = "CONCLUSION"
      /\ Asking(e.u, c, i)
  BY EnteredAs, Zenon
<1> HIDE DEF e
<1>2. f = [e EXCEPT !.u = v]
  <2>1. sw.rsp # "AGREEMENT"
    OBVIOUS
  <2> QED BY <2>1, Zenon DEF Interpreting, Learnt
<1>3. Asking(v, c, i)
  <2>1. IsSocket(e.u)
    BY <1>1, Zenon DEF Asking, Requesting
  <2>2. Kept(e.u, v, {"fail"})
    BY <2>1, Cleared
  <2>3. Kept(e.u, v, {"peerId", "fail", "delay", "peerDelay", "reason"})
    BY <2>2, Zenon DEF Kept
  <2> HIDE DEF v
  <2> QED BY <1>1, <2>3, StillAsking, Zenon
<1> HIDE DEF v, f
<1>4. Same(e, f, {"u"}) /\ f.u = v
  <2>1. IsAgent(e)
    BY <1>1 DEF Same
  <2> QED BY <1>2, <2>1 DEF Same, IsAgent, AgentFields
<1>5. Joined(f) = f
  <2>1. f.rdv # "CONNECTED"
    BY <1>1, <1>4 DEF Same, AgentFields
  <2> QED BY <2>1, Zenon DEF Joined
<1>6. Asking(w.u, c, i) /\ w.ext \in {NoExt, RequestOf(c, i)}
  <2>1. CASE sw.ext = TRUE
    <3> DEFINE y == createSrtHandshake(f.u, "HSREQ", NoKm)
    <3>1. w = y
      BY <2>1, Zenon
    <3>2. Asking(y.u, c, i) /\ y.ext = RequestOf(c, i)
      BY <1>3, <1>4, AskAgain, Zenon
    <3> HIDE DEF w, y
    <3> QED BY <3>1, <3>2
  <2>2. CASE sw.ext # TRUE
    <3>1. w = [u |-> f.u, ext |-> NoExt]
      BY <2>2, Zenon
    <3> HIDE DEF w
    <3>2. w.u = v /\ w.ext = NoExt
      BY <3>1, <1>4
    <3> QED BY <1>3, <3>2
  <2> QED BY <2>1, <2>2, Zenon
<1>7. p.cst = "CONTINUE" /\ p.s = [f EXCEPT !.u = w.u] /\ p.out = <<Message("CONCLUSION", w.ext)>>
  <2>1. AnsweredOther(f, p, sw)
    BY <1>5, Zenon DEF f, e
  <2>2. sw.rsp # "DONE" /\ sw.rsp # "AGREEMENT"
    OBVIOUS
  <2> QED BY <2>1, <2>2, Zenon DEF AnsweredOther
<1> HIDE DEF w
<1>8. /\ Same(z, p.s, {"u", "rdv", "req", "reqExt"}) /\ p.s.u = w.u /\ p.s.rdv = sw.rdv
      /\ p.s.req = "CONCLUSION" /\ p.s.res = z.res /\ p.s.phase = "connecting"
  BY <1>1, <1>4, <1>7 DEF Same, IsAgent, AgentFields
<1>9. Inquiring(p.s, c, i)
  BY <1>6, <1>8, Zenon DEF Inquiring
<1> QED BY <1>6, <1>7, <1>8, <1>9, Zenon DEF AsksWith

(* An initiator that accepts an answer confirms it.                         *)
LEMMA InitiatorConfirms ==
  ASSUME NEW c, ConfigOk(c), NEW l, ConfigOk(l), NEW i, NEW z, IsAgent(z),
         NEW sw, sw.rsp = "AGREEMENT", sw.rdv = "CONNECTED", sw.ext = FALSE,
         Asking(Told(z.u, z.res.id), c, i), NEW ext, NEW t, Offer(ext, t, c, l, i), NEW p,
         Interpreting(Entered(z, sw), sw, ext, TRUE).u.fail # TRUE,
         AnsweredOther(Joined(Interpreting(Entered(z, sw), sw, ext, TRUE)), p, sw)
  PROVE  ConfirmsWith(z, p, t, c, l, i)
<1> DEFINE e == Entered(z, sw)
           v == interpretSrtHandshake(e.u, ext).u
           f == Interpreting(e, sw, ext, TRUE)
           d == [v EXCEPT !.connected = TRUE]
           w == [u |-> d, ext |-> NoExt]
<1>1. /\ Same(z, e, {"u", "rdv", "req", "reqExt"}) /\ e.rdv = "CONNECTED" /\ Asking(e.u, c, i)
  BY EnteredAs, Zenon
<1>1a. AnsweredOther(Joined(f), p, sw) /\ f.u.fail # TRUE
  BY Zenon
<1> HIDE DEF e
<1>2. f = [e EXCEPT !.u = v]
  <2>1. e.u.side = "INITIATOR"
    BY <1>1, Zenon DEF Asking, Requesting
  <2> QED BY <2>1, Zenon DEF Interpreting, Learnt
<1> HIDE DEF f, v
<1>3. Same(e, f, {"u"}) /\ f.u = v
  <2>1. IsAgent(e)
    BY <1>1 DEF Same
  <2> QED BY <1>2, <2>1 DEF Same, IsAgent, AgentFields
<1>4. f.rdv = "CONNECTED" /\ IsAgent(f)
  BY <1>1, <1>3 DEF Same, AgentFields
<1>5. Joined(f) = postConnect(f)
  BY <1>4, Zenon DEF Joined
<1>6. LET g == Joined(f)
      IN Same(f, g, {"u", "phase", "rdv"}) /\ g.phase = "connected" /\ g.u = d
  BY <1>3, <1>4, <1>5, PostConnected, ZenonT(30)
<1>7. PICK s : /\ Negotiated(c, l, i, s, ext)
               /\ Alive(t) => Serving(t) /\ SameFilter(s.filter, t.u.filter, l.filterDefaults)
  BY Zenon DEF Offer
<1>8. v.fail # TRUE
  BY <1>1a, <1>3, Zenon
<1>9. Requesting(e.u, c, i) /\ e.u.sndCtx = (c.secret # "") /\ e.u.rcvCtx = (c.secret # "")
  BY <1>1, Zenon DEF Asking
<1>10. IsSocket(v)
  <2>1. AgreesWith(c, l, e.u, s, interpretSrtHandshake(e.u, ext).u)
    BY <1>7, <1>8, <1>9, InitiatorSettles, Zenon DEF v
  <2> QED BY <2>1, Zenon DEF AgreesWith, v
<1>11. Kept(v, d, {"connected"}) /\ d.connected = TRUE
  BY <1>10, Zenon DEF Kept, IsSocket, Fields
<1> HIDE DEF d
<1>12. ConfirmedBy(d, s, c, l, i)
  BY <1>7, <1>8, <1>9, <1>11, FirstAnswer, Zenon DEF v
<1> DEFINE g == Joined(f)
<1>13. p.cst = "ACCEPT" /\ p.s = [g EXCEPT !.u = g.u] /\ p.out = <<Message("AGREEMENT", NoExt)>>
  <2> DEFINE y == [u |-> g.u, ext |-> NoExt]
  <2>1. sw.rsp # "DONE" /\ sw.ext # TRUE
    BY Zenon
  <2> HIDE DEF g
  <2>2. AnsweredOther(g, p, sw)
    BY <1>1a DEF g
  <2>3. p.cst = "ACCEPT" /\ p.s = [g EXCEPT !.u = y.u] /\ p.out = <<Message("AGREEMENT", y.ext)>>
    BY <2>1, <2>2, Zenon DEF AnsweredOther
  <2>4. y.u = g.u /\ y.ext = NoExt
    OBVIOUS
  <2> HIDE DEF y
  <2> QED BY <2>3, <2>4, Zenon
<1>14. /\ IsAgent(g) /\ g.phase = "connected" /\ g.u = d /\ g.cookie = z.cookie
  BY <1>1, <1>3, <1>6 DEF Same, AgentFields
<1> HIDE DEF g
<1>15. IsAgent(p.s) /\ p.s.phase = "connected" /\ p.s.u = d /\ p.s.cookie = z.cookie
  BY <1>13, <1>14 DEF IsAgent, AgentFields
<1> QED BY <1>7, <1>12, <1>13, <1>15, Zenon DEF ConfirmsWith, ConfirmedBy

(********************* packets and the periodic request *******************)

(* processRendezvous keeps a rejected agent an agent. *)
LEMMA TurnedRejects ==
  ASSUME NEW s, NEW ext, NEW fresh, NEW p, Turned(s, ext, fresh, p), p.cst = "REJECT"
  PROVE  IsAgent(p.s) /\ p.s.cookie = s.cookie
<1>1. \A e : ~AnsweredHsreq(e, p, ext, fresh)
  <2>1. "CONTINUE" # "REJECT"
    OBVIOUS
  <2> QED BY <2>1, Zenon DEF AnsweredHsreq
<1>2. \A e, sw : ~AnsweredOther(e, p, sw)
  <2>1. "CONTINUE" # "REJECT" /\ "ACCEPT" # "REJECT"
    OBVIOUS
  <2> QED BY <2>1, Zenon DEF AnsweredOther
<1> QED BY <1>1, <1>2, Zenon DEF Turned

(* Whoever is not rejected has been through processRendezvous. *)
LEMMA TurnOrEnd ==
  ASSUME NEW s, IsAgent(s), s.rdv # "CONNECTED", NEW ext, NEW fresh \in BOOLEAN
  PROVE  LET p == OrGiveUp(processRendezvous(s, ext, fresh))
         IN Ended(s, p) \/ (p.cst # "REJECT" /\ Turned(cookieContest(s), ext, fresh, p))
<1> DEFINE q == processRendezvous(s, ext, fresh)
           p == OrGiveUp(q)
           z == cookieContest(s)
<1>1. Turned(z, ext, fresh, q)
  BY RendezvousTurn, Zenon
<1>2. z.cookie = s.cookie
  BY ContestedAs DEF Same, AgentFields
<1> HIDE DEF q, z
<1>3. CASE q.cst = "REJECT"
  <2>1. p = GiveUp(q.s, TRUE)
    BY <1>3, Zenon DEF OrGiveUp
  <2>2. IsAgent(q.s) /\ q.s.cookie = s.cookie
    <3>1. IsAgent(q.s) /\ q.s.cookie = z.cookie
      BY <1>1, <1>3, TurnedRejects, Zenon
    <3> QED BY <1>2, <3>1, Zenon
  <2>3. Ended(q.s, p)
    BY <2>1, <2>2, GivesUp, Zenon
  <2> HIDE DEF p
  <2>4. Ended(s, p)
    BY <2>2, <2>3, Zenon DEF Ended
  <2> QED BY <2>4, Zenon DEF p, q
<1>4. CASE q.cst # "REJECT"
  <2>1. p = q
    BY <1>4, Zenon DEF OrGiveUp
  <2> QED BY <1>1, <1>4, <2>1, Zenon DEF q, z
<1> QED BY <1>3, <1>4

(* How a packet m leaves the connecting agent a. *)
FreshTurn(a, m, p) ==
  \/ Ended(ag[a], p)
  \/ /\ m.type = "KEEPALIVE" /\ ag[a].res # NoRes
     /\ p.s = postConnect(ag[a]) /\ p.cst = "ACCEPT" /\ p.out = <<>>
  \/ /\ m.type \notin {"KEEPALIVE", "SHUTDOWN", "FAILURE"} /\ p.cst # "REJECT"
     /\ Turned(cookieContest([ag[a] EXCEPT !.res = Loaded(a, m)]), m.ext, TRUE, p)

(* processConnectResponse, and processRendezvous on what it loaded. *)
LEMMA FreshTurns ==
  ASSUME NEW a, IsAgent(ag[a]), ag[a].rdv # "CONNECTED", NEW m
  PROVE  FreshTurn(a, m, HandleFresh(processConnectResponse(a, m), m))
<1> DEFINE s == ag[a]
           s0 == [s EXCEPT !.res = Loaded(a, m)]
           r == processConnectResponse(a, m)
           p == HandleFresh(r, m)
<1>1. r = IF m.type = "KEEPALIVE" /\ s.res # NoRes THEN Outcome(postConnect(s), "ACCEPT", <<>>)
          ELSE IF m.type \in {"KEEPALIVE", "SHUTDOWN"} THEN Rejected(s, "ROGUE")
          ELSE IF m.type = "FAILURE" THEN Rejected(s0, m.reason)
          ELSE Outcome(s0, "RENDEZVOUS", <<>>)
  BY Zenon DEF processConnectResponse
<1>2. IsAgent(s0) /\ s0.cookie = s.cookie /\ s0.rdv = s.rdv
  <2>1. Same(s, s0, {"res"})
    BY AgentChanged, Zenon
  <2> HIDE DEF s0
  <2> QED BY <2>1 DEF Same, AgentFields
<1> HIDE DEF r, s0
<1>3. ASSUME NEW t, IsAgent(t), t.cookie = s.cookie, NEW why, r = Rejected(t, why)
      PROVE  Ended(s, p)
  <2>1. r.cst = "REJECT" /\ r.s = [t EXCEPT !.u.reason = why]
    BY <1>3 DEF Rejected
  <2>2. Same(t, [t EXCEPT !.u.reason = why], {"u"})
    BY <1>3, AgentChanged, Zenon
  <2>3. IsAgent(r.s) /\ r.s.cookie = s.cookie
    BY <1>3, <2>1, <2>2 DEF Same, AgentFields
  <2>4. p = GiveUp(r.s, FALSE)
    BY <2>1 DEF HandleFresh
  <2>5. Ended(r.s, p)
    BY <2>3, <2>4, GivesUp, Zenon
  <2> HIDE DEF p
  <2> QED BY <2>3, <2>5, Zenon DEF Ended
<1>4. CASE m.type = "KEEPALIVE" /\ s.res # NoRes
  <2>1. r = Outcome(postConnect(s), "ACCEPT", <<>>)
    BY <1>1, <1>4, Zenon
  <2>2. r.s = postConnect(s) /\ r.cst = "ACCEPT" /\ r.out = <<>>
    BY <2>1 DEF Outcome
  <2>3. p = r
    BY <2>2 DEF HandleFresh
  <2> QED BY <1>4, <2>2, <2>3, Zenon DEF FreshTurn, r
<1>5. CASE ~(m.type = "KEEPALIVE" /\ s.res # NoRes) /\ m.type \in {"KEEPALIVE", "SHUTDOWN"}
  <2>1. r = Rejected(s, "ROGUE")
    BY <1>1, <1>5, Zenon
  <2>2. Ended(s, p)
    BY <2>1, <1>3, Zenon
  <2> QED BY <2>2, Zenon DEF FreshTurn, r
<1>6. CASE m.type \notin {"KEEPALIVE", "SHUTDOWN"} /\ m.type = "FAILURE"
  <2>1. r = Rejected(s0, m.reason)
    BY <1>1, <1>6, Zenon
  <2>2. Ended(s, p)
    BY <2>1, <1>2, <1>3, Zenon
  <2> QED BY <2>2, Zenon DEF FreshTurn, r
<1>7. CASE m.type \notin {"KEEPALIVE", "SHUTDOWN", "FAILURE"}
  <2>1. r = Outcome(s0, "RENDEZVOUS", <<>>)
    BY <1>1, <1>7
  <2>2. r.s = s0 /\ r.cst = "RENDEZVOUS"
    BY <2>1 DEF Outcome
  <2>3. p = OrGiveUp(processRendezvous(s0, m.ext, TRUE))
    BY <2>2 DEF HandleFresh
  <2> HIDE DEF p
  <2>4. Ended(s0, p) \/ (p.cst # "REJECT" /\ Turned(cookieContest(s0), m.ext, TRUE, p))
    BY <1>2, <2>3, TurnOrEnd, Zenon
  <2>5. Ended(s0, p) => Ended(s, p)
    BY <1>2, Zenon DEF Ended
  <2> QED BY <1>7, <2>4, <2>5, Zenon DEF FreshTurn, p, r, s0
<1> QED BY <1>4, <1>5, <1>6, <1>7

(* How the periodic call leaves an agent. *)
PeriodicTurn(s, p) ==
  \/ Ended(s, p)
  \/ p.cst # "REJECT" /\ Turned(cookieContest(s), NoExt, FALSE, p)
  \/ LET w == IF s.reqExt THEN createSrtHandshake(s.u, "HSREQ", NoKm)
              ELSE [u |-> [s.u EXCEPT !.fail = FALSE], ext |-> NoExt]
     IN /\ w.u.fail # TRUE /\ p.s = [s EXCEPT !.u = w.u]
        /\ \E known : p.out = <<Packet(s.req, w.ext, "", known)>>

Repeat(s, w) == <<Packet(s.req, w.ext, "", s.res # NoRes)>>

(* processAsyncConnectRequest, whatever status the last packet left. *)
LEMMA PeriodicTurns ==
  ASSUME NEW s, IsAgent(s), s.rdv # "CONNECTED", NEW status
  PROVE  PeriodicTurn(s, processAsyncConnectRequest(s, status))
<1> DEFINE p == processAsyncConnectRequest(s, status)
           w == IF s.reqExt THEN createSrtHandshake(s.u, "HSREQ", NoKm)
                ELSE [u |-> [s.u EXCEPT !.fail = FALSE], ext |-> NoExt]
           q == IF w.u.fail THEN GiveUp([s EXCEPT !.u = w.u], FALSE)
                ELSE Outcome([s EXCEPT !.u = w.u], "CONTINUE", Repeat(s, w))
<1>1. p = CASE status = "RENDEZVOUS" -> OrGiveUp(processRendezvous(s, NoExt, FALSE))
            [] status = "REJECT" -> GiveUp(s, FALSE)
            [] status \notin {"RENDEZVOUS", "REJECT"} -> q
  <2>1. CASE s.reqExt = TRUE
    BY <2>1, Zenon DEF processAsyncConnectRequest, Repeat
  <2>2. CASE s.reqExt # TRUE
    BY <2>2, Zenon DEF processAsyncConnectRequest, Repeat
  <2> QED BY <2>1, <2>2, Zenon
<1> HIDE DEF p, q
<1>2. CASE status = "RENDEZVOUS"
  <2>1. p = OrGiveUp(processRendezvous(s, NoExt, FALSE))
    BY <1>1, <1>2
  <2>2. Ended(s, p) \/ (p.cst # "REJECT" /\ Turned(cookieContest(s), NoExt, FALSE, p))
    BY <2>1, TurnOrEnd, Zenon
  <2> QED BY <2>2, Zenon DEF PeriodicTurn, p
<1>3. CASE status = "REJECT"
  <2>1. p = GiveUp(s, FALSE)
    BY <1>1, <1>3
  <2>2. Ended(s, p)
    BY <2>1, GivesUp, Zenon
  <2> QED BY <2>2, Zenon DEF PeriodicTurn, p
<1>4. CASE status \notin {"RENDEZVOUS", "REJECT"}
  <2>1. p = q
    BY <1>1, <1>4
  <2> HIDE DEF w
  <2>2. Same(s, [s EXCEPT !.u = w.u], {"u"})
    BY AgentChanged, Zenon
  <2>3. CASE w.u.fail = TRUE
    <3> DEFINE t == [s EXCEPT !.u = w.u]
    <3>1. p = GiveUp(t, FALSE)
      BY <2>1, <2>3, Zenon DEF q
    <3>2. IsAgent(t) /\ t.cookie = s.cookie
      BY <2>2 DEF Same, AgentFields
    <3> HIDE DEF t
    <3>3. Ended(t, p)
      BY <3>1, <3>2, GivesUp, Zenon
    <3>4. Ended(s, p)
      BY <3>2, <3>3, Zenon DEF Ended
    <3> QED BY <3>4, Zenon DEF PeriodicTurn, p
  <2>4. CASE w.u.fail # TRUE
    <3>1. p = Outcome([s EXCEPT !.u = w.u], "CONTINUE", Repeat(s, w))
      BY <2>1, <2>4, Zenon DEF q
    <3>2. p.s = [s EXCEPT !.u = w.u] /\ p.out = Repeat(s, w)
      BY <3>1 DEF Outcome
    <3> QED BY <2>4, <3>2, Zenon DEF PeriodicTurn, Repeat, p, w
  <2> QED BY <2>3, <2>4, Zenon
<1> QED BY <1>2, <1>3, <1>4

(************************* turns of the initiator *************************)

(* A single datagram that an initiator, or a responder, may send. *)
LEMMA OneRequest ==
  ASSUME NEW type, NEW ext, NEW reason, NEW known, NEW s, NEW c, NEW i,
         ext # NoExt => type = "CONCLUSION" /\ ext = RequestOf(c, i) /\ Asked(s),
         type \in {"AGREEMENT", "KEEPALIVE"} => Been(s)
  PROVE  RequestsOk(<<Packet(type, ext, reason, known)>>, s, c, i)
<1> DEFINE m == Packet(type, ext, reason, known)
<1>1. IsPacket(m) /\ m.type = type /\ m.ext = ext
  BY PacketMade
<1> HIDE DEF m
<1>2. RequestOk(m, s, c, i)
  BY <1>1, Zenon DEF RequestOk
<1>3. IsSeq(<<m>>) /\ Elems(<<m>>) = {m}
  BY OneElem
<1>4. RequestsOk(<<m>>, s, c, i)
  BY <1>2, <1>3 DEF RequestsOk
<1> QED BY <1>4, Zenon DEF m

(* An initiator that processRendezvous may meet. *)
InitiatorReady(z, c, i) ==
  /\ IsAgent(z) /\ z.phase = "connecting" /\ z.rdv \in {"WAVING", "ATTENTION", "FINE"}
  /\ z.u.side = "INITIATOR" /\ Asking(Told(z.u, z.res.id), c, i)

(* Such an initiator asks, or confirms. *)
LEMMA InitiatorTurned ==
  ASSUME NEW c, ConfigOk(c), NEW l, ConfigOk(l), NEW i, NEW z, InitiatorReady(z, c, i),
         NEW ext, NEW fresh \in BOOLEAN, NEW t,
         z.res.type # "AGREEMENT", z.res.flags \in BOOLEAN,
         z.res.flags => /\ z.res.type = "CONCLUSION" /\ z.rdv # "WAVING" /\ fresh = TRUE
                        /\ Offer(ext, t, c, l, i),
         NEW p, Turned(z, ext, fresh, p), p.cst # "REJECT"
  PROVE  AsksWith(z, p, c, i) \/ ConfirmsWith(z, p, t, c, l, i)
<1> DEFINE sw == SwitchOf(z)
           e == Entered(z, sw)
           f == Interpreting(e, sw, ext, fresh)
<1>1. /\ sw.rsp # "FAILURE"
      /\ sw.hsrsp # TRUE => f.u.fail # TRUE /\ AnsweredOther(Joined(f), p, sw)
  BY Zenon DEF Turned
<1>2. /\ IsAgent(z) /\ z.phase = "connecting" /\ z.rdv \in {"WAVING", "ATTENTION", "FINE"}
      /\ z.u.side = "INITIATOR" /\ Asking(Told(z.u, z.res.id), c, i)
  BY Zenon DEF InitiatorReady
<1>3. sw = rendezvousSwitchState(z.rdv, TRUE, z.res.type, z.res.flags)
  BY <1>2, Zenon DEF SwitchOf
<1>4. InitiatorSwitched(sw, z.res.type, z.res.flags)
  <2> HIDE DEF sw
  <2> QED BY <1>2, <1>3, InitiatorSwitch, Zenon
<1> HIDE DEF sw
<1>5. sw.hsrsp # TRUE
  BY <1>1, <1>4, Zenon DEF InitiatorSwitched
<1>6. CASE /\ sw.rsp = "CONCLUSION" /\ sw.rdv \in {"ATTENTION", "FINE"}
           /\ z.res.flags = FALSE /\ z.res.type \in {"WAVEAHAND", "CONCLUSION"}
  <2>1. Bare(z.res)
    BY <1>6 DEF Bare
  <2> QED BY <1>1, <1>2, <1>5, <1>6, <2>1, InitiatorAsks, Zenon
<1>7. CASE /\ sw.rsp = "AGREEMENT" /\ sw.rdv = "CONNECTED" /\ sw.ext = FALSE /\ z.res.flags = TRUE
  <2>1. fresh = TRUE /\ Offer(ext, t, c, l, i)
    BY <1>7
  <2>2. f = Interpreting(e, sw, ext, TRUE)
    BY <2>1, Zenon
  <2> QED BY <1>1, <1>2, <1>5, <1>7, <2>1, <2>2, InitiatorConfirms, Zenon
<1> QED BY <1>1, <1>4, <1>6, <1>7, Zenon DEF InitiatorSwitched

(* Asking is a turn of the initiator, at once or with what it stores. *)
LEMMA AsksTurn ==
  ASSUME NEW c, NEW l, NEW i, NEW s, s.phase = "connecting", NEW z, z.stored = s.stored,
         NEW p, AsksWith(z, p, c, i), RequestsOk(s.stored, s, c, i), NEW t
  PROVE  /\ InitiatorTurn(c, l, i, s, p.s, t, p.out)
         /\ InitiatorTurn(c, l, i, s, [p.s EXCEPT !.stored = p.out], t, <<>>)
<1> DEFINE s2 == p.s
           s3 == [p.s EXCEPT !.stored = p.out]
<1>1. /\ IsAgent(s2) /\ s2.phase = "connecting" /\ s2.rdv # "WAVING" /\ s2.stored = s.stored
  BY DEF AsksWith, Same, AgentFields, Inquiring
<1>2. Same(s2, s3, {"stored"}) /\ s3.stored = p.out
  BY <1>1 DEF Same, IsAgent, AgentFields
<1>2a. Inquiring(s2, c, i)
  BY DEF AsksWith
<1>3. PICK x \in {NoExt, RequestOf(c, i)} : p.out = <<Message("CONCLUSION", x)>>
  BY Zenon DEF AsksWith
<1> HIDE DEF s2, s3
<1>4. /\ s3.u = s2.u /\ s3.rdv = s2.rdv /\ s3.req = s2.req /\ s3.res = s2.res
      /\ s3.phase = s2.phase /\ IsAgent(s3)
  BY <1>2 DEF Same, AgentFields
<1>5. Inquiring(s3, c, i)
  BY <1>2a, <1>4, Zenon DEF Inquiring
<1>6. /\ Asked(s2) /\ Asked(s3) /\ ~Been(s) /\ ~Been(s2) /\ ~Been(s3)
      /\ s2.phase # "connected" /\ s3.phase # "connected" /\ s3.phase = "connecting"
  BY <1>1, <1>4 DEF Asked, Been
<1>7. InitiatorStep(c, l, i, s, s2, t) /\ InitiatorStep(c, l, i, s, s3, t)
  BY <1>1, <1>2a, <1>4, <1>5, <1>6, Zenon DEF InitiatorStep, InitiatorOk, Linked
<1>8. RequestsOk(p.out, s2, c, i) /\ RequestsOk(p.out, s3, c, i)
  <2>1. "CONCLUSION" \notin {"AGREEMENT", "KEEPALIVE"}
    OBVIOUS
  <2>2. x # NoExt => x = RequestOf(c, i)
    BY <1>3
  <2> QED BY <1>3, <1>6, <2>1, <2>2, OneRequest, Zenon DEF Message
<1>9. RequestsOk(s.stored, s2, c, i)
  BY <1>6, RequestsLater, Zenon
<1>10. RequestsOk(<<>>, s3, c, i)
  BY OneHarmless, HarmlessOk, Zenon
<1> QED BY <1>1, <1>2, <1>7, <1>8, <1>9, <1>10, Zenon DEF InitiatorTurn, s2, s3

(* Confirming is a turn of the initiator. *)
LEMMA ConfirmsTurn ==
  ASSUME NEW c, NEW l, NEW i, NEW s, s.phase = "connecting", NEW z, NEW t,
         NEW p, ConfirmsWith(z, p, t, c, l, i)
  PROVE  InitiatorTurn(c, l, i, s, p.s, t, p.out)
<1> DEFINE s2 == p.s
<1>1. /\ IsAgent(s2) /\ s2.phase = "connected" /\ Confirmed(s2.u, c, l, i)
      /\ p.out = <<Message("AGREEMENT", NoExt)>>
      /\ Alive(t) => Serving(t) /\ SameFilter(s2.u.filter, t.u.filter, l.filterDefaults)
  BY Zenon DEF ConfirmsWith
<1> HIDE DEF s2
<1>2. Asked(s2) /\ ~Been(s) /\ Been(s2) /\ s2.phase # "connecting"
  BY <1>1 DEF Asked, Been
<1>3. InitiatorStep(c, l, i, s, s2, t)
  BY <1>1, <1>2, Zenon DEF InitiatorStep, InitiatorOk, Linked
<1>4. RequestsOk(p.out, s2, c, i)
  BY <1>1, <1>2, OneRequest, Zenon DEF Message
<1> QED BY <1>2, <1>3, <1>4, Zenon DEF InitiatorTurn, s2

(* What the invariant says of an initiator a. *)
LEMMA InitiatorFacts ==
  ASSUME Inv, NEW a \in Agents, Role(env, a) = "INITIATOR"
  PROVE  /\ ConfigOk(env.cfg[a]) /\ ConfigOk(env.cfg[Peer(a)]) /\ env.cfg[a].rendezvous = TRUE
         /\ env.cfg[Peer(a)].rendezvous = TRUE
         /\ PairOk(env.cfg[a], env.cfg[Peer(a)], a, ag[a], ag[Peer(a)], net[a], net[Peer(a)])
         /\ ag[a].cookie = env.cookie[a] /\ ag[Peer(a)].cookie = env.cookie[Peer(a)]
<1>1. Peer(a) \in Agents /\ env \in Cases
  BY Roles, Zenon DEF Inv
<1> QED BY <1>1, CasesAssumption, Zenon DEF Inv

(* What a handler that answers at once, or stores its answer, may return. *)
Fit(a, p) ==
  /\ Allowed(a, p.s, p.out)
  /\ p.cst = "CONTINUE" => Allowed(a, [p.s EXCEPT !.stored = p.out], <<>>)

(* Giving up is fit. *)
LEMMA EndFits ==
  ASSUME NEW a, ag[a].phase = "connecting", NEW p, Ended(ag[a], p)
  PROVE  Fit(a, p)
<1>1. p.cst # "CONTINUE"
  BY DEF Ended
<1> QED BY <1>1, EndAllowed, Zenon DEF Fit

(* A turn of the initiator is fit. *)
LEMMA InitiatorFits ==
  ASSUME NEW a, Role(env, a) = "INITIATOR", NEW p, IsAgent(p.s), p.s.cookie = ag[a].cookie,
         InitiatorTurn(env.cfg[a], env.cfg[Peer(a)], a, ag[a], p.s, ag[Peer(a)], p.out),
         p.cst = "CONTINUE" =>
           InitiatorTurn(env.cfg[a], env.cfg[Peer(a)], a, ag[a], [p.s EXCEPT !.stored = p.out], ag[Peer(a)], <<>>)
  PROVE  Fit(a, p)
<1> DEFINE s3 == [p.s EXCEPT !.stored = p.out]
<1>1. s3.cookie = p.s.cookie
  BY DEF IsAgent, AgentFields
<1>2. Role(env, a) # "DRAW" /\ Role(env, a) # "RESPONDER"
  OBVIOUS
<1> HIDE DEF s3
<1>3. Allowed(a, p.s, p.out)
  BY <1>2, Zenon DEF Allowed
<1>4. p.cst = "CONTINUE" => Allowed(a, s3, <<>>)
  BY <1>1, <1>2, Zenon DEF Allowed, s3
<1> QED BY <1>3, <1>4, Zenon DEF Fit, s3

(* An initiator that asks or confirms is fit. *)
LEMMA InitiatorGoes ==
  ASSUME Inv, NEW a \in Agents, Role(env, a) = "INITIATOR", ag[a].phase = "connecting",
         NEW z, z.stored = ag[a].stored, z.cookie = ag[a].cookie, NEW p,
         \/ AsksWith(z, p, env.cfg[a], a)
         \/ ConfirmsWith(z, p, ag[Peer(a)], env.cfg[a], env.cfg[Peer(a)], a)
  PROVE  Fit(a, p)
<1> DEFINE s == ag[a]  t == ag[Peer(a)]  c == env.cfg[a]  l == env.cfg[Peer(a)]
<1>1. RequestsOk(s.stored, s, c, a)
  BY InitiatorFacts, Zenon DEF PairOk
<1>2. CASE AsksWith(z, p, c, a)
  <2>1. /\ InitiatorTurn(c, l, a, s, p.s, t, p.out)
        /\ InitiatorTurn(c, l, a, s, [p.s EXCEPT !.stored = p.out], t, <<>>)
    BY <1>1, <1>2, AsksTurn, Zenon
  <2>2. IsAgent(p.s) /\ p.s.cookie = s.cookie
    BY <1>2 DEF AsksWith, Same, AgentFields
  <2> QED BY <2>1, <2>2, InitiatorFits, Zenon
<1>3. CASE ConfirmsWith(z, p, t, c, l, a)
  <2>1. InitiatorTurn(c, l, a, s, p.s, t, p.out)
    BY <1>3, ConfirmsTurn, Zenon
  <2>2. IsAgent(p.s) /\ p.s.cookie = s.cookie /\ p.cst # "CONTINUE"
    BY <1>3 DEF ConfirmsWith
  <2> QED BY <2>1, <2>2, InitiatorFits, Zenon
<1> QED BY <1>2, <1>3

(* What a connecting initiator is. *)
LEMMA ConnectingInitiator ==
  ASSUME Inv, NEW a \in Agents, Role(env, a) = "INITIATOR", ag[a].phase = "connecting"
  PROVE  /\ IsAgent(ag[a]) /\ ag[a].rdv \in {"WAVING", "ATTENTION", "FINE"}
         /\ \/ Early(ag[a], env.cfg[a], a) /\ ag[a].rdv = "WAVING" /\ ag[a].req = "WAVEAHAND"
            \/ Inquiring(ag[a], env.cfg[a], a) /\ ag[a].rdv # "WAVING"
         /\ ~Been(ag[a]) /\ ~Been(ag[Peer(a)])
<1> DEFINE s == ag[a]  t == ag[Peer(a)]  c == env.cfg[a]  l == env.cfg[Peer(a)]
<1>1. InitiatorOk(s, c, l, a) /\ Progress(s, t)
  BY InitiatorFacts, Zenon DEF PairOk
<1> HIDE DEF t, l
<1>2. IsAgent(s) /\ (Early(s, c, a) \/ Inquiring(s, c, a))
  BY <1>1 DEF InitiatorOk, Dead
<1>3. Early(s, c, a) => s.rdv = "WAVING" /\ s.req = "WAVEAHAND"
  BY DEF Early
<1>4. Inquiring(s, c, a) => s.rdv \in {"ATTENTION", "FINE"}
  BY DEF Inquiring
<1>5. ~Been(s)
  BY SMTT(20) DEF Been
<1> QED BY <1>1, <1>2, <1>3, <1>4, <1>5, SMTT(20) DEF Progress, t

(* Loading a handshake (m_ConnRes.load_from). *)
LEMMA LoadedAs ==
  ASSUME NEW a, NEW m
  PROVE  LET r == Loaded(a, m)
         IN /\ r.type = m.type /\ r.flags = (m.ext # NoExt) /\ r.cookie = ag[Peer(a)].cookie
            /\ r.km = (m.ext # NoExt /\ m.ext.km # NoKm) /\ r # NoRes
  BY DEF Loaded, NoRes, Peer

(* A handshake makes an initiator ready. *)
LEMMA InitiatorLoads ==
  ASSUME Inv, NEW a \in Agents, Role(env, a) = "INITIATOR", ag[a].phase = "connecting", NEW m
  PROVE  LET z == cookieContest([ag[a] EXCEPT !.res = Loaded(a, m)])
         IN InitiatorReady(z, env.cfg[a], a) /\ Same(ag[a], z, {"u", "res"}) /\ z.res = Loaded(a, m)
<1> DEFINE s == ag[a]  c == env.cfg[a]
           s0 == [s EXCEPT !.res = Loaded(a, m)]
           z == cookieContest(s0)
<1>1. /\ IsAgent(s) /\ s.rdv \in {"WAVING", "ATTENTION", "FINE"}
      /\ Early(s, c, a) \/ Inquiring(s, c, a)
  BY ConnectingInitiator, Zenon
<1>2. Same(s, s0, {"res"}) /\ s0.res = Loaded(a, m)
  BY <1>1 DEF Same, IsAgent, AgentFields
<1>3. s.cookie = env.cookie[a] /\ Loaded(a, m).cookie = env.cookie[Peer(a)]
  BY InitiatorFacts, LoadedAs, Zenon
<1> HIDE DEF s0
<1>4. s0.u = s.u /\ s0.cookie = s.cookie /\ IsAgent(s0) /\ s0.rdv = s.rdv /\ s0.phase = s.phase
  BY <1>2, SMTT(20) DEF Same, AgentFields
<1>5. Same(s0, z, {"u"}) /\ z.u.side = "INITIATOR" /\ Asking(Told(z.u, z.res.id), c, a)
  <2>1. CASE Early(s, c, a)
    <3>1. Untouched(s0.u, c, a)
      BY <1>4, <2>1, Zenon DEF Early
    <3>2. Same(s0, z, {"u"}) /\ Chosen(z.u, c, a, "INITIATOR")
      BY <1>2, <1>3, <1>4, <3>1, FirstContest, Zenon
    <3> QED BY <3>2, FirstTold, Zenon DEF Chosen
  <2>2. CASE Inquiring(s, c, a)
    <3>1. Asking(s0.u, c, a)
      BY <1>4, <2>2, Zenon DEF Inquiring
    <3>2. IsSocket(s0.u) /\ s0.u.side = "INITIATOR" /\ s0.u.crypto = TRUE
      BY <3>1, Zenon DEF Asking, Requesting
    <3>3. z = s0
      BY <3>2, NoContest
    <3> HIDE DEF z
    <3>4. Kept(z.u, Told(z.u, z.res.id), {"peerId"})
      BY <3>2, <3>3, ToldAgain, Zenon
    <3>5. Kept(z.u, Told(z.u, z.res.id), {"peerId", "fail", "delay", "peerDelay", "reason"})
      BY <3>4 DEF Kept
    <3>6. Asking(Told(z.u, z.res.id), c, a)
      BY <3>1, <3>3, <3>5, StillAsking, Zenon
    <3> QED BY <1>4, <3>2, <3>3, <3>6 DEF Same
  <2> QED BY <1>1, <2>1, <2>2
<1> HIDE DEF z
<1>6. /\ IsAgent(z) /\ z.phase = "connecting" /\ z.rdv = s.rdv /\ Same(s, z, {"u", "res"})
      /\ z.res = Loaded(a, m)
  BY <1>2, <1>4, <1>5 DEF Same, AgentFields
<1>7. InitiatorReady(z, c, a)
  BY <1>1, <1>5, <1>6, Zenon DEF InitiatorReady
<1> QED BY <1>6, <1>7, Zenon DEF z, s0

(* An initiator may look at any answer on its way. *)
LEMMA InitiatorFresh ==
  ASSUME Inv, NEW a \in Agents, Role(env, a) = "INITIATOR", ag[a].phase = "connecting",
         NEW m, AnswerOk(m, ag[a], ag[Peer(a)], env.cfg[a], env.cfg[Peer(a)], a),
         NEW p, FreshTurn(a, m, p)
  PROVE  Fit(a, p)
<1> DEFINE s == ag[a]  t == ag[Peer(a)]  c == env.cfg[a]  l == env.cfg[Peer(a)]
           z == cookieContest([s EXCEPT !.res = Loaded(a, m)])
<1>1. m.type # "KEEPALIVE" /\ m.type # "AGREEMENT"
  <2>1. ~Been(t)
    BY ConnectingInitiator, Zenon
  <2>2. m.type \in {"AGREEMENT", "KEEPALIVE"} => Been(t)
    BY DEF AnswerOk
  <2> QED BY <2>1, <2>2
<1>2. CASE Ended(s, p)
  BY <1>2, EndFits, Zenon
<1>3. CASE p.cst # "REJECT" /\ Turned(z, m.ext, TRUE, p)
  <2>1. InitiatorReady(z, c, a) /\ Same(s, z, {"u", "res"}) /\ z.res = Loaded(a, m)
    BY InitiatorLoads, Zenon
  <2>2. ConfigOk(c) /\ ConfigOk(l)
    BY InitiatorFacts, Zenon
  <2> HIDE DEF z
  <2>3. z.res.type = m.type /\ z.res.flags = (m.ext # NoExt)
    <3>1. Loaded(a, m).type = m.type /\ Loaded(a, m).flags = (m.ext # NoExt)
      BY DEF Loaded
    <3> QED BY <2>1, <3>1, Zenon
  <2>4. z.stored = s.stored /\ z.cookie = s.cookie /\ z.rdv = s.rdv
    BY <2>1 DEF Same, AgentFields
  <2>5. m.ext # NoExt => m.type = "CONCLUSION" /\ Offer(m.ext, t, c, l, a) /\ z.rdv # "WAVING"
    <3>1. m.ext # NoExt => m.type = "CONCLUSION" /\ Offer(m.ext, t, c, l, a) /\ Asked(s)
      BY Zenon DEF AnswerOk
    <3>2. Asked(s) => s.rdv # "WAVING"
      BY DEF Asked
    <3> QED BY <2>4, <3>1, <3>2, Zenon
  <2>6. z.res.flags \in BOOLEAN /\ z.res.type # "AGREEMENT"
    BY <1>1, <2>3
  <2>7. AsksWith(z, p, c, a) \/ ConfirmsWith(z, p, t, c, l, a)
    <3>1. z.res.flags => /\ z.res.type = "CONCLUSION" /\ z.rdv # "WAVING" /\ TRUE = TRUE
                         /\ Offer(m.ext, t, c, l, a)
      BY <2>3, <2>5, Zenon
    <3>2. TRUE \in BOOLEAN
      OBVIOUS
    <3> QED BY <1>3, <2>1, <2>2, <2>6, <3>1, <3>2, InitiatorTurned, Zenon
  <2> QED BY <2>4, <2>7, InitiatorGoes, Zenon
<1> QED BY <1>1, <1>2, <1>3, Zenon DEF FreshTurn

(* A socket that clears its failure. *)
LEMMA ClearedAgent ==
  ASSUME NEW s, IsAgent(s), IsSocket(s.u), NEW p, p.s = [s EXCEPT !.u = [s.u EXCEPT !.fail = FALSE]]
  PROVE  Same(s, p.s, {"u"}) /\ Kept(s.u, p.s.u, {"fail"}) /\ p.s.u.fail = FALSE
<1> DEFINE v == [s.u EXCEPT !.fail = FALSE]
<1>1. Kept(s.u, v, {"fail"}) /\ v.fail = FALSE
  BY Cleared
<1> HIDE DEF v
<1>2. p.s = [s EXCEPT !.u = v]
  BY Zenon DEF v
<1>3. Same(s, p.s, {"u"}) /\ p.s.u = v
  BY <1>2, Zenon DEF Same, IsAgent, AgentFields
<1> QED BY <1>1, <1>3, Zenon

(* An agent that has only waved still has when its failure is cleared. *)
LEMMA StillEarly ==
  ASSUME NEW s, IsAgent(s), NEW c, NEW a, Early(s, c, a), NEW t, Same(s, t, {"u"}),
         Kept(s.u, t.u, {"fail"}), t.u.fail = FALSE
  PROVE  Early(t, c, a)
<1>1. /\ t.phase = s.phase /\ t.rdv = s.rdv /\ t.req = s.req /\ t.res = s.res /\ t.reqExt = s.reqExt
  BY DEF Same, AgentFields
<1>2. Untouched(t.u, c, a)
  BY DEF Early, Untouched, Kept, Fields
<1> QED BY <1>1, <1>2, Zenon DEF Early

(* The periodic call of an initiator is fit. *)
LEMMA InitiatorPeriodic ==
  ASSUME Inv, NEW a \in Agents, Role(env, a) = "INITIATOR", ag[a].phase = "connecting",
         NEW p, PeriodicTurn(ag[a], p)
  PROVE  Allowed(a, p.s, p.out)
<1> DEFINE s == ag[a]  t == ag[Peer(a)]  c == env.cfg[a]  l == env.cfg[Peer(a)]
           z == cookieContest(s)
           w == IF s.reqExt THEN createSrtHandshake(s.u, "HSREQ", NoKm)
                ELSE [u |-> [s.u EXCEPT !.fail = FALSE], ext |-> NoExt]
<1>1. /\ IsAgent(s) /\ s.rdv \in {"WAVING", "ATTENTION", "FINE"} /\ ~Been(s)
      /\ \/ Early(s, c, a) /\ s.rdv = "WAVING" /\ s.req = "WAVEAHAND"
         \/ Inquiring(s, c, a) /\ s.rdv # "WAVING"
  BY ConnectingInitiator, Zenon
<1>2. ConfigOk(c) /\ ConfigOk(l) /\ RequestsOk(s.stored, s, c, a)
  BY InitiatorFacts, Zenon DEF PairOk
<1>3. CASE Ended(s, p)
  BY <1>3, EndAllowed, Zenon
<1>4. CASE p.cst # "REJECT" /\ Turned(z, NoExt, FALSE, p)
  <2>1. CASE Early(s, c, a)
    <3>1. s.u.side = "DRAW" /\ s.res = NoRes
      BY <2>1, Zenon DEF Early, Untouched
    <3>2. z = s
      BY <3>1, NoContest, Zenon
    <3>3. FALSE
      BY <1>4, <3>1, <3>2, Zenon DEF Turned
    <3> QED BY <3>3
  <2>2. CASE Inquiring(s, c, a)
    <3>1. Asking(s.u, c, a) /\ Bare(s.res)
      BY <2>2, Zenon DEF Inquiring
    <3>2. IsSocket(s.u) /\ s.u.side = "INITIATOR" /\ s.u.crypto = TRUE
      BY <3>1, Zenon DEF Asking, Requesting
    <3>3. z = s
      BY <3>2, NoContest
    <3>4. Kept(s.u, Told(s.u, s.res.id), {"peerId"})
      BY <3>2, ToldAgain, Zenon
    <3>5. Kept(s.u, Told(s.u, s.res.id), {"peerId", "fail", "delay", "peerDelay", "reason"})
      BY <3>4 DEF Kept
    <3>6. Asking(Told(s.u, s.res.id), c, a)
      BY <3>1, <3>5, StillAsking, Zenon
    <3>7. InitiatorReady(s, c, a)
      BY <1>1, <3>2, <3>6, Zenon DEF InitiatorReady
    <3>8. s.res.flags = FALSE /\ s.res.type # "AGREEMENT" /\ s.res.flags \in BOOLEAN
      BY <3>1, Zenon DEF Bare
    <3>9. Turned(s, NoExt, FALSE, p) /\ FALSE \in BOOLEAN
      BY <1>4, <3>3, Zenon
    <3>10. AsksWith(s, p, c, a) \/ ConfirmsWith(s, p, t, c, l, a)
      BY <1>2, <1>4, <3>7, <3>8, <3>9, InitiatorTurned, Zenon
    <3>11. Fit(a, p)
      BY <3>10, InitiatorGoes, Zenon
    <3> QED BY <3>11, Zenon DEF Fit
  <2> QED BY <1>1, <2>1, <2>2
<1>5. CASE /\ w.u.fail # TRUE /\ p.s = [s EXCEPT !.u = w.u]
           /\ \E known : p.out = <<Packet(s.req, w.ext, "", known)>>
  <2>1. PICK known : p.out = <<Packet(s.req, w.ext, "", known)>>
    BY <1>5, Zenon
  <2>2. Same(s, p.s, {"u"}) /\ p.s.u = w.u
    <3> HIDE DEF w
    <3> QED BY <1>1, <1>5, Zenon DEF Same, IsAgent, AgentFields
  <2>3. /\ p.s.phase = "connecting" /\ p.s.rdv = s.rdv /\ p.s.req = s.req /\ p.s.res = s.res
        /\ p.s.stored = s.stored /\ p.s.cookie = s.cookie /\ IsAgent(p.s)
    BY <2>2 DEF Same, AgentFields
  <2>4. /\ Early(p.s, c, a) \/ Inquiring(p.s, c, a)
        /\ w.ext # NoExt => s.req = "CONCLUSION" /\ w.ext = RequestOf(c, a) /\ s.rdv # "WAVING"
        /\ s.req \notin {"AGREEMENT", "KEEPALIVE"}
    <3>1. CASE Early(s, c, a) /\ s.req = "WAVEAHAND"
      <4> DEFINE v == [s.u EXCEPT !.fail = FALSE]
      <4>1. s.reqExt = FALSE /\ IsSocket(s.u)
        BY <3>1 DEF Early, Untouched
      <4>2. w = [u |-> v, ext |-> NoExt]
        BY <4>1, Zenon
      <4> HIDE DEF w, v
      <4>3. w.u = v /\ w.ext = NoExt
        BY <4>2
      <4>4. p.s = [s EXCEPT !.u = [s.u EXCEPT !.fail = FALSE]]
        BY <1>5, <4>3, Zenon DEF v
      <4>5. Kept(s.u, p.s.u, {"fail"}) /\ p.s.u.fail = FALSE
        BY <1>1, <4>1, <4>4, ClearedAgent, Zenon
      <4>6. Early(p.s, c, a)
        BY <1>1, <2>2, <3>1, <4>5, StillEarly, Zenon
      <4> QED BY <3>1, <4>3, <4>6
    <3>2. CASE Inquiring(s, c, a) /\ s.rdv # "WAVING"
      <4>1. Asking(s.u, c, a) /\ s.req = "CONCLUSION" /\ IsSocket(s.u)
        BY <3>2, Zenon DEF Inquiring, Asking, Requesting
      <4>2. Asking(w.u, c, a) /\ w.ext \in {NoExt, RequestOf(c, a)}
        <5>1. CASE s.reqExt = TRUE
          <6> DEFINE y == createSrtHandshake(s.u, "HSREQ", NoKm)
          <6>1. w = y
            BY <5>1, Zenon
          <6>2. Asking(y.u, c, a) /\ y.ext = RequestOf(c, a)
            BY <1>2, <4>1, AskAgain, Zenon
          <6> HIDE DEF w, y
          <6> QED BY <6>1, <6>2
        <5>2. CASE s.reqExt # TRUE
          <6> DEFINE v == [s.u EXCEPT !.fail = FALSE]
          <6>1. w = [u |-> v, ext |-> NoExt]
            BY <5>2, Zenon
          <6>2. Kept(s.u, v, {"fail"})
            BY <4>1, Cleared
          <6>3. Kept(s.u, v, {"peerId", "fail", "delay", "peerDelay", "reason"})
            BY <6>2, Zenon DEF Kept
          <6> HIDE DEF v, w
          <6>4. Asking(v, c, a)
            BY <4>1, <6>3, StillAsking, Zenon
          <6>5. w.u = v /\ w.ext = NoExt
            BY <6>1
          <6> QED BY <6>4, <6>5
        <5> QED BY <5>1, <5>2, Zenon
      <4> HIDE DEF w
      <4>3. Inquiring(p.s, c, a)
        BY <2>2, <2>3, <3>2, <4>2, Zenon DEF Inquiring
      <4> QED BY <3>2, <4>1, <4>2, <4>3
    <3> QED BY <1>1, <3>1, <3>2
  <2> HIDE DEF w
  <2>5. /\ Asked(s) => Asked(p.s)
        /\ s.rdv # "WAVING" => Asked(p.s)
        /\ ~Been(p.s) /\ p.s.phase # "connected"
    BY <2>3 DEF Asked, Been
  <2>6. InitiatorStep(c, l, a, s, p.s, t)
    BY <1>1, <2>3, <2>4, <2>5, Zenon DEF InitiatorStep, InitiatorOk, Linked
  <2>7. RequestsOk(p.out, p.s, c, a)
    BY <2>1, <2>4, <2>5, OneRequest, Zenon
  <2>8. RequestsOk(s.stored, p.s, c, a)
    BY <1>1, <1>2, <2>5, RequestsLater, Zenon
  <2>9. InitiatorTurn(c, l, a, s, p.s, t, p.out)
    BY <2>3, <2>6, <2>7, <2>8, Zenon DEF InitiatorTurn
  <2>10. Role(env, a) # "DRAW" /\ Role(env, a) # "RESPONDER"
    OBVIOUS
  <2> QED BY <2>3, <2>9, <2>10, Zenon DEF Allowed
<1> QED BY <1>3, <1>4, <1>5, Zenon DEF PeriodicTurn

(****************************** the responder *****************************)

(* A switch of the loser of the contest. *)
ResponderSwitched(sw, rdv, req, flags) ==
  \/ sw.rsp = "FAILURE"
  \/ /\ sw.rsp = "CONCLUSION" /\ sw.hsrsp = FALSE /\ sw.ext = FALSE /\ sw.rdv = "ATTENTION"
     /\ rdv \in {"WAVING", "ATTENTION"} /\ flags = FALSE /\ req \in {"WAVEAHAND", "CONCLUSION"}
  \/ /\ sw.rsp = "CONCLUSION" /\ sw.hsrsp = TRUE /\ sw.rdv \in {"FINE", "INITIATED"}
     /\ req = "CONCLUSION" /\ (rdv = "ATTENTION" => flags = TRUE)
  \/ /\ sw.rsp = "DONE" /\ sw.hsrsp = FALSE /\ sw.rdv = "CONNECTED"
     /\ req = "AGREEMENT" /\ rdv \in {"FINE", "INITIATED"}

(* rendezvousSwitchState for the loser of the contest, which gets an        *)
(* agreement only after it has answered.                                    *)
LEMMA ResponderSwitch ==
  ASSUME NEW rdv \in {"WAVING", "ATTENTION", "FINE", "INITIATED"}, NEW req,
         req = "AGREEMENT" => rdv \in {"FINE", "INITIATED"},
         NEW flags \in BOOLEAN, flags => req = "CONCLUSION"
  PROVE  ResponderSwitched(rendezvousSwitchState(rdv, FALSE, req, flags), rdv, req, flags)
<1>1. CASE rdv = "WAVING"
  BY <1>1, Zenon DEF ResponderSwitched, rendezvousSwitchState, Switch, SwitchRogue
<1>2. CASE rdv = "ATTENTION"
  BY <1>2 DEF ResponderSwitched, rendezvousSwitchState, SwitchFromAttention, Switch, SwitchRogue
<1>3. CASE rdv = "FINE"
  BY <1>3, Zenon DEF ResponderSwitched, rendezvousSwitchState, SwitchFromFine, Switch, SwitchRogue
<1>4. CASE rdv = "INITIATED"
  BY <1>4 DEF ResponderSwitched, rendezvousSwitchState, Switch, SwitchRogue
<1> QED BY <1>1, <1>2, <1>3, <1>4, Zenon

(* The answer w of a responder that was e. *)
Gives(e, w, c, l, i) ==
  /\ Negotiated(c, l, i, w.u, w.ext) /\ w.u.side = "RESPONDER"
  /\ Served(e.u, c, l, i) => SameFilter(e.u.filter, w.u.filter, l.filterDefaults)

(* A responder that has answered and looks at the request again. *)
LEMMA GivesAgain ==
  ASSUME NEW c, ConfigOk(c), NEW l, ConfigOk(l), l.rendezvous = TRUE, NEW i,
         NEW e, Served(e.u, c, l, i),
         interpretSrtHandshake(e.u, RequestOf(c, i)).u.fail # TRUE
  PROVE  Gives(e, Replied(e, interpretSrtHandshake(e.u, RequestOf(c, i))), c, l, i)
<1> DEFINE r == interpretSrtHandshake(e.u, RequestOf(c, i))
           w == createSrtHandshake(r.u, "HSRSP", r.km)
<1>1. PICK x : Negotiated(c, l, i, e.u, x)
  BY Zenon DEF Served
<1>2. e.u.side = "RESPONDER" /\ e.u.side # "INITIATOR"
  BY DEF Served
<1>3. /\ r.u.side = e.u.side
      /\ SameFilter(r.u.filter, e.u.filter, l.filterDefaults)
      /\ \E y : /\ Negotiated(c, l, i, r.u, y)
                /\ y.km = IF l.secret # "" /\ r.km = NoKm THEN KmReport("UNSECURED") ELSE r.km
  <2>1. Reconsidered(c, l, i, e.u)
    BY <1>1, <1>2, RequestAgain, Zenon
  <2> QED BY <2>1, Zenon DEF Reconsidered
<1>4. PICK y : /\ Negotiated(c, l, i, r.u, y)
               /\ y.km = IF l.secret # "" /\ r.km = NoKm THEN KmReport("UNSECURED") ELSE r.km
  BY <1>3, Zenon
<1>5. w.u.fail = FALSE /\ Alike(r.u, w.u) /\ Negotiated(c, l, i, w.u, w.ext)
  <2> HIDE DEF r
  <2> QED BY <1>4, AnswerGiven, Zenon
<1> HIDE DEF r, w
<1>6. w.u.side = r.u.side /\ w.u.filter = r.u.filter
  BY <1>5 DEF Alike, Kept, Fields
<1>7. SameFilter(e.u.filter, w.u.filter, l.filterDefaults)
  BY <1>3, <1>6, Zenon DEF SameFilter
<1> QED BY <1>2, <1>3, <1>5, <1>6, <1>7, Zenon DEF Gives, Replied, r, w

(* The first answer of a responder. *)
LEMMA GivesFirst ==
  ASSUME NEW c, ConfigOk(c), NEW l, ConfigOk(l), NEW i,
         NEW e, Answering(e.u, l), e.u.side = "RESPONDER", ~Served(e.u, c, l, i),
         interpretSrtHandshake(e.u, RequestOf(c, i)).u.fail # TRUE
  PROVE  Gives(e, Replied(e, interpretSrtHandshake(e.u, RequestOf(c, i))), c, l, i)
<1>1. NegotiatesWith(c, l, i, e.u)
  BY ResponderNegotiates, Zenon
<1> QED BY <1>1, Zenon DEF NegotiatesWith, Gives, Replied

(* A responder that repeats its answer from what it recorded. *)
LEMMA GivesRecorded ==
  ASSUME NEW c, ConfigOk(c), NEW l, NEW i, NEW e, Served(e.u, c, l, i),
         e.res.km = (c.secret # "")
  PROVE  Gives(e, Replied(e, craftKmResponse([e.u EXCEPT !.fail = FALSE], e.res.km)), c, l, i)
<1> DEFINE k == craftKmResponse([e.u EXCEPT !.fail = FALSE], e.res.km)
           w == createSrtHandshake(k.u, "HSRSP", k.km)
<1>1. PICK x : Negotiated(c, l, i, e.u, x)
  BY Zenon DEF Served
<1>2. e.u.side = "RESPONDER"
  BY Zenon DEF Served
<1>3. e.res.km \in BOOLEAN
  <2> DEFINE B == c.secret # ""
  <2>1. B \in BOOLEAN
    BY Zenon
  <2> HIDE DEF B
  <2> QED BY <2>1, Zenon DEF B
<1>4. Repeated(c, l, i, e.u, e.res.km)
  BY <1>1, <1>3, RepeatAnswer, Zenon
<1>5. Alike(e.u, w.u) /\ Negotiated(c, l, i, w.u, w.ext)
  BY <1>4, Zenon DEF Repeated
<1> HIDE DEF k, w
<1>6. w.u.side = e.u.side /\ w.u.filter = e.u.filter
  BY <1>5, Zenon DEF Alike, Kept, Fields
<1>7. SameFilter(e.u.filter, w.u.filter, l.filterDefaults)
  BY <1>6, Zenon DEF SameFilter
<1> QED BY <1>2, <1>5, <1>6, <1>7, Zenon DEF Gives, Replied, k, w

GivesWith(e, p, ext, fresh, c, l, i) ==
  /\ fresh => ext # NoExt
  /\ \E w : /\ Gives(e, w, c, l, i) /\ p.cst = "CONTINUE"
            /\ p.s = [e EXCEPT !.u = w.u, !.reqExt = TRUE]
            /\ p.out = <<Message("CONCLUSION", w.ext)>>

(* Whatever a responder answers a request with. *)
LEMMA ResponderGives ==
  ASSUME NEW c, ConfigOk(c), NEW l, ConfigOk(l), l.rendezvous = TRUE, NEW i,
         NEW e, IsSocket(e.u), Served(e.u, c, l, i) \/ (Answering(e.u, l) /\ e.u.side = "RESPONDER"),
         NEW ext, ext # NoExt => ext = RequestOf(c, i), NEW fresh \in BOOLEAN,
         ~fresh => Served(e.u, c, l, i) /\ e.res.km = (c.secret # ""),
         NEW p, AnsweredHsreq(e, p, ext, fresh)
  PROVE  GivesWith(e, p, ext, fresh, c, l, i)
<1> DEFINE k == Recalled(e, ext, fresh)
           w == Replied(e, k)
<1>1. /\ k.u.fail # TRUE
      /\ p.cst = "CONTINUE" /\ p.s = [e EXCEPT !.u = w.u, !.reqExt = TRUE]
      /\ p.out = <<Message("CONCLUSION", w.ext)>>
  BY Zenon DEF AnsweredHsreq
<1>2. CASE fresh = TRUE
  <2>1. k = interpretSrtHandshake(e.u, ext)
    BY <1>2, Zenon DEF Recalled
  <2>2. interpretSrtHandshake(e.u, ext).u.fail # TRUE
    BY <1>1, <2>1, Zenon
  <2>3. ext # NoExt
    BY <2>2, Stages, Zenon
  <2>4. ext = RequestOf(c, i)
    BY <2>3, Zenon
  <2>5. Gives(e, Replied(e, interpretSrtHandshake(e.u, RequestOf(c, i))), c, l, i)
    BY <2>2, <2>4, GivesAgain, GivesFirst, Zenon
  <2>6. Gives(e, w, c, l, i)
    BY <2>1, <2>4, <2>5, Zenon
  <2> HIDE DEF w, k
  <2> QED BY <1>1, <2>3, <2>6, Zenon DEF GivesWith
<1>3. CASE fresh # TRUE
  <2>1. k = craftKmResponse([e.u EXCEPT !.fail = FALSE], e.res.km)
    BY <1>3, Zenon DEF Recalled
  <2>2. Gives(e, w, c, l, i)
    BY <1>3, <2>1, GivesRecorded, Zenon
  <2> HIDE DEF w, k
  <2> QED BY <1>1, <1>3, <2>2, Zenon DEF GivesWith
<1> QED BY <1>2, <1>3, Zenon

(* The responder z waits with p, answers with p, or is connected with p. *)
AwaitsWith(z, p, l) ==
  /\ Same(z, p.s, {"u", "rdv", "req", "reqExt"}) /\ Awaiting(p.s, l) /\ p.cst = "CONTINUE"
  /\ p.out = <<Message("CONCLUSION", NoExt)>> /\ z.rdv \in {"WAVING", "ATTENTION"}

OffersWith(z, p, c, l, i) ==
  /\ Same(z, p.s, {"u", "rdv", "req", "reqExt"}) /\ Offering(p.s, c, l, i) /\ p.cst = "CONTINUE"
  /\ \E x : p.out = <<Message("CONCLUSION", x)>> /\ Negotiated(c, l, i, p.s.u, x)
  /\ z.rdv \in {"FINE", "INITIATED"} => SameFilter(z.u.filter, p.s.u.filter, l.filterDefaults)

JoinsWith(z, p, c, l, i) ==
  /\ IsAgent(p.s) /\ p.s.cookie = z.cookie /\ p.s.phase = "connected" /\ Served(p.s.u, c, l, i)
  /\ p.cst = "ACCEPT" /\ p.out = <<>>
  /\ p.s.u.filter = z.u.filter

(* A responder that processRendezvous may meet. *)
ResponderReady(z, c, l, i) ==
  /\ IsAgent(z) /\ z.phase = "connecting" /\ z.u.side = "RESPONDER"
  /\ LET v == Told(z.u, z.res.id)
     IN \/ z.rdv \in {"WAVING", "ATTENTION"} /\ Answering(v, l) /\ v.side = "RESPONDER"
        \/ z.rdv \in {"FINE", "INITIATED"} /\ Served(z.u, c, l, i) /\ Alike(z.u, v)

(* A responder that has no request to answer yet. *)
LEMMA ResponderWaits ==
  ASSUME NEW l, NEW z, IsAgent(z), z.phase = "connecting", z.rdv \in {"WAVING", "ATTENTION"},
         NEW sw, sw.rsp = "CONCLUSION", sw.rdv = "ATTENTION", sw.ext = FALSE, Bare(z.res),
         Answering(Told(z.u, z.res.id), l), Told(z.u, z.res.id).side = "RESPONDER",
         NEW ext, NEW fresh, NEW p,
         AnsweredOther(Joined(Interpreting(Entered(z, sw), sw, ext, fresh)), p, sw)
  PROVE  AwaitsWith(z, p, l)
<1> DEFINE e == Entered(z, sw)
           v == [e.u EXCEPT !.fail = FALSE]
           f == Interpreting(e, sw, ext, fresh)
<1>1. /\ Same(z, e, {"u", "rdv", "req", "reqExt"}) /\ e.rdv = sw.rdv /\ e.req = "CONCLUSION"
      /\ Answering(e.u, l) /\ e.u.side = "RESPONDER"
  BY EnteredAs, Zenon
<1> HIDE DEF e
<1>2. f = [e EXCEPT !.u = v]
  <2>1. sw.rsp # "AGREEMENT"
    OBVIOUS
  <2> QED BY <2>1, Zenon DEF Interpreting, Learnt
<1>3. Answering(v, l) /\ v.side = "RESPONDER"
  <2>1. IsSocket(e.u)
    BY <1>1, Zenon DEF Answering, NoKeysYet
  <2>2. Kept(e.u, v, {"fail"}) /\ v.fail = FALSE
    BY <2>1, Cleared
  <2>3. Kept(e.u, v, {"peerId", "fail"})
    BY <2>2, Zenon DEF Kept
  <2> HIDE DEF v
  <2> QED BY <1>1, <2>2, <2>3, StillAnswering, ZenonT(30)
<1> HIDE DEF v, f
<1>4. Same(e, f, {"u"}) /\ f.u = v
  <2>1. IsAgent(e)
    BY <1>1 DEF Same
  <2> QED BY <1>2, <2>1, SMTT(20) DEF Same, IsAgent, AgentFields
<1>5. Joined(f) = f
  <2>1. f.rdv # "CONNECTED"
    BY <1>1, <1>4 DEF Same, AgentFields
  <2> QED BY <2>1, Zenon DEF Joined
<1> DEFINE y == [u |-> f.u, ext |-> NoExt]
<1>6. y.u = v /\ y.ext = NoExt
  BY <1>4
<1>7. p.cst = "CONTINUE" /\ p.s = [f EXCEPT !.u = y.u] /\ p.out = <<Message("CONCLUSION", y.ext)>>
  <2>1. AnsweredOther(f, p, sw)
    BY <1>5, Zenon DEF f, e
  <2>2. sw.rsp # "DONE" /\ sw.rsp # "AGREEMENT" /\ sw.ext # TRUE
    BY Zenon
  <2> QED BY <2>1, <2>2, Zenon DEF AnsweredOther
<1> HIDE DEF y
<1>8. /\ Same(z, p.s, {"u", "rdv", "req", "reqExt"}) /\ p.s.u = v /\ p.s.rdv = sw.rdv
      /\ p.s.req = "CONCLUSION" /\ p.s.res = z.res /\ p.s.phase = "connecting"
  BY <1>1, <1>4, <1>6, <1>7, SMTT(20) DEF Same, IsAgent, AgentFields
<1>9. Awaiting(p.s, l)
  BY <1>3, <1>8, Zenon DEF Awaiting
<1> QED BY <1>6, <1>7, <1>8, <1>9, Zenon DEF AwaitsWith

(* A responder that is told of the agreement. *)
LEMMA ResponderJoins ==
  ASSUME NEW c, NEW l, NEW i, NEW z, IsAgent(z),
         NEW sw, sw.rsp = "DONE", sw.rdv = "CONNECTED",
         Served(z.u, c, l, i), Alike(z.u, Told(z.u, z.res.id)),
         NEW ext, NEW fresh, NEW p,
         AnsweredOther(Joined(Interpreting(Entered(z, sw), sw, ext, fresh)), p, sw)
  PROVE  JoinsWith(z, p, c, l, i)
<1> DEFINE e == Entered(z, sw)
           v == [e.u EXCEPT !.fail = FALSE]
           f == Interpreting(e, sw, ext, fresh)
           d == [v EXCEPT !.connected = TRUE]
<1>1. /\ Same(z, e, {"u", "rdv", "req", "reqExt"}) /\ e.rdv = "CONNECTED" /\ Alike(z.u, e.u)
  BY EnteredAs, Zenon
<1> HIDE DEF e
<1>2. f = [e EXCEPT !.u = v]
  <2>1. sw.rsp # "AGREEMENT"
    BY SMTT(20)
  <2> QED BY <2>1, Zenon DEF Interpreting, Learnt
<1>3. Alike(z.u, d)
  BY <1>1, Zenon DEF Alike, Kept, IsSocket, Fields
<1> HIDE DEF v, d
<1>4. Served(d, c, l, i) /\ d.filter = z.u.filter
  BY <1>3, StillServed, Zenon
<1>5. Same(e, f, {"u"}) /\ f.u = v
  <2>1. IsAgent(e)
    BY <1>1 DEF Same
  <2> QED BY <1>2, <2>1 DEF Same, IsAgent, AgentFields
<1>6. f.rdv = "CONNECTED" /\ IsAgent(f)
  BY <1>1, <1>5 DEF Same, AgentFields
<1>7. Joined(f) = postConnect(f)
  BY <1>6, Zenon DEF Joined
<1>8. p.cst = "ACCEPT" /\ p.s = Joined(f) /\ p.out = <<>>
  <2> DEFINE g == Joined(f)
  <2>1. AnsweredOther(g, p, sw)
    BY DEF e
  <2> HIDE DEF g
  <2> QED BY <2>1, Zenon DEF AnsweredOther, g
<1> HIDE DEF f
<1>9. Same(f, p.s, {"u", "phase", "rdv"}) /\ p.s.phase = "connected" /\ p.s.u = d
  BY <1>5, <1>6, <1>7, <1>8, PostConnected, SMTT(20) DEF d
<1>10. IsAgent(p.s) /\ p.s.cookie = z.cookie
  BY <1>1, <1>5, <1>9, SMTT(20) DEF Same, AgentFields
<1> QED BY <1>4, <1>8, <1>9, <1>10, Zenon DEF JoinsWith

(* What processRendezvous makes of a responder that is not rejected. *)
LEMMA ResponderOffers ==
  ASSUME NEW c, ConfigOk(c), NEW l, ConfigOk(l), l.rendezvous = TRUE, NEW i,
         NEW z, ResponderReady(z, c, l, i), z.res.type = "CONCLUSION", z.res.flags \in BOOLEAN,
         NEW sw, sw.rsp = "CONCLUSION", sw.rdv \in {"FINE", "INITIATED"},
         NEW ext, ext # NoExt => ext = RequestOf(c, i) /\ z.res.km = (c.secret # ""),
         NEW fresh \in BOOLEAN,
         ~fresh => z.rdv \in {"FINE", "INITIATED"} /\ z.res.km = (c.secret # ""),
         NEW p, AnsweredHsreq(Entered(z, sw), p, ext, fresh)
  PROVE  OffersWith(z, p, c, l, i) /\ (fresh => ext # NoExt)
<1> DEFINE e == Entered(z, sw)
           v == Told(z.u, z.res.id)
<1>1. /\ IsAgent(z) /\ z.phase = "connecting" /\ z.u.side = "RESPONDER"
      /\ \/ z.rdv \in {"WAVING", "ATTENTION"} /\ Answering(v, l) /\ v.side = "RESPONDER"
         \/ z.rdv \in {"FINE", "INITIATED"} /\ Served(z.u, c, l, i) /\ Alike(z.u, v)
  BY Zenon DEF ResponderReady
<1>2. /\ Same(z, e, {"u", "rdv", "req", "reqExt"}) /\ e.rdv = sw.rdv /\ e.req = "CONCLUSION"
      /\ e.u = v
  BY <1>1, EnteredAs, ZenonT(30)
<1>3. AnsweredHsreq(e, p, ext, fresh)
  BY Zenon
<1> HIDE DEF e, v
<1>4. z.rdv \in {"FINE", "INITIATED"} => Served(z.u, c, l, i) /\ Alike(z.u, v)
  BY <1>1, Zenon
<1>5. z.rdv \in {"FINE", "INITIATED"} => Served(e.u, c, l, i) /\ e.u.filter = z.u.filter
  BY <1>2, <1>4, StillServed, Zenon
<1>6. Served(e.u, c, l, i) \/ (Answering(e.u, l) /\ e.u.side = "RESPONDER")
  BY <1>1, <1>2, <1>5, Zenon
<1>7. IsSocket(e.u)
  BY <1>6, Zenon DEF Served, Negotiated, Answering, NoKeysYet
<1>8. e.res = z.res /\ e.phase = "connecting"
  BY <1>1, <1>2, Zenon DEF Same, AgentFields
<1>9. ~fresh => Served(e.u, c, l, i) /\ e.res.km = (c.secret # "")
  BY <1>5, <1>8, Zenon
<1>10. /\ fresh => ext # NoExt
       /\ \E w : /\ Gives(e, w, c, l, i) /\ p.cst = "CONTINUE"
                 /\ p.s = [e EXCEPT !.u = w.u, !.reqExt = TRUE]
                 /\ p.out = <<Message("CONCLUSION", w.ext)>>
  <2>1. GivesWith(e, p, ext, fresh, c, l, i)
    BY <1>3, <1>6, <1>7, <1>9, ResponderGives, Zenon
  <2> QED BY <2>1, Zenon DEF GivesWith
<1>11. PICK w : /\ Gives(e, w, c, l, i) /\ p.cst = "CONTINUE"
                /\ p.s = [e EXCEPT !.u = w.u, !.reqExt = TRUE]
                /\ p.out = <<Message("CONCLUSION", w.ext)>>
  BY <1>10, ZenonT(30)
<1>12. /\ Same(z, p.s, {"u", "rdv", "req", "reqExt"}) /\ p.s.u = w.u /\ p.s.rdv = sw.rdv
       /\ p.s.req = "CONCLUSION" /\ p.s.res = z.res /\ p.s.phase = "connecting"
  BY <1>2, <1>8, <1>11, ZenonT(30) DEF Same, IsAgent, AgentFields
<1>13. Negotiated(c, l, i, p.s.u, w.ext) /\ Served(p.s.u, c, l, i)
  BY <1>11, <1>12, Zenon DEF Gives, Served
<1>14. p.s.res.km = (c.secret # "")
  BY <1>10, <1>12, Zenon
<1>15. Offering(p.s, c, l, i)
  BY <1>12, <1>13, <1>14, Zenon DEF Offering
<1>16. z.rdv \in {"FINE", "INITIATED"} => SameFilter(z.u.filter, p.s.u.filter, l.filterDefaults)
  BY <1>5, <1>11, <1>12, Zenon DEF Gives
<1> QED BY <1>10, <1>11, <1>12, <1>13, <1>15, <1>16, Zenon DEF OffersWith

ResponderWent(z, ext, fresh, p, c, l, i) ==
  \/ AwaitsWith(z, p, l)
  \/ /\ OffersWith(z, p, c, l, i) /\ (fresh => ext # NoExt)
     /\ ~fresh => z.rdv \in {"FINE", "INITIATED"}
  \/ JoinsWith(z, p, c, l, i) /\ z.res.type = "AGREEMENT"

(* A responder waits, answers, or is connected. *)
LEMMA ResponderTurned ==
  ASSUME NEW c, ConfigOk(c), NEW l, ConfigOk(l), l.rendezvous = TRUE, NEW i,
         NEW z, ResponderReady(z, c, l, i), z.res.flags \in BOOLEAN,
         z.res.flags => z.res.type = "CONCLUSION",
         z.res.type = "AGREEMENT" => z.rdv \in {"FINE", "INITIATED"},
         NEW ext, ext # NoExt => ext = RequestOf(c, i) /\ z.res.km = (c.secret # ""),
         NEW fresh \in BOOLEAN,
         ~fresh => /\ z.rdv # "WAVING" /\ (z.rdv = "ATTENTION" => z.res.flags = FALSE)
                   /\ z.rdv \in {"FINE", "INITIATED"} => z.res.km = (c.secret # ""),
         NEW p, Turned(z, ext, fresh, p), p.cst # "REJECT"
  PROVE  ResponderWent(z, ext, fresh, p, c, l, i)
<1> DEFINE sw == SwitchOf(z)
           e == Entered(z, sw)
           f == Interpreting(e, sw, ext, fresh)
           v == Told(z.u, z.res.id)
<1>1. /\ sw.rsp # "FAILURE"
      /\ sw.hsrsp = TRUE => AnsweredHsreq(e, p, ext, fresh)
      /\ sw.hsrsp # TRUE => AnsweredOther(Joined(f), p, sw)
  BY Zenon DEF Turned
<1>2. /\ IsAgent(z) /\ z.phase = "connecting" /\ z.u.side = "RESPONDER"
      /\ \/ z.rdv \in {"WAVING", "ATTENTION"} /\ Answering(v, l) /\ v.side = "RESPONDER"
         \/ z.rdv \in {"FINE", "INITIATED"} /\ Served(z.u, c, l, i) /\ Alike(z.u, v)
  BY Zenon DEF ResponderReady
<1>3. sw = rendezvousSwitchState(z.rdv, FALSE, z.res.type, z.res.flags)
  BY <1>2, Zenon DEF SwitchOf
<1>4. ResponderSwitched(sw, z.rdv, z.res.type, z.res.flags)
  <2> HIDE DEF sw, v
  <2>1. z.rdv \in {"WAVING", "ATTENTION", "FINE", "INITIATED"}
    BY <1>2, Zenon
  <2> QED BY <1>3, <2>1, ResponderSwitch, Zenon
<1> HIDE DEF sw
<1>5. CASE /\ sw.rsp = "CONCLUSION" /\ sw.hsrsp = FALSE /\ sw.ext = FALSE /\ sw.rdv = "ATTENTION"
           /\ z.rdv \in {"WAVING", "ATTENTION"} /\ z.res.flags = FALSE
           /\ z.res.type \in {"WAVEAHAND", "CONCLUSION"}
  <2>1. Bare(z.res)
    BY <1>5, Zenon DEF Bare
  <2>2. Answering(v, l) /\ v.side = "RESPONDER"
    <3> HIDE DEF v
    <3> QED BY <1>2, <1>5, Zenon
  <2>3. AnsweredOther(Joined(f), p, sw)
    BY <1>1, <1>5, Zenon
  <2> QED BY <1>2, <1>5, <2>1, <2>2, <2>3, ResponderWaits, Zenon DEF ResponderWent
<1>6. CASE /\ sw.rsp = "CONCLUSION" /\ sw.hsrsp = TRUE /\ sw.rdv \in {"FINE", "INITIATED"}
           /\ z.res.type = "CONCLUSION" /\ (z.rdv = "ATTENTION" => z.res.flags = TRUE)
  <2>1. ~fresh => z.rdv \in {"FINE", "INITIATED"} /\ z.res.km = (c.secret # "")
    <3>1. ~fresh => z.rdv # "WAVING" /\ z.rdv # "ATTENTION"
      BY <1>6, Zenon
    <3>2. z.rdv \in {"WAVING", "ATTENTION", "FINE", "INITIATED"}
      <4> HIDE DEF v
      <4> QED BY <1>2, Zenon
    <3>3. ~fresh => z.rdv \in {"FINE", "INITIATED"}
      BY <3>1, <3>2, Zenon
    <3> QED BY <3>3, Zenon
  <2>2. AnsweredHsreq(e, p, ext, fresh)
    BY <1>1, <1>6, Zenon
  <2> QED BY <1>6, <2>1, <2>2, ResponderOffers, Zenon DEF ResponderWent
<1>7. CASE /\ sw.rsp = "DONE" /\ sw.hsrsp = FALSE /\ sw.rdv = "CONNECTED"
           /\ z.res.type = "AGREEMENT" /\ z.rdv \in {"FINE", "INITIATED"}
  <2>1. Served(z.u, c, l, i) /\ Alike(z.u, v)
    <3> HIDE DEF v
    <3> QED BY <1>2, <1>7, Zenon
  <2>2. AnsweredOther(Joined(f), p, sw)
    BY <1>1, <1>7, Zenon
  <2> QED BY <1>2, <1>7, <2>1, <2>2, ResponderJoins, ZenonT(30) DEF ResponderWent
<1> QED BY <1>1, <1>4, <1>5, <1>6, <1>7, Zenon DEF ResponderSwitched

(************************* turns of the responder *************************)

(* A single datagram that a responder may send. *)
LEMMA OneAnswer ==
  ASSUME NEW type, NEW ext, NEW reason, NEW known, NEW s, NEW t, NEW c, NEW l, NEW i,
         ext # NoExt => type = "CONCLUSION" /\ Asked(s) /\ Offer(ext, t, c, l, i),
         type \in {"AGREEMENT", "KEEPALIVE"} => Been(t)
  PROVE  AnswersOk(<<Packet(type, ext, reason, known)>>, s, t, c, l, i)
<1> DEFINE m == Packet(type, ext, reason, known)
<1>1. IsPacket(m) /\ m.type = type /\ m.ext = ext
  BY PacketMade
<1> HIDE DEF m
<1>2. AnswerOk(m, s, t, c, l, i)
  BY <1>1, Zenon DEF AnswerOk
<1>3. IsSeq(<<m>>) /\ Elems(<<m>>) = {m}
  BY OneElem
<1>4. AnswersOk(<<m>>, s, t, c, l, i)
  BY <1>2, <1>3 DEF AnswersOk
<1> QED BY <1>4, Zenon DEF m

(* A connecting responder that goes on and keeps or renews its answer. *)
LEMMA ResponderGoesOn ==
  ASSUME NEW c, NEW l, NEW i, NEW s, NEW t, t.phase = "connecting",
         NEW t2, IsAgent(t2), Early(t2, l, Peer(i)) \/ Awaiting(t2, l) \/ Offering(t2, c, l, i),
         t2.phase = "connecting",
         Serving(t) => Serving(t2) /\ SameFilter(t.u.filter, t2.u.filter, l.filterDefaults),
         Serving(t2) => Asked(s)
  PROVE  ResponderStep(c, l, i, t, t2, s)
<1>1. Alive(t) /\ ~Been(t) /\ ~Been(t2)
  BY DEF Alive, Been
<1> QED BY <1>1, Zenon DEF ResponderStep, ResponderOk

(* A turn that sends an answer at once, or stores it. *)
LEMMA AnswerTurn ==
  ASSUME NEW c, NEW l, NEW i, NEW s, NEW t, t.phase = "connecting", AnswersOk(t.stored, s, t, c, l, i),
         NEW p, IsAgent(p.s), Awaiting(p.s, l) \/ Offering(p.s, c, l, i),
         p.s.phase = "connecting", p.s.stored = t.stored,
         Serving(t) => Serving(p.s) /\ SameFilter(t.u.filter, p.s.u.filter, l.filterDefaults),
         Serving(p.s) => Asked(s),
         NEW x, p.out = <<Message("CONCLUSION", x)>>,
         x # NoExt => Serving(p.s) /\ Negotiated(c, l, i, p.s.u, x)
  PROVE  /\ ResponderTurn(c, l, i, t, p.s, s, p.out)
         /\ ResponderTurn(c, l, i, t, [p.s EXCEPT !.stored = p.out], s, <<>>)
<1> DEFINE t2 == p.s
           t3 == [p.s EXCEPT !.stored = p.out]
<1>1. /\ IsAgent(t3) /\ t3.stored = p.out /\ t3.u = t2.u /\ t3.rdv = t2.rdv /\ t3.req = t2.req
      /\ t3.res = t2.res /\ t3.phase = t2.phase
  BY SMTT(20) DEF IsAgent, AgentFields
<1> HIDE DEF t3
<1>2. Serving(t3) = Serving(t2) /\ Awaiting(t3, l) = Awaiting(t2, l)
  BY <1>1 DEF Serving, Awaiting
<1>3. Offering(t2, c, l, i) => Offering(t3, c, l, i)
  BY <1>1, Zenon DEF Offering
<1>4. ResponderStep(c, l, i, t, t2, s)
  BY ResponderGoesOn, Zenon
<1>5. ResponderStep(c, l, i, t, t3, s)
  BY <1>1, <1>2, <1>3, ResponderGoesOn, Zenon
<1>6. AnswersOk(t.stored, s, t2, c, l, i)
  BY <1>4, OffersLater, Zenon
<1>7. AnswersOk(p.out, s, t2, c, l, i) /\ AnswersOk(p.out, s, t3, c, l, i)
  <2>1. "CONCLUSION" \notin {"AGREEMENT", "KEEPALIVE"}
    OBVIOUS
  <2>2. x # NoExt => Asked(s) /\ Offer(x, t2, c, l, i) /\ Offer(x, t3, c, l, i)
    BY <1>1, <1>2, Zenon DEF Offer, SameFilter
  <2> QED BY <2>1, <2>2, OneAnswer, ZenonT(30) DEF Message
<1>8. AnswersOk(<<>>, s, t3, c, l, i)
  BY OneHarmless, HarmlessOk, Zenon
<1> QED BY <1>1, <1>4, <1>5, <1>6, <1>7, <1>8, Zenon DEF ResponderTurn, t3

(* Waiting is a turn of the responder. *)
LEMMA AwaitsTurn ==
  ASSUME NEW c, NEW l, NEW i, NEW s, NEW t, t.phase = "connecting", AnswersOk(t.stored, s, t, c, l, i),
         NEW z, z.stored = t.stored, z.rdv = t.rdv, NEW p, AwaitsWith(z, p, l)
  PROVE  /\ ResponderTurn(c, l, i, t, p.s, s, p.out)
         /\ ResponderTurn(c, l, i, t, [p.s EXCEPT !.stored = p.out], s, <<>>)
<1>1. /\ IsAgent(p.s) /\ Awaiting(p.s, l) /\ p.s.phase = "connecting" /\ p.s.stored = t.stored
      /\ p.s.rdv = "ATTENTION" /\ t.rdv \in {"WAVING", "ATTENTION"}
      /\ p.out = <<Message("CONCLUSION", NoExt)>>
  BY DEF AwaitsWith, Awaiting, Same, AgentFields
<1>2. ~Serving(t) /\ ~Serving(p.s)
  BY <1>1 DEF Serving
<1> QED BY <1>1, <1>2, AnswerTurn, ZenonT(30)

(* Answering is a turn of the responder. *)
LEMMA OffersTurn ==
  ASSUME NEW c, NEW l, NEW i, NEW s, Asked(s), NEW t, t.phase = "connecting",
         AnswersOk(t.stored, s, t, c, l, i),
         NEW z, z.stored = t.stored, z.rdv = t.rdv, z.u.filter = t.u.filter, NEW p, OffersWith(z, p, c, l, i)
  PROVE  /\ ResponderTurn(c, l, i, t, p.s, s, p.out)
         /\ ResponderTurn(c, l, i, t, [p.s EXCEPT !.stored = p.out], s, <<>>)
<1>1. /\ IsAgent(p.s) /\ Offering(p.s, c, l, i) /\ p.s.phase = "connecting" /\ p.s.stored = t.stored
      /\ p.s.rdv \in {"FINE", "INITIATED"}
  BY Zenon DEF OffersWith, Offering, Same, AgentFields
<1>2. PICK x : p.out = <<Message("CONCLUSION", x)>> /\ Negotiated(c, l, i, p.s.u, x)
  BY Zenon DEF OffersWith
<1>3. Serving(p.s)
  BY <1>1 DEF Serving
<1>4. t.rdv \in {"FINE", "INITIATED"} => SameFilter(t.u.filter, p.s.u.filter, l.filterDefaults)
  BY Zenon DEF OffersWith
<1>5. Serving(t) => t.rdv \in {"FINE", "INITIATED"}
  BY DEF Serving
<1> QED BY <1>1, <1>2, <1>3, <1>4, <1>5, AnswerTurn, Zenon

(* A responder is connected once the initiator is. *)
LEMMA JoinsTurn ==
  ASSUME NEW c, NEW l, NEW i, NEW s, Been(s), NEW t, t.phase = "connecting",
         NEW t2, IsAgent(t2), t2.phase = "connected", Served(t2.u, c, l, i), t2.u.filter = t.u.filter
  PROVE  ResponderTurn(c, l, i, t, t2, s, <<>>)
<1>1. Alive(t) /\ Serving(t2) /\ Asked(s) /\ t2.phase # "connecting" /\ ~Been(t)
  BY DEF Alive, Serving, Been, Asked
<1>2. SameFilter(t.u.filter, t2.u.filter, l.filterDefaults)
  BY Zenon DEF SameFilter
<1>3. ResponderStep(c, l, i, t, t2, s)
  BY <1>1, <1>2, Zenon DEF ResponderStep, ResponderOk
<1>4. AnswersOk(<<>>, s, t2, c, l, i)
  BY OneHarmless, HarmlessOk, Zenon
<1> QED BY <1>1, <1>3, <1>4, Zenon DEF ResponderTurn

(* What the invariant says of a responder a. *)
LEMMA ResponderFacts ==
  ASSUME Inv, NEW a \in Agents, Role(env, a) = "RESPONDER"
  PROVE  /\ Peer(a) \in Agents /\ Peer(Peer(a)) = a
         /\ ConfigOk(env.cfg[a]) /\ ConfigOk(env.cfg[Peer(a)]) /\ env.cfg[a].rendezvous = TRUE
         /\ PairOk(env.cfg[Peer(a)], env.cfg[a], Peer(a), ag[Peer(a)], ag[a], net[Peer(a)], net[a])
         /\ ag[a].cookie = env.cookie[a] /\ ag[Peer(a)].cookie = env.cookie[Peer(a)]
<1>1. Peer(a) \in Agents /\ Peer(Peer(a)) = a /\ env \in Cases /\ Role(env, Peer(a)) = "INITIATOR"
  <2>1. env \in Cases
    BY DEF Inv
  <2>2. "RESPONDER" # "DRAW" /\ "RESPONDER" # "INITIATOR"
    OBVIOUS
  <2> QED BY <2>1, <2>2, Roles, Zenon
<1>2. PairOk(env.cfg[Peer(a)], env.cfg[Peer(Peer(a))], Peer(a), ag[Peer(a)], ag[Peer(Peer(a))],
             net[Peer(a)], net[Peer(Peer(a))])
  BY <1>1, Zenon DEF Inv
<1>3. PairOk(env.cfg[Peer(a)], env.cfg[a], Peer(a), ag[Peer(a)], ag[a], net[Peer(a)], net[a])
  BY <1>1, <1>2, Zenon
<1>4. /\ ag[a].cookie = env.cookie[a] /\ ag[Peer(a)].cookie = env.cookie[Peer(a)]
  BY <1>1, Zenon DEF Inv
<1> QED BY <1>1, <1>3, <1>4, CasesAssumption, Zenon

(* A turn of the responder is fit. *)
LEMMA ResponderFits ==
  ASSUME NEW a, Role(env, a) = "RESPONDER", NEW p, IsAgent(p.s), p.s.cookie = ag[a].cookie,
         ResponderTurn(env.cfg[Peer(a)], env.cfg[a], Peer(a), ag[a], p.s, ag[Peer(a)], p.out),
         p.cst = "CONTINUE" =>
           ResponderTurn(env.cfg[Peer(a)], env.cfg[a], Peer(a), ag[a], [p.s EXCEPT !.stored = p.out],
                         ag[Peer(a)], <<>>)
  PROVE  Fit(a, p)
<1> DEFINE s3 == [p.s EXCEPT !.stored = p.out]
<1>1. s3.cookie = p.s.cookie
  BY DEF IsAgent, AgentFields
<1>2. Role(env, a) # "DRAW" /\ Role(env, a) # "INITIATOR"
  OBVIOUS
<1> HIDE DEF s3
<1>3. Allowed(a, p.s, p.out)
  BY <1>2, Zenon DEF Allowed
<1>4. p.cst = "CONTINUE" => Allowed(a, s3, <<>>)
  BY <1>1, <1>2, Zenon DEF Allowed, s3
<1> QED BY <1>3, <1>4, Zenon DEF Fit, s3

(* What a connecting responder is. *)
LEMMA ConnectingResponder ==
  ASSUME Inv, NEW a \in Agents, Role(env, a) = "RESPONDER", ag[a].phase = "connecting"
  PROVE  /\ IsAgent(ag[a]) /\ ag[a].rdv \in {"WAVING", "ATTENTION", "FINE", "INITIATED"}
         /\ \/ Early(ag[a], env.cfg[a], a) /\ ag[a].rdv = "WAVING" /\ ag[a].req = "WAVEAHAND"
            \/ Awaiting(ag[a], env.cfg[a]) /\ ag[a].rdv = "ATTENTION"
            \/ /\ Offering(ag[a], env.cfg[Peer(a)], env.cfg[a], Peer(a))
               /\ ag[a].rdv \in {"FINE", "INITIATED"}
         /\ ~Been(ag[a])
         /\ Been(ag[Peer(a)]) => ag[a].rdv \in {"FINE", "INITIATED"}
         /\ ag[a].rdv \in {"FINE", "INITIATED"} => Asked(ag[Peer(a)])
         /\ AnswersOk(ag[a].stored, ag[Peer(a)], ag[a], env.cfg[Peer(a)], env.cfg[a], Peer(a))
<1> DEFINE b == Peer(a)  t == ag[a]  s == ag[b]  l == env.cfg[a]  c == env.cfg[b]
<1>1. /\ ResponderOk(t, c, l, b) /\ Progress(s, t) /\ Peer(b) = a
      /\ AnswersOk(t.stored, s, t, c, l, b)
  BY ResponderFacts, Zenon DEF PairOk
<1>2. t.phase = "connecting"
  OBVIOUS
<1> HIDE DEF b, s, t, c, l
<1>3. IsAgent(t) /\ (Early(t, l, a) \/ Awaiting(t, l) \/ Offering(t, c, l, b))
  BY <1>1, <1>2, SMTT(20) DEF ResponderOk, Dead
<1>4. Early(t, l, a) => t.rdv = "WAVING" /\ t.req = "WAVEAHAND"
  BY <1>2 DEF Early
<1>5. /\ Awaiting(t, l) => t.rdv = "ATTENTION"
      /\ Offering(t, c, l, b) => t.rdv \in {"FINE", "INITIATED"}
  BY Zenon DEF Awaiting, Offering
<1>6. ~Been(t) /\ Alive(t) /\ (Serving(t) <=> t.rdv \in {"FINE", "INITIATED"})
  BY <1>2, SMTT(20) DEF Been, Alive, Serving
<1>7. /\ Been(s) => t.rdv \in {"FINE", "INITIATED"}
      /\ t.rdv \in {"FINE", "INITIATED"} => Asked(s)
  BY <1>1, <1>6, SMTT(20) DEF Progress
<1>8. t.rdv \in {"WAVING", "ATTENTION", "FINE", "INITIATED"}
  BY <1>3, <1>4, <1>5, SMTT(20)
<1> QED BY <1>1, <1>3, <1>4, <1>5, <1>6, <1>7, <1>8, Zenon DEF b, s, t, c, l

(* A responder that goes on after processRendezvous is fit. *)
LEMMA ResponderGoes ==
  ASSUME Inv, NEW a \in Agents, Role(env, a) = "RESPONDER", ag[a].phase = "connecting",
         NEW z, z.stored = ag[a].stored, z.cookie = ag[a].cookie, z.rdv = ag[a].rdv,
         z.u.filter = ag[a].u.filter, NEW p,
         \/ AwaitsWith(z, p, env.cfg[a])
         \/ OffersWith(z, p, env.cfg[Peer(a)], env.cfg[a], Peer(a)) /\ Asked(ag[Peer(a)])
         \/ JoinsWith(z, p, env.cfg[Peer(a)], env.cfg[a], Peer(a)) /\ Been(ag[Peer(a)])
  PROVE  Fit(a, p)
<1> DEFINE b == Peer(a)  t == ag[a]  s == ag[b]  l == env.cfg[a]  c == env.cfg[b]
<1>1. AnswersOk(t.stored, s, t, c, l, b)
  BY ConnectingResponder, Zenon
<1>2. CASE AwaitsWith(z, p, l)
  <2>1. /\ ResponderTurn(c, l, b, t, p.s, s, p.out)
        /\ ResponderTurn(c, l, b, t, [p.s EXCEPT !.stored = p.out], s, <<>>)
    BY <1>1, <1>2, AwaitsTurn, ZenonT(30)
  <2>2. IsAgent(p.s) /\ p.s.cookie = t.cookie
    BY <1>2, SMTT(20) DEF AwaitsWith, Same, AgentFields
  <2> QED BY <2>1, <2>2, ResponderFits, Zenon
<1>3. CASE OffersWith(z, p, c, l, b) /\ Asked(s)
  <2>1. /\ ResponderTurn(c, l, b, t, p.s, s, p.out)
        /\ ResponderTurn(c, l, b, t, [p.s EXCEPT !.stored = p.out], s, <<>>)
    BY <1>1, <1>3, OffersTurn, ZenonT(30)
  <2>2. IsAgent(p.s) /\ p.s.cookie = t.cookie
    BY <1>3 DEF OffersWith, Same, AgentFields
  <2> QED BY <2>1, <2>2, ResponderFits, Zenon
<1>4. CASE JoinsWith(z, p, c, l, b) /\ Been(s)
  <2>1. /\ IsAgent(p.s) /\ p.s.cookie = t.cookie /\ p.s.phase = "connected" /\ Served(p.s.u, c, l, b)
        /\ p.out = <<>> /\ p.s.u.filter = t.u.filter
    BY <1>4, Zenon DEF JoinsWith
  <2>2. ResponderTurn(c, l, b, t, p.s, s, <<>>)
    BY <1>4, <2>1, JoinsTurn, ZenonT(30)
  <2>3. p.cst # "CONTINUE"
    BY <1>4 DEF JoinsWith
  <2> QED BY <2>1, <2>2, <2>3, ResponderFits, Zenon
<1> QED BY <1>2, <1>3, <1>4, SMTT(20)

=============================================================================
