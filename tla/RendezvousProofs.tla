-------------------------- MODULE RendezvousProofs --------------------------
(* The rendezvous connection, second part: the packets and periodic calls   *)
(* of the responder, agents without a role, connected agents, the steps of  *)
(* the network, and the theorem.  For every pair of sockets, cookies and    *)
(* bound on the network, whatever is lost, duplicated or reordered and      *)
(* whatever the worker's status is: two connected sockets agree on what     *)
(* they negotiated and are secured where one of them insists on it.         *)
EXTENDS RdvTurnProofs

(******************** the responder at packets and calls ******************)

(* A handshake makes a responder ready. *)
LEMMA ResponderLoads ==
  ASSUME Inv, NEW a \in Agents, Role(env, a) = "RESPONDER", ag[a].phase = "connecting", NEW m
  PROVE  LET z == cookieContest([ag[a] EXCEPT !.res = Loaded(a, m)])
         IN /\ ResponderReady(z, env.cfg[Peer(a)], env.cfg[a], Peer(a))
            /\ Same(ag[a], z, {"u", "res"}) /\ z.res = Loaded(a, m) /\ z.u.filter = ag[a].u.filter
<1> DEFINE b == Peer(a)  t == ag[a]  l == env.cfg[a]  c == env.cfg[b]
           t0 == [t EXCEPT !.res = Loaded(a, m)]
           z == cookieContest(t0)
           Ready == LET v == Told(z.u, z.res.id)
                    IN \/ t.rdv \in {"WAVING", "ATTENTION"} /\ Answering(v, l) /\ v.side = "RESPONDER"
                       \/ t.rdv \in {"FINE", "INITIATED"} /\ Served(z.u, c, l, b) /\ Alike(z.u, v)
<1>1. /\ IsAgent(t)
      /\ \/ Early(t, l, a) /\ t.rdv = "WAVING"
         \/ Awaiting(t, l) /\ t.rdv = "ATTENTION"
         \/ Offering(t, c, l, b) /\ t.rdv \in {"FINE", "INITIATED"}
  BY ConnectingResponder, Zenon
<1>2. Same(t, t0, {"res"}) /\ t0.res = Loaded(a, m)
  BY <1>1 DEF Same, IsAgent, AgentFields
<1>3. t.cookie = env.cookie[a] /\ Loaded(a, m).cookie = env.cookie[b]
  BY ResponderFacts, LoadedAs, Zenon
<1> HIDE DEF t0, l, c
<1>4. t0.u = t.u /\ t0.cookie = t.cookie /\ IsAgent(t0) /\ t0.rdv = t.rdv /\ t0.phase = t.phase
  BY <1>2 DEF Same, AgentFields
<1>5. Same(t0, z, {"u"}) /\ z.u.side = "RESPONDER" /\ z.u.filter = t.u.filter /\ Ready
  <2>1. CASE Early(t, l, a) /\ t.rdv = "WAVING"
    <3>1. Untouched(t0.u, l, a)
      BY <1>4, <2>1, Zenon DEF Early
    <3>2. Same(t0, z, {"u"}) /\ Chosen(z.u, l, a, "RESPONDER")
      BY <1>2, <1>3, <1>4, <3>1, FirstContest, Zenon
    <3>3. Answering(Told(z.u, z.res.id), l) /\ Told(z.u, z.res.id).side = "RESPONDER"
      <4> DEFINE w == Told(z.u, z.res.id)
      <4>1. Answering(w, l)
        BY <3>2, FirstTold, Zenon
      <4>2. w.side = "RESPONDER"
        <5> HIDE DEF z
        <5> QED BY <3>2, FirstTold
      <4> QED BY <4>1, <4>2, Zenon
    <3>4. z.u.side = "RESPONDER" /\ z.u.filter = t.u.filter
      BY <1>4, <3>1, <3>2, Zenon DEF Chosen, Untouched
    <3>5. t.rdv \in {"WAVING", "ATTENTION"}
      BY <2>1
    <3> QED BY <3>2, <3>3, <3>4, <3>5, Zenon
  <2>2. CASE Awaiting(t, l) /\ t.rdv = "ATTENTION"
    <3>1. Answering(t0.u, l) /\ t0.u.side = "RESPONDER"
      BY <1>4, <2>2, Zenon DEF Awaiting
    <3>2. IsSocket(t0.u) /\ t0.u.crypto = TRUE /\ t0.u.fail = FALSE
      BY <3>1, Zenon DEF Answering, NoKeysYet
    <3>3. t0.u.side # "DRAW"
      BY <3>1
    <3>4. z = t0
      BY <3>3, NoContest, Zenon
    <3> DEFINE v == Told(z.u, z.res.id)
    <3>5. Kept(z.u, v, {"peerId"})
      BY <3>2, <3>4, ToldAgain, Zenon
    <3> HIDE DEF z, v
    <3>6. Kept(z.u, v, {"peerId", "fail"}) /\ v.fail = FALSE
      BY <3>2, <3>4, <3>5 DEF Kept, Fields
    <3>7. Answering(v, l) /\ v.side = "RESPONDER"
      BY <3>1, <3>4, <3>6, StillAnswering, Zenon
    <3>8. t.rdv \in {"WAVING", "ATTENTION"}
      BY <2>2
    <3>9. Ready
      BY <3>7, <3>8, Zenon DEF v
    <3>10. Same(t0, z, {"u"})
      BY <1>4, <3>4 DEF Same
    <3> QED BY <1>4, <3>1, <3>4, <3>9, <3>10, Zenon
  <2>3. CASE Offering(t, c, l, b) /\ t.rdv \in {"FINE", "INITIATED"}
    <3>1. Served(t0.u, c, l, b)
      BY <1>4, <2>3, Zenon DEF Offering
    <3>2. IsSocket(t0.u) /\ t0.u.crypto = TRUE /\ t0.u.side = "RESPONDER"
      BY <3>1, Zenon DEF Served, Negotiated
    <3>3. t0.u.side # "DRAW"
      BY <3>2, SMTT(20)
    <3>4. z = t0
      BY <3>3, NoContest, Zenon
    <3> DEFINE v == Told(z.u, z.res.id)
    <3>5. Kept(z.u, v, {"peerId"})
      BY <3>2, <3>4, ToldAgain, Zenon
    <3> HIDE DEF z, v
    <3>6. Alike(z.u, v)
      BY <3>5 DEF Kept, Alike
    <3>7. Ready
      BY <2>3, <3>1, <3>4, <3>6, Zenon DEF v
    <3>8. Same(t0, z, {"u"})
      BY <1>4, <3>4 DEF Same
    <3> QED BY <1>4, <3>2, <3>4, <3>7, <3>8, Zenon
  <2> QED BY <1>1, <2>1, <2>2, <2>3
<1> HIDE DEF z
<1>6. /\ IsAgent(z) /\ z.phase = "connecting" /\ z.rdv = t.rdv /\ Same(t, z, {"u", "res"})
      /\ z.res = Loaded(a, m)
  <2> HIDE DEF Ready
  <2> QED BY <1>2, <1>4, <1>5 DEF Same, AgentFields
<1>7. ResponderReady(z, c, l, b)
  BY <1>5, <1>6, Zenon DEF ResponderReady
<1> QED BY <1>5, <1>6, <1>7, Zenon DEF z, t0, c, l

(* The key message that a request has. *)
LEMMA RequestKm ==
  ASSUME NEW c, ConfigOk(c), NEW i
  PROVE  RequestOf(c, i) # NoExt => (RequestOf(c, i).km # NoKm) = (c.secret # "")
<1>1. RequestOf(c, i).km = KmOf(c, i)
  <2> DEFINE km == KmOf(c, i)
  <2>1. \E h, x, g : RequestOf(c, i) = [cmd |-> "HSREQ", hs |-> h, km |-> km, filter |-> x, congctl |-> g]
    BY Zenon DEF RequestOf
  <2> HIDE DEF km
  <2> QED BY <2>1 DEF km
<1>2. c.secret # "" => KmOf(c, i) # NoKm
  BY KeyMessage, Zenon
<1>3. c.secret = "" => KmOf(c, i) = NoKm
  BY Zenon DEF KmOf
<1> QED BY <1>1, <1>2, <1>3, Zenon

(* A responder may look at any request on its way. *)
LEMMA ResponderFresh ==
  ASSUME Inv, NEW a \in Agents, Role(env, a) = "RESPONDER", ag[a].phase = "connecting",
         NEW m, RequestOk(m, ag[Peer(a)], env.cfg[Peer(a)], Peer(a)),
         NEW p, FreshTurn(a, m, p)
  PROVE  Fit(a, p)
<1> DEFINE b == Peer(a)  t == ag[a]  s == ag[b]  l == env.cfg[a]  c == env.cfg[b]
           z == cookieContest([t EXCEPT !.res = Loaded(a, m)])
<1>1. /\ IsAgent(t) /\ (Been(s) => t.rdv \in {"FINE", "INITIATED"})
      /\ \/ Early(t, l, a) /\ t.rdv = "WAVING" /\ t.req = "WAVEAHAND"
         \/ Awaiting(t, l) /\ t.rdv = "ATTENTION"
         \/ Offering(t, c, l, b) /\ t.rdv \in {"FINE", "INITIATED"}
  BY ConnectingResponder, Zenon
<1>2. /\ m.ext # NoExt => m.type = "CONCLUSION" /\ m.ext = RequestOf(c, b) /\ Asked(s)
      /\ m.type \in {"AGREEMENT", "KEEPALIVE"} => Been(s)
  BY Zenon DEF RequestOk
<1>3. CASE Ended(t, p)
  BY <1>3, EndFits, Zenon
<1>4. CASE /\ m.type = "KEEPALIVE" /\ p.s = postConnect(t) /\ p.cst = "ACCEPT" /\ p.out = <<>>
  <2>1. Been(s)
    BY <1>2, <1>4
  <2>2. Offering(t, c, l, b)
    <3> HIDE DEF t, s, l, c, b
    <3> QED BY <1>1, <2>1
  <2>3. Served(t.u, c, l, b)
    BY <2>2, Zenon DEF Offering
  <2> DEFINE d == [t.u EXCEPT !.connected = TRUE]
  <2>4. Same(t, p.s, {"u", "phase", "rdv"}) /\ p.s.phase = "connected" /\ p.s.u = d
    BY <1>1, <1>4, PostConnected, ZenonT(30)
  <2>5. Alike(t.u, d)
    <3>1. IsSocket(t.u)
      BY <2>3, Zenon DEF Served, Negotiated
    <3> QED BY <3>1, Zenon DEF Alike, Kept, IsSocket, Fields
  <2> HIDE DEF d
  <2>6. Served(p.s.u, c, l, b) /\ p.s.u.filter = t.u.filter
    <3>1. Served(d, c, l, b)
      BY <2>3, <2>5, StillServed, Zenon
    <3>2. d.filter = t.u.filter
      BY <2>5 DEF Alike, Kept, Fields
    <3> QED BY <2>4, <3>1, <3>2, Zenon
  <2>7. IsAgent(p.s) /\ p.s.cookie = t.cookie
    BY <2>4 DEF Same, AgentFields
  <2>8. JoinsWith(t, p, c, l, b)
    BY <1>4, <2>4, <2>6, <2>7, Zenon DEF JoinsWith
  <2> QED BY <2>1, <2>8, ResponderGoes, Zenon
<1>5. CASE p.cst # "REJECT" /\ Turned(z, m.ext, TRUE, p)
  <2>1. ResponderReady(z, c, l, b) /\ Same(t, z, {"u", "res"}) /\ z.res = Loaded(a, m) /\ z.u.filter = t.u.filter
    BY ResponderLoads, Zenon
  <2>2. ConfigOk(c) /\ ConfigOk(l) /\ l.rendezvous = TRUE
    BY ResponderFacts, Zenon
  <2> HIDE DEF z
  <2>3. z.res.type = m.type /\ z.res.flags = (m.ext # NoExt) /\ z.res.km = (m.ext # NoExt /\ m.ext.km # NoKm)
    <3>1. z.res = Loaded(a, m)
      BY <2>1
    <3> QED BY <3>1 DEF Loaded
  <2>4. z.stored = t.stored /\ z.cookie = t.cookie /\ z.rdv = t.rdv
    BY <2>1 DEF Same, AgentFields
  <2>5. m.ext # NoExt => m.ext = RequestOf(c, b) /\ z.res.km = (c.secret # "")
    <3> SUFFICES ASSUME m.ext # NoExt PROVE m.ext = RequestOf(c, b) /\ z.res.km = (c.secret # "")
      BY Zenon
    <3>1. m.ext = RequestOf(c, b)
      BY <1>2, Zenon
    <3>2. (RequestOf(c, b).km # NoKm) = (c.secret # "")
      BY <2>2, <3>1, RequestKm, Zenon
    <3>3. (m.ext.km # NoKm) = (c.secret # "")
      BY <3>1, <3>2, Zenon
    <3>4. z.res.km = (m.ext.km # NoKm)
      BY <2>3
    <3> QED BY <3>1, <3>3, <3>4, Zenon
  <2>6. z.res.flags \in BOOLEAN /\ (z.res.flags => z.res.type = "CONCLUSION")
    BY <1>2, <2>3, Zenon
  <2>7. z.res.type = "AGREEMENT" => z.rdv \in {"FINE", "INITIATED"}
    BY <1>1, <1>2, <2>3, <2>4
  <2>8. \/ AwaitsWith(z, p, l)
        \/ OffersWith(z, p, c, l, b) /\ (TRUE => m.ext # NoExt)
        \/ JoinsWith(z, p, c, l, b) /\ z.res.type = "AGREEMENT"
    <3> DEFINE fresh == TRUE
    <3>1. fresh \in BOOLEAN /\ fresh /\ Turned(z, m.ext, fresh, p)
      BY <1>5, Zenon
    <3> HIDE DEF fresh
    <3>2. ResponderWent(z, m.ext, fresh, p, c, l, b)
      BY <1>5, <2>1, <2>2, <2>5, <2>6, <2>7, <3>1, ResponderTurned, Zenon
    <3> QED BY <3>1, <3>2, Zenon DEF ResponderWent
  <2>9. z.res.type = "AGREEMENT" => Been(s)
    BY <1>2, <2>3
  <2> QED BY <1>2, <2>1, <2>4, <2>8, <2>9, ResponderGoes, Zenon
<1> QED BY <1>3, <1>4, <1>5, Zenon DEF FreshTurn

(* A responder cannot make a request (createSrtHandshake). *)
LEMMA NoRequest ==
  ASSUME NEW u, IsSocket(u), u.side = "RESPONDER"
  PROVE  createSrtHandshake(u, "HSREQ", NoKm).u.fail = TRUE
<1> DEFINE u0 == [u EXCEPT !.fail = FALSE]
           v == Reject(u0, "IPE")
<1>1. IsSocket(u0) /\ u0.side = "RESPONDER"
  BY Zenon DEF IsSocket, Fields
<1>2. createSrtHandshake(u, "HSREQ", NoKm) = [u |-> v, ext |-> NoExt]
  BY <1>1, Zenon DEF createSrtHandshake
<1>3. v.fail = TRUE
  BY <1>1, RejectOnly, Zenon
<1> HIDE DEF v
<1> QED BY <1>2, <1>3

(* The periodic call of a responder. *)
LEMMA ResponderRepeats ==
  ASSUME NEW c, NEW l, NEW i, NEW s, NEW t, IsAgent(t), t.phase = "connecting",
         Early(t, l, Peer(i)) \/ Awaiting(t, l) \/ Offering(t, c, l, i),
         Serving(t) => Asked(s), AnswersOk(t.stored, s, t, c, l, i),
         NEW t2, Same(t, t2, {"u"}), Kept(t.u, t2.u, {"fail"}), t2.u.fail = FALSE,
         NEW known
  PROVE  ResponderTurn(c, l, i, t, t2, s, <<Packet(t.req, NoExt, "", known)>>)
<1>1. /\ IsAgent(t2) /\ t2.phase = "connecting" /\ t2.rdv = t.rdv /\ t2.req = t.req /\ t2.res = t.res
      /\ t2.stored = t.stored
  BY DEF Same, AgentFields
<1>2. t2.u.filter = t.u.filter
  BY DEF Kept, Fields
<1>3. Early(t2, l, Peer(i)) \/ Awaiting(t2, l) \/ Offering(t2, c, l, i)
  <2>1. CASE Early(t, l, Peer(i))
    BY <2>1, StillEarly, Zenon
  <2>2. CASE Awaiting(t, l)
    <3>1. Kept(t.u, t2.u, {"peerId", "fail"})
      BY DEF Kept
    <3>2. Answering(t2.u, l) /\ t2.u.side = "RESPONDER"
      BY <2>2, <3>1, StillAnswering, Zenon DEF Awaiting
    <3> QED BY <1>1, <2>2, <3>2, ZenonT(30) DEF Awaiting
  <2>3. CASE Offering(t, c, l, i)
    <3>1. Alike(t.u, t2.u)
      BY DEF Kept, Alike
    <3>2. Served(t2.u, c, l, i)
      BY <2>3, <3>1, StillServed, Zenon DEF Offering
    <3> QED BY <1>1, <2>3, <3>2, Zenon DEF Offering
  <2> QED BY <2>1, <2>2, <2>3
<1>4. t.req \in {"WAVEAHAND", "CONCLUSION"}
  BY Zenon DEF Early, Awaiting, Offering
<1>5. Serving(t2) = Serving(t)
  BY <1>1 DEF Serving
<1>6. SameFilter(t.u.filter, t2.u.filter, l.filterDefaults)
  BY <1>2, Zenon DEF SameFilter
<1>7. ResponderStep(c, l, i, t, t2, s)
  BY <1>1, <1>3, <1>5, <1>6, ResponderGoesOn, Zenon
<1>8. AnswersOk(t2.stored, s, t2, c, l, i)
  BY <1>1, <1>7, OffersLater, Zenon
<1>9. t.req \notin {"AGREEMENT", "KEEPALIVE"}
  BY <1>4
<1>10. AnswersOk(<<Packet(t.req, NoExt, "", known)>>, s, t2, c, l, i)
  BY <1>9, OneAnswer, Zenon
<1> QED BY <1>7, <1>8, <1>10, Zenon DEF ResponderTurn

(* The periodic call of a responder is allowed. *)
LEMMA ResponderPeriodic ==
  ASSUME Inv, NEW a \in Agents, Role(env, a) = "RESPONDER", ag[a].phase = "connecting",
         NEW p, PeriodicTurn(ag[a], p)
  PROVE  Allowed(a, p.s, p.out)
<1> DEFINE b == Peer(a)  t == ag[a]  s == ag[b]  l == env.cfg[a]  c == env.cfg[b]
           z == cookieContest(t)
           w == IF t.reqExt THEN createSrtHandshake(t.u, "HSREQ", NoKm)
                ELSE [u |-> [t.u EXCEPT !.fail = FALSE], ext |-> NoExt]
<1>1. /\ IsAgent(t) /\ t.phase = "connecting"
      /\ \/ Early(t, l, a) /\ t.rdv = "WAVING" /\ t.req = "WAVEAHAND"
         \/ Awaiting(t, l) /\ t.rdv = "ATTENTION"
         \/ Offering(t, c, l, b) /\ t.rdv \in {"FINE", "INITIATED"}
      /\ t.rdv \in {"FINE", "INITIATED"} => Asked(s)
      /\ AnswersOk(t.stored, s, t, c, l, b)
  BY ConnectingResponder, Zenon
<1>2. ConfigOk(c) /\ ConfigOk(l) /\ l.rendezvous = TRUE /\ Peer(b) = a
  BY ResponderFacts, Zenon
<1>3. CASE Ended(t, p)
  BY <1>3, EndAllowed, Zenon
<1>4. Awaiting(t, l) => /\ IsSocket(t.u) /\ t.u.crypto = TRUE /\ t.u.side = "RESPONDER" /\ t.u.fail = FALSE
                        /\ Answering(t.u, l)
  BY Zenon DEF Awaiting, Answering, NoKeysYet
<1>5. Offering(t, c, l, b) => /\ IsSocket(t.u) /\ t.u.crypto = TRUE /\ t.u.side = "RESPONDER"
                              /\ Served(t.u, c, l, b)
  BY Zenon DEF Offering, Served, Negotiated
<1>6. CASE p.cst # "REJECT" /\ Turned(z, NoExt, FALSE, p)
  <2> DEFINE v == Told(t.u, t.res.id)
             fresh == FALSE
             Fine == /\ ResponderReady(t, c, l, b) /\ t.res.flags \in BOOLEAN
                     /\ t.res.flags => t.res.type = "CONCLUSION"
                     /\ t.res.type # "AGREEMENT"
                     /\ t.rdv # "WAVING" /\ (t.rdv = "ATTENTION" => t.res.flags = FALSE)
                     /\ t.rdv \in {"FINE", "INITIATED"} => t.res.km = (c.secret # "")
  <2>0. fresh \in BOOLEAN /\ fresh = FALSE
    OBVIOUS
  <2>1. CASE Early(t, l, a)
    <3>1. t.u.side = "DRAW" /\ t.res = NoRes
      BY <2>1, Zenon DEF Early, Untouched
    <3>2. z = t
      BY <3>1, NoContest, Zenon
    <3>3. FALSE
      BY <1>6, <3>1, <3>2, Zenon DEF Turned
    <3> QED BY <3>3
  <2>2. CASE (Awaiting(t, l) /\ t.rdv = "ATTENTION") \/ (Offering(t, c, l, b) /\ t.rdv \in {"FINE", "INITIATED"})
    <3>1. IsSocket(t.u) /\ t.u.crypto = TRUE /\ t.u.side = "RESPONDER"
      BY <1>4, <1>5, <2>2, Zenon
    <3>2. z = t
      BY <3>1, NoContest
    <3>3. Kept(t.u, v, {"peerId"})
      BY <3>1, ToldAgain, Zenon
    <3> HIDE DEF z, v, fresh, Fine
    <3>4. Turned(t, NoExt, fresh, p)
      BY <1>6, <2>0, <3>2, Zenon
    <3>5. ASSUME Awaiting(t, l) /\ t.rdv = "ATTENTION" PROVE Fine
      <4>1. Kept(t.u, v, {"peerId", "fail"}) /\ v.fail = FALSE
        BY <1>4, <3>3, <3>5, SMTT(20) DEF Kept, Fields
      <4>2. Answering(v, l) /\ v.side = "RESPONDER"
        BY <1>4, <3>5, <4>1, StillAnswering, Zenon
      <4>3. t.rdv \in {"WAVING", "ATTENTION"} /\ t.rdv \notin {"FINE", "INITIATED"} /\ t.rdv # "WAVING"
        BY <3>5
      <4>4. ResponderReady(t, c, l, b)
        BY <1>1, <3>1, <4>2, <4>3, Zenon DEF ResponderReady, v
      <4>5. t.res.flags = FALSE /\ t.res.flags \in BOOLEAN /\ t.res.type # "AGREEMENT"
        BY <3>5, Zenon DEF Awaiting, Bare
      <4> QED BY <4>3, <4>4, <4>5, Zenon DEF Fine
    <3>6. ASSUME Offering(t, c, l, b) /\ t.rdv \in {"FINE", "INITIATED"} PROVE Fine
      <4>1. Alike(t.u, v)
        BY <3>3 DEF Kept, Alike
      <4>2. ResponderReady(t, c, l, b)
        BY <1>1, <1>5, <3>6, <4>1, Zenon DEF ResponderReady, v
      <4>3. t.res.type = "CONCLUSION" /\ t.res.flags \in BOOLEAN /\ t.res.km = (c.secret # "")
        BY <3>6, Zenon DEF Offering
      <4>4. t.res.type # "AGREEMENT" /\ t.rdv # "WAVING" /\ t.rdv # "ATTENTION"
        BY <3>6, <4>3, Zenon
      <4> QED BY <4>2, <4>3, <4>4, Zenon DEF Fine
    <3>7. Fine
      BY <2>2, <3>5, <3>6, SMTT(20)
    <3>8. ResponderWent(t, NoExt, fresh, p, c, l, b)
      BY <1>2, <1>6, <2>0, <3>4, <3>7, ResponderTurned, Zenon DEF Fine
    <3>9. \/ AwaitsWith(t, p, l)
          \/ OffersWith(t, p, c, l, b) /\ Asked(s)
      BY <1>1, <2>0, <3>7, <3>8, Zenon DEF Fine, ResponderWent
    <3>10. Fit(a, p)
      BY <3>9, ResponderGoes, Zenon
    <3> QED BY <3>10, Zenon DEF Fit
  <2> QED BY <1>1, <2>1, <2>2, SMTT(20)
<1>7. CASE /\ w.u.fail # TRUE /\ p.s = [t EXCEPT !.u = w.u]
           /\ \E known : p.out = <<Packet(t.req, w.ext, "", known)>>
  <2>1. PICK known : p.out = <<Packet(t.req, w.ext, "", known)>>
    BY <1>7, Zenon
  <2>2. IsSocket(t.u)
    BY <1>1, <1>4, <1>5, Zenon DEF Early, Untouched
  <2>3. t.reqExt # TRUE
    <3> SUFFICES ASSUME t.reqExt = TRUE PROVE FALSE
      BY Zenon
    <3>1. w = createSrtHandshake(t.u, "HSREQ", NoKm)
      BY Zenon
    <3>2. CASE Early(t, l, a)
      BY <3>2, Zenon DEF Early
    <3>3. CASE t.u.side = "RESPONDER"
      BY <1>7, <2>2, <3>1, <3>3, NoRequest, Zenon
    <3> QED BY <1>1, <1>4, <1>5, <3>2, <3>3, Zenon
  <2> DEFINE v == [t.u EXCEPT !.fail = FALSE]
  <2>4. w = [u |-> v, ext |-> NoExt]
    BY <2>3, Zenon
  <2> HIDE DEF w, v
  <2>5. w.u = v /\ w.ext = NoExt
    BY <2>4
  <2>6. p.s = [t EXCEPT !.u = [t.u EXCEPT !.fail = FALSE]]
    BY <1>7, <2>5, Zenon DEF v
  <2>7. Same(t, p.s, {"u"}) /\ Kept(t.u, p.s.u, {"fail"}) /\ p.s.u.fail = FALSE
    BY <1>1, <2>2, <2>6, ClearedAgent, Zenon
  <2>8. Serving(t) => Asked(s)
    <3>1. Serving(t) => t.rdv \in {"FINE", "INITIATED"}
      BY <1>1 DEF Serving
    <3> QED BY <1>1, <3>1, Zenon
  <2>9. ResponderTurn(c, l, b, t, p.s, s, <<Packet(t.req, NoExt, "", known)>>)
    <3>1. Early(t, l, Peer(b)) \/ Awaiting(t, l) \/ Offering(t, c, l, b)
      BY <1>1, <1>2, Zenon
    <3> QED BY <1>1, <2>7, <2>8, <3>1, ResponderRepeats, Zenon
  <2>10. p.s.cookie = t.cookie
    BY <2>7 DEF Same, AgentFields
  <2>11. Role(env, a) # "DRAW" /\ Role(env, a) # "INITIATOR"
    OBVIOUS
  <2> QED BY <2>1, <2>5, <2>9, <2>10, <2>11, Zenon DEF Allowed
<1> QED BY <1>3, <1>6, <1>7, Zenon DEF PeriodicTurn

(*************************** agents without a role ************************)

(* What a connecting agent without a role is. *)
LEMMA ConnectingDraw ==
  ASSUME Inv, NEW a \in Agents, Role(env, a) = "DRAW", ag[a].phase = "connecting"
  PROVE  /\ IsAgent(ag[a]) /\ Early(ag[a], env.cfg[a], a) /\ ag[a].rdv = "WAVING"
         /\ ag[a].u.side = "DRAW" /\ ag[a].res = NoRes /\ ag[a].reqExt = FALSE /\ IsSocket(ag[a].u)
         /\ ag[a].cookie = env.cookie[a] /\ ag[Peer(a)].cookie = env.cookie[Peer(a)]
<1>1. DrawOk(ag[a], env.cfg[a], a)
  BY DEF Inv
<1>2. IsAgent(ag[a]) /\ Early(ag[a], env.cfg[a], a)
  BY <1>1 DEF DrawOk
<1>3. /\ ag[a].rdv = "WAVING" /\ ag[a].u.side = "DRAW" /\ ag[a].res = NoRes /\ ag[a].reqExt = FALSE
      /\ IsSocket(ag[a].u)
  BY <1>2 DEF Early, Untouched
<1>4. ag[a].cookie = env.cookie[a] /\ ag[Peer(a)].cookie = env.cookie[Peer(a)]
  <2>1. Peer(a) \in Agents
    BY DEF Agents, Peer
  <2> QED BY <2>1 DEF Inv
<1> QED BY <1>2, <1>3, <1>4, SMTT(20)

(* Whatever an agent without a role gets, it gives up. *)
LEMMA DrawFresh ==
  ASSUME Inv, NEW a \in Agents, Role(env, a) = "DRAW", ag[a].phase = "connecting",
         NEW m, NEW p, FreshTurn(a, m, p)
  PROVE  Fit(a, p)
<1> DEFINE s == ag[a]  c == env.cfg[a]
           s0 == [s EXCEPT !.res = Loaded(a, m)]
           z == cookieContest(s0)
<1>1. /\ IsAgent(s) /\ Early(s, c, a) /\ s.res = NoRes
      /\ s.cookie = env.cookie[a] /\ ag[Peer(a)].cookie = env.cookie[Peer(a)]
  BY ConnectingDraw, Zenon
<1>2. CASE Ended(s, p)
  BY <1>2, EndFits, Zenon
<1>3. CASE p.cst # "REJECT" /\ Turned(z, m.ext, TRUE, p)
  <2>1. Same(s, s0, {"res"}) /\ s0.res = Loaded(a, m)
    BY <1>1 DEF Same, IsAgent, AgentFields
  <2> HIDE DEF s0
  <2>2. s0.u = s.u /\ s0.cookie = s.cookie /\ IsAgent(s0)
    BY <2>1 DEF Same, AgentFields
  <2>3. s0.res.cookie = env.cookie[Peer(a)]
    BY <1>1, <2>1, LoadedAs, Zenon
  <2>4. Untouched(s0.u, c, a)
    BY <1>1, <2>2, Zenon DEF Early
  <2>5. Chosen(z.u, c, a, "DRAW")
    BY <1>1, <2>2, <2>3, <2>4, FirstContest, Zenon
  <2>6. z.u.side = "DRAW"
    BY <2>5, Zenon DEF Chosen
  <2>7. FALSE
    BY <1>3, <2>6, Zenon DEF Turned
  <2> QED BY <2>7
<1> QED BY <1>1, <1>2, <1>3, Zenon DEF FreshTurn

(* It may wave again. *)
LEMMA DrawPeriodic ==
  ASSUME Inv, NEW a \in Agents, Role(env, a) = "DRAW", ag[a].phase = "connecting",
         NEW p, PeriodicTurn(ag[a], p)
  PROVE  Allowed(a, p.s, p.out)
<1> DEFINE s == ag[a]  c == env.cfg[a]
           z == cookieContest(s)
           w == IF s.reqExt THEN createSrtHandshake(s.u, "HSREQ", NoKm)
                ELSE [u |-> [s.u EXCEPT !.fail = FALSE], ext |-> NoExt]
<1>1. /\ IsAgent(s) /\ Early(s, c, a) /\ s.res = NoRes /\ s.u.side = "DRAW" /\ s.reqExt = FALSE
      /\ IsSocket(s.u)
  BY ConnectingDraw, Zenon
<1>2. CASE Ended(s, p)
  BY <1>2, EndAllowed, Zenon
<1>3. CASE p.cst # "REJECT" /\ Turned(z, NoExt, FALSE, p)
  <2>1. z = s
    BY <1>1, NoContest, Zenon
  <2>2. FALSE
    BY <1>1, <1>3, <2>1, Zenon DEF Turned
  <2> QED BY <2>2
<1>4. CASE /\ w.u.fail # TRUE /\ p.s = [s EXCEPT !.u = w.u]
           /\ \E known : p.out = <<Packet(s.req, w.ext, "", known)>>
  <2> DEFINE v == [s.u EXCEPT !.fail = FALSE]
  <2>1. w = [u |-> v, ext |-> NoExt]
    BY <1>1, Zenon
  <2> HIDE DEF w, v
  <2>2. w.u = v
    BY <2>1
  <2>3. p.s = [s EXCEPT !.u = [s.u EXCEPT !.fail = FALSE]]
    BY <1>4, <2>2, Zenon DEF v
  <2>4. Same(s, p.s, {"u"}) /\ Kept(s.u, p.s.u, {"fail"}) /\ p.s.u.fail = FALSE
    BY <1>1, <2>3, ClearedAgent, Zenon
  <2>5. Early(p.s, c, a)
    BY <1>1, <2>4, StillEarly, ZenonT(30)
  <2>6. IsAgent(p.s) /\ p.s.cookie = s.cookie
    BY <2>4 DEF Same, AgentFields
  <2>7. Role(env, a) # "INITIATOR" /\ Role(env, a) # "RESPONDER"
    OBVIOUS
  <2> QED BY <2>5, <2>6, <2>7, Zenon DEF Allowed, DrawOk
<1> QED BY <1>2, <1>3, <1>4, Zenon DEF PeriodicTurn

(************************ packets and the worker's calls ******************)

(* Every agent has one of three roles. *)
LEMMA OneRole ==
  ASSUME Inv, NEW a \in Agents
  PROVE  Role(env, a) \in {"DRAW", "INITIATOR", "RESPONDER"} /\ Peer(a) \in Agents
<1>1. env \in Cases
  BY DEF Inv
<1> QED BY <1>1, Roles, SMTT(20)

(* What is on its way to an agent with a role. *)
LEMMA OnItsWay ==
  ASSUME Inv, NEW a \in Agents, NEW m \in Elems(net[a])
  PROVE  /\ Role(env, a) = "INITIATOR" =>
              AnswerOk(m, ag[a], ag[Peer(a)], env.cfg[a], env.cfg[Peer(a)], a)
         /\ Role(env, a) = "RESPONDER" => RequestOk(m, ag[Peer(a)], env.cfg[Peer(a)], Peer(a))
<1>1. ASSUME Role(env, a) = "INITIATOR"
      PROVE  AnswerOk(m, ag[a], ag[Peer(a)], env.cfg[a], env.cfg[Peer(a)], a)
  BY <1>1, InitiatorFacts, Zenon DEF PairOk, AnswersOk
<1>2. ASSUME Role(env, a) = "RESPONDER"
      PROVE  RequestOk(m, ag[Peer(a)], env.cfg[Peer(a)], Peer(a))
  BY <1>2, ResponderFacts, Zenon DEF PairOk, RequestsOk
<1> QED BY <1>1, <1>2, SMTT(20)

(* A connecting agent is one, and not yet through. *)
LEMMA ConnectingAgent ==
  ASSUME Inv, NEW a \in Agents, ag[a].phase = "connecting"
  PROVE  IsAgent(ag[a]) /\ ag[a].rdv # "CONNECTED"
<1>1. CASE Role(env, a) = "DRAW"
  BY <1>1, ConnectingDraw, ZenonT(30)
<1>2. CASE Role(env, a) = "INITIATOR"
  BY <1>2, ConnectingInitiator, SMTT(20)
<1>3. CASE Role(env, a) = "RESPONDER"
  BY <1>3, ConnectingResponder, SMTT(20)
<1> QED BY <1>1, <1>2, <1>3, OneRole, SMTT(20)

(* Looking at a packet is fit for every connecting agent. *)
LEMMA PacketFits ==
  ASSUME Inv, NEW a \in Agents, ag[a].phase = "connecting",
         NEW m, Role(env, a) # "DRAW" => m \in Elems(net[a])
  PROVE  Fit(a, HandleFresh(processConnectResponse(a, m), m))
<1> DEFINE p == HandleFresh(processConnectResponse(a, m), m)
<1>1. FreshTurn(a, m, p)
  BY ConnectingAgent, FreshTurns, Zenon
<1> HIDE DEF p
<1>2. CASE Role(env, a) = "DRAW"
  BY <1>1, <1>2, DrawFresh, Zenon DEF p
<1>3. CASE Role(env, a) = "INITIATOR"
  <2>1. m \in Elems(net[a])
    BY <1>3
  <2> QED BY <1>1, <1>3, <2>1, OnItsWay, InitiatorFresh, Zenon DEF p
<1>4. CASE Role(env, a) = "RESPONDER"
  <2>1. m \in Elems(net[a])
    BY <1>4
  <2> QED BY <1>1, <1>4, <2>1, OnItsWay, ResponderFresh, Zenon DEF p
<1> QED BY <1>2, <1>3, <1>4, OneRole, SMTT(20)

(* The periodic call is allowed to every connecting agent. *)
LEMMA TickAllowed ==
  ASSUME Inv, NEW a \in Agents, ag[a].phase = "connecting", NEW status
  PROVE  LET p == processAsyncConnectRequest(ag[a], status) IN Allowed(a, p.s, p.out)
<1> DEFINE p == processAsyncConnectRequest(ag[a], status)
<1>1. PeriodicTurn(ag[a], p)
  BY ConnectingAgent, PeriodicTurns, Zenon
<1> HIDE DEF p
<1>2. CASE Role(env, a) = "DRAW"
  BY <1>1, <1>2, DrawPeriodic, Zenon DEF p
<1>3. CASE Role(env, a) = "INITIATOR"
  BY <1>1, <1>3, InitiatorPeriodic, Zenon DEF p
<1>4. CASE Role(env, a) = "RESPONDER"
  BY <1>1, <1>4, ResponderPeriodic, Zenon DEF p
<1> QED BY <1>2, <1>3, <1>4, OneRole, SMTT(20)

(**************************** connected agents ****************************)

(* How a packet m leaves the connected agent s. *)
CtrlTurned(s, m, p) ==
  \/ p.s = s /\ p.out = <<>>
  \/ p.s = s /\ p.out = <<Message("AGREEMENT", NoExt)>>
  \/ IsAgent(p.s) /\ p.s.phase = "broken" /\ p.s.cookie = s.cookie /\ Harmless(p.out)
  \/ LET u == interpretSrtHandshake(s.u, m.ext).u
     IN u.fail # TRUE /\ p.s = [s EXCEPT !.u = u] /\ p.out = <<Message("AGREEMENT", NoExt)>>

Failure == <<Packet("FAILURE", NoExt, "ROGUE", TRUE)>>

(* A handshake that reaches a connected socket (processCtrlHS). *)
LEMMA CtrlHSTurns ==
  ASSUME NEW s, IsAgent(s), NEW m
  PROVE  CtrlTurned(s, m, processCtrlHS(s, m))
<1> DEFINE u == interpretSrtHandshake(s.u, m.ext).u
           p == processCtrlHS(s, m)
           d == [u EXCEPT !.reason = "ROGUE"]
           e == [s EXCEPT !.u = d, !.phase = "broken"]
           agree == <<Message("AGREEMENT", NoExt)>>
<1>1. p = IF ~m.addressed \/ m.type = "AGREEMENT" THEN Outcome(s, "RUNNING", <<>>)
          ELSE IF ~s.res.flags THEN Outcome(s, "RUNNING", agree)
          ELSE IF u.fail THEN Outcome(e, "RUNNING", Failure)
          ELSE Outcome([s EXCEPT !.u = u], "RUNNING", agree)
  BY Zenon DEF processCtrlHS, Message, Failure
<1> HIDE DEF p, u, agree, d
<1>2. \A x, q : Outcome(x, "RUNNING", q).s = x /\ Outcome(x, "RUNNING", q).out = q
  BY DEF Outcome
<1>3. IsAgent(e) /\ e.phase = "broken" /\ e.cookie = s.cookie
  BY Zenon DEF IsAgent, AgentFields
<1>4. Harmless(Failure)
  <2>1. "FAILURE" \notin {"AGREEMENT", "KEEPALIVE"}
    OBVIOUS
  <2> QED BY <2>1, OneHarmless, Zenon DEF Failure
<1> HIDE DEF e
<1>5. CASE p = Outcome(s, "RUNNING", <<>>)
  BY <1>2, <1>5, ZenonT(30) DEF CtrlTurned, p
<1>6. CASE p = Outcome(s, "RUNNING", agree)
  <2>1. p.s = s /\ p.out = agree
    BY <1>2, <1>6, Zenon
  <2> QED BY <2>1, Zenon DEF CtrlTurned, p, agree
<1>7. CASE p = Outcome(e, "RUNNING", Failure)
  <2>1. p.s = e /\ p.out = Failure
    BY <1>2, <1>7, Zenon
  <2>2. IsAgent(p.s) /\ p.s.phase = "broken" /\ p.s.cookie = s.cookie /\ Harmless(p.out)
    BY <1>3, <1>4, <2>1, Zenon
  <2> QED BY <2>2, Zenon DEF CtrlTurned, p
<1>8. CASE p = Outcome([s EXCEPT !.u = u], "RUNNING", agree) /\ u.fail # TRUE
  <2>1. p.s = [s EXCEPT !.u = u] /\ p.out = agree
    BY <1>2, <1>8, Zenon
  <2> QED BY <1>8, <2>1, Zenon DEF CtrlTurned, p, u, agree
<1> QED BY <1>1, <1>5, <1>6, <1>7, <1>8, Zenon

(* Any packet that reaches a connected socket. *)
LEMMA CtrlTurns ==
  ASSUME NEW s, IsAgent(s), NEW m
  PROVE  CtrlTurned(s, m, CASE m.type = "KEEPALIVE" -> Outcome(s, "RUNNING", <<>>)
                            [] m.type = "SHUTDOWN"  -> Outcome([s EXCEPT !.phase = "broken"], "RUNNING", <<>>)
                            [] OTHER -> processCtrlHS(s, m))
<1> DEFINE e == [s EXCEPT !.phase = "broken"]
           p == CASE m.type = "KEEPALIVE" -> Outcome(s, "RUNNING", <<>>)
                  [] m.type = "SHUTDOWN"  -> Outcome(e, "RUNNING", <<>>)
                  [] OTHER -> processCtrlHS(s, m)
<1>1. \A x, q : Outcome(x, "RUNNING", q).s = x /\ Outcome(x, "RUNNING", q).out = q
  BY DEF Outcome
<1>2. IsAgent(e) /\ e.phase = "broken" /\ e.cookie = s.cookie
  BY DEF IsAgent, AgentFields
<1> HIDE DEF e
<1>3. CASE m.type = "KEEPALIVE"
  <2>1. p = Outcome(s, "RUNNING", <<>>)
    BY <1>3
  <2> HIDE DEF p
  <2>2. p.s = s /\ p.out = <<>>
    BY <1>1, <2>1, Zenon
  <2>3. CtrlTurned(s, m, p)
    BY <2>2, Zenon DEF CtrlTurned
  <2> QED BY <2>3, Zenon DEF p, e
<1>4. CASE m.type = "SHUTDOWN"
  <2>1. p = Outcome(e, "RUNNING", <<>>)
    BY <1>4
  <2> HIDE DEF p
  <2>2. p.s = e /\ p.out = <<>>
    BY <1>1, <2>1, Zenon
  <2>3. Harmless(p.out)
    BY <2>2, OneHarmless, Zenon
  <2>4. IsAgent(p.s) /\ p.s.phase = "broken" /\ p.s.cookie = s.cookie
    BY <1>2, <2>2, Zenon
  <2> QED BY <2>3, <2>4, Zenon DEF CtrlTurned, p, e
<1>5. CASE m.type # "KEEPALIVE" /\ m.type # "SHUTDOWN"
  <2>1. p = processCtrlHS(s, m)
    BY <1>5
  <2> HIDE DEF p
  <2>2. CtrlTurned(s, m, p)
    BY <2>1, CtrlHSTurns, Zenon
  <2> QED BY <2>2, Zenon DEF p, e
<1> QED BY <1>3, <1>4, <1>5, SMTT(20)

(* An agent that stays what it is may send what was allowed before. *)
LEMMA StayAllowed ==
  ASSUME Inv, NEW a \in Agents, NEW q,
         Role(env, a) = "INITIATOR" => RequestsOk(q, ag[a], env.cfg[a], a),
         Role(env, a) = "RESPONDER" =>
           AnswersOk(q, ag[Peer(a)], ag[a], env.cfg[Peer(a)], env.cfg[a], Peer(a))
  PROVE  Allowed(a, ag[a], q)
<1> DEFINE b == Peer(a)  s == ag[a]  t == ag[b]  c == env.cfg[a]  l == env.cfg[b]
<1>1. ASSUME Role(env, a) = "INITIATOR" PROVE InitiatorTurn(c, l, a, s, s, t, q)
  <2>1. PairOk(c, l, a, s, t, net[a], net[b])
    BY <1>1, InitiatorFacts, Zenon
  <2> HIDE DEF s, t, c, l, b
  <2>2. InitiatorStep(c, l, a, s, s, t)
    BY <2>1, Zenon DEF PairOk, InitiatorStep, Progress
  <2> QED BY <1>1, <2>1, <2>2, Zenon DEF PairOk, InitiatorTurn, s, c
<1>2. ASSUME Role(env, a) = "RESPONDER" PROVE ResponderTurn(l, c, b, s, s, t, q)
  <2>1. PairOk(l, c, b, t, s, net[b], net[a])
    BY <1>2, ResponderFacts, Zenon
  <2>2. AnswersOk(q, t, s, l, c, b)
    BY <1>2
  <2> HIDE DEF s, t, c, l, b
  <2>3. ResponderStep(l, c, b, s, s, t)
    BY <2>1, Zenon DEF PairOk, ResponderStep, Progress, SameFilter
  <2> QED BY <2>1, <2>2, <2>3, Zenon DEF PairOk, ResponderTurn
<1>3. Role(env, a) = "DRAW" => DrawOk(s, c, a)
  BY DEF Inv
<1> QED BY <1>1, <1>2, <1>3, Zenon DEF Allowed

(* A connected agent may break. *)
LEMMA BreakAllowed ==
  ASSUME Inv, NEW a \in Agents, ag[a].phase = "connected", NEW s2, NEW q,
         IsAgent(s2), s2.phase = "broken", s2.cookie = ag[a].cookie, Harmless(q),
         Role(env, a) # "DRAW"
  PROVE  Allowed(a, s2, q)
<1> DEFINE b == Peer(a)  s == ag[a]  t == ag[b]  c == env.cfg[a]  l == env.cfg[b]
<1>0. s.phase = "connected"
  OBVIOUS
<1>1. /\ Been(s) /\ Been(s2) /\ Asked(s2) /\ ~Alive(s2) /\ ~Serving(s2) /\ Dead(s2)
      /\ s2.phase # "connected" /\ s2.phase # "connecting"
  BY <1>0 DEF Been, Asked, Alive, Serving, Dead
<1>2. ASSUME Role(env, a) = "INITIATOR" PROVE InitiatorTurn(c, l, a, s, s2, t, q)
  <2>1. PairOk(c, l, a, s, t, net[a], net[b])
    BY <1>2, InitiatorFacts, Zenon
  <2> HIDE DEF s, t, c, l, b
  <2>2. InitiatorStep(c, l, a, s, s2, t)
    BY <1>1, <2>1, Zenon DEF PairOk, InitiatorStep, InitiatorOk, Progress, Linked
  <2> QED BY <1>1, <2>2, HarmlessOk, Zenon DEF InitiatorTurn
<1>3. ASSUME Role(env, a) = "RESPONDER" PROVE ResponderTurn(l, c, b, s, s2, t, q)
  <2>1. PairOk(l, c, b, t, s, net[b], net[a])
    BY <1>3, ResponderFacts, Zenon
  <2> HIDE DEF s, t, c, l, b
  <2>2. ResponderStep(l, c, b, s, s2, t)
    BY <1>1, <2>1, Zenon DEF PairOk, ResponderStep, ResponderOk, Progress
  <2> QED BY <1>1, <2>2, HarmlessOk, Zenon DEF ResponderTurn
<1> QED BY <1>2, <1>3, Zenon DEF Allowed

(* A connected agent has a role, and what it is. *)
LEMMA ConnectedAgent ==
  ASSUME Inv, NEW a \in Agents, ag[a].phase = "connected"
  PROVE  /\ Role(env, a) # "DRAW" /\ IsAgent(ag[a])
         /\ Role(env, a) = "INITIATOR" => Confirmed(ag[a].u, env.cfg[a], env.cfg[Peer(a)], a)
         /\ Role(env, a) = "RESPONDER" => Served(ag[a].u, env.cfg[Peer(a)], env.cfg[a], Peer(a))
<1> DEFINE b == Peer(a)  s == ag[a]  c == env.cfg[a]  l == env.cfg[b]
<1>0. s.phase = "connected"
  OBVIOUS
<1>1. Role(env, a) # "DRAW"
  <2>1. Role(env, a) = "DRAW" => DrawOk(s, c, a)
    BY DEF Inv
  <2>2. ~DrawOk(s, c, a)
    <3> HIDE DEF s
    <3> QED BY <1>0 DEF DrawOk, Early
  <2> QED BY <2>1, <2>2
<1>2. ASSUME Role(env, a) = "INITIATOR" PROVE IsAgent(s) /\ Confirmed(s.u, c, l, a)
  <2>1. InitiatorOk(s, c, l, a)
    BY <1>2, InitiatorFacts, Zenon DEF PairOk
  <2> HIDE DEF s, c, l
  <2>2. ~Early(s, c, a) /\ ~Inquiring(s, c, a) /\ ~Dead(s)
    BY <1>0 DEF Early, Inquiring, Dead
  <2> QED BY <2>1, <2>2, Zenon DEF InitiatorOk
<1>3. ASSUME Role(env, a) = "RESPONDER" PROVE IsAgent(s) /\ Served(s.u, l, c, b)
  <2>1. ResponderOk(s, l, c, b)
    BY <1>3, ResponderFacts, Zenon DEF PairOk
  <2> HIDE DEF s, c, l, b
  <2>2. ~Early(s, c, Peer(b)) /\ ~Awaiting(s, c) /\ ~Offering(s, l, c, b) /\ ~Dead(s)
    BY <1>0 DEF Early, Awaiting, Offering, Dead
  <2> QED BY <2>1, <2>2, Zenon DEF ResponderOk
<1> QED BY <1>1, <1>2, <1>3, OneRole, Zenon

(* A connected initiator interprets an answer once more. *)
LEMMA InitiatorRuns ==
  ASSUME Inv, NEW a \in Agents, Role(env, a) = "INITIATOR", ag[a].phase = "connected",
         NEW m, AnswerOk(m, ag[a], ag[Peer(a)], env.cfg[a], env.cfg[Peer(a)], a),
         interpretSrtHandshake(ag[a].u, m.ext).u.fail # TRUE,
         NEW s2, s2 = [ag[a] EXCEPT !.u = interpretSrtHandshake(ag[a].u, m.ext).u]
  PROVE  Allowed(a, s2, <<Message("AGREEMENT", NoExt)>>)
<1> DEFINE b == Peer(a)  s == ag[a]  t == ag[b]  c == env.cfg[a]  l == env.cfg[b]
           u == interpretSrtHandshake(s.u, m.ext).u
           q == <<Message("AGREEMENT", NoExt)>>
<1>1. IsAgent(s) /\ Confirmed(s.u, c, l, a)
  BY ConnectedAgent, Zenon
<1>2. /\ ConfigOk(c) /\ ConfigOk(l) /\ c.rendezvous = TRUE /\ PairOk(c, l, a, s, t, net[a], net[b])
  BY InitiatorFacts, Zenon
<1>3. m.ext # NoExt
  <2>1. IsSocket(s.u)
    BY <1>1, Zenon DEF Confirmed
  <2> QED BY <2>1, Stages, Zenon
<1>4. PICK v : /\ Negotiated(c, l, a, v, m.ext)
               /\ Alive(t) => Serving(t) /\ SameFilter(v.filter, t.u.filter, l.filterDefaults)
  <2>1. Offer(m.ext, t, c, l, a)
    BY <1>3, Zenon DEF AnswerOk
  <2> QED BY <2>1, Zenon DEF Offer
<1>5. ConfirmedBy(u, v, c, l, a)
  BY <1>1, <1>2, <1>4, AnswerAgain, Zenon
<1>6. s2 = [s EXCEPT !.u = u] /\ s.phase = "connected"
  OBVIOUS
<1> HIDE DEF u, s, t, c, l, b, q
<1>7. IsAgent(s2) /\ s2.u = u /\ s2.phase = "connected" /\ s2.cookie = s.cookie
  BY <1>1, <1>6, SMTT(20) DEF IsAgent, AgentFields
<1>8. Been(s) /\ Been(s2) /\ Asked(s2) /\ s2.phase # "connecting"
  BY <1>6, <1>7 DEF Been, Asked
<1>9. Confirmed(s2.u, c, l, a) /\ s2.u.filter = v.filter
  BY <1>5, <1>7, Zenon DEF ConfirmedBy
<1>10. InitiatorStep(c, l, a, s, s2, t)
  BY <1>4, <1>7, <1>8, <1>9, Zenon DEF InitiatorStep, InitiatorOk, Linked
<1>11. RequestsOk(q, s2, c, a)
  BY <1>8, OneRequest, Zenon DEF Message, q
<1>12. InitiatorTurn(c, l, a, s, s2, t, q)
  BY <1>8, <1>10, <1>11, Zenon DEF InitiatorTurn
<1>13. Role(env, a) # "DRAW" /\ Role(env, a) # "RESPONDER"
  OBVIOUS
<1> QED BY <1>7, <1>12, <1>13, Zenon DEF Allowed, s, t, c, l, b, q

(* A connected responder interprets a request once more. *)
LEMMA ResponderRuns ==
  ASSUME Inv, NEW a \in Agents, Role(env, a) = "RESPONDER", ag[a].phase = "connected",
         NEW m, RequestOk(m, ag[Peer(a)], env.cfg[Peer(a)], Peer(a)),
         interpretSrtHandshake(ag[a].u, m.ext).u.fail # TRUE,
         NEW s2, s2 = [ag[a] EXCEPT !.u = interpretSrtHandshake(ag[a].u, m.ext).u]
  PROVE  Allowed(a, s2, <<Message("AGREEMENT", NoExt)>>)
<1> DEFINE b == Peer(a)  t == ag[a]  s == ag[b]  l == env.cfg[a]  c == env.cfg[b]
           u == interpretSrtHandshake(t.u, m.ext).u
           q == <<Message("AGREEMENT", NoExt)>>
<1>1. IsAgent(t) /\ Served(t.u, c, l, b)
  BY ConnectedAgent, Zenon
<1>2. /\ ConfigOk(c) /\ ConfigOk(l) /\ l.rendezvous = TRUE /\ PairOk(c, l, b, s, t, net[b], net[a])
  BY ResponderFacts, Zenon
<1>3. PICK x : Negotiated(c, l, b, t.u, x)
  BY <1>1, Zenon DEF Served
<1>4. t.u.side = "RESPONDER" /\ t.u.side # "INITIATOR"
  BY <1>1 DEF Served
<1>5. m.ext = RequestOf(c, b)
  <2>1. IsSocket(t.u)
    BY <1>3, Zenon DEF Negotiated
  <2>2. m.ext # NoExt
    BY <2>1, Stages, Zenon
  <2> QED BY <2>2, Zenon DEF RequestOk
<1>6. Reconsidered(c, l, b, t.u)
  BY <1>2, <1>3, <1>4, <1>5, RequestAgain, Zenon
<1>7. /\ u.side = t.u.side /\ SameFilter(u.filter, t.u.filter, l.filterDefaults)
      /\ \E y : Negotiated(c, l, b, u, y)
  BY <1>5, <1>6, Zenon DEF Reconsidered
<1>8. s2 = [t EXCEPT !.u = u] /\ t.phase = "connected"
  OBVIOUS
<1> HIDE DEF u, s, t, c, l, b, q
<1>9. IsAgent(s2) /\ s2.u = u /\ s2.phase = "connected" /\ s2.cookie = t.cookie
  BY <1>1, <1>8, SMTT(20) DEF IsAgent, AgentFields
<1>10. Been(t) /\ Been(s2) /\ Alive(t) /\ Serving(t) /\ Serving(s2) /\ s2.phase # "connecting"
  BY <1>8, <1>9, SMTT(20) DEF Been, Alive, Serving
<1>11. Served(s2.u, c, l, b) /\ SameFilter(t.u.filter, s2.u.filter, l.filterDefaults)
  BY <1>4, <1>7, <1>9, Zenon DEF Served, SameFilter
<1>12. ResponderStep(c, l, b, t, s2, s)
  BY <1>2, <1>9, <1>10, <1>11, Zenon DEF ResponderStep, ResponderOk, PairOk, Progress
<1>13. AnswersOk(q, s, s2, c, l, b)
  BY <1>10, OneAnswer, Zenon DEF Message, q
<1>14. ResponderTurn(c, l, b, t, s2, s, q)
  BY <1>10, <1>12, <1>13, Zenon DEF ResponderTurn
<1>15. Role(env, a) # "DRAW" /\ Role(env, a) # "INITIATOR"
  OBVIOUS
<1> QED BY <1>9, <1>14, <1>15, Zenon DEF Allowed, s, t, c, l, b, q

(* Whatever packet reaches a connected socket, its turn is allowed. *)
LEMMA RunAllowed ==
  ASSUME Inv, NEW a \in Agents, ag[a].phase = "connected", NEW m \in Elems(net[a]),
         NEW p, CtrlTurned(ag[a], m, p)
  PROVE  Allowed(a, p.s, p.out)
<1> DEFINE s == ag[a]
           u == interpretSrtHandshake(s.u, m.ext).u
           agree == <<Message("AGREEMENT", NoExt)>>
<1>1. Role(env, a) # "DRAW"
  BY ConnectedAgent, Zenon
<1>2. Been(s)
  BY DEF Been
<1>3. CASE p.s = s /\ p.out = <<>>
  <2>1. Harmless(p.out)
    BY <1>3, OneHarmless, Zenon
  <2>2. Allowed(a, s, p.out)
    BY <2>1, HarmlessOk, StayAllowed, Zenon
  <2> QED BY <1>3, <2>2, Zenon
<1>4. CASE p.s = s /\ p.out = agree
  <2>1. Allowed(a, s, agree)
    <3>1. RequestsOk(agree, s, env.cfg[a], a)
      BY <1>2, OneRequest, Zenon DEF Message
    <3>2. AnswersOk(agree, ag[Peer(a)], s, env.cfg[Peer(a)], env.cfg[a], Peer(a))
      BY <1>2, OneAnswer, Zenon DEF Message
    <3> QED BY <3>1, <3>2, StayAllowed, Zenon
  <2> QED BY <1>4, <2>1, Zenon
<1>5. CASE IsAgent(p.s) /\ p.s.phase = "broken" /\ p.s.cookie = s.cookie /\ Harmless(p.out)
  BY <1>1, <1>5, BreakAllowed, Zenon
<1>6. CASE u.fail # TRUE /\ p.s = [s EXCEPT !.u = u] /\ p.out = agree
  <2>1. ASSUME Role(env, a) = "INITIATOR" PROVE Allowed(a, p.s, agree)
    <3>1. AnswerOk(m, ag[a], ag[Peer(a)], env.cfg[a], env.cfg[Peer(a)], a)
      BY <2>1, OnItsWay, Zenon
    <3> QED BY <1>6, <2>1, <3>1, InitiatorRuns, ZenonT(30)
  <2>2. ASSUME Role(env, a) = "RESPONDER" PROVE Allowed(a, p.s, agree)
    <3>1. RequestOk(m, ag[Peer(a)], env.cfg[Peer(a)], Peer(a))
      BY <2>2, OnItsWay, Zenon
    <3> QED BY <1>6, <2>2, <3>1, ResponderRuns, Zenon
  <2>3. Role(env, a) = "INITIATOR" \/ Role(env, a) = "RESPONDER"
    BY <1>1, OneRole, SMTT(20)
  <2>4. Allowed(a, p.s, agree)
    BY <2>1, <2>2, <2>3, Zenon
  <2> QED BY <1>6, <2>4, Zenon
<1> QED BY <1>3, <1>4, <1>5, <1>6, Zenon DEF CtrlTurned

(* An agent may always wait. *)
LEMMA WaitAllowed == ASSUME Inv, NEW a \in Agents PROVE Allowed(a, ag[a], <<>>)
<1>1. Harmless(<<>>)
  BY OneHarmless, Zenon
<1> QED BY <1>1, HarmlessOk, StayAllowed, Zenon

(* What an agent that is opened is. *)
LEMMA OpenedAgent ==
  ASSUME Inv, NEW a \in Agents, ag[a].phase = "opened"
  PROVE  IsAgent(ag[a]) /\ Early(ag[a], env.cfg[a], a)
<1> DEFINE s == ag[a]  c == env.cfg[a]  l == env.cfg[Peer(a)]
<1>0. s.phase = "opened"
  OBVIOUS
<1>1. ~Dead(s) /\ s.phase # "failed" /\ s.phase # "connecting" /\ s.phase # "connected"
  BY <1>0 DEF Dead
<1>2. CASE Role(env, a) = "DRAW"
  <2>1. DrawOk(s, c, a)
    BY <1>2 DEF Inv
  <2> HIDE DEF s, c
  <2>2. IsAgent(s) /\ Early(s, c, a)
    BY <1>1, <2>1, Zenon DEF DrawOk
  <2> QED BY <2>2, Zenon DEF s, c
<1>3. CASE Role(env, a) = "INITIATOR"
  <2>1. InitiatorOk(s, c, l, a)
    BY <1>3, InitiatorFacts, Zenon DEF PairOk
  <2> HIDE DEF s, c, l
  <2>2. IsAgent(s) /\ Early(s, c, a)
    BY <1>1, <2>1, Zenon DEF InitiatorOk, Inquiring
  <2> QED BY <2>2, Zenon DEF s, c
<1>4. CASE Role(env, a) = "RESPONDER"
  <2>1. ResponderOk(s, l, c, Peer(a)) /\ Peer(Peer(a)) = a
    BY <1>4, ResponderFacts, Zenon DEF PairOk
  <2> HIDE DEF s, c, l
  <2>2. IsAgent(s) /\ Early(s, c, a)
    BY <1>1, <2>1, Zenon DEF ResponderOk, Awaiting, Offering
  <2> QED BY <2>2, Zenon DEF s, c
<1> QED BY <1>2, <1>3, <1>4, OneRole, SMTT(20)

(* Starting to connect only waves. *)
LEMMA StartAllowed ==
  ASSUME Inv, NEW a \in Agents, ag[a].phase = "opened", NEW q, Harmless(q), NEW s2,
         s2 = [ag[a] EXCEPT !.phase = "connecting", !.rdv = "WAVING", !.req = "WAVEAHAND", !.stored = q]
  PROVE  Allowed(a, s2, q)
<1> DEFINE s == ag[a]  b == Peer(a)  t == ag[b]  c == env.cfg[a]  l == env.cfg[b]
<1>1. IsAgent(s) /\ Early(s, c, a)
  BY OpenedAgent, Zenon
<1>2. s.phase = "opened" /\ s2 = [s EXCEPT !.phase = "connecting", !.rdv = "WAVING", !.req = "WAVEAHAND", !.stored = q]
  OBVIOUS
<1> HIDE DEF s, t, c, l, b
<1>3. /\ IsAgent(s2) /\ s2.phase = "connecting" /\ s2.rdv = "WAVING" /\ s2.req = "WAVEAHAND"
      /\ s2.stored = q /\ s2.cookie = s.cookie /\ s2.u = s.u /\ s2.res = s.res /\ s2.reqExt = s.reqExt
  BY <1>1, <1>2, Zenon DEF IsAgent, AgentFields
<1>4. Early(s2, c, a)
  BY <1>1, <1>3, Zenon DEF Early
<1>5. /\ ~Asked(s) /\ ~Been(s) /\ ~Been(s2) /\ ~Serving(s) /\ ~Serving(s2) /\ Alive(s)
      /\ s2.phase # "connected"
  BY <1>2, <1>3 DEF Asked, Been, Serving, Alive
<1>6. RequestsOk(q, s2, c, a) /\ AnswersOk(q, t, s2, l, c, b)
  BY HarmlessOk, Zenon
<1>7. InitiatorTurn(c, l, a, s, s2, t, q)
  BY <1>3, <1>4, <1>5, <1>6, Zenon DEF InitiatorTurn, InitiatorStep, InitiatorOk, Linked
<1>8. ResponderTurn(l, c, b, s, s2, t, q)
  <2>1. Peer(b) = a
    BY DEF Peer, Agents, b
  <2> QED BY <1>3, <1>4, <1>5, <1>6, <2>1, Zenon DEF ResponderTurn, ResponderStep, ResponderOk
<1> QED BY <1>3, <1>4, <1>7, <1>8, Zenon DEF Allowed, DrawOk, s, t, c, l, b

(******************************** the steps *******************************)

(* What is left when a datagram is taken. *)
LEMMA Taken ==
  ASSUME Inv, NEW a \in Agents, net[a] # <<>>, Role(env, a) # "DRAW"
  PROVE  IsSeq(Tail(net[a])) /\ Elems(Tail(net[a])) \subseteq Elems(net[a]) /\ Head(net[a]) \in Elems(net[a])
<1>1. IsSeq(net[a])
  BY PathsAreSeqs, Zenon
<1> QED BY <1>1, TailElems, Zenon

(* startConnect preserves the invariant. *)
LEMMA StartKeeps == ASSUME Inv, env' = env, NEW a \in Agents, startConnect(a) PROVE Inv'
<1> DEFINE q == <<Waving(a)>>
           s2 == [ag[a] EXCEPT !.phase = "connecting", !.rdv = "WAVING", !.req = "WAVEAHAND", !.stored = q]
<1>1. ag[a].phase = "opened" /\ ag' = [ag EXCEPT ![a] = s2] /\ Send(a, q, net[a])
  BY Zenon DEF startConnect, Put
<1>2. Harmless(q)
  <2>1. "WAVEAHAND" \notin {"AGREEMENT", "KEEPALIVE"}
    OBVIOUS
  <2> QED BY <2>1, OneHarmless, Zenon DEF Waving
<1> HIDE DEF q
<1>3. Allowed(a, s2, q)
  BY <1>1, <1>2, StartAllowed, Zenon
<1>4. Role(env, a) # "DRAW" => IsSeq(net[a]) /\ Elems(net[a]) \subseteq Elems(net[a])
  BY PathsAreSeqs
<1> HIDE DEF s2
<1> QED BY <1>1, <1>3, <1>4, SendKeeps, Zenon

(* The blocking socket's turns preserve the invariant. *)
LEMMA SyncKeeps ==
  ASSUME Inv, env' = env, NEW a \in Agents, SyncResend(a) \/ SyncPacket(a)
  PROVE  Inv'
<1>1. CASE SyncResend(a)
  <2>1. ag[a].phase = "connecting" /\ Send(a, ag[a].stored, net[a]) /\ ag' = ag
    BY <1>1, Zenon DEF SyncResend
  <2>2. ag' = [ag EXCEPT ![a] = ag[a]]
    BY <2>1 DEF Inv
  <2>3. Role(env, a) = "INITIATOR" => RequestsOk(ag[a].stored, ag[a], env.cfg[a], a)
    BY <2>1, InitiatorFacts, Zenon DEF PairOk
  <2>4. Role(env, a) = "RESPONDER" =>
          AnswersOk(ag[a].stored, ag[Peer(a)], ag[a], env.cfg[Peer(a)], env.cfg[a], Peer(a))
    BY <2>1, ResponderFacts, Zenon DEF PairOk
  <2>5. Allowed(a, ag[a], ag[a].stored)
    BY <2>3, <2>4, StayAllowed, Zenon
  <2>6. Role(env, a) # "DRAW" => IsSeq(net[a]) /\ Elems(net[a]) \subseteq Elems(net[a])
    BY PathsAreSeqs
  <2> QED BY <2>1, <2>2, <2>5, <2>6, SendKeeps, Zenon
<1>2. CASE SyncPacket(a)
  <2> DEFINE m == Head(net[a])
             p == HandleFresh(processConnectResponse(a, m), m)
             s2 == [p.s EXCEPT !.stored = p.out]
  <2>1. /\ ag[a].phase = "connecting" /\ net[a] # <<>>
        /\ IF p.cst = "CONTINUE" THEN Put(a, s2) /\ Send(a, <<>>, Tail(net[a]))
                                 ELSE Put(a, p.s) /\ Send(a, p.out, Tail(net[a]))
    BY <1>2, Zenon DEF SyncPacket
  <2>2. Role(env, a) # "DRAW" => /\ IsSeq(Tail(net[a])) /\ Elems(Tail(net[a])) \subseteq Elems(net[a])
                                /\ m \in Elems(net[a])
    BY <2>1, Taken, Zenon
  <2>3. Fit(a, p)
    BY <2>1, <2>2, PacketFits, Zenon
  <2> HIDE DEF p, m
  <2>4. CASE p.cst = "CONTINUE"
    <3>1. Allowed(a, s2, <<>>) /\ ag' = [ag EXCEPT ![a] = s2] /\ Send(a, <<>>, Tail(net[a]))
      BY <2>1, <2>3, <2>4, Zenon DEF Fit, Put
    <3> HIDE DEF s2
    <3> QED BY <2>2, <3>1, SendKeeps, Zenon
  <2>5. CASE p.cst # "CONTINUE"
    <3>1. Allowed(a, p.s, p.out) /\ ag' = [ag EXCEPT ![a] = p.s] /\ Send(a, p.out, Tail(net[a]))
      BY <2>1, <2>3, <2>5, Zenon DEF Fit, Put
    <3> QED BY <2>2, <3>1, SendKeeps, Zenon
  <2> QED BY <2>4, <2>5
<1> QED BY <1>1, <1>2

(* The worker's turns for a non-blocking socket preserve the invariant. *)
LEMMA AsyncKeeps ==
  ASSUME Inv, env' = env, NEW a \in Agents, AsyncPacket(a) \/ AsyncTick(a)
  PROVE  Inv'
<1>1. CASE AsyncPacket(a)
  <2> DEFINE m == Head(net[a])
             p == HandleFresh(processConnectResponse(a, m), m)
  <2>1. /\ ag[a].phase = "connecting" /\ net[a] # <<>>
        /\ ag' = [ag EXCEPT ![a] = p.s] /\ Send(a, p.out, Tail(net[a]))
    BY <1>1, Zenon DEF AsyncPacket, Put
  <2>2. Role(env, a) # "DRAW" => /\ IsSeq(Tail(net[a])) /\ Elems(Tail(net[a])) \subseteq Elems(net[a])
                                /\ m \in Elems(net[a])
    BY <2>1, Taken, Zenon
  <2>3. Fit(a, p)
    BY <2>1, <2>2, PacketFits, Zenon
  <2> HIDE DEF p, m
  <2>4. Allowed(a, p.s, p.out)
    BY <2>3, Zenon DEF Fit
  <2> QED BY <2>1, <2>2, <2>4, SendKeeps, Zenon
<1>2. CASE AsyncTick(a)
  <2> DEFINE p == processAsyncConnectRequest(ag[a], cst[a])
  <2>1. ag[a].phase = "connecting" /\ ag' = [ag EXCEPT ![a] = p.s] /\ Send(a, p.out, net[a])
    BY <1>2, Zenon DEF AsyncTick, Put
  <2>2. Allowed(a, p.s, p.out)
    BY <2>1, TickAllowed, Zenon
  <2>3. Role(env, a) # "DRAW" => IsSeq(net[a]) /\ Elems(net[a]) \subseteq Elems(net[a])
    BY PathsAreSeqs
  <2> HIDE DEF p
  <2> QED BY <2>1, <2>2, <2>3, SendKeeps, Zenon
<1> QED BY <1>1, <1>2

(* Running out of time preserves the invariant. *)
LEMMA ExpireKeeps == ASSUME Inv, env' = env, NEW a \in Agents, Expire(a) PROVE Inv'
<1> DEFINE s == ag[a]
           r == IF s.u.reason = "UNKNOWN" \/ s.sync THEN "TIMEOUT" ELSE s.u.reason
           s2 == [s EXCEPT !.phase = "failed", !.u.reason = r]
           p == [s |-> s2, cst |-> "REJECT", out |-> <<>>]
<1>1. s.phase = "connecting" /\ ag' = [ag EXCEPT ![a] = s2] /\ net' = net
  BY Zenon DEF Expire, Put
<1> HIDE DEF r
<1>2. IsAgent(s)
  BY <1>1, ConnectingAgent, Zenon
<1>3. IsAgent(s2) /\ s2.phase = "failed" /\ s2.cookie = s.cookie
  BY <1>2, Zenon DEF IsAgent, AgentFields
<1> HIDE DEF s2
<1>4. p.s = s2 /\ p.cst = "REJECT" /\ p.out = <<>>
  OBVIOUS
<1> HIDE DEF p
<1>5. Ended(s, p)
  BY <1>3, <1>4, OneHarmless, Zenon DEF Ended
<1>6. Allowed(a, s2, <<>>)
  BY <1>1, <1>4, <1>5, EndAllowed, Zenon
<1>7. Delivered(a, <<>>)
  <2>1. net' = [x \in Agents |-> net'[x]]
    BY <1>1 DEF Inv
  <2>2. Role(env, a) # "DRAW" => Within(net[a], Elems(net[a])) /\ Within(net[Peer(a)], Elems(net[Peer(a)]) \cup Elems(<<>>))
    BY PathsAreSeqs, SMTT(20) DEF Within
  <2> QED BY <1>1, <2>1, <2>2, ZenonT(30) DEF Delivered
<1> QED BY <1>1, <1>6, <1>7, TurnKeeps, ZenonT(30)

(* The turns of a connected socket preserve the invariant. *)
LEMMA RunKeeps ==
  ASSUME Inv, env' = env, NEW a \in Agents, ConnectedPacket(a) \/ Keepalive(a)
  PROVE  Inv'
<1>1. CASE ConnectedPacket(a)
  <2> DEFINE m == Head(net[a])
             p == CASE m.type = "KEEPALIVE" -> Outcome(ag[a], "RUNNING", <<>>)
                    [] m.type = "SHUTDOWN"  -> Outcome([ag[a] EXCEPT !.phase = "broken"], "RUNNING", <<>>)
                    [] OTHER -> processCtrlHS(ag[a], m)
  <2>1. /\ ag[a].phase = "connected" /\ net[a] # <<>>
        /\ ag' = [ag EXCEPT ![a] = p.s] /\ Send(a, p.out, Tail(net[a]))
    BY <1>1, Zenon DEF ConnectedPacket, Put
  <2>2. Role(env, a) # "DRAW" /\ IsAgent(ag[a])
    BY <2>1, ConnectedAgent, Zenon
  <2>3. IsSeq(Tail(net[a])) /\ Elems(Tail(net[a])) \subseteq Elems(net[a]) /\ m \in Elems(net[a])
    BY <2>1, <2>2, Taken, Zenon
  <2>4. CtrlTurned(ag[a], m, p)
    BY <2>2, CtrlTurns, Zenon
  <2> HIDE DEF p, m
  <2>5. Allowed(a, p.s, p.out)
    BY <2>1, <2>3, <2>4, RunAllowed, Zenon
  <2> QED BY <2>1, <2>3, <2>5, SendKeeps, Zenon
<1>2. CASE Keepalive(a)
  <2> DEFINE q == <<Message("KEEPALIVE", NoExt)>>
  <2>1. ag[a].phase = "connected" /\ Send(a, q, net[a]) /\ ag' = ag
    BY <1>2, Zenon DEF Keepalive, Message
  <2>2. ag' = [ag EXCEPT ![a] = ag[a]]
    BY <2>1 DEF Inv
  <2>3. Been(ag[a])
    BY <2>1 DEF Been
  <2>4. RequestsOk(q, ag[a], env.cfg[a], a)
    BY <2>3, OneRequest, Zenon DEF Message
  <2>5. AnswersOk(q, ag[Peer(a)], ag[a], env.cfg[Peer(a)], env.cfg[a], Peer(a))
    BY <2>3, OneAnswer, Zenon DEF Message
  <2> HIDE DEF q
  <2>6. Allowed(a, ag[a], q)
    BY <2>4, <2>5, StayAllowed, Zenon
  <2>7. Role(env, a) # "DRAW" => IsSeq(net[a]) /\ Elems(net[a]) \subseteq Elems(net[a])
    BY PathsAreSeqs
  <2> QED BY <2>1, <2>2, <2>6, <2>7, SendKeeps, Zenon
<1> QED BY <1>1, <1>2

(* A duplicated datagram adds twins only. *)
LEMMA DoubledWithin == ASSUME NEW q, IsSeq(q), q # <<>> PROVE Within(Doubled(q), Elems(q))
<1> DEFINE h == Twin(Head(q))
<1>1. Doubled(q) = <<h, h>> \o Tail(q)
  BY Zenon DEF Doubled, Twin
<1>2. IsSeq(Tail(q)) /\ Elems(Tail(q)) \subseteq Elems(q) /\ Head(q) \in Elems(q)
  BY TailElems, Zenon
<1>3. h = Twin(Head(q))
  OBVIOUS
<1> HIDE DEF h
<1>4. IsSeq(<<h, h>>) /\ Elems(<<h, h>>) = {h}
  BY DEF IsSeq, Elems
<1>5. IsSeq(Doubled(q)) /\ Elems(Doubled(q)) \subseteq {h} \cup Elems(Tail(q))
  BY <1>1, <1>2, <1>4, ConcatElems, Zenon
<1>6. ASSUME NEW m \in Elems(Doubled(q)) PROVE m \in Elems(q) \/ \E n \in Elems(q) : m = Twin(n)
  <2>1. m = h \/ m \in Elems(q)
    BY <1>2, <1>5
  <2> QED BY <1>2, <1>3, <2>1, Zenon
<1> QED BY <1>5, <1>6, Zenon DEF Within

(* A datagram that is overtaken stays on its way. *)
LEMMA RotatedWithin ==
  ASSUME NEW q, IsSeq(q), q # <<>>
  PROVE  Within(Tail(q) \o <<Head(q)>>, Elems(q))
<1> DEFINE h == Head(q)  r == Tail(q)
<1>1. IsSeq(r) /\ Elems(r) \subseteq Elems(q) /\ h \in Elems(q)
  BY TailElems, Zenon
<1> HIDE DEF h, r
<1>2. IsSeq(<<h>>) /\ Elems(<<h>>) = {h}
  BY OneElem, Zenon
<1>3. IsSeq(r \o <<h>>) /\ Elems(r \o <<h>>) \subseteq Elems(r) \cup {h}
  BY <1>1, <1>2, ConcatElems, SMTT(20)
<1>4. Within(r \o <<h>>, Elems(q))
  BY <1>1, <1>3 DEF Within
<1> QED BY <1>4, Zenon DEF h, r

(* What the network does, and what the dispatcher drops, preserves the      *)
(* invariant.                                                               *)
LEMMA LinkKeeps ==
  ASSUME Inv, env' = env, NEW a \in Agents, Ignore(a) \/ Lose(a) \/ Duplicate(a) \/ Reorder(a)
  PROVE  Inv'
<1>1. Allowed(a, ag[a], <<>>)
  BY WaitAllowed, Zenon
<1>2. CASE Ignore(a) \/ Lose(a)
  <2>1. net[a] # <<>> /\ ag' = ag /\ net' = [net EXCEPT ![a] = Tail(net[a])]
    BY <1>2, Zenon DEF Ignore, Lose
  <2>2. Role(env, a) # "DRAW" => Within(Tail(net[a]), Elems(net[a]))
    BY <2>1, Taken DEF Within
  <2> QED BY <1>1, <2>1, <2>2, NetworkKeeps, Zenon
<1>3. CASE Duplicate(a)
  <2>1. net[a] # <<>> /\ ag' = ag /\ net' = [net EXCEPT ![a] = Doubled(net[a])]
    BY <1>3, Zenon DEF Duplicate
  <2>2. Role(env, a) # "DRAW" => Within(Doubled(net[a]), Elems(net[a]))
    BY <2>1, PathsAreSeqs, DoubledWithin, Zenon
  <2> QED BY <1>1, <2>1, <2>2, NetworkKeeps, Zenon
<1>4. CASE Reorder(a)
  <2> DEFINE q == Tail(net[a]) \o <<Head(net[a])>>
  <2>1. Len(net[a]) > 1 /\ ag' = ag /\ net' = [net EXCEPT ![a] = q]
    BY <1>4, Zenon DEF Reorder
  <2>2. net[a] # <<>>
    BY <2>1
  <2>3. Role(env, a) # "DRAW" => Within(q, Elems(net[a]))
    BY <2>2, PathsAreSeqs, RotatedWithin, Zenon
  <2> HIDE DEF q
  <2> QED BY <1>1, <2>1, <2>3, NetworkKeeps, Zenon
<1> QED BY <1>2, <1>3, <1>4

(* Every step preserves the invariant. *)
LEMMA StepKeeps == ASSUME Inv, [Next]_vars PROVE Inv'
<1>1. ASSUME env' = env, ag' = ag, net' = net PROVE Inv'
  BY <1>1, SMTT(20) DEF Inv, Role
<1>2. CASE UNCHANGED vars
  BY <1>1, <1>2 DEF vars
<1>3. CASE Next
  <2>1. env' = env
    BY <1>3 DEF Next
  <2>2. PICK a \in Agents :
          \/ startConnect(a) \/ SyncResend(a) \/ SyncPacket(a) \/ AsyncPacket(a)
          \/ AsyncTick(a) \/ Expire(a) \/ ConnectedPacket(a) \/ Keepalive(a) \/ Ignore(a)
          \/ Lose(a) \/ Duplicate(a) \/ Reorder(a) \/ StrayPacket(a)
    BY <1>3, Zenon DEF Next
  <2>3. CASE startConnect(a)
    BY <2>1, <2>3, StartKeeps, Zenon
  <2>4. CASE SyncResend(a) \/ SyncPacket(a)
    BY <2>1, <2>4, SyncKeeps, Zenon
  <2>5. CASE AsyncPacket(a) \/ AsyncTick(a)
    BY <2>1, <2>5, AsyncKeeps, Zenon
  <2>6. CASE Expire(a)
    BY <2>1, <2>6, ExpireKeeps, Zenon
  <2>7. CASE ConnectedPacket(a) \/ Keepalive(a)
    BY <2>1, <2>7, RunKeeps, Zenon
  <2>8. CASE Ignore(a) \/ Lose(a) \/ Duplicate(a) \/ Reorder(a)
    BY <2>1, <2>8, LinkKeeps, Zenon
  <2>9. CASE StrayPacket(a)
    BY <1>1, <2>1, <2>9, ZenonT(30) DEF StrayPacket
  <2> QED BY <2>2, <2>3, <2>4, <2>5, <2>6, <2>7, <2>8, <2>9, Zenon
<1> QED BY <1>2, <1>3, SMTT(20)

(* A new socket (CUDT's constructor) has negotiated nothing. *)
LEMMA NewSocket == ASSUME NEW a, NEW c PROVE Untouched(Socket(a, c), c, a)
  BY DEF Socket, Untouched, IsSocket, Fields

(* An agent that has just been opened. *)
Fresh(s, c, a) == IsAgent(s) /\ s.phase = "opened" /\ Early(s, c, a)

(* The invariant holds at the start. *)
LEMMA StartsInOrder == ASSUME Init PROVE Inv
<1>1. env \in Cases /\ net = [a \in Agents |-> <<>>]
  BY DEF Init
<1>2. PICK b \in [Agents -> BOOLEAN] :
        ag = [a \in Agents |->
               [u |-> Socket(a, env.cfg[a]), cookie |-> env.cookie[a], sync |-> b[a], phase |-> "opened",
                rdv |-> "INVALID", req |-> "none", reqExt |-> FALSE, res |-> NoRes,
                stored |-> <<>>]]
  BY Zenon DEF Init
<1>3. ag = [a \in Agents |-> ag[a]]
  BY <1>2
<1>4. ASSUME NEW a \in Agents PROVE Fresh(ag[a], env.cfg[a], a) /\ ag[a].cookie = env.cookie[a]
  <2> DEFINE s == ag[a]
  <2>1. s = [u |-> Socket(a, env.cfg[a]), cookie |-> env.cookie[a], sync |-> b[a], phase |-> "opened",
             rdv |-> "INVALID", req |-> "none", reqExt |-> FALSE, res |-> NoRes, stored |-> <<>>]
    BY <1>2
  <2> HIDE DEF s
  <2>2. /\ IsAgent(s) /\ s.u = Socket(a, env.cfg[a]) /\ s.cookie = env.cookie[a] /\ s.phase = "opened"
        /\ s.reqExt = FALSE /\ s.res = NoRes
    BY <2>1 DEF IsAgent, AgentFields
  <2>3. Untouched(Socket(a, env.cfg[a]), env.cfg[a], a)
    BY NewSocket, Zenon
  <2>4. Fresh(s, env.cfg[a], a)
    BY <2>2, <2>3, Zenon DEF Fresh, Early
  <2> QED BY <2>2, <2>4, ZenonT(30) DEF s
<1>5. ASSUME NEW i \in Agents
      PROVE  PairOk(env.cfg[i], env.cfg[Peer(i)], i, ag[i], ag[Peer(i)], net[i], net[Peer(i)])
  <2> DEFINE j == Peer(i)  s == ag[i]  t == ag[j]  c == env.cfg[i]  l == env.cfg[j]
  <2>1. j \in Agents /\ net[i] = <<>> /\ net[j] = <<>>
    BY <1>1 DEF Agents, Peer
  <2>2. Fresh(s, c, i) /\ Fresh(t, l, j)
    BY <1>4, <2>1, Zenon
  <2>3. RequestsOk(<<>>, s, c, i) /\ AnswersOk(<<>>, s, t, c, l, i)
    BY OneHarmless, HarmlessOk, Zenon
  <2> HIDE DEF s, t, c, l
  <2>4. /\ s.phase = "opened" /\ t.phase = "opened" /\ s.phase # "connecting" /\ t.phase # "connecting"
        /\ s.phase # "connected"
    BY <2>2 DEF Fresh
  <2>5. ~Serving(t) /\ ~Been(t) /\ ~Been(s)
    BY <2>4 DEF Serving, Been
  <2>6. InitiatorOk(s, c, l, i) /\ ResponderOk(t, c, l, i)
    BY <2>2, Zenon DEF InitiatorOk, ResponderOk, Fresh
  <2>7. PairOk(c, l, i, s, t, <<>>, <<>>)
    BY <2>3, <2>4, <2>5, <2>6, Zenon DEF PairOk, Progress, Linked
  <2> QED BY <2>1, <2>7, Zenon DEF s, t, c, l
<1>6. \A a \in Agents : DrawOk(ag[a], env.cfg[a], a)
  BY <1>4, Zenon DEF DrawOk, Fresh
<1>7. net = [a \in Agents |-> net[a]]
  BY <1>1
<1> QED BY <1>1, <1>3, <1>4, <1>5, <1>6, <1>7, Zenon DEF Inv

(******************************* the theorem ******************************)

(* A connected initiator and a connected responder match. *)
LEMMA PairMatches ==
  ASSUME Inv, NEW i \in Agents, Role(env, i) = "INITIATOR",
         ag[i].phase = "connected", ag[Peer(i)].phase = "connected"
  PROVE  /\ ag[i].u.side = "INITIATOR" /\ ag[Peer(i)].u.side = "RESPONDER"
         /\ Matching(ag[i].u, ag[Peer(i)].u) /\ Matching(ag[Peer(i)].u, ag[i].u)
<1> DEFINE j == Peer(i)  s == ag[i]  t == ag[j]  c == env.cfg[i]  l == env.cfg[j]
<1>1. env \in Cases /\ j \in Agents /\ Peer(j) = i /\ Role(env, j) = "RESPONDER"
  <2>1. env \in Cases
    BY DEF Inv
  <2> QED BY <2>1, Roles, SMTT(20)
<1>2. Confirmed(s.u, c, l, i) /\ Served(t.u, c, l, i)
  <2>1. Served(ag[j].u, env.cfg[Peer(j)], env.cfg[j], Peer(j))
    BY <1>1, ConnectedAgent, Zenon
  <2> QED BY <1>1, <2>1, ConnectedAgent, Zenon
<1>3. ConfigOk(c) /\ ConfigOk(l) /\ PairOk(c, l, i, s, t, net[i], net[j])
  BY InitiatorFacts, Zenon
<1>4. c.filterDefaults = l.filterDefaults
  BY <1>1, CasesAssumption, SMTT(20)
<1>5. SameFilter(s.u.filter, t.u.filter, l.filterDefaults)
  <2>1. s.phase = "connected" /\ t.phase = "connected"
    OBVIOUS
  <2> HIDE DEF s, t, c, l, j
  <2>2. Alive(t)
    BY <2>1 DEF Alive
  <2> QED BY <1>3, <2>1, <2>2, Zenon DEF PairOk, Linked
<1>6. PICK x : Negotiated(c, l, i, t.u, x)
  BY <1>2, Zenon DEF Served
<1>7. Matching(s.u, t.u) /\ Matching(t.u, s.u)
  BY <1>2, <1>3, <1>4, <1>5, <1>6, ConfirmedMatches, Zenon
<1>8. s.u.side = "INITIATOR" /\ t.u.side = "RESPONDER"
  BY <1>2, Zenon DEF Confirmed, Served
<1> QED BY <1>7, <1>8, ZenonT(30)

(* The invariant is strong enough for two connected sockets to agree. *)
LEMMA InvAgrees == ASSUME Inv PROVE AgreedAndSecured
<1>1. ASSUME Both, NEW a \in Agents
      PROVE  /\ ag[a].u.side # ag[Peer(a)].u.side /\ ag[a].u.side # "DRAW"
             /\ Matching(ag[a].u, ag[Peer(a)].u)
  <2>1. /\ env \in Cases /\ Peer(a) \in Agents /\ Peer(Peer(a)) = a
        /\ Role(env, a) = "INITIATOR" \/ Role(env, Peer(a)) = "INITIATOR" \/ Role(env, a) = "DRAW"
    <3>1. env \in Cases
      BY DEF Inv
    <3> QED BY <3>1, Roles, SMTT(20)
  <2>2. ag[a].phase = "connected" /\ ag[Peer(a)].phase = "connected"
    BY <1>1, <2>1, Zenon DEF Both
  <2>3. Role(env, a) # "DRAW"
    BY <2>2, ConnectedAgent, Zenon
  <2>4. "INITIATOR" # "RESPONDER" /\ "INITIATOR" # "DRAW" /\ "RESPONDER" # "DRAW"
    OBVIOUS
  <2>5. CASE Role(env, a) = "INITIATOR"
    <3>1. /\ ag[a].u.side = "INITIATOR" /\ ag[Peer(a)].u.side = "RESPONDER"
          /\ Matching(ag[a].u, ag[Peer(a)].u)
      BY <2>2, <2>5, PairMatches, Zenon
    <3> QED BY <2>4, <3>1
  <2>6. CASE Role(env, Peer(a)) = "INITIATOR"
    <3>1. /\ ag[Peer(a)].u.side = "INITIATOR" /\ ag[a].u.side = "RESPONDER"
          /\ Matching(ag[a].u, ag[Peer(a)].u)
      BY <2>1, <2>2, <2>6, PairMatches, Zenon
    <3> QED BY <2>4, <3>1
  <2> QED BY <2>1, <2>3, <2>5, <2>6, SMTT(20)
<1>2. Agreement
  BY <1>1, Zenon DEF Agreement, Matching
<1>3. ASSUME NEW a \in Agents, ag[a].phase = "connected" PROVE Encrypted(ag[a].u)
  <2>1. CASE Role(env, a) = "INITIATOR"
    BY <1>3, <2>1, ConnectedAgent, Zenon DEF Confirmed
  <2>2. CASE Role(env, a) = "RESPONDER"
    <3>1. Served(ag[a].u, env.cfg[Peer(a)], env.cfg[a], Peer(a))
      BY <1>3, <2>2, ConnectedAgent, Zenon
    <3> QED BY <3>1, ResponderEncrypted, Zenon DEF Served
  <2>3. Role(env, a) # "DRAW"
    BY <1>3, ConnectedAgent, Zenon
  <2> QED BY <2>1, <2>2, <2>3, OneRole, SMTT(20)
<1>4. EnforcedIsSecured
  BY <1>3, Zenon DEF EnforcedIsSecured, Encrypted
<1> QED BY <1>2, <1>4, SMTT(20) DEF AgreedAndSecured

(* For every pair of sockets, cookies and bound on the network, in blocking *)
(* and in non-blocking mode, whatever is lost, duplicated or reordered: two *)
(* sockets that are connected by rendezvous (processRendezvous,             *)
(* processConnectResponse, processCtrlHS) have complementary roles and      *)
(* agree on the latencies, the filter, the congestion control and the keys, *)
(* and one that enforces encryption has it.                                 *)
THEOREM RendezvousAgrees == Spec => []AgreedAndSecured
<1>1. Init => Inv
  BY StartsInOrder
<1>2. Inv /\ [Next]_vars => Inv'
  BY StepKeeps
<1>3. Inv => AgreedAndSecured
  BY InvAgrees
<1> QED BY <1>1, <1>2, <1>3, PTL DEF Spec

=============================================================================
