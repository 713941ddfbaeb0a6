----------------------------- MODULE Rendezvous -----------------------------
(* The rendezvous connection of two sockets (HSv5) over a network that      *)
(* loses and duplicates datagrams.  A socket connects either in blocking    *)
(* mode, where startConnect resends a stored request and picks up the       *)
(* packets stored for it, or in non-blocking mode, where the worker of the  *)
(* multiplexer does both.                                                   *)
EXTENDS HsExt, Sequences

CONSTANTS Cases,  \* what may differ between two connections: the options the
                  \* sockets are opened with (cfg), their cookies (cookie),
                  \* whether datagrams overtake each other (reordering) and
                  \* whether the multiplexer has other traffic (traffic)
          Width,  \* bits of a cookie; 32 in the code
          MaxNet  \* datagrams in flight towards one socket

Agents == {"A", "B"}

(* A cookie has a fixed width; what a filter defaults to is a matter of its *)
(* type, not of the socket.                                                 *)
ASSUME CasesAssumption ==
  /\ \A e \in Cases : \A a \in Agents :
       /\ ConfigOk(e.cfg[a]) /\ e.cfg[a].rendezvous = TRUE /\ e.cookie[a] \in Int
       /\ e.cfg[a].filterDefaults = e.cfg["A"].filterDefaults
  /\ 2 ^ Width \in Nat \ {0} /\ MaxNet \in Nat

Peer(a) == IF a = "A" THEN "B" ELSE "A"

VARIABLES ag,   \* the two sockets
          net,  \* the datagrams on their way to each socket
          cst,  \* cst of the multiplexer's worker, kept between packets
          env   \* the case at hand

vars == <<ag, net, cst, env>>

(* A non-handshake packet or a handshake without extensions. *)
Packet(type, ext, reason, addressed) ==
  [type |-> type, ext |-> ext, reason |-> reason, addressed |-> addressed, twin |-> FALSE]

(******************************* the cookies ******************************)

(* Faulty: only the sign bit of the difference is looked at. *)
BadCookieContest(req, res) ==
  LET M == 2 ^ Width
  IN IF req = res THEN "DRAW"
     ELSE IF (((req - res) % M) + M) % M >= M \div 2 THEN "RESPONDER" ELSE "INITIATOR"

(* The contest of two w-bit cookies as the 64-bit code computes it: a       *)
(* difference whose sign bit is set in both directions falls to the larger. *)
backwardCompatibleCookieContest(req, res) ==
  LET M == 2 ^ Width
      H == M \div 2
      Low(x) == ((x % M) + M) % M
      contest == Low(req - res)
      revert  == Low(res - req)
  IN IF contest = 0 THEN "DRAW"
     ELSE IF contest >= H
          THEN IF revert >= H /\ req > res THEN "INITIATOR" ELSE "RESPONDER"
     ELSE "INITIATOR"

cookieContest(s) ==
  IF s.u.side # "DRAW" \/ s.cookie = 0 \/ s.res.cookie = 0 THEN s
  ELSE [s EXCEPT !.u.side = backwardCompatibleCookieContest(s.cookie, s.res.cookie)]

(************************* rendezvousSwitchState **************************)

(* The next state, the type of the answer, whether it carries extensions    *)
(* and whether these are the HSRSP ones.                                    *)
Switch(rdv, rsp, ext, hsrsp) == [rdv |-> rdv, rsp |-> rsp, ext |-> ext, hsrsp |-> hsrsp]

SwitchRogue == Switch("WAVING", "FAILURE", FALSE, FALSE)

(* Faulty: the loser does not answer a conclusion with extensions. *)
BadSwitchFromAttention(init, req, flags) ==
  CASE req \in {"WAVEAHAND", "CONCLUSION"} -> Switch("ATTENTION", "CONCLUSION", init, FALSE)
    [] OTHER -> SwitchRogue

SwitchFromAttention(init, req, flags) ==
  CASE req = "WAVEAHAND" -> Switch("ATTENTION", "CONCLUSION", init, FALSE)
    [] req = "CONCLUSION" /\ init ->
         IF flags THEN Switch("CONNECTED", "AGREEMENT", FALSE, FALSE)
                  ELSE Switch("ATTENTION", "CONCLUSION", TRUE, FALSE)
    [] req = "CONCLUSION" /\ ~init ->
         IF flags THEN Switch("INITIATED", "CONCLUSION", TRUE, TRUE)
                  ELSE Switch("ATTENTION", "CONCLUSION", FALSE, FALSE)
    [] req = "AGREEMENT" ->
         IF init THEN Switch("CONNECTED", "DONE", FALSE, FALSE)
                 ELSE Switch("ATTENTION", "CONCLUSION", TRUE, TRUE)
    [] OTHER -> SwitchRogue

SwitchFromFine(init, req, flags) ==
  CASE req = "CONCLUSION" ->
         IF init /\ flags THEN Switch("CONNECTED", "AGREEMENT", FALSE, FALSE)
                          ELSE Switch("FINE", "CONCLUSION", TRUE, ~init)
    [] req = "AGREEMENT" -> Switch("CONNECTED", "DONE", FALSE, FALSE)
    [] OTHER -> SwitchRogue

rendezvousSwitchState(rdv, init, req, flags) ==
  CASE rdv = "WAVING" ->
         (CASE req = "WAVEAHAND"  -> Switch("ATTENTION", "CONCLUSION", init, FALSE)
            [] req = "CONCLUSION" -> Switch("FINE", "CONCLUSION", TRUE, ~init)
            [] OTHER -> SwitchRogue)
    [] rdv = "ATTENTION" -> SwitchFromAttention(init, req, flags)
    [] rdv = "FINE"      -> SwitchFromFine(init, req, flags)
    [] rdv = "INITIATED" ->
         (CASE req = "AGREEMENT"  -> Switch("CONNECTED", "DONE", FALSE, FALSE)
            [] req = "CONCLUSION" -> Switch("INITIATED", "CONCLUSION", TRUE, TRUE)
            [] OTHER -> SwitchRogue)
    [] rdv = "CONNECTED" -> Switch("CONNECTED", "DONE", FALSE, FALSE)

(***************************** processRendezvous **************************)

Rejected(s, reason) ==
  [s |-> [s EXCEPT !.u.reason = reason], cst |-> "REJECT", out |-> <<>>]

Outcome(s, status, packets) == [s |-> s, cst |-> status, out |-> packets]

(* Connected: the socket leaves the rendezvous queue. *)
postConnect(s) ==
  [s EXCEPT !.phase = "connected", !.rdv = "CONNECTED", !.u.connected = TRUE]

(* Case 2 of the code: the extensions of the peer's HSREQ are answered; a   *)
(* periodic call (fresh = FALSE) answers from what is recorded.             *)
AnswerHsreq(s, ext, fresh) ==
  LET Created(c) ==
        IF c.u.fail THEN Outcome([s EXCEPT !.u = c.u, !.reqExt = TRUE], "REJECT", <<>>)
        ELSE Outcome([s EXCEPT !.u = c.u, !.reqExt = TRUE], "CONTINUE",
                     <<Packet("CONCLUSION", c.ext, "", TRUE)>>)
      Understood(k) ==
        IF k.u.fail THEN Outcome([s EXCEPT !.u = k.u], "REJECT", <<>>)
        ELSE Created(createSrtHandshake(k.u, "HSRSP", k.km))
  IN IF fresh THEN Understood(interpretSrtHandshake(s.u, ext))
     ELSE Understood(craftKmResponse([s.u EXCEPT !.fail = FALSE], s.res.km))

(* The answer with an HSREQ or none: sw is what rendezvousSwitchState said. *)
AnswerOther(s, sw) ==
  LET Created(c) ==
        IF c.u.fail THEN Outcome([s EXCEPT !.u = c.u], "REJECT", <<>>)
        ELSE Outcome([s EXCEPT !.u = c.u],
                     IF sw.rsp = "AGREEMENT" THEN "ACCEPT" ELSE "CONTINUE",
                     <<Packet(sw.rsp, c.ext, "", TRUE)>>)
  IN IF sw.rsp = "DONE" THEN Outcome(s, "ACCEPT", <<>>)
     ELSE IF sw.ext THEN Created(createSrtHandshake(s.u, "HSREQ", NoKm))
     ELSE Created([u |-> s.u, ext |-> NoExt])

(* The winner first interprets the HSRSP it is about to confirm. *)
processRendezvous(s0, ext, fresh) ==
  LET Interpreted(s, sw) ==
        IF s.u.fail THEN Outcome(s, "REJECT", <<>>)
        ELSE AnswerOther(IF s.rdv = "CONNECTED" THEN postConnect(s) ELSE s, sw)
      Understand(u, sw) ==
        IF u.side = "INITIATOR" /\ sw.rsp = "AGREEMENT" /\ fresh
        THEN interpretSrtHandshake(u, ext).u ELSE [u EXCEPT !.fail = FALSE]
      Switched(s, sw) ==
        IF sw.hsrsp THEN AnswerHsreq(s, ext, fresh)
        ELSE Interpreted([s EXCEPT !.u = Understand(@, sw)], sw)
      Decided(s, sw) ==
        IF sw.rsp = "FAILURE" THEN Rejected([s EXCEPT !.rdv = sw.rdv], "ROGUE")
        ELSE Switched([s EXCEPT !.rdv = sw.rdv, !.req = sw.rsp, !.reqExt = sw.ext,
                                !.u = [createCrypter(@) EXCEPT !.peerId = s.res.id]], sw)
      Contested(s) ==
        IF s.u.side = "DRAW" THEN Rejected(s, "RDVCOOKIE")
        ELSE Decided(s, rendezvousSwitchState(s.rdv, s.u.side = "INITIATOR",
                                              s.res.type, s.res.flags))
  IN IF s0.rdv = "CONNECTED" THEN Outcome(s0, "ACCEPT", <<>>)
     ELSE Contested(cookieContest(s0))

(******************************* the sockets ******************************)

NoRes == [type |-> "none", flags |-> FALSE, km |-> FALSE, id |-> "none", cookie |-> 0]

(* m_ConnRes.load_from *)
Loaded(a, m) ==
  [type |-> m.type, flags |-> m.ext # NoExt, id |-> Peer(a), cookie |-> ag[Peer(a)].cookie,
   km |-> m.ext # NoExt /\ m.ext.km # NoKm]

(* A connecting socket looks at a packet. *)
processConnectResponse(a, m) ==
  LET s == ag[a]
      t == [s EXCEPT !.res = Loaded(a, m)]
  IN IF m.type = "KEEPALIVE" /\ s.res # NoRes
     THEN Outcome(postConnect(s), "ACCEPT", <<>>)
     ELSE IF m.type \in {"KEEPALIVE", "SHUTDOWN"} THEN Rejected(s, "ROGUE")
     ELSE IF m.type = "FAILURE" THEN Rejected(t, m.reason)
     ELSE Outcome(t, "RENDEZVOUS", <<>>)

(* sendCtrl(UMSG_SHUTDOWN): only to a peer whose id is known. *)
Shutdown(s) ==
  IF s.u.peerId = "none" THEN <<>> ELSE <<Packet("SHUTDOWN", NoExt, "", TRUE)>>

(* The connection attempt ends: rejected is TRUE when processRendezvous     *)
(* said so, and then a failure handshake precedes the shutdown.             *)
GiveUp(s, rejected) ==
  LET r == IF s.u.reason = "UNKNOWN" THEN "ROGUE" ELSE s.u.reason
      t == [s EXCEPT !.phase = "failed", !.u.reason = r]
  IN Outcome(t, "REJECT",
             (IF rejected THEN <<Packet("FAILURE", NoExt, r, TRUE)>> ELSE <<>>) \o Shutdown(s))

(* A full path drops what it cannot hold. *)
Capped(q) == IF Len(q) > MaxNet THEN SubSeq(q, 1, MaxNet) ELSE q

Send(a, packets, rest) ==
  net' = [net EXCEPT ![a] = rest, ![Peer(a)] = Capped(@ \o packets)]

Put(a, s) == ag' = [ag EXCEPT ![a] = s]

Waving(a) == Packet("WAVEAHAND", NoExt, "", FALSE)

startConnect(a) ==
  /\ ag[a].phase = "opened"
  /\ Put(a, [ag[a] EXCEPT !.phase = "connecting", !.rdv = "WAVING", !.req = "WAVEAHAND",
                          !.stored = <<Waving(a)>>])
  /\ Send(a, <<Waving(a)>>, net[a])
  /\ UNCHANGED cst

(* Blocking mode: the stored request goes out every 250 ms. *)
SyncResend(a) ==
  /\ ag[a].phase = "connecting" /\ ag[a].sync
  /\ Len(net[Peer(a)]) < MaxNet
  /\ Send(a, ag[a].stored, net[a])
  /\ UNCHANGED <<ag, cst>>

(* What a fresh handshake makes of the socket, and what is sent at once. *)
OrGiveUp(p) == IF p.cst = "REJECT" THEN GiveUp(p.s, TRUE) ELSE p

HandleFresh(r, m) ==
  CASE r.cst = "ACCEPT" -> r
    [] r.cst = "REJECT" -> GiveUp(r.s, FALSE)
    [] r.cst = "RENDEZVOUS" -> OrGiveUp(processRendezvous(r.s, m.ext, TRUE))

(* Blocking mode: the answer becomes the stored request, which the next     *)
(* turn of the loop sends at once; an agreement goes out directly.          *)
SyncPacket(a) ==
  /\ ag[a].phase = "connecting" /\ ag[a].sync /\ net[a] # <<>>
  /\ \E p \in {HandleFresh(processConnectResponse(a, Head(net[a])), Head(net[a]))} :
       IF p.cst = "CONTINUE"
       THEN Put(a, [p.s EXCEPT !.stored = p.out]) /\ Send(a, <<>>, Tail(net[a]))
       ELSE Put(a, p.s) /\ Send(a, p.out, Tail(net[a]))
  /\ UNCHANGED cst

(* Non-blocking mode: the worker dispatches the packet and answers it in    *)
(* the same turn.                                                           *)
AsyncPacket(a) ==
  /\ ag[a].phase = "connecting" /\ ~ag[a].sync /\ net[a] # <<>>
  /\ \E r \in {processConnectResponse(a, Head(net[a]))} :
       /\ \E p \in {HandleFresh(r, Head(net[a]))} :
            Put(a, p.s) /\ Send(a, p.out, Tail(net[a]))
       /\ cst' = [cst EXCEPT ![a] = r.cst]

(* Non-blocking mode: the worker repeats the request after 250 ms, with the *)
(* status the last packet left.                                             *)
processAsyncConnectRequest(s, status) ==
  LET Created(c) ==
        IF c.u.fail THEN GiveUp([s EXCEPT !.u = c.u], FALSE)
        ELSE Outcome([s EXCEPT !.u = c.u], "CONTINUE",
                     <<Packet(s.req, c.ext, "", s.res # NoRes)>>)
  IN CASE status = "RENDEZVOUS" -> OrGiveUp(processRendezvous(s, NoExt, FALSE))
       [] status = "REJECT" -> GiveUp(s, FALSE)
       [] status \notin {"RENDEZVOUS", "REJECT"} ->
            IF s.reqExt THEN Created(createSrtHandshake(s.u, "HSREQ", NoKm))
            ELSE Created([u |-> [s.u EXCEPT !.fail = FALSE], ext |-> NoExt])

AsyncTick(a) ==
  /\ ag[a].phase = "connecting" /\ ~ag[a].sync
  /\ Len(net[Peer(a)]) < MaxNet
  /\ \E p \in {processAsyncConnectRequest(ag[a], cst[a])} :
       Put(a, p.s) /\ Send(a, p.out, net[a])
  /\ UNCHANGED cst

(* The time to live of the connection request has run out. *)
Expire(a) ==
  /\ ag[a].phase = "connecting"
  /\ Put(a, [ag[a] EXCEPT !.phase = "failed",
                          !.u.reason = IF @ = "UNKNOWN" \/ ag[a].sync THEN "TIMEOUT" ELSE @])
  /\ UNCHANGED <<net, cst>>

(* A handshake that reaches a connected socket is answered once more, after *)
(* its extensions are interpreted again; a failure breaks the connection.   *)
(* Packets without a destination id find no rendezvous socket any more.     *)
processCtrlHS(s, m) ==
  LET Interpreted(u) ==
        IF u.fail
        THEN Outcome([s EXCEPT !.u = [u EXCEPT !.reason = "ROGUE"], !.phase = "broken"],
                     "RUNNING", <<Packet("FAILURE", NoExt, "ROGUE", TRUE)>>)
        ELSE Outcome([s EXCEPT !.u = u], "RUNNING", <<Packet("AGREEMENT", NoExt, "", TRUE)>>)
  IN IF ~m.addressed \/ m.type = "AGREEMENT" THEN Outcome(s, "RUNNING", <<>>)
     ELSE IF ~s.res.flags
          THEN Outcome(s, "RUNNING", <<Packet("AGREEMENT", NoExt, "", TRUE)>>)
     ELSE Interpreted(interpretSrtHandshake(s.u, m.ext).u)

ConnectedPacket(a) ==
  /\ ag[a].phase = "connected" /\ net[a] # <<>>
  /\ \E p \in {LET m == Head(net[a])
               IN CASE m.type = "KEEPALIVE" -> Outcome(ag[a], "RUNNING", <<>>)
                    [] m.type = "SHUTDOWN"  ->
                         Outcome([ag[a] EXCEPT !.phase = "broken"], "RUNNING", <<>>)
                    [] OTHER -> processCtrlHS(ag[a], m)} :
       Put(a, p.s) /\ Send(a, p.out, Tail(net[a]))
  /\ cst' = [cst EXCEPT ![a] = "RUNNING"]

(* A connected socket sends data, or keepalives when it has none. *)
Keepalive(a) ==
  /\ ag[a].phase = "connected"
  /\ Len(net[Peer(a)]) < MaxNet
  /\ Send(a, <<Packet("KEEPALIVE", NoExt, "", TRUE)>>, net[a])
  /\ UNCHANGED <<ag, cst>>

(* The dispatcher knows no socket for the packet. *)
Ignore(a) ==
  /\ ag[a].phase \in {"opened", "failed", "broken"} /\ net[a] # <<>>
  /\ net' = [net EXCEPT ![a] = Tail(@)]
  /\ UNCHANGED <<ag, cst>>

Lose(a) ==
  /\ net[a] # <<>>
  /\ net' = [net EXCEPT ![a] = Tail(@)]
  /\ UNCHANGED <<ag, cst>>

Doubled(q) == LET m == [Head(q) EXCEPT !.twin = TRUE] IN <<m, m>> \o Tail(q)

(* A datagram is duplicated at most once. *)
Duplicate(a) ==
  /\ net[a] # <<>> /\ Len(net[a]) < MaxNet /\ ~Head(net[a]).twin
  /\ net' = [net EXCEPT ![a] = Doubled(@)]
  /\ UNCHANGED <<ag, cst>>

Reorder(a) ==
  /\ env.reordering /\ Len(net[a]) > 1
  /\ net' = [net EXCEPT ![a] = Tail(@) \o <<Head(@)>>]
  /\ UNCHANGED <<ag, cst>>

(* A datagram for nobody arrives at the port that a shares with others. *)
StrayPacket(a) ==
  /\ env.traffic /\ ag[a].phase = "connecting" /\ ~ag[a].sync
  /\ cst' = [cst EXCEPT ![a] = "AGAIN"]
  /\ UNCHANGED <<ag, net>>

Init ==
  /\ env \in Cases
  /\ \E b \in [Agents -> BOOLEAN] :
       ag = [a \in Agents |->
               [u |-> Socket(a, env.cfg[a]), cookie |-> env.cookie[a], sync |-> b[a], phase |-> "opened",
                rdv |-> "INVALID", req |-> "none", reqExt |-> FALSE, res |-> NoRes,
                stored |-> <<>>]]
  /\ net = [a \in Agents |-> <<>>]
  /\ cst = [a \in Agents |-> "AGAIN"]

Handle(a) == SyncPacket(a) \/ AsyncPacket(a) \/ ConnectedPacket(a) \/ Ignore(a)

Resend(a) == SyncResend(a) \/ AsyncTick(a)

Next ==
  /\ \E a \in Agents :
       \/ startConnect(a) \/ SyncResend(a) \/ SyncPacket(a) \/ AsyncPacket(a)
       \/ AsyncTick(a) \/ Expire(a) \/ ConnectedPacket(a) \/ Keepalive(a) \/ Ignore(a)
       \/ Lose(a) \/ Duplicate(a) \/ Reorder(a) \/ StrayPacket(a)
  /\ UNCHANGED env

(* Both applications connect, the workers keep running, and of infinitely   *)
(* many datagrams infinitely many are delivered: weak fairness of           *)
(* startConnect, Resend and Keepalive and strong fairness of Handle, with   *)
(* the guards of these actions written out.                                 *)
Fairness ==
  \A a \in Agents :
    /\ <>(ag[a].phase # "opened")
    /\ <>[](ag[a].phase = "connecting" /\ Len(net[Peer(a)]) < MaxNet) => []<><<Resend(a)>>_vars
    /\ <>[](ag[a].phase = "connected" /\ Len(net[Peer(a)]) < MaxNet) => []<><<Keepalive(a)>>_vars
    /\ []<>(net[a] # <<>>) => []<><<Handle(a)>>_vars

Spec == Init /\ [][Next]_vars

FairSpec == Spec /\ Fairness

(******************************* properties *******************************)

Both == \A a \in Agents : ag[a].phase = "connected"

(* Two sockets that are both connected agree on what was negotiated: their  *)
(* roles are complementary, the sender counts with the latency its receiver *)
(* uses, the larger of what the two asked for, the filters are the same up  *)
(* to defaults, the congestion control is the same, and the sender's key    *)
(* state is the one the receiver has.                                       *)
Agreement ==
  Both => \A a \in Agents :
    LET u == ag[a].u  v == ag[Peer(a)].u
    IN /\ u.side # v.side /\ u.side # "DRAW"
       /\ u.tsbpd => /\ v.peerTsbpd /\ v.peerDelay = u.delay
                     /\ u.delay = Max2(u.cfg.rcvLatency, v.cfg.peerLatency)
       /\ Over(u.filter, u.cfg.filterDefaults) = Over(v.filter, u.cfg.filterDefaults)
       /\ u.cfg.congctl = v.cfg.congctl
       /\ u.sndKm = v.rcvKm

(* A socket that enforces encryption is connected only with the key agreed. *)
EnforcedIsSecured ==
  \A a \in Agents : ag[a].phase = "connected" /\ ag[a].u.cfg.enforced /\ ag[a].u.cfg.secret # ""
     => ag[a].u.sndKm = "SECURED" /\ ag[a].u.rcvKm = "SECURED"

(* Connected sockets agree, and are secured where one of them insists on it. *)
AgreedAndSecured == Agreement /\ EnforcedIsSecured

(* Options and cookies that let two sockets connect. *)
Compatible ==
  LET c == env.cfg.A  d == env.cfg.B
  IN /\ c.secret = d.secret /\ c.messageAPI = d.messageAPI /\ c.congctl = d.congctl
     /\ c.filter = NoFilter /\ d.filter = NoFilter
     /\ c.minVersion <= d.version /\ d.minVersion <= c.version
     /\ env.cookie.A # env.cookie.B /\ env.cookie.A # 0 /\ env.cookie.B # 0

Quiet == ~env.reordering /\ ~env.traffic

(* Compatible sockets never reject or break each other, whatever is lost or *)
(* duplicated: the only way to fail is to run out of time.  Overtaking and  *)
(* traffic of other sockets do make them fail: see the README.              *)
NoFalseRejection ==
  Compatible /\ Quiet => \A a \in Agents :
     /\ ag[a].phase # "broken"
     /\ ag[a].phase = "failed" => ag[a].u.reason = "TIMEOUT"

Settled == Both \/ \E a \in Agents : ag[a].phase = "failed"

(* Compatible sockets end up connected unless one of them runs out of time. *)
RendezvousCompletes == Compatible /\ Quiet => <>Settled

=============================================================================
