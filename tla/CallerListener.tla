--------------------------- MODULE CallerListener ---------------------------
(* The caller-listener connection (HSv5): a caller in blocking or in        *)
(* non-blocking mode, a listener that answers the induction statelessly and *)
(* spawns a socket for a conclusion with a fresh cookie, and the sockets it *)
(* spawned.  Operators named Bad... are faulty variants.                    *)
EXTENDS HsExt, Sequences, FiniteSets, FiniteSetsExt

CONSTANTS Cases,      \* what may differ between two runs: the options of the
                      \* caller (c) and of the listener (l), blocking mode of
                      \* the caller (sync), whether other callers connect (busy),
                      \* how far the clock goes (minutes) and whether a datagram
                      \* may overtake others (reordering)
          Backlog,    \* length of the listener's accept queue
          MaxSockets, \* bound on the sockets spawned
          MaxNet      \* datagrams in flight in one direction

ASSUME CasesAssumption ==
  /\ \A e \in Cases : ConfigOk(e.c) /\ ConfigOk(e.l) /\ e.sync \in BOOLEAN
  /\ MaxNet \in Nat

VARIABLES caller, \* the calling socket
          env,    \* the case at hand; its sockets inherit the listener's options
          socks,  \* the sockets spawned, in order
          others, \* connections of other callers waiting to be accepted
          minute, \* the minute that goes into a cookie
          toL, toC \* datagrams towards the listener's port and the caller

vars == <<caller, env, socks, others, minute, toL, toC>>

(* dst is 0 for the listener, otherwise the number of the spawned socket;   *)
(* src is the socket number in a listener's answer.                         *)
Packet(type, ext, cookie, reason, sock) ==
  [type |-> type, ext |-> ext, cookie |-> cookie, reason |-> reason, sock |-> sock,
   twin |-> FALSE]

Capped(q) == SubSeq(q, 1, Min({MaxNet, Len(q)}))

Queued == others + Cardinality({i \in DOMAIN socks : socks[i].queued})

(******************************** the caller ******************************)

(* The request as createSrtHandshake serializes it now. *)
Request(c) ==
  LET w == IF c.req = "CONCLUSION" THEN createSrtHandshake(c.u, "HSREQ", NoKm)
           ELSE [u |-> [c.u EXCEPT !.fail = FALSE], ext |-> NoExt]
  IN [c |-> [c EXCEPT !.u = w.u], m |-> Packet(c.req, w.ext, c.cookie, "", 0)]

Shutdown(c) ==
  IF c.u.peerId = "none" THEN <<>> ELSE <<Packet("SHUTDOWN", NoExt, 0, "", c.peer)>>

Refused(c, r) == [cst |-> "REJECT", c |-> [c EXCEPT !.u.reason = r]]

(* Faulty: whatever is not a handshake refuses the connection. *)
BadNotHandshake(c, m) == Refused(c, "ROGUE")

(* A data or control packet may be early; a shutdown is a refusal. *)
NotHandshake(c, m) ==
  IF m.type = "SHUTDOWN" THEN Refused(c, "ROGUE")
  ELSE [cst |-> "CONFUSED", c |-> [c EXCEPT !.u.reason = "ROGUE"]]

(* What the caller makes of a packet: cst and the caller after it. *)
processConnectResponse(c, m) ==
  LET applied == [c EXCEPT !.peer = m.sock, !.u.peerId = "L"]
      v == interpretSrtHandshake(createCrypter(applied.u), m.ext).u
  IN CASE m.type \in {"SHUTDOWN", "KEEPALIVE"} -> NotHandshake(c, m)
       [] m.type = "FAILURE"   -> Refused(c, m.reason)
       [] m.type = "INDUCTION" ->
            [cst |-> "CONTINUE",
             c |-> [c EXCEPT !.cookie = m.cookie, !.req = "CONCLUSION",
                             !.u = createCrypter([@ EXCEPT !.side = "INITIATOR"])]]
       [] m.type = "CONCLUSION" ->
            IF v.fail THEN [cst |-> "REJECT", c |-> [applied EXCEPT !.u = v]]
            ELSE [cst |-> "ACCEPT",
                  c |-> [applied EXCEPT !.u = [v EXCEPT !.connected = TRUE],
                                        !.phase = "connected"]]

startConnect ==
  /\ caller.phase = "opened"
  /\ LET r == Request([caller EXCEPT !.phase = "connecting", !.req = "INDUCTION"])
     IN /\ caller' = [r.c EXCEPT !.stored = <<r.m>>]
        /\ toL' = Capped(Append(toL, r.m))
  /\ UNCHANGED <<env, socks, others, minute, toC>>

(* Blocking mode: the stored request every 250 ms; non-blocking mode: the   *)
(* request is serialized again.                                             *)
Resend ==
  /\ caller.phase = "connecting" /\ Len(toL) < MaxNet
  /\ LET r == Request(caller)
     IN IF caller.sync
        THEN toL' = toL \o caller.stored /\ UNCHANGED caller
        ELSE /\ caller' = IF r.c.u.fail THEN [r.c EXCEPT !.phase = "failed"] ELSE r.c
             /\ toL' = Capped(toL \o (IF r.c.u.fail THEN Shutdown(r.c) ELSE <<r.m>>))
  /\ UNCHANGED <<env, socks, others, minute, toC>>

CallerPacket ==
  /\ caller.phase = "connecting" /\ toC # <<>>
  /\ toC' = Tail(toC)
  /\ LET p == processConnectResponse(caller, Head(toC))
         r == Request(p.c)
     IN CASE p.cst = "REJECT" \/ (p.cst # "ACCEPT" /\ r.c.u.fail) ->
               /\ caller' = [p.c EXCEPT !.phase = "failed"]
               /\ toL' = Capped(toL \o Shutdown(p.c))
          [] p.cst = "ACCEPT" -> caller' = p.c /\ UNCHANGED toL
          [] p.cst \in {"CONTINUE", "CONFUSED"} /\ ~r.c.u.fail ->
               /\ caller' = [r.c EXCEPT !.stored = <<r.m>>]
               /\ toL' = IF caller.sync THEN toL ELSE Capped(Append(toL, r.m))
  /\ UNCHANGED <<env, socks, others, minute>>

(* Only an induction or a failure makes a connected caller answer: it       *)
(* interprets the extensions the packet does not have, and breaks.          *)
CallerConnectedPacket ==
  /\ caller.phase = "connected" /\ toC # <<>>
  /\ toC' = Tail(toC)
  /\ LET m == Head(toC)
         breaks == m.type \in {"INDUCTION", "FAILURE"}
     IN /\ caller' = [caller EXCEPT !.phase = IF breaks \/ m.type = "SHUTDOWN" THEN "broken" ELSE @,
                                    !.u.reason = IF breaks THEN "ROGUE" ELSE @]
        /\ toL' = IF breaks THEN Capped(Append(toL, Packet("FAILURE", NoExt, 0, "ROGUE", caller.peer)))
                  ELSE toL
  /\ UNCHANGED <<env, socks, others, minute>>

CallerIgnores ==
  /\ caller.phase \in {"opened", "failed", "broken", "expired"} /\ toC # <<>>
  /\ toC' = Tail(toC)
  /\ UNCHANGED <<caller, env, socks, others, minute, toL>>

CallerExpires ==
  /\ caller.phase = "connecting"
  /\ caller' = [caller EXCEPT !.phase = "expired",
                              !.u.reason = IF @ = "UNKNOWN" \/ caller.sync THEN "TIMEOUT" ELSE @]
  /\ UNCHANGED <<env, socks, others, minute, toL, toC>>

(******************************* the listener *****************************)

Failure(r) == Packet("FAILURE", NoExt, 0, r, 0)

\* Faulty: the peer is not looked up.
BadlocatePeer == 0

(* The socket the peer's address, id and ISN lead to; a younger socket has  *)
(* a smaller id and is found first.                                         *)
locatePeer ==
  LET known == {i \in DOMAIN socks : socks[i].status # "gone"}
  IN IF known = {} THEN 0 ELSE Max(known)

acceptAndRespond(m) ==
  LET u == createCrypter([Socket("L", env.l) EXCEPT !.side = "RESPONDER", !.peerId = "C"])
      k == interpretSrtHandshake(u, m.ext)
      c == createSrtHandshake(k.u, "HSRSP", k.km)
  IN IF k.u.fail THEN [u |-> k.u, ext |-> NoExt]
     ELSE [u |-> [c.u EXCEPT !.connected = TRUE], ext |-> c.ext]

(* sk are the spawned sockets after the broken one with this peer is dropped *)
(* from the accept queue.                                                   *)
newConnection(m) ==
  LET old == locatePeer
      sk  == [i \in DOMAIN socks |->
                IF i = old THEN [socks[i] EXCEPT !.queued = FALSE] ELSE socks[i]]
      full == others + Cardinality({i \in DOMAIN sk : sk[i].queued}) >= Backlog
      a    == acceptAndRespond(m)
      Answer(p) == toC' = Capped(Append(toC, p))
  IN IF full \/ env.l.hookRejects \/ a.u.fail
     THEN /\ socks' = sk
          /\ Answer(Failure(IF full THEN "BACKLOG"
                            ELSE IF env.l.hookRejects THEN "PEER" ELSE a.u.reason))
     ELSE /\ Len(socks) < MaxSockets
          /\ socks' = Append(sk, [u |-> a.u, hadKm |-> m.ext.km # NoKm, queued |-> TRUE,
                                  status |-> "connected"])
          /\ Answer(Packet("CONCLUSION", a.ext, 0, "", Len(sk) + 1))

(* Faulty: a repeated conclusion is ignored. *)
BadRepeatResponse(i) == UNCHANGED <<socks, toC>>

(* A repeated conclusion: the answer is crafted again from what the         *)
(* existing socket has recorded; the request is not interpreted again.      *)
RepeatResponse(i) ==
  LET k == craftKmResponse([socks[i].u EXCEPT !.fail = FALSE], socks[i].hadKm)
      c == createSrtHandshake(k.u, "HSRSP", k.km)
      Answer(p) == toC' = Capped(Append(toC, p))
  IN IF k.u.fail
     THEN socks' = [socks EXCEPT ![i].u = k.u] /\ UNCHANGED toC
     ELSE /\ socks' = [socks EXCEPT ![i].u = c.u]
          /\ Answer(IF c.u.fail THEN Failure("IPE") ELSE Packet("CONCLUSION", c.ext, 0, "", i))

(* bake: the cookie of this minute, or of the one before. *)
FreshCookies == {minute, minute - 1}

processConnectRequest ==
  /\ toL # <<>> /\ Head(toL).sock = 0
  /\ toL' = Tail(toL)
  /\ LET m == Head(toL)
         i == locatePeer
     IN CASE m.type = "INDUCTION" ->
               /\ toC' = Capped(Append(toC, Packet("INDUCTION", NoExt, minute, "", 0)))
               /\ UNCHANGED socks
          [] m.type = "CONCLUSION" /\ m.cookie \notin FreshCookies -> UNCHANGED <<socks, toC>>
          [] m.type = "CONCLUSION" /\ m.cookie \in FreshCookies ->
               IF i # 0 /\ socks[i].status = "connected" THEN RepeatResponse(i)
               ELSE newConnection(m)
  /\ UNCHANGED <<caller, env, others, minute>>

(* A packet for a spawned socket; one that is gone drops it.  A failure     *)
(* notice counts as a lost answer and gets a plain conclusion.              *)
AcceptedPacket ==
  /\ toL # <<>> /\ Head(toL).sock # 0
  /\ toL' = Tail(toL)
  /\ LET m == Head(toL)
         live == m.sock \in DOMAIN socks /\ socks[m.sock].status = "connected"
     IN /\ socks' = IF live /\ m.type = "SHUTDOWN" THEN [socks EXCEPT ![m.sock].status = "shutdown"]
                    ELSE socks
        /\ toC' = IF live /\ m.type = "FAILURE"
                  THEN Capped(Append(toC, Packet("CONCLUSION", NoExt, 0, "", m.sock)))
                  ELSE toC
  /\ UNCHANGED <<caller, env, others, minute>>

(* An idle socket sends a keepalive (when nothing is on its way: a bound).  *)
AcceptedKeepalive(i) ==
  /\ socks[i].status = "connected" /\ toC = <<>>
  /\ toC' = <<[Packet("KEEPALIVE", NoExt, 0, "", i) EXCEPT !.twin = TRUE]>>
  /\ UNCHANGED <<caller, env, socks, others, minute, toL>>

(* The expiration timer of a socket that hears nothing from its caller. *)
AcceptedExpires(i) ==
  /\ socks[i].status = "connected" /\ ~(caller.phase = "connected" /\ caller.peer = i)
  /\ socks' = [socks EXCEPT ![i].status = "broken"]
  /\ UNCHANGED <<caller, env, others, minute, toL, toC>>

(* closeInternal, by the application or the garbage collector. *)
AcceptedCloses(i) ==
  /\ socks[i].status # "gone" /\ (socks[i].status = "connected" => ~socks[i].queued)
  /\ socks' = [socks EXCEPT ![i].status = "gone", ![i].queued = FALSE]
  /\ toC' = IF socks[i].status = "shutdown" THEN toC
            ELSE Capped(Append(toC, Packet("SHUTDOWN", NoExt, 0, "", i)))
  /\ UNCHANGED <<caller, env, others, minute, toL>>

accept ==
  /\ \/ others > 0 /\ others' = others - 1 /\ UNCHANGED socks
     \/ \E i \in DOMAIN socks : socks[i].queued /\ socks' = [socks EXCEPT ![i].queued = FALSE]
                              /\ UNCHANGED others
  /\ UNCHANGED <<caller, env, minute, toL, toC>>

OtherCaller ==
  /\ env.busy /\ Queued < Backlog
  /\ others' = others + 1
  /\ UNCHANGED <<caller, env, socks, minute, toL, toC>>

MinutePasses ==
  /\ minute < env.minutes
  /\ minute' = minute + 1
  /\ UNCHANGED <<caller, env, socks, others, toL, toC>>

(******************************** the network *****************************)

Lose ==
  /\ \/ toL # <<>> /\ toL' = Tail(toL) /\ UNCHANGED toC
     \/ toC # <<>> /\ toC' = Tail(toC) /\ UNCHANGED toL
  /\ UNCHANGED <<caller, env, socks, others, minute>>

(* A datagram is duplicated at most once. *)
Doubled(q) == <<[Head(q) EXCEPT !.twin = TRUE], [Head(q) EXCEPT !.twin = TRUE]>> \o Tail(q)

Duplicate ==
  /\ \/ toL # <<>> /\ Len(toL) < MaxNet /\ ~Head(toL).twin /\ toL' = Doubled(toL) /\ UNCHANGED toC
     \/ toC # <<>> /\ Len(toC) < MaxNet /\ ~Head(toC).twin /\ toC' = Doubled(toC) /\ UNCHANGED toL
  /\ UNCHANGED <<caller, env, socks, others, minute>>

Overtake ==
  /\ env.reordering
  /\ \/ Len(toL) > 1 /\ toL' = Append(Tail(toL), Head(toL)) /\ UNCHANGED toC
     \/ Len(toC) > 1 /\ toC' = Append(Tail(toC), Head(toC)) /\ UNCHANGED toL
  /\ UNCHANGED <<caller, env, socks, others, minute>>

(******************************* specification ****************************)

Init ==
  /\ env \in Cases
  /\ caller = [u |-> Socket("C", env.c), phase |-> "opened", sync |-> env.sync,
               req |-> "INDUCTION", cookie |-> 0, stored |-> <<>>, peer |-> 0]
  /\ socks = <<>> /\ others = 0 /\ minute = 1
  /\ toL = <<>> /\ toC = <<>>

CallerHandles == CallerPacket \/ CallerConnectedPacket \/ CallerIgnores

AnswerArrives == toC # <<>> /\ Head(toC).type # "KEEPALIVE"

ListenerHandles == processConnectRequest \/ AcceptedPacket

Next ==
  \/ startConnect \/ Resend \/ CallerHandles \/ ListenerHandles \/ CallerExpires
  \/ \E i \in DOMAIN socks : AcceptedKeepalive(i) \/ AcceptedExpires(i) \/ AcceptedCloses(i)
  \/ accept \/ OtherCaller \/ MinutePasses
  \/ Lose \/ Duplicate \/ Overtake

(* The caller connects and keeps asking, the workers keep running, and of   *)
(* infinitely many datagrams (of answers towards the caller) infinitely     *)
(* many are delivered; guards written out.                                  *)
Fairness ==
  /\ <>(caller.phase # "opened")
  /\ <>[](caller.phase = "connecting" /\ Len(toL) < MaxNet) => []<><<Resend>>_vars
  /\ []<>(toL # <<>>) => []<><<ListenerHandles>>_vars
  /\ <>[](toC # <<>>) => []<><<CallerHandles>>_vars
  /\ []<>AnswerArrives => []<><<AnswerArrives /\ CallerHandles>>_vars

Spec == Init /\ [][Next]_vars

FairSpec == Spec /\ Fairness

(******************************* properties *******************************)

(* A connected caller and the socket its peer id names agree on what was    *)
(* negotiated: latencies, filter, congestion control and key states.        *)
Agreement ==
  caller.phase = "connected" =>
    LET Matches(u, v) == /\ u.tsbpd => /\ v.peerTsbpd /\ v.peerDelay = u.delay
                                       /\ u.delay = Max2(u.cfg.rcvLatency, v.cfg.peerLatency)
                         /\ Over(u.filter, u.cfg.filterDefaults) = Over(v.filter, u.cfg.filterDefaults)
                         /\ u.cfg.congctl = v.cfg.congctl
                         /\ u.sndKm = v.rcvKm
        s == socks[caller.peer].u
    IN Matches(caller.u, s) /\ Matches(s, caller.u)

(* A caller that repeats its conclusion never gets a second socket while    *)
(* the first one is alive.                                                  *)
OneSocketPerCaller == Cardinality({i \in DOMAIN socks : socks[i].status = "connected"}) <= 1

(* An end that enforces its passphrase is connected only when encrypted. *)
EnforcedIsSecured ==
  LET Secured(u) == u.cfg.enforced /\ u.cfg.secret # ""
                      => u.sndKm = "SECURED" /\ u.rcvKm = "SECURED"
  IN /\ caller.phase = "connected" => Secured(caller.u)
     /\ \A i \in DOMAIN socks : Secured(socks[i].u)

(* The two ends agree, and are secured where one of them insists on it. *)
AgreedAndSecured == Agreement /\ EnforcedIsSecured

Compatible ==
  LET c == caller.u.cfg
  IN /\ c.secret = env.l.secret /\ c.messageAPI = env.l.messageAPI /\ c.congctl = env.l.congctl
     /\ c.filter = NoFilter /\ ~env.l.hookRejects

(* A caller whose options suit the listener is not turned away or broken    *)
(* unless the accept queue is full or its socket has ended.  A late copy of *)
(* the induction answer does break it: see the README.                      *)
NoFalseRejection ==
  Compatible /\ ~env.reordering /\ caller.phase \in {"failed", "broken"} =>
    \/ caller.u.reason = "BACKLOG"
    \/ \E i \in DOMAIN socks : socks[i].status # "connected"

(* However often requests and answers are lost, a caller that does not give *)
(* up is either connected or rejected in the end.                           *)
CallerResolves == caller.phase = "connecting" ~> caller.phase # "connecting"

=============================================================================
