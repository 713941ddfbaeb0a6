---------------------------- MODULE HsExtProofs ----------------------------
(* The handshake extensions, for every pair of configurations: what each    *)
(* function of the exchange leaves in a socket, what the two ends have      *)
(* negotiated once the responder has answered (ResponderNegotiates) and the *)
(* initiator has accepted the answer (InitiatorAgrees), and that answering  *)
(* a repeated request changes none of it (RepeatAnswer).                    *)
EXTENDS HsExt, Sequences, TLAPS

(* The fields of a socket; as a record it is a function of them. *)

Fields == {"id", "cfg", "side", "filter", "startTime", "tsbpd", "peerTsbpd", "delay",
           "peerDelay", "peerDrop", "peerNak", "crypto", "sndCtx", "rcvCtx", "sndKm", "rcvKm",
           "kmMsg", "connected", "peerId", "reason", "fail"}

IsSocket(u) == u = [f \in Fields |-> u[f]]

(* v is the socket u but for the members in S. *)
Kept(u, v, S) == IsSocket(v) /\ \A f \in Fields \ S : v[f] = u[f]

KeyFields == {"sndKm", "rcvKm", "kmMsg", "sndCtx", "rcvCtx", "reason", "fail"}

(* Rejecting (m_RejectReason) touches nothing else. *)
LEMMA RejectOnly ==
  ASSUME NEW u, IsSocket(u), NEW r
  PROVE  Kept(u, Reject(u, r), {"reason", "fail"}) /\ Reject(u, r).fail = TRUE
  BY DEF Kept, IsSocket, Reject, Fields

(* A handshake starts without a failure (createSrtHandshake, interpretSrtHandshake). *)
LEMMA Cleared ==
  ASSUME NEW u, IsSocket(u)
  PROVE  Kept(u, [u EXCEPT !.fail = FALSE], {"fail"}) /\ [u EXCEPT !.fail = FALSE].fail = FALSE
  BY ZenonT(30) DEF Kept, IsSocket, Fields

(* createCrypter sets the key states from the passphrase and the side, and nothing else. *)
LEMMA Crypter ==
  ASSUME NEW u, IsSocket(u), u.crypto = FALSE
  PROVE  LET v == createCrypter(u)
             ctx == u.cfg.secret # "" /\ u.side = "INITIATOR"
         IN /\ Kept(u, v, {"crypto", "sndKm", "rcvKm", "sndCtx", "rcvCtx", "kmMsg"})
            /\ v.crypto = TRUE /\ v.rcvKm = "UNSECURED"
            /\ v.sndKm = IF u.cfg.secret # "" THEN "SECURING" ELSE "UNSECURED"
            /\ v.sndCtx = ctx /\ v.rcvCtx = ctx
            /\ v.kmMsg = IF ctx THEN [pw |-> u.cfg.secret, key |-> u.id] ELSE NoKm
<1> DEFINE pw == u.cfg.secret # ""
           ctx == pw /\ u.side = "INITIATOR"
           v == createCrypter(u)
<1>1. v = [u EXCEPT !.crypto = TRUE, !.rcvKm = "UNSECURED",
                    !.sndKm = IF pw THEN "SECURING" ELSE "UNSECURED",
                    !.sndCtx = ctx, !.rcvCtx = ctx,
                    !.kmMsg = IF ctx THEN [pw |-> u.cfg.secret, key |-> u.id] ELSE NoKm]
  BY Zenon DEF createCrypter
<1> HIDE DEF v, pw
<1>2. IsSocket(v) /\ v.crypto = TRUE /\ v.rcvKm = "UNSECURED" /\ v.sndKm = IF pw THEN "SECURING" ELSE "UNSECURED"
  BY <1>1, ZenonT(30) DEF IsSocket, Fields
<1>3. v.sndCtx = ctx /\ v.rcvCtx = ctx
  BY <1>1 DEF IsSocket, Fields
<1>4. v.kmMsg = IF ctx THEN [pw |-> u.cfg.secret, key |-> u.id] ELSE NoKm
  BY <1>1 DEF IsSocket, Fields
<1>5. \A f \in Fields \ {"crypto", "sndKm", "rcvKm", "sndCtx", "rcvCtx", "kmMsg"} : v[f] = u[f]
  BY <1>1, ZenonT(30) DEF IsSocket, Fields
<1> QED BY <1>2, <1>3, <1>4, <1>5, Zenon DEF Kept, v, pw

TimeFields == {"startTime", "delay", "peerDelay", "tsbpd", "peerTsbpd", "peerDrop", "peerNak"}

(* v is u after it accepted the request hs. *)
RequestTaken(u, hs, v) ==
  /\ Kept(u, v, TimeFields) /\ v.startTime = TRUE
  /\ v.tsbpd = (u.tsbpd \/ (hs.tsbpdSnd /\ u.cfg.tsbpd))
  /\ v.delay = (IF hs.tsbpdSnd /\ u.cfg.tsbpd THEN Max2(u.cfg.rcvLatency, hs.sndLat)
                ELSE u.cfg.rcvLatency)
  /\ v.peerTsbpd = (u.peerTsbpd \/ hs.tsbpdRcv)
  /\ v.peerDelay = (IF hs.tsbpdRcv THEN Max2(u.cfg.peerLatency, hs.rcvLat)
                    ELSE u.cfg.peerLatency)

(* processSrtMsg_HSREQ, when it does not reject. *)
LEMMA HsReqAccepted ==
  ASSUME NEW u, IsSocket(u), NEW hs, u.fail = FALSE,
         processSrtMsg_HSREQ(u, hs).fail # TRUE
  PROVE  RequestTaken(u, hs, processSrtMsg_HSREQ(u, hs))
<1> DEFINE fixed == [u EXCEPT !.startTime = TRUE, !.delay = u.cfg.rcvLatency,
                              !.peerDelay = u.cfg.peerLatency]
           v == processSrtMsg_HSREQ(u, hs)
           w == [fixed EXCEPT
                  !.tsbpd     = u.tsbpd \/ (hs.tsbpdSnd /\ u.cfg.tsbpd),
                  !.delay     = IF hs.tsbpdSnd /\ u.cfg.tsbpd THEN Max2(@, hs.sndLat) ELSE @,
                  !.peerTsbpd = u.peerTsbpd \/ hs.tsbpdRcv,
                  !.peerDelay = IF hs.tsbpdRcv THEN Max2(@, hs.rcvLat) ELSE @,
                  !.peerDrop  = @ \/ hs.drop,
                  !.peerNak   = @ \/ hs.nak]
<1>1. /\ IsSocket(fixed) /\ fixed.startTime = TRUE
      /\ fixed.delay = u.cfg.rcvLatency /\ fixed.peerDelay = u.cfg.peerLatency
      /\ \A f \in Fields \ {"startTime", "delay", "peerDelay"} : fixed[f] = u[f]
  BY DEF IsSocket, Fields
<1>2. v = IF hs.ver < u.cfg.minVersion THEN Reject(fixed, "VERSION")
          ELSE IF hs.stream = u.cfg.messageAPI THEN Reject(fixed, "MESSAGEAPI")
          ELSE w
  BY DEF processSrtMsg_HSREQ
<1>3. v.fail # TRUE
  BY ZenonT(30)
<1> HIDE DEF v, fixed
<1>4. v = w
  BY <1>1, <1>2, <1>3, RejectOnly, Zenon DEF Kept
<1>5. IsSocket(v)
  BY <1>4, <1>1 DEF IsSocket
<1>6. v.tsbpd = (u.tsbpd \/ (hs.tsbpdSnd /\ u.cfg.tsbpd))
  BY <1>4, <1>1 DEF IsSocket, Fields
<1>7. v.peerTsbpd = (u.peerTsbpd \/ hs.tsbpdRcv)
  BY <1>4, <1>1 DEF IsSocket, Fields
<1>8. v.delay = (IF hs.tsbpdSnd /\ u.cfg.tsbpd THEN Max2(u.cfg.rcvLatency, hs.sndLat)
                 ELSE u.cfg.rcvLatency)
  BY <1>4, <1>1 DEF IsSocket, Fields
<1>9. v.peerDelay = (IF hs.tsbpdRcv THEN Max2(u.cfg.peerLatency, hs.rcvLat)
                     ELSE u.cfg.peerLatency)
  BY <1>4, <1>1 DEF IsSocket, Fields
<1>10. \A f \in (Fields \ TimeFields) \cup {"startTime"} : v[f] = fixed[f]
  BY <1>4, <1>1, ZenonT(30) DEF IsSocket, Fields, TimeFields
<1>11. /\ \A f \in Fields \ TimeFields : v[f] = u[f]
       /\ v.startTime = TRUE
  BY <1>1, <1>10 DEF TimeFields
<1> QED BY <1>5, <1>6, <1>7, <1>8, <1>9, <1>11, Zenon DEF Kept, v, RequestTaken

(* v is u after it accepted the answer hs. *)
AnswerTaken(u, hs, v) ==
  /\ Kept(u, v, TimeFields) /\ v.startTime = TRUE
  /\ v.tsbpd = (u.tsbpd \/ (hs.tsbpdSnd /\ u.cfg.tsbpd))
  /\ v.delay = (IF hs.tsbpdSnd /\ u.cfg.tsbpd THEN hs.sndLat ELSE u.delay)
  /\ v.peerTsbpd = (u.peerTsbpd \/ hs.tsbpdRcv)
  /\ v.peerDelay = (IF hs.tsbpdRcv THEN hs.rcvLat ELSE u.peerDelay)

(* processSrtMsg_HSRSP, when it does not reject. *)
LEMMA HsRspAccepted ==
  ASSUME NEW u, IsSocket(u), NEW hs, u.fail = FALSE,
         processSrtMsg_HSRSP(u, hs).fail # TRUE
  PROVE  AnswerTaken(u, hs, processSrtMsg_HSRSP(u, hs))
<1> DEFINE started == [u EXCEPT !.startTime = TRUE]
           v == processSrtMsg_HSRSP(u, hs)
           w == [started EXCEPT
                  !.peerTsbpd = @ \/ hs.tsbpdRcv,
                  !.peerDelay = IF hs.tsbpdRcv THEN hs.rcvLat ELSE @,
                  !.tsbpd     = @ \/ (hs.tsbpdSnd /\ u.cfg.tsbpd),
                  !.delay     = IF hs.tsbpdSnd /\ u.cfg.tsbpd THEN hs.sndLat ELSE @,
                  !.peerDrop  = @ \/ hs.drop,
                  !.peerNak   = @ \/ hs.nak]
<1>1. /\ IsSocket(started) /\ started.startTime = TRUE
      /\ \A f \in Fields \ {"startTime"} : started[f] = u[f]
  BY ZenonT(30) DEF IsSocket, Fields
<1>2. v = IF hs.ver < u.cfg.minVersion THEN Reject(started, "VERSION") ELSE w
  BY DEF processSrtMsg_HSRSP
<1>3. v.fail # TRUE
  BY ZenonT(30)
<1> HIDE DEF v, started
<1>4. v = w
  BY <1>1, <1>2, <1>3, RejectOnly, Zenon DEF Kept
<1>5. IsSocket(v)
  BY <1>4, <1>1 DEF IsSocket
<1>6. v.tsbpd = (u.tsbpd \/ (hs.tsbpdSnd /\ u.cfg.tsbpd))
  BY <1>4, <1>1 DEF IsSocket, Fields
<1>7. v.peerTsbpd = (u.peerTsbpd \/ hs.tsbpdRcv)
  BY <1>4, <1>1 DEF IsSocket, Fields
<1>8. v.delay = (IF hs.tsbpdSnd /\ u.cfg.tsbpd THEN hs.sndLat ELSE u.delay)
  BY <1>4, <1>1 DEF IsSocket, Fields
<1>9. v.peerDelay = (IF hs.tsbpdRcv THEN hs.rcvLat ELSE u.peerDelay)
  BY <1>4, <1>1 DEF IsSocket, Fields
<1>10. \A f \in (Fields \ TimeFields) \cup {"startTime"} : v[f] = started[f]
  BY <1>4, <1>1, ZenonT(30) DEF IsSocket, Fields, TimeFields
<1>11. /\ \A f \in Fields \ TimeFields : v[f] = u[f]
       /\ v.startTime = TRUE
  BY <1>1, <1>10 DEF TimeFields
<1> QED BY <1>5, <1>6, <1>7, <1>8, <1>9, <1>11, Zenon DEF Kept, v, AnswerTaken

(* A responder before the key exchange. *)
NoKeysYet(u) ==
  /\ IsSocket(u) /\ u.fail = FALSE
  /\ u.rcvCtx = FALSE /\ u.sndCtx = FALSE /\ u.kmMsg = NoKm
  /\ u.cfg.secret # "" => u.sndKm = "SECURING"
  /\ u.cfg.secret = "" => u.sndKm = "UNSECURED"

(* v is u after it was asked with km; rsp is its answer. *)
KeysSettled(u, v, km, rsp) ==
  \/ /\ u.cfg.secret = "" /\ rsp = KmReport("NOSECRET") /\ v.kmMsg = NoKm
     /\ v.sndKm = "UNSECURED" /\ v.rcvKm = "NOSECRET"
  \/ /\ u.cfg.secret # "" /\ km.pw # u.cfg.secret
     /\ rsp = KmReport("BADSECRET") /\ v.kmMsg = NoKm
     /\ v.sndKm = "BADSECRET" /\ v.rcvKm = "BADSECRET"
  \/ /\ u.cfg.secret # "" /\ km.pw = u.cfg.secret
     /\ rsp = km /\ v.kmMsg = km
     /\ v.sndKm = "SECURED" /\ v.rcvKm = "SECURED"

(* What a responder makes of a key message (processSrtMsg_KMREQ), and the   *)
(* report it answers with.                                                  *)
LEMMA KmReqHandled ==
  ASSUME NEW u, NoKeysYet(u), NEW km
  PROVE  LET q == processSrtMsg_KMREQ(u, km)
         IN /\ Kept(u, q.u, KeyFields) /\ q.u.fail = FALSE /\ q.rsp = "KMRSP"
            /\ KeysSettled(u, q.u, km, q.km)
<1> DEFINE q == processSrtMsg_KMREQ(u, km)
           securing == [u EXCEPT !.rcvKm = "SECURING"]
           withCtx == [securing EXCEPT !.rcvCtx = TRUE]
           secured == [withCtx EXCEPT !.rcvKm = "SECURED"]
           bad == [withCtx EXCEPT !.sndKm = "BADSECRET"]
<1>1. IsSocket(u) /\ u.fail = FALSE /\ u.sndCtx = FALSE /\ u.kmMsg = NoKm
  BY DEF NoKeysYet
<1>2. /\ Kept(u, securing, {"rcvKm"})
      /\ Kept(u, secured, {"rcvKm", "rcvCtx"}) /\ secured.rcvKm = "SECURED"
      /\ Kept(u, bad, {"rcvKm", "rcvCtx", "sndKm"}) /\ bad.sndKm = "BADSECRET"
  BY <1>1 DEF Kept, IsSocket, Fields
<1>3. CASE u.cfg.secret = ""
  <2>1. q = [u |-> [securing EXCEPT !.rcvKm = "NOSECRET",
                                    !.sndCtx = securing.sndCtx \/ securing.cfg.secret # ""],
             rsp |-> "KMRSP", km |-> KmReport("NOSECRET")]
    BY <1>3 DEF processSrtMsg_KMREQ, KmreqError, NoKeysYet
  <2>2. u.sndKm = "UNSECURED"
    BY <1>3 DEF NoKeysYet
  <2> HIDE DEF q, securing, withCtx, secured, bad
  <2>3. Kept(securing, q.u, {"rcvKm", "sndCtx"}) /\ q.u.rcvKm = "NOSECRET"
    BY <2>1, <1>2 DEF Kept, IsSocket, Fields
  <2>4. Kept(u, q.u, KeyFields) /\ q.u.fail = FALSE /\ q.u.kmMsg = NoKm /\ q.u.sndKm = "UNSECURED"
    BY <1>1, <1>2, <2>2, <2>3 DEF Kept, KeyFields, Fields
  <2>5. q.rsp = "KMRSP" /\ q.km = KmReport("NOSECRET")
    BY <2>1
  <2> QED BY <1>3, <2>3, <2>4, <2>5, Zenon DEF q, KeysSettled
<1>4. CASE u.cfg.secret # "" /\ km.pw # u.cfg.secret
  <2>1. q = [u |-> [bad EXCEPT !.rcvKm = "BADSECRET", !.sndCtx = bad.sndCtx \/ bad.cfg.secret # ""],
             rsp |-> "KMRSP", km |-> KmReport("BADSECRET")]
    BY <1>4 DEF processSrtMsg_KMREQ, KmreqError, NoKeysYet
  <2> HIDE DEF q, securing, withCtx, secured, bad
  <2>2. Kept(bad, q.u, {"rcvKm", "sndCtx"}) /\ q.u.rcvKm = "BADSECRET"
    BY <2>1, <1>2 DEF Kept, IsSocket, Fields
  <2>3. Kept(u, q.u, KeyFields) /\ q.u.fail = FALSE /\ q.u.kmMsg = NoKm /\ q.u.sndKm = "BADSECRET"
    BY <1>1, <1>2, <2>2 DEF Kept, KeyFields, Fields
  <2>4. q.rsp = "KMRSP" /\ q.km = KmReport("BADSECRET")
    BY <2>1
  <2> QED BY <1>4, <2>4, <2>2, <2>3, Zenon DEF q, KeysSettled
<1>5. CASE u.cfg.secret # "" /\ km.pw = u.cfg.secret
  <2>1. q = [u |-> IF secured.sndKm = "SECURING" /\ ~secured.sndCtx
                   THEN [secured EXCEPT !.sndCtx = TRUE, !.sndKm = "SECURED", !.kmMsg = km]
                   ELSE secured,
             rsp |-> "KMRSP", km |-> km]
    BY <1>5 DEF processSrtMsg_KMREQ, NoKeysYet
  <2> HIDE DEF q, securing, withCtx, secured, bad
  <2>2. secured.sndKm = "SECURING" /\ secured.sndCtx = FALSE
    BY <1>1, <1>2, <1>5 DEF Kept, Fields, NoKeysYet
  <2>3. q.u = [secured EXCEPT !.sndCtx = TRUE, !.sndKm = "SECURED", !.kmMsg = km]
    BY <2>1, <2>2
  <2>4. Kept(secured, q.u, {"sndCtx", "sndKm", "kmMsg"}) /\ q.u.sndKm = "SECURED" /\ q.u.kmMsg = km
    BY <2>3, <1>2 DEF Kept, IsSocket, Fields
  <2>5. Kept(u, q.u, KeyFields) /\ q.u.fail = FALSE /\ q.u.rcvKm = "SECURED"
    BY <1>1, <1>2, <2>4 DEF Kept, KeyFields, Fields
  <2>6. q.rsp = "KMRSP" /\ q.km = km
    BY <2>1
  <2> QED BY <1>5, <2>4, <2>5, <2>6, Zenon DEF q, KeysSettled
<1> QED BY <1>3, <1>4, <1>5

(* The key block of a request, when the responder does not reject. *)
LEMMA KmRequested ==
  ASSUME NEW u, NoKeysYet(u), u.cfg.enforced \in BOOLEAN,
         NEW ext, ext.cmd = "HSREQ", ext.km # NoKm,
         InterpretKm(u, ext).u.fail # TRUE
  PROVE  LET r == InterpretKm(u, ext)
         IN /\ Kept(u, r.u, KeyFields) /\ r.u.fail = FALSE /\ r.encrypted = TRUE
            /\ KeysSettled(u, r.u, ext.km, r.km)
            /\ u.cfg.enforced => u.cfg.secret # "" /\ ext.km.pw = u.cfg.secret
<1> DEFINE r == InterpretKm(u, ext)
           q == processSrtMsg_KMREQ(u, ext.km)
           rej(v, why) == [u |-> Reject(v, why), km |-> NoKm, encrypted |-> FALSE]
<1>1. r = IF u.cfg.secret = "" /\ u.cfg.enforced THEN rej(u, "UNSECURE")
          ELSE IF q.rsp # "KMRSP" THEN rej(q.u, "IPE")
          ELSE IF KmLen(q.km) = 1 /\ u.cfg.enforced
               THEN rej(q.u, IF q.u.rcvKm = "BADSECRET" THEN "BADSECRET" ELSE "UNSECURE")
          ELSE [u |-> q.u, km |-> q.km, encrypted |-> TRUE]
  BY DEF InterpretKm, NoKeysYet
<1>2. r.u.fail # TRUE
  BY ZenonT(30)
<1>3. /\ Kept(u, q.u, KeyFields) /\ q.u.fail = FALSE /\ q.rsp = "KMRSP"
      /\ KeysSettled(u, q.u, ext.km, q.km)
  BY KmReqHandled, Zenon
<1>4. \A v, why : IsSocket(v) => rej(v, why).u.fail = TRUE
  BY RejectOnly, ZenonT(30)
<1>5. IsSocket(q.u) /\ IsSocket(u)
  BY <1>3 DEF Kept, NoKeysYet
<1>6. KmLen(KmReport("NOSECRET")) = 1 /\ KmLen(KmReport("BADSECRET")) = 1
  BY DEF KmLen, KmReport, NoKm
<1> HIDE DEF r, q, rej
<1>7. r = [u |-> q.u, km |-> q.km, encrypted |-> TRUE]
  BY <1>1, <1>2, <1>3, <1>4, <1>5, Zenon
<1>8. ~(KmLen(q.km) = 1 /\ u.cfg.enforced)
  BY <1>1, <1>2, <1>3, <1>4, <1>5, Zenon
<1>9. r.u = q.u /\ r.km = q.km /\ r.encrypted = TRUE
  BY <1>7
<1>10. u.cfg.enforced => u.cfg.secret # "" /\ ext.km.pw = u.cfg.secret
  BY <1>3, <1>6, <1>8, Zenon DEF KeysSettled
<1> QED BY <1>3, <1>9, <1>10, Zenon DEF r

(* An initiator before the answer: its key message wraps its own secret. *)
KeySent(u) == IsSocket(u) /\ u.fail = FALSE /\ u.connected = FALSE

(* v is u after it was answered km; res is the result. *)
KeysConfirmed(u, v, km, res) ==
  /\ km = KmReport("UNSECURED") => v.sndKm = "UNSECURED" /\ v.rcvKm = "NOSECRET"
  /\ km = KmReport("NOSECRET") => res = -1 /\ v.sndKm = "NOSECRET" /\ v.rcvKm = "UNSECURED"
  /\ km = KmReport("BADSECRET") => res = -1 /\ v.sndKm = "BADSECRET" /\ v.rcvKm = "BADSECRET"
  /\ km = u.kmMsg /\ km.pw # "-" => v.sndKm = "SECURED" /\ v.rcvKm = "SECURED"

(* What an initiator makes of the answer to its key message                 *)
(* (processSrtMsg_KMRSP).                                                   *)
LEMMA KmRspHandled ==
  ASSUME NEW u, KeySent(u), NEW km, km # NoKm
  PROVE  LET q == processSrtMsg_KMRSP(u, km)
         IN Kept(u, q.u, {"sndKm", "rcvKm"}) /\ KeysConfirmed(u, q.u, km, q.res)
<1> DEFINE q == processSrtMsg_KMRSP(u, km)
           st == ErraticKMState(km.key)
           put(s, r) == [u EXCEPT !.sndKm = s, !.rcvKm = r]
<1>1. \A s, r : /\ Kept(u, put(s, r), {"sndKm", "rcvKm"})
                /\ put(s, r).sndKm = s /\ put(s, r).rcvKm = r
  <2> TAKE s, r
  <2>1. IsSocket(u)
    BY DEF KeySent
  <2>2. IsSocket(put(s, r)) /\ put(s, r).sndKm = s /\ put(s, r).rcvKm = r
    BY <2>1, ZenonT(30) DEF IsSocket, Fields
  <2>3. \A f \in Fields \ {"sndKm", "rcvKm"} : put(s, r)[f] = u[f]
    BY <2>1, ZenonT(30) DEF IsSocket, Fields
  <2> QED BY <2>2, <2>3, Zenon DEF Kept
<1>2. u.connected = FALSE
  BY DEF KeySent
<1>3. CASE km.pw = "-"
  <2>1. KmLen(km) = 1
    BY <1>3 DEF KmLen
  <2>2. q = [u |-> put(st.snd, st.rcv), res |-> IF st.snd = "UNSECURED" THEN 0 ELSE -1]
    BY <1>2, <2>1 DEF processSrtMsg_KMRSP
  <2> HIDE DEF q, st, put
  <2>3. Kept(u, q.u, {"sndKm", "rcvKm"}) /\ q.u.sndKm = st.snd /\ q.u.rcvKm = st.rcv
    BY <1>1, <2>2
  <2>4. km = KmReport("UNSECURED") => st.snd = "UNSECURED" /\ st.rcv = "NOSECRET"
    BY DEF st, ErraticKMState, KmReport
  <2>5. km = KmReport("NOSECRET") => st.snd = "NOSECRET" /\ st.rcv = "UNSECURED"
    BY DEF st, ErraticKMState, KmReport
  <2>6. km = KmReport("BADSECRET") => st.snd = "BADSECRET" /\ st.rcv = "BADSECRET"
    BY DEF st, ErraticKMState, KmReport
  <2>7. st.snd # "UNSECURED" => q.res = -1
    BY <2>2
  <2> QED BY <1>3, <2>3, <2>4, <2>5, <2>6, <2>7 DEF q, KeysConfirmed
<1>4. CASE km.pw # "-"
  <2>1. KmLen(km) = 2
    BY <1>4 DEF KmLen
  <2>2. q = IF km = u.kmMsg THEN [u |-> put("SECURED", "SECURED"), res |-> 1]
            ELSE [u |-> put("BADSECRET", "BADSECRET"), res |-> -1]
    BY <1>2, <2>1 DEF processSrtMsg_KMRSP
  <2> HIDE DEF q, st, put
  <2>3. Kept(u, q.u, {"sndKm", "rcvKm"})
        /\ (km = u.kmMsg => q.u.sndKm = "SECURED" /\ q.u.rcvKm = "SECURED")
    BY <1>1, <2>2
  <2>4. \A s : km # KmReport(s)
    BY <1>4 DEF KmReport
  <2> QED BY <2>3, <2>4 DEF q, KeysConfirmed
<1> QED BY <1>3, <1>4

(* The key block of an answer, when the initiator does not reject. *)
LEMMA KmResponded ==
  ASSUME NEW u, KeySent(u), u.cfg.enforced \in BOOLEAN,
         NEW ext, ext.cmd # "HSREQ", ext.km # NoKm,
         InterpretKm(u, ext).u.fail # TRUE
  PROVE  LET r == InterpretKm(u, ext)
         IN /\ Kept(u, r.u, {"sndKm", "rcvKm"}) /\ r.encrypted = TRUE
            /\ ext.km = KmReport("UNSECURED")
                 => r.u.sndKm = "UNSECURED" /\ r.u.rcvKm = "NOSECRET"
            /\ ext.km = KmReport("NOSECRET")
                 => ~u.cfg.enforced /\ r.u.sndKm = "NOSECRET" /\ r.u.rcvKm = "UNSECURED"
            /\ ext.km = KmReport("BADSECRET")
                 => ~u.cfg.enforced /\ r.u.sndKm = "BADSECRET" /\ r.u.rcvKm = "BADSECRET"
            /\ ext.km = u.kmMsg /\ ext.km.pw # "-"
                 => r.u.sndKm = "SECURED" /\ r.u.rcvKm = "SECURED"
            /\ u.cfg.enforced => u.cfg.secret # ""
<1> DEFINE r == InterpretKm(u, ext)
           q == processSrtMsg_KMRSP(u, ext.km)
           rej(v, why) == [u |-> Reject(v, why), km |-> NoKm, encrypted |-> FALSE]
<1>1. r = IF u.cfg.secret = "" /\ u.cfg.enforced THEN rej(u, "UNSECURE")
          ELSE IF u.cfg.enforced /\ q.res = -1
               THEN rej(q.u, IF q.u.sndKm = "BADSECRET" THEN "BADSECRET" ELSE "UNSECURE")
          ELSE [u |-> q.u, km |-> NoKm, encrypted |-> TRUE]
  BY DEF InterpretKm, KeySent
<1>2. r.u.fail # TRUE
  BY ZenonT(30)
<1>3. Kept(u, q.u, {"sndKm", "rcvKm"})
  BY KmRspHandled, Zenon
<1>4. KeysConfirmed(u, q.u, ext.km, q.res)
  BY KmRspHandled, Zenon
<1>5. \A v, why : IsSocket(v) => rej(v, why).u.fail = TRUE
  BY RejectOnly, ZenonT(30)
<1>6. IsSocket(q.u) /\ IsSocket(u)
  BY <1>3 DEF Kept, KeySent
<1> HIDE DEF r, q, rej
<1>7. r = [u |-> q.u, km |-> NoKm, encrypted |-> TRUE]
  BY <1>1, <1>2, <1>5, <1>6, Zenon
<1>8. /\ ~(u.cfg.enforced /\ q.res = -1)
      /\ ~(u.cfg.secret = "" /\ u.cfg.enforced)
  BY <1>1, <1>2, <1>5, <1>6, Zenon
<1>9. r.u = q.u /\ r.encrypted = TRUE
  BY <1>7
<1> QED BY <1>3, <1>4, <1>8, <1>9, Zenon DEF r, KeysConfirmed

(* The filter after the peer's was compared with the own one. *)
FilterSettled(u, ext, f) ==
  /\ ext.filter = NoFilter => f = u.filter
  /\ ext.filter # NoFilter /\ u.filter = NoFilter => f = ext.filter
  /\ ext.filter # NoFilter /\ u.filter # NoFilter /\ u.side = "INITIATOR"
       => f = Over(ext.filter, u.filter)
  /\ ext.filter # NoFilter /\ u.filter # NoFilter /\ u.side # "INITIATOR"
       => f = Over(Over(u.filter, ext.filter), u.cfg.filterDefaults)
  /\ ext.filter # NoFilter /\ u.filter # NoFilter /\ u.cfg.rendezvous => u.filter = ext.filter

(* The blocks for congestion control and packet filter, when they are       *)
(* accepted.                                                                *)
LEMMA ConfigAccepted ==
  ASSUME NEW u, IsSocket(u), u.fail = FALSE, NEW ext,
         InterpretConfig(u, ext).fail # TRUE
  PROVE  LET v == InterpretConfig(u, ext)
         IN /\ Kept(u, v, {"filter"})
            /\ ext.congctl = "" \/ ext.congctl = u.cfg.congctl
            /\ FilterSettled(u, ext, v.filter)
<1> DEFINE v == InterpretConfig(u, ext)
           put(f) == [u EXCEPT !.filter = f]
           compat == CheckFilterCompat(u.filter, ext.filter, u.cfg.filterDefaults)
<1>1. ASSUME NEW f PROVE Kept(u, put(f), {"filter"}) /\ put(f).filter = f
  BY <1>1 DEF Kept, IsSocket, Fields
<1>2. Kept(u, u, {"filter"})
  BY DEF Kept
<1>3. \A why : Reject(u, why).fail = TRUE
  BY RejectOnly, ZenonT(30)
<1>4. v = IF ext.congctl # "" /\ ext.congctl # u.cfg.congctl THEN Reject(u, "CONGESTION")
          ELSE IF ext.filter = NoFilter THEN u
          ELSE IF u.filter = NoFilter THEN put(ext.filter)
          ELSE IF u.cfg.rendezvous /\ u.filter # ext.filter THEN Reject(u, "FILTER")
          ELSE IF u.side = "INITIATOR" THEN put(Over(ext.filter, u.filter))
          ELSE IF compat.ok THEN put(compat.conf)
          ELSE Reject(u, "FILTER")
  BY Zenon DEF InterpretConfig, checkApplyFilterConfig
<1>5. compat.conf = Over(Over(u.filter, ext.filter), u.cfg.filterDefaults)
  BY DEF CheckFilterCompat
<1>6. v.fail # TRUE
  OBVIOUS
<1> HIDE DEF v, put, compat
<1>7. ext.congctl = "" \/ ext.congctl = u.cfg.congctl
  BY <1>3, <1>4, <1>6, Zenon
<1>12. ext.filter # NoFilter /\ u.filter # NoFilter /\ u.cfg.rendezvous => u.filter = ext.filter
  BY <1>3, <1>4, <1>6, <1>7, Zenon
<1>8. CASE ext.filter = NoFilter
  <2>1. v = u
    BY <1>4, <1>7, <1>8, Zenon
  <2> QED BY <1>2, <1>7, <1>8, <2>1, Zenon DEF v, FilterSettled
<1>9. CASE ext.filter # NoFilter /\ u.filter = NoFilter
  <2>1. v = put(ext.filter)
    BY <1>4, <1>7, <1>9, Zenon
  <2>2. Kept(u, v, {"filter"}) /\ v.filter = ext.filter
    BY <1>1, <2>1, Zenon
  <2> QED BY <1>7, <1>9, <2>2, Zenon DEF v, FilterSettled
<1>10. CASE ext.filter # NoFilter /\ u.filter # NoFilter /\ u.side = "INITIATOR"
  <2>1. v = put(Over(ext.filter, u.filter))
    BY <1>3, <1>4, <1>6, <1>7, <1>10, Zenon
  <2>2. Kept(u, v, {"filter"}) /\ v.filter = Over(ext.filter, u.filter)
    BY <1>1, <2>1, Zenon
  <2> QED BY <1>7, <1>10, <1>12, <2>2, Zenon DEF v, FilterSettled
<1>11. CASE ext.filter # NoFilter /\ u.filter # NoFilter /\ u.side # "INITIATOR"
  <2>1. v = put(compat.conf)
    BY <1>3, <1>4, <1>6, <1>7, <1>11, Zenon
  <2>2. Kept(u, v, {"filter"}) /\ v.filter = Over(Over(u.filter, ext.filter), u.cfg.filterDefaults)
    BY <1>1, <1>5, <2>1, Zenon
  <2> QED BY <1>7, <1>11, <1>12, <2>2, Zenon DEF v, FilterSettled
<1> QED BY <1>8, <1>9, <1>10, <1>11, Zenon

(* v is u after the last checks passed. *)
PostSettled(u, ext, encrypted, v) ==
  \/ /\ ~encrypted /\ u.cfg.secret # "" /\ ~u.cfg.enforced
     /\ Kept(u, v, {"sndCtx", "sndKm", "rcvKm"})
     /\ v.sndKm = "NOSECRET" /\ v.rcvKm = "UNSECURED"
  \/ /\ encrypted \/ u.cfg.secret = ""
     /\ u.cfg.congctl = "live" \/ ext.congctl # ""
     /\ Kept(u, v, {"filter"})
     /\ u.filter # NoFilter /\ ext.filter = NoFilter
          => u.side # "INITIATOR" /\ v.filter = NoFilter
     /\ ~(u.filter # NoFilter /\ ext.filter = NoFilter) => v.filter = u.filter

(* The last checks of interpretSrtHandshake, when they pass: a socket whose *)
(* peer sent no key, and one that compares filter and congestion control.   *)
LEMMA PostPassed ==
  ASSUME NEW u, IsSocket(u), u.fail = FALSE, NEW ext, NEW encrypted \in BOOLEAN,
         PostChecks(u, ext, encrypted).fail # TRUE
  PROVE  PostSettled(u, ext, encrypted, PostChecks(u, ext, encrypted))
<1> DEFINE v == PostChecks(u, ext, encrypted)
           plain == [u EXCEPT !.sndCtx = TRUE, !.sndKm = "NOSECRET", !.rcvKm = "UNSECURED"]
           bare == [u EXCEPT !.filter = NoFilter]
<1>1. /\ Kept(u, plain, {"sndCtx", "sndKm", "rcvKm"})
      /\ plain.sndKm = "NOSECRET" /\ plain.rcvKm = "UNSECURED"
  BY DEF Kept, IsSocket, Fields
<1>2. Kept(u, bare, {"filter"}) /\ bare.filter = NoFilter
  BY DEF Kept, IsSocket, Fields
<1>3. Kept(u, u, {"filter"})
  BY DEF Kept
<1>4. \A why : Reject(u, why).fail = TRUE
  BY RejectOnly, ZenonT(30)
<1>5. v = IF ~encrypted /\ u.cfg.secret # ""
          THEN IF u.cfg.enforced THEN Reject(u, "UNSECURE") ELSE plain
          ELSE IF u.cfg.congctl # "live" /\ ext.congctl = "" THEN Reject(u, "CONGESTION")
          ELSE IF u.filter # NoFilter /\ ext.filter = NoFilter
               THEN IF u.side = "INITIATOR" THEN Reject(u, "FILTER") ELSE bare
          ELSE u
  BY Zenon DEF PostChecks
<1>6. v.fail # TRUE
  BY ZenonT(30)
<1> HIDE DEF v, plain, bare
<1>7. CASE ~encrypted /\ u.cfg.secret # ""
  <2>1. ~u.cfg.enforced /\ v = plain
    BY <1>4, <1>5, <1>6, <1>7, Zenon
  <2> QED BY <1>1, <1>7, <2>1, Zenon DEF v, PostSettled
<1>8. CASE encrypted \/ u.cfg.secret = ""
  <2>1. u.cfg.congctl = "live" \/ ext.congctl # ""
    BY <1>4, <1>5, <1>6, <1>8, Zenon
  <2>2. u.filter # NoFilter /\ ext.filter = NoFilter => u.side # "INITIATOR" /\ v = bare
    BY <1>4, <1>5, <1>6, <1>8, <2>1, Zenon
  <2>3. ~(u.filter # NoFilter /\ ext.filter = NoFilter) => v = u
    BY <1>5, <1>8, <2>1, Zenon
  <2> QED BY <1>2, <1>3, <1>8, <2>1, <2>2, <2>3, Zenon DEF v, PostSettled
<1> QED BY <1>7, <1>8, Zenon

(* interpretSrtHandshake is its four stages, and accepts only when each of  *)
(* them does.                                                               *)
LEMMA Stages ==
  ASSUME NEW u, IsSocket(u), NEW ext,
         interpretSrtHandshake(u, ext).u.fail # TRUE
  PROVE  LET a == InterpretHs([u EXCEPT !.fail = FALSE], ext)
             k == InterpretKm(a, ext)
             b == InterpretConfig(k.u, ext)
             r == interpretSrtHandshake(u, ext)
         IN /\ r.u = PostChecks(b, ext, k.encrypted) /\ r.km = k.km
            /\ a.fail # TRUE /\ k.u.fail # TRUE /\ b.fail # TRUE
            /\ ext # NoExt
            /\ a = IF ext.cmd = "HSREQ" THEN processSrtMsg_HSREQ([u EXCEPT !.fail = FALSE], ext.hs)
                   ELSE processSrtMsg_HSRSP([u EXCEPT !.fail = FALSE], ext.hs)
<1> DEFINE u0 == [u EXCEPT !.fail = FALSE]
           a == InterpretHs(u0, ext)
           k == InterpretKm(a, ext)
           b == InterpretConfig(k.u, ext)
           r == interpretSrtHandshake(u, ext)
<1>1. r.u = PostChecks(b, ext, k.encrypted) /\ r.km = k.km
  BY DEF interpretSrtHandshake
<1>2. r.u.fail # TRUE
  BY ZenonT(30)
<1>3. IsSocket(u0) /\ u0.fail = FALSE
  BY Cleared DEF Kept
<1> HIDE DEF r, u0
<1>4. b.fail # TRUE
  <2> HIDE DEF b, k
  <2> SUFFICES ASSUME b.fail = TRUE PROVE FALSE
    BY ZenonT(30)
  <2>1. PostChecks(b, ext, k.encrypted) = b
    BY Zenon DEF PostChecks
  <2> QED BY <1>1, <1>2, <2>1, ZenonT(30)
<1>5. k.u.fail # TRUE
  <2> HIDE DEF k
  <2> SUFFICES ASSUME k.u.fail = TRUE PROVE FALSE
    BY ZenonT(30)
  <2>1. b = k.u
    BY Zenon DEF InterpretConfig
  <2> QED BY <1>4, <2>1, ZenonT(30)
<1>6. a.fail # TRUE
  <2> HIDE DEF a
  <2> SUFFICES ASSUME a.fail = TRUE PROVE FALSE
    BY ZenonT(30)
  <2>1. k = [u |-> a, km |-> NoKm, encrypted |-> FALSE]
    BY Zenon DEF InterpretKm
  <2> HIDE DEF k
  <2>2. k.u = a
    BY <2>1
  <2> QED BY <1>5, <2>2, Zenon
<1>7. a = IF ext = NoExt THEN Reject(u0, "ROGUE")
          ELSE IF ext.cmd = "HSREQ" THEN processSrtMsg_HSREQ(u0, ext.hs)
          ELSE processSrtMsg_HSRSP(u0, ext.hs)
  BY <1>3, Zenon DEF InterpretHs
<1>8. ext # NoExt
  <2> HIDE DEF a
  <2> QED BY <1>3, <1>6, <1>7, RejectOnly, Zenon
<1>9. a = IF ext.cmd = "HSREQ" THEN processSrtMsg_HSREQ(u0, ext.hs)
          ELSE processSrtMsg_HSRSP(u0, ext.hs)
  BY <1>7, <1>8, Zenon
<1> QED BY <1>1, <1>4, <1>5, <1>6, <1>8, <1>9, Zenon DEF r, u0

OwnCongctl(u) == IF u.cfg.congctl = "live" THEN "" ELSE u.cfg.congctl

RequestHs(cfg) == [ver |-> cfg.version, stream |-> ~cfg.messageAPI,
                   tsbpdSnd |-> cfg.tsbpd, sndLat |-> IF cfg.tsbpd THEN cfg.peerLatency ELSE 0,
                   tsbpdRcv |-> cfg.tsbpd, rcvLat |-> IF cfg.tsbpd THEN cfg.rcvLatency ELSE 0,
                   drop |-> cfg.tsbpd /\ cfg.tlpktdrop, nak |-> cfg.nakReport]

(* The request of an initiator (createSrtHandshake): always made, and the   *)
(* same however often it is made.                                           *)
LEMMA RequestMade ==
  ASSUME NEW u, IsSocket(u), u.side = "INITIATOR", u.crypto = TRUE,
         u.cfg.secret # "" => u.kmMsg # NoKm, u.cfg.tsbpd \in BOOLEAN
  PROVE  LET w == createSrtHandshake(u, "HSREQ", NoKm)
         IN /\ Kept(u, w.u, {"delay", "peerDelay", "fail"}) /\ w.u.fail = FALSE
            /\ u.cfg.tsbpd => w.u.delay = u.cfg.rcvLatency /\ w.u.peerDelay = u.cfg.peerLatency
            /\ ~u.cfg.tsbpd => w.u.delay = u.delay /\ w.u.peerDelay = u.peerDelay
            /\ w.ext = [cmd |-> "HSREQ", hs |-> RequestHs(u.cfg),
                        km |-> IF u.cfg.secret # "" THEN u.kmMsg ELSE NoKm,
                        filter |-> u.filter, congctl |-> OwnCongctl(u)]
<1> DEFINE v == [u EXCEPT !.fail = FALSE]
           req == fillSrtHandshake_HSREQ(v)
           w == createSrtHandshake(u, "HSREQ", NoKm)
           kmOn == v.cfg.secret # "" \/ NoKm # NoKm
<1>1. Kept(u, v, {"fail"}) /\ v.fail = FALSE
  BY Cleared
<1>2. /\ v.cfg = u.cfg /\ v.side = "INITIATOR" /\ v.crypto = TRUE /\ v.kmMsg = u.kmMsg
      /\ v.filter = u.filter /\ v.delay = u.delay /\ v.peerDelay = u.peerDelay /\ IsSocket(v)
  BY <1>1 DEF Kept, Fields
<1>3. w = IF kmOn /\ v.kmMsg = NoKm THEN [u |-> Reject(req.u, "IPE"), ext |-> NoExt]
          ELSE [u |-> req.u,
                ext |-> [cmd |-> "HSREQ", hs |-> req.hs, km |-> IF kmOn THEN v.kmMsg ELSE NoKm,
                         filter |-> v.filter,
                         congctl |-> IF v.cfg.congctl = "live" THEN "" ELSE v.cfg.congctl]]
  <2>1. ~("HSREQ" = "HSREQ" /\ v.side = "RESPONDER")
    BY <1>2
  <2>2. ~("HSREQ" = "HSRSP" /\ ~v.startTime)
    OBVIOUS
  <2>3. ~(kmOn /\ ~v.crypto)
    BY <1>2
  <2> HIDE DEF req
  <2> QED BY <2>1, <2>2, <2>3, Zenon DEF createSrtHandshake, req
<1> HIDE DEF v, w
<1>4. kmOn <=> u.cfg.secret # ""
  BY <1>2
<1>5. /\ req.u = IF v.cfg.tsbpd
                 THEN [v EXCEPT !.delay = v.cfg.rcvLatency, !.peerDelay = v.cfg.peerLatency] ELSE v
      /\ req.hs = RequestHs(v.cfg)
  BY DEF fillSrtHandshake_HSREQ, HsBlock, RequestHs
<1> HIDE DEF req
<1>6. /\ Kept(v, req.u, {"delay", "peerDelay"})
      /\ v.cfg.tsbpd => req.u.delay = v.cfg.rcvLatency /\ req.u.peerDelay = v.cfg.peerLatency
      /\ ~v.cfg.tsbpd => req.u.delay = v.delay /\ req.u.peerDelay = v.peerDelay
  <2>1. CASE v.cfg.tsbpd
    <3>1. req.u = [v EXCEPT !.delay = v.cfg.rcvLatency, !.peerDelay = v.cfg.peerLatency]
      BY <1>5, <2>1
    <3> QED BY <1>2, <2>1, <3>1, ZenonT(30) DEF Kept, IsSocket, Fields
  <2>2. CASE ~v.cfg.tsbpd
    <3>1. req.u = v
      BY <1>5, <2>2
    <3> QED BY <1>2, <2>2, <3>1 DEF Kept
  <2> QED BY <2>1, <2>2
<1>7. ~(kmOn /\ v.kmMsg = NoKm)
  BY <1>2, <1>4
<1> HIDE DEF kmOn
<1>8. /\ w.u = req.u
      /\ w.ext = [cmd |-> "HSREQ", hs |-> req.hs, km |-> IF kmOn THEN v.kmMsg ELSE NoKm,
                  filter |-> v.filter,
                  congctl |-> IF v.cfg.congctl = "live" THEN "" ELSE v.cfg.congctl]
  BY <1>3, <1>7
<1>9. w.ext = [cmd |-> "HSREQ", hs |-> RequestHs(u.cfg),
                km |-> IF u.cfg.secret # "" THEN u.kmMsg ELSE NoKm,
                filter |-> u.filter, congctl |-> OwnCongctl(u)]
  BY <1>2, <1>4, <1>5, <1>8, Zenon DEF OwnCongctl
<1>10. Kept(u, req.u, {"delay", "peerDelay", "fail"}) /\ req.u.fail = FALSE
  BY <1>1, <1>6 DEF Kept, Fields
<1> QED BY <1>2, <1>6, <1>8, <1>9, <1>10, Zenon DEF w

(* w is u after its answer with the key message km was made, and the answer. *)
Answered(u, km, w) ==
  LET none == u.cfg.secret # "" /\ km = NoKm
  IN /\ Kept(u, w.u, {"sndKm", "rcvKm", "fail"}) /\ w.u.fail = FALSE
     /\ none => w.u.sndKm = "NOSECRET" /\ w.u.rcvKm = "UNSECURED"
     /\ ~none => w.u.sndKm = u.sndKm /\ w.u.rcvKm = u.rcvKm
     /\ w.ext = [cmd |-> "HSRSP", hs |-> fillSrtHandshake_HSRSP(u),
                 km |-> IF none THEN KmReport("UNSECURED") ELSE km,
                 filter |-> u.filter, congctl |-> OwnCongctl(u)]

(* The answer of a responder (createSrtHandshake) is made from what it      *)
(* recorded.                                                                *)
LEMMA AnswerMade ==
  ASSUME NEW u, IsSocket(u), u.startTime = TRUE, u.crypto = TRUE, NEW km
  PROVE  Answered(u, km, createSrtHandshake(u, "HSRSP", km))
<1> DEFINE v == [u EXCEPT !.fail = FALSE]
           w == createSrtHandshake(u, "HSRSP", km)
           none == u.cfg.secret # "" /\ km = NoKm
           kmOn == v.cfg.secret # "" \/ km # NoKm
           rspU == IF kmOn /\ km = NoKm
                   THEN [v EXCEPT !.sndKm = "NOSECRET", !.rcvKm = "UNSECURED"] ELSE v
<1>1. Kept(u, v, {"fail"}) /\ v.fail = FALSE
  BY Cleared
<1>2. /\ v.cfg = u.cfg /\ v.startTime = TRUE /\ v.crypto = TRUE /\ v.filter = u.filter
      /\ v.peerTsbpd = u.peerTsbpd /\ v.peerDelay = u.peerDelay /\ v.delay = u.delay
      /\ v.sndKm = u.sndKm /\ v.rcvKm = u.rcvKm /\ IsSocket(v)
  BY <1>1 DEF Kept, Fields
<1>3. w = [u |-> rspU,
           ext |-> [cmd |-> "HSRSP", hs |-> fillSrtHandshake_HSRSP(v),
                    km |-> IF kmOn /\ km = NoKm THEN KmReport("UNSECURED") ELSE km,
                    filter |-> v.filter,
                    congctl |-> IF v.cfg.congctl = "live" THEN "" ELSE v.cfg.congctl]]
  <2>1. ~("HSRSP" = "HSREQ" /\ v.side = "RESPONDER") /\ "HSRSP" # "HSREQ"
    OBVIOUS
  <2>2. ~("HSRSP" = "HSRSP" /\ ~v.startTime)
    BY <1>2
  <2>3. ~(kmOn /\ ~v.crypto)
    BY <1>2
  <2> QED BY <2>1, <2>2, <2>3, Zenon DEF createSrtHandshake
<1> HIDE DEF v, w
<1>4. kmOn /\ km = NoKm <=> none
  BY <1>2
<1>5. fillSrtHandshake_HSRSP(v) = fillSrtHandshake_HSRSP(u)
  BY <1>2 DEF fillSrtHandshake_HSRSP, HsBlock
<1> HIDE DEF kmOn
<1>6. /\ Kept(v, rspU, {"sndKm", "rcvKm"})
      /\ none => rspU.sndKm = "NOSECRET" /\ rspU.rcvKm = "UNSECURED"
      /\ ~none => rspU.sndKm = v.sndKm /\ rspU.rcvKm = v.rcvKm
  <2>1. CASE none
    <3>1. rspU = [v EXCEPT !.sndKm = "NOSECRET", !.rcvKm = "UNSECURED"]
      BY <1>4, <2>1, Zenon
    <3> HIDE DEF rspU, none
    <3> QED BY <1>2, <2>1, <3>1 DEF Kept, IsSocket, Fields
  <2>2. CASE ~none
    <3>1. rspU = v
      BY <1>4, <2>2, Zenon
    <3> HIDE DEF rspU, none
    <3> QED BY <1>2, <2>2, <3>1 DEF Kept
  <2> QED BY <2>1, <2>2
<1> HIDE DEF rspU, none
<1>7. /\ w.u = rspU
      /\ w.ext = [cmd |-> "HSRSP", hs |-> fillSrtHandshake_HSRSP(v),
                  km |-> IF kmOn /\ km = NoKm THEN KmReport("UNSECURED") ELSE km,
                  filter |-> v.filter,
                  congctl |-> IF v.cfg.congctl = "live" THEN "" ELSE v.cfg.congctl]
  BY <1>3
<1>8. w.ext = [cmd |-> "HSRSP", hs |-> fillSrtHandshake_HSRSP(u),
               km |-> IF none THEN KmReport("UNSECURED") ELSE km,
               filter |-> u.filter, congctl |-> OwnCongctl(u)]
  BY <1>2, <1>4, <1>5, <1>7, Zenon DEF OwnCongctl
<1>9. Kept(u, rspU, {"sndKm", "rcvKm", "fail"}) /\ rspU.fail = FALSE
  BY <1>1, <1>6 DEF Kept, Fields
<1> QED BY <1>2, <1>6, <1>7, <1>8, <1>9, Zenon DEF w, none, Answered

IsFcn(f) == f = [x \in DOMAIN f |-> f[x]]

KmOf(c, id) == IF c.secret # "" THEN [pw |-> c.secret, key |-> id] ELSE NoKm

(* A key message (CCryptoControl::getKmMsg_data) is told from a report of a key state. *)
LEMMA KeyMessage ==
  ASSUME NEW c, ConfigOk(c), c.secret # "", NEW id
  PROVE  /\ KmOf(c, id).pw = c.secret /\ KmOf(c, id) # NoKm /\ KmOf(c, id).pw # "-"
         /\ \A st : KmOf(c, id) # KmReport(st)
<1>1. KmOf(c, id) = [pw |-> c.secret, key |-> id]
  BY Zenon DEF KmOf
<1>2. \A p, q : [pw |-> p, key |-> q].pw = p
  OBVIOUS
<1> HIDE DEF KmOf
<1>4. KmOf(c, id).pw = c.secret
  BY <1>1, <1>2, Zenon
<1>3. NoKm.pw = "-" /\ \A st : KmReport(st).pw = "-"
  BY DEF NoKm, KmReport
<1> QED BY <1>3, <1>4 DEF ConfigOk

(* The empty filter configuration, over any defaults, is the defaults. *)
LEMMA EmptyFilter == IsFcn(NoFilter) /\ DOMAIN NoFilter = {}
  BY DEF IsFcn, NoFilter

(* Merging two filters (the map union in CheckFilterCompat). *)
LEMMA Merged ==
  ASSUME NEW f, NEW g
  PROVE  /\ IsFcn(Over(f, g)) /\ DOMAIN Over(f, g) = DOMAIN f \cup DOMAIN g
         /\ IsFcn(f) /\ DOMAIN g \subseteq DOMAIN f => Over(f, g) = f
<1>1. IsFcn(Over(f, g)) /\ DOMAIN Over(f, g) = DOMAIN f \cup DOMAIN g
  BY DEF IsFcn, Over
<1>2. ASSUME IsFcn(f), DOMAIN g \subseteq DOMAIN f PROVE Over(f, g) = f
  BY <1>2 DEF IsFcn, Over
<1> QED BY <1>1, <1>2

(* The request of a socket named id with options c. *)
RequestOf(c, id) ==
  [cmd |-> "HSREQ", hs |-> RequestHs(c), km |-> KmOf(c, id), filter |-> c.filter,
   congctl |-> IF c.congctl = "live" THEN "" ELSE c.congctl]

(* What the two ends make of their secrets: s is the responder, km its      *)
(* answer to an initiator named id with options c.                          *)
KeyOutcome(c, l, id, s, km) ==
  \/ /\ c.secret = "" /\ l.secret = "" /\ km = NoKm
     /\ s.sndKm = "UNSECURED" /\ s.rcvKm = "UNSECURED"
  \/ /\ c.secret = "" /\ l.secret # "" /\ ~l.enforced /\ km = KmReport("UNSECURED")
     /\ s.sndKm = "NOSECRET" /\ s.rcvKm = "UNSECURED"
  \/ /\ c.secret # "" /\ l.secret = "" /\ km = KmReport("NOSECRET") /\ s.kmMsg = NoKm
     /\ s.sndKm = "UNSECURED" /\ s.rcvKm = "NOSECRET"
  \/ /\ c.secret # "" /\ l.secret # "" /\ c.secret # l.secret /\ ~l.enforced
     /\ km = KmReport("BADSECRET") /\ s.kmMsg = NoKm
     /\ s.sndKm = "BADSECRET" /\ s.rcvKm = "BADSECRET"
  \/ /\ c.secret # "" /\ l.secret = c.secret /\ km = KmOf(c, id) /\ s.kmMsg = km
     /\ s.sndKm = "SECURED" /\ s.rcvKm = "SECURED"

(* x is an answer with these blocks. *)
IsAnswer(x, hs, km, filter, congctl) ==
  x = [cmd |-> "HSRSP", hs |-> hs, km |-> km, filter |-> filter, congctl |-> congctl]

(* The responder s with options l and its answer x to an initiator with c. *)
Negotiated(c, l, id, s, x) ==
  /\ IsSocket(s) /\ s.cfg = l /\ s.startTime = TRUE /\ s.crypto = TRUE
  /\ s.tsbpd = (c.tsbpd /\ l.tsbpd) /\ s.peerTsbpd = c.tsbpd
  /\ c.tsbpd /\ l.tsbpd => s.delay = Max2(l.rcvLatency, c.peerLatency)
  /\ c.tsbpd => s.peerDelay = Max2(l.peerLatency, c.rcvLatency)
  /\ IsFcn(s.filter) /\ (c.filter # NoFilter => DOMAIN c.filter \subseteq DOMAIN s.filter)
  /\ c.filter = NoFilter => s.filter = NoFilter \/ (c.secret = "" /\ l.secret # "")
  /\ KeyOutcome(c, l, id, s, x.km)
  /\ IsAnswer(x, fillSrtHandshake_HSRSP(s), x.km, s.filter,
              IF l.congctl = "live" THEN "" ELSE l.congctl)

(* A socket that answers before it has interpreted anything. *)
Answering(u, l) ==
  /\ NoKeysYet(u) /\ u.cfg = l /\ u.side # "INITIATOR" /\ u.filter = l.filter
  /\ u.tsbpd = FALSE /\ u.peerTsbpd = FALSE /\ u.crypto = TRUE /\ u.rcvKm = "UNSECURED"

(* What a responder u and its answer to the request of id come to. *)
NegotiatesWith(c, l, id, u) ==
  LET r == interpretSrtHandshake(u, RequestOf(c, id))
      w == createSrtHandshake(r.u, "HSRSP", r.km)
  IN w.u.fail = FALSE /\ Negotiated(c, l, id, w.u, w.ext) /\ w.u.side = u.side

(* A responder that accepts a request has negotiated. *)
LEMMA ResponderNegotiates ==
  ASSUME NEW c, ConfigOk(c), NEW l, ConfigOk(l), NEW id, NEW u, Answering(u, l),
         interpretSrtHandshake(u, RequestOf(c, id)).u.fail # TRUE
  PROVE  NegotiatesWith(c, l, id, u)
<1> DEFINE ext == RequestOf(c, id)
           u0 == [u EXCEPT !.fail = FALSE]
           a == InterpretHs(u0, ext)
           k == InterpretKm(a, ext)
           b == InterpretConfig(k.u, ext)
           r == interpretSrtHandshake(u, ext)
           w == createSrtHandshake(r.u, "HSRSP", r.km)
<1>1. IsSocket(u)
  BY DEF Answering, NoKeysYet
<1>2. /\ r.u = PostChecks(b, ext, k.encrypted) /\ r.km = k.km
      /\ a.fail # TRUE /\ k.u.fail # TRUE /\ b.fail # TRUE /\ r.u.fail # TRUE
      /\ a = processSrtMsg_HSREQ(u0, ext.hs)
  <2>1. ext.cmd = "HSREQ"
    BY DEF RequestOf
  <2> HIDE DEF ext
  <2> QED BY <1>1, <2>1, Stages, Zenon DEF ext
<1>3. Kept(u, u0, {"fail"}) /\ u0.fail = FALSE /\ IsSocket(u0)
  BY <1>1, Cleared DEF Kept
<1>4. /\ ext.cmd = "HSREQ" /\ ext.hs = RequestHs(c) /\ ext.km = KmOf(c, id)
      /\ ext.filter = c.filter
  BY DEF RequestOf
<1>5. /\ ext.hs.tsbpdSnd = c.tsbpd /\ ext.hs.tsbpdRcv = c.tsbpd
      /\ c.tsbpd => ext.hs.sndLat = c.peerLatency /\ ext.hs.rcvLat = c.rcvLatency
  BY <1>4 DEF RequestHs
<1> HIDE DEF ext, u0, a, k, b, r
<1>6. RequestTaken(u0, ext.hs, a)
  BY <1>2, <1>3, HsReqAccepted, Zenon
<1>7. /\ u0.tsbpd = FALSE /\ u0.peerTsbpd = FALSE /\ u0.cfg = l
      /\ \A f \in Fields \ {"fail"} : u0[f] = u[f]
  BY <1>3 DEF Kept, Answering, Fields
<1>8. /\ Kept(u, a, TimeFields) /\ a.fail = FALSE
  <2>1. u.fail = FALSE
    BY DEF Answering, NoKeysYet
  <2> QED BY <1>3, <1>6, <1>7, <2>1, ZenonT(30) DEF RequestTaken, Kept, TimeFields, Fields
<1>9. a.tsbpd = (c.tsbpd /\ l.tsbpd) /\ a.peerTsbpd = c.tsbpd
  BY <1>5, <1>6, <1>7 DEF ConfigOk, RequestTaken
<1>10. /\ c.tsbpd /\ l.tsbpd => a.delay = Max2(l.rcvLatency, c.peerLatency)
       /\ c.tsbpd => a.peerDelay = Max2(l.peerLatency, c.rcvLatency)
  BY <1>5, <1>6, <1>7 DEF RequestTaken
<1>11. /\ NoKeysYet(a) /\ a.cfg = l /\ a.crypto = TRUE /\ a.side # "INITIATOR"
       /\ a.filter = l.filter /\ a.rcvKm = "UNSECURED"
  <2>1. \A f \in Fields \ TimeFields : a[f] = u[f]
    BY <1>8 DEF Kept
  <2> QED BY <1>8, <2>1 DEF Answering, NoKeysYet, Kept, Fields, TimeFields
<1> DEFINE KeyState ==
      /\ Kept(a, k.u, KeyFields) /\ k.u.fail = FALSE
      /\ \/ /\ c.secret = "" /\ k.encrypted = FALSE /\ k.km = NoKm
            /\ k.u.sndKm = a.sndKm /\ k.u.rcvKm = "UNSECURED"
         \/ /\ c.secret # "" /\ k.encrypted = TRUE /\ KeysSettled(a, k.u, ext.km, k.km)
            /\ a.cfg.enforced => a.cfg.secret # "" /\ ext.km.pw = a.cfg.secret
<1>12. KeyState
  <2>1. CASE c.secret = ""
    <3>1. ext.km = NoKm
      BY <1>4, <2>1 DEF KmOf
    <3>2. k = [u |-> a, km |-> NoKm, encrypted |-> FALSE]
      BY <1>8, <3>1, Zenon DEF k, InterpretKm
    <3>3. Kept(a, a, KeyFields)
      BY <1>8 DEF Kept
    <3> QED BY <1>8, <1>11, <2>1, <3>2, <3>3
  <2>2. CASE c.secret # ""
    <3>1. ext.km # NoKm
      BY <1>4, <2>2, KeyMessage, Zenon
    <3>2. a.cfg.enforced \in BOOLEAN
      BY <1>11 DEF ConfigOk
    <3>3. InterpretKm(a, ext).u.fail # TRUE
      BY <1>2, ZenonT(30) DEF k
    <3> QED BY <1>4, <1>11, <2>2, <3>1, <3>2, <3>3, KmRequested, Zenon DEF k
  <2> QED BY <2>1, <2>2
<1>13. /\ Kept(k.u, b, {"filter"}) /\ FilterSettled(k.u, ext, b.filter)
  <2>1. IsSocket(k.u) /\ k.u.fail = FALSE
    BY <1>12 DEF Kept
  <2> HIDE DEF KeyState
  <2> QED BY <1>2, <2>1, ConfigAccepted, Zenon DEF b
<1>14. /\ k.encrypted \in BOOLEAN /\ IsSocket(b) /\ b.fail = FALSE /\ b.cfg = l
       /\ b.side = a.side /\ k.u.filter = l.filter /\ k.u.side = a.side
  BY <1>11, <1>12, <1>13 DEF Kept, KeyFields, Fields
<1> HIDE DEF KeyState
<1>15. PostSettled(b, ext, k.encrypted, r.u)
  BY <1>2, <1>14, PostPassed, Zenon
<1> DEFINE unkeyed == ~k.encrypted /\ l.secret # ""
<1>16. /\ IsSocket(r.u)
       /\ \A f \in Fields \ {"sndCtx", "sndKm", "rcvKm", "filter"} : r.u[f] = b[f]
       /\ unkeyed => /\ ~l.enforced /\ r.u.filter = b.filter
                     /\ r.u.sndKm = "NOSECRET" /\ r.u.rcvKm = "UNSECURED"
       /\ ~unkeyed => /\ r.u.sndKm = b.sndKm /\ r.u.rcvKm = b.rcvKm
       /\ b.filter # NoFilter /\ ext.filter = NoFilter => r.u.filter \in {NoFilter, b.filter}
       /\ ~unkeyed /\ ext.filter = NoFilter => r.u.filter = NoFilter
       /\ ~(b.filter # NoFilter /\ ext.filter = NoFilter) => r.u.filter = b.filter
  BY <1>14, <1>15 DEF Kept, Fields, PostSettled
<1> HIDE DEF unkeyed
<1>17. \A f \in Fields \ (KeyFields \cup {"filter"}) : r.u[f] = a[f]
  BY <1>12, <1>13, <1>16 DEF KeyState, Kept, KeyFields
<1>18. /\ r.u.cfg = l /\ r.u.startTime = TRUE /\ r.u.crypto = TRUE
       /\ r.u.tsbpd = a.tsbpd /\ r.u.peerTsbpd = a.peerTsbpd
       /\ r.u.delay = a.delay /\ r.u.peerDelay = a.peerDelay
  BY <1>6, <1>11, <1>17 DEF RequestTaken, Fields, KeyFields
<1>19. /\ IsFcn(r.u.filter) /\ (c.filter # NoFilter => DOMAIN c.filter \subseteq DOMAIN r.u.filter)
  <2>1. IsFcn(c.filter) /\ IsFcn(l.filter) /\ IsFcn(NoFilter)
    BY EmptyFilter DEF ConfigOk, IsFcn
  <2>2. CASE c.filter = NoFilter
    <3>1. b.filter = l.filter
      BY <1>4, <1>13, <1>14, <2>2 DEF FilterSettled
    <3>2. r.u.filter \in {NoFilter, l.filter}
      BY <1>16, <3>1
    <3> QED BY <2>1, <2>2, <3>2
  <2>3. CASE c.filter # NoFilter /\ l.filter = NoFilter
    <3>1. r.u.filter = c.filter
      BY <1>4, <1>13, <1>14, <1>16, <2>3 DEF FilterSettled
    <3> QED BY <2>1, <3>1
  <2>4. CASE c.filter # NoFilter /\ l.filter # NoFilter
    <3>1. b.filter = Over(Over(l.filter, c.filter), k.u.cfg.filterDefaults)
      BY <1>4, <1>11, <1>13, <1>14, <2>4 DEF FilterSettled
    <3>2. r.u.filter = b.filter
      BY <1>4, <1>16, <2>4
    <3>3. /\ IsFcn(b.filter)
          /\ DOMAIN b.filter = DOMAIN Over(l.filter, c.filter) \cup DOMAIN k.u.cfg.filterDefaults
      BY <3>1, Merged, ZenonT(30)
    <3>4. DOMAIN Over(l.filter, c.filter) = DOMAIN l.filter \cup DOMAIN c.filter
      BY Merged, Zenon
    <3> QED BY <3>2, <3>3, <3>4
  <2> QED BY <2>2, <2>3, <2>4
<1>27. c.filter = NoFilter => r.u.filter = NoFilter \/ (c.secret = "" /\ l.secret # "")
  <2>1. unkeyed => c.secret = "" /\ l.secret # ""
    BY <1>12, Zenon DEF KeyState, unkeyed
  <2> QED BY <1>4, <1>16, <2>1, Zenon
<1>20. Answered(r.u, k.km, w)
  BY <1>2, <1>16, <1>18, AnswerMade, Zenon DEF w
<1> HIDE DEF w
<1> DEFINE none == l.secret # "" /\ k.km = NoKm
<1>21. /\ Kept(r.u, w.u, {"sndKm", "rcvKm", "fail"}) /\ w.u.fail = FALSE
       /\ none => w.u.sndKm = "NOSECRET" /\ w.u.rcvKm = "UNSECURED"
       /\ ~none => w.u.sndKm = r.u.sndKm /\ w.u.rcvKm = r.u.rcvKm
       /\ w.ext = [cmd |-> "HSRSP", hs |-> fillSrtHandshake_HSRSP(r.u),
                   km |-> IF none THEN KmReport("UNSECURED") ELSE k.km,
                   filter |-> r.u.filter, congctl |-> OwnCongctl(r.u)]
  BY <1>18, <1>20, Zenon DEF Answered
<1> HIDE DEF none
<1>22. /\ w.ext.km = IF none THEN KmReport("UNSECURED") ELSE k.km
       /\ w.u.kmMsg = k.u.kmMsg
       /\ unkeyed \/ none \/ (w.u.sndKm = k.u.sndKm /\ w.u.rcvKm = k.u.rcvKm)
  BY <1>13, <1>16, <1>21 DEF Kept, Fields
<1>23. KeyOutcome(c, l, id, w.u, w.ext.km)
  <2>1. CASE c.secret = ""
    <3>1. k.encrypted = FALSE /\ k.km = NoKm /\ k.u.sndKm = a.sndKm /\ k.u.rcvKm = "UNSECURED"
      BY <1>12, <2>1 DEF KeyState
    <3>2. CASE l.secret = ""
      <4>1. ~unkeyed /\ ~none /\ a.sndKm = "UNSECURED"
        BY <1>11, <3>2 DEF unkeyed, none, NoKeysYet
      <4> QED BY <1>22, <2>1, <3>1, <3>2, <4>1 DEF KeyOutcome
    <3>3. CASE l.secret # ""
      <4>1. unkeyed /\ none
        BY <3>1, <3>3 DEF unkeyed, none
      <4> QED BY <1>16, <1>21, <1>22, <2>1, <3>3, <4>1 DEF KeyOutcome
    <3> QED BY <3>2, <3>3
  <2>2. CASE c.secret # ""
    <3>1. /\ k.encrypted = TRUE /\ KeysSettled(a, k.u, ext.km, k.km)
          /\ l.enforced => l.secret # "" /\ ext.km.pw = l.secret
      BY <1>11, <1>12, <2>2 DEF KeyState
    <3>2. ext.km = KmOf(c, id) /\ ext.km.pw = c.secret /\ ext.km # NoKm
      BY <1>4, <2>2, KeyMessage, Zenon
    <3>3. KmReport("NOSECRET") # NoKm /\ KmReport("BADSECRET") # NoKm
      BY DEF KmReport, NoKm
    <3>4. k.km # NoKm
      BY <3>1, <3>2, <3>3, Zenon DEF KeysSettled
    <3>5. ~unkeyed /\ ~none
      BY <3>1, <3>4 DEF unkeyed, none
    <3>6. w.ext.km = k.km /\ w.u.kmMsg = k.u.kmMsg /\ w.u.sndKm = k.u.sndKm /\ w.u.rcvKm = k.u.rcvKm
      BY <1>22, <3>5
    <3> QED BY <1>11, <2>2, <3>1, <3>2, <3>6, Zenon DEF KeysSettled, KeyOutcome
  <2> QED BY <2>1, <2>2
<1>24. fillSrtHandshake_HSRSP(w.u) = fillSrtHandshake_HSRSP(r.u)
  BY <1>18, <1>21 DEF fillSrtHandshake_HSRSP, HsBlock, Kept, Fields
<1>25. /\ IsSocket(w.u) /\ w.u.cfg = l /\ w.u.startTime = TRUE /\ w.u.crypto = TRUE
       /\ w.u.tsbpd = a.tsbpd /\ w.u.peerTsbpd = a.peerTsbpd
       /\ w.u.delay = a.delay /\ w.u.peerDelay = a.peerDelay /\ w.u.filter = r.u.filter
  BY <1>18, <1>21 DEF Kept, Fields
<1>26. w.ext = [cmd |-> "HSRSP", hs |-> fillSrtHandshake_HSRSP(w.u), km |-> w.ext.km,
                filter |-> w.u.filter, congctl |-> IF l.congctl = "live" THEN "" ELSE l.congctl]
  BY <1>18, <1>21, <1>22, <1>24, <1>25, Zenon DEF OwnCongctl
<1>28. w.u.side = u.side
  BY <1>8, <1>17, <1>21 DEF Kept, Fields, KeyFields, TimeFields
<1> QED BY <1>9, <1>10, <1>19, <1>21, <1>23, <1>25, <1>26, <1>27, <1>28, Zenon
    DEF Negotiated, IsAnswer, NegotiatesWith, w, r, ext

(* The members of an answer and of an HSRSP block. *)
LEMMA AnswerFields ==
  ASSUME NEW h, NEW km, NEW f, NEW g,
         NEW x, IsAnswer(x, h, km, f, g)
  PROVE  x.cmd = "HSRSP" /\ x.hs = h /\ x.km = km /\ x.filter = f /\ x.congctl = g
  BY DEF IsAnswer

(* What a reader of an HSRSP block finds in it (fillSrtHandshake_HSRSP). *)
LEMMA BlockFields ==
  ASSUME NEW s
  PROVE  LET h == fillSrtHandshake_HSRSP(s)
         IN /\ h.tsbpdSnd = s.peerTsbpd /\ h.tsbpdRcv = s.cfg.tsbpd
            /\ h.sndLat = (IF s.peerTsbpd THEN s.peerDelay ELSE 0)
            /\ h.rcvLat = (IF s.cfg.tsbpd THEN s.delay ELSE 0)
  BY DEF fillSrtHandshake_HSRSP, HsBlock

(* An initiator that waits for the answer to its request. *)
Requesting(u, c, id) ==
  /\ IsSocket(u) /\ u.cfg = c /\ u.side = "INITIATOR" /\ u.filter = c.filter
  /\ u.tsbpd = FALSE /\ u.peerTsbpd = FALSE /\ u.connected = FALSE
  /\ u.kmMsg = KmOf(c, id) /\ u.rcvKm = "UNSECURED"
  /\ c.secret = "" => u.sndKm = "UNSECURED"

(* u sends what v expects. *)
Matching(u, v) ==
  /\ u.tsbpd => /\ v.peerTsbpd /\ v.peerDelay = u.delay
                /\ u.delay = Max2(u.cfg.rcvLatency, v.cfg.peerLatency)
  /\ Over(u.filter, u.cfg.filterDefaults) = Over(v.filter, u.cfg.filterDefaults)
  /\ u.cfg.congctl = v.cfg.congctl
  /\ u.sndKm = v.rcvKm

Encrypted(u) ==
  u.cfg.enforced /\ u.cfg.secret # "" => u.sndKm = "SECURED" /\ u.rcvKm = "SECURED"

(* The larger of two latencies does not depend on the end that computes it. *)
LEMMA Max2Symmetric == ASSUME NEW a \in Int, NEW b \in Int PROVE Max2(a, b) = Max2(b, a)
  BY DEF Max2

(* A responder that enforces its passphrase has negotiated keys. *)
LEMMA ResponderEncrypted ==
  ASSUME NEW c, NEW l, NEW id, NEW s, NEW x, Negotiated(c, l, id, s, x)
  PROVE  Encrypted(s)
  BY Zenon DEF Negotiated, KeyOutcome, Encrypted

(* The members of an initiator that an answer may change. *)
AnsweredFields == TimeFields \cup {"sndKm", "rcvKm", "filter", "fail"}

(* An initiator v after it accepted an answer of s. *)
AnswerSettled(c, l, s, v) ==
  /\ v.tsbpd = c.tsbpd /\ v.peerTsbpd = l.tsbpd
  /\ c.tsbpd => v.delay = s.peerDelay
  /\ l.tsbpd => v.peerDelay = s.delay
  /\ v.filter = s.filter /\ v.fail = FALSE

(* What an initiator has that was u before it accepted an answer of s. *)
AgreesWith(c, l, u, s, v) ==
  /\ IsSocket(v) /\ v.cfg = c /\ Matching(v, s) /\ Matching(s, v) /\ Encrypted(v)
  /\ AnswerSettled(c, l, s, v) /\ Kept(u, v, AnsweredFields)

(* An initiator that accepts the answer of a responder which has negotiated *)
(* agrees with it.                                                          *)
LEMMA InitiatorSettles ==
  ASSUME NEW c, ConfigOk(c), NEW l, ConfigOk(l), NEW id, NEW u, Requesting(u, c, id),
         NEW s, NEW x, Negotiated(c, l, id, s, x),
         interpretSrtHandshake(u, x).u.fail # TRUE
  PROVE  AgreesWith(c, l, u, s, interpretSrtHandshake(u, x).u)
<1> DEFINE u0 == [u EXCEPT !.fail = FALSE]
           a == InterpretHs(u0, x)
           k == InterpretKm(a, x)
           b == InterpretConfig(k.u, x)
           r == interpretSrtHandshake(u, x)
           v == r.u
<1>1. IsSocket(u)
  BY DEF Requesting
<1>2. /\ x.cmd = "HSRSP" /\ x.hs = fillSrtHandshake_HSRSP(s) /\ x.filter = s.filter
      /\ x.congctl = IF l.congctl = "live" THEN "" ELSE l.congctl
  <2> DEFINE g == IF l.congctl = "live" THEN "" ELSE l.congctl
  <2>1. IsAnswer(x, fillSrtHandshake_HSRSP(s), x.km, s.filter, g)
    BY DEF Negotiated
  <2> HIDE DEF g, u0, a, k, b, r, v
  <2>2. /\ x.cmd = "HSRSP" /\ x.hs = fillSrtHandshake_HSRSP(s) /\ x.filter = s.filter
        /\ x.congctl = g
    BY <2>1, AnswerFields
  <2> QED BY <2>2, Zenon DEF g
<1>3. /\ v = PostChecks(b, x, k.encrypted)
      /\ a.fail # TRUE /\ k.u.fail # TRUE /\ b.fail # TRUE /\ v.fail # TRUE
      /\ a = processSrtMsg_HSRSP(u0, x.hs)
  <2>1. x.cmd # "HSREQ"
    BY <1>2
  <2> QED BY <1>1, <2>1, Stages, Zenon
<1>4. Kept(u, u0, {"fail"}) /\ u0.fail = FALSE /\ IsSocket(u0)
  BY <1>1, Cleared DEF Kept
<1> HIDE DEF u0, a, k, b, r
<1>5. AnswerTaken(u0, x.hs, a)
  BY <1>3, <1>4, HsRspAccepted, Zenon
<1>6. \A f \in Fields \ (TimeFields \cup {"fail"}) : a[f] = u[f]
  BY <1>4, <1>5 DEF Kept, AnswerTaken
<1>7. /\ IsSocket(a) /\ a.cfg = c /\ a.side = "INITIATOR" /\ a.filter = c.filter
      /\ a.connected = FALSE /\ a.kmMsg = KmOf(c, id) /\ a.rcvKm = "UNSECURED"
      /\ a.fail = FALSE /\ a.sndKm = u.sndKm
  <2>1. a.fail = u0.fail /\ IsSocket(a)
    BY <1>5 DEF AnswerTaken, Kept, Fields, TimeFields
  <2> QED BY <1>4, <1>6, <2>1 DEF Requesting, Fields, TimeFields
<1>8. /\ x.hs.tsbpdSnd = c.tsbpd /\ x.hs.tsbpdRcv = l.tsbpd
      /\ c.tsbpd => x.hs.sndLat = s.peerDelay
      /\ l.tsbpd => x.hs.rcvLat = s.delay
  <2>1. s.peerTsbpd = c.tsbpd /\ s.cfg = l
    BY DEF Negotiated
  <2> QED BY <1>2, <2>1, BlockFields, Zenon
<1>9. u0.cfg = c /\ u0.tsbpd = FALSE /\ u0.peerTsbpd = FALSE
  BY <1>4 DEF Kept, Requesting, Fields
<1>10. /\ a.tsbpd = c.tsbpd /\ a.peerTsbpd = l.tsbpd
       /\ c.tsbpd => a.delay = s.peerDelay
       /\ l.tsbpd => a.peerDelay = s.delay
  BY <1>5, <1>8, <1>9 DEF AnswerTaken, ConfigOk
<1>11. KeySent(a) /\ c.enforced \in BOOLEAN
  BY <1>7 DEF KeySent, ConfigOk
<1> DEFINE KeyState ==
      /\ Kept(a, k.u, {"sndKm", "rcvKm"})
      /\ k.encrypted = (x.km # NoKm) /\ (c.secret # "" => x.km # NoKm)
      /\ k.u.sndKm = s.rcvKm /\ s.sndKm = k.u.rcvKm
      /\ c.enforced /\ c.secret # "" => k.u.sndKm = "SECURED" /\ k.u.rcvKm = "SECURED"
<1>12. KeyState
  <2>1. KeyOutcome(c, l, id, s, x.km)
    BY DEF Negotiated
  <2>2. CASE x.km = NoKm
    <3>1. KmReport("NOSECRET") # NoKm /\ KmReport("BADSECRET") # NoKm /\ KmReport("UNSECURED") # NoKm
      BY DEF KmReport, NoKm
    <3>2. c.secret # "" => KmOf(c, id) # NoKm
      BY KeyMessage, Zenon
    <3>3. c.secret = "" /\ s.sndKm = "UNSECURED" /\ s.rcvKm = "UNSECURED"
      BY <2>1, <2>2, <3>1, <3>2, Zenon DEF KeyOutcome
    <3>4. k = [u |-> a, km |-> NoKm, encrypted |-> FALSE]
      BY <1>7, <2>2, Zenon DEF k, InterpretKm
    <3>5. k.u = a /\ k.encrypted = FALSE
      BY <3>4
    <3>6. Kept(a, a, {"sndKm", "rcvKm"})
      BY <1>7 DEF Kept
    <3>7. a.sndKm = "UNSECURED"
      BY <1>7, <3>3 DEF Requesting
    <3> QED BY <1>7, <2>2, <3>3, <3>5, <3>6, <3>7
  <2>3. CASE x.km # NoKm
    <3>1. InterpretKm(a, x).u.fail # TRUE /\ x.cmd # "HSREQ" /\ a.cfg.enforced \in BOOLEAN
      BY <1>2, <1>3, <1>7, <1>11 DEF k
    <3>2. /\ Kept(a, k.u, {"sndKm", "rcvKm"}) /\ k.encrypted = TRUE
          /\ x.km = KmReport("UNSECURED") => k.u.sndKm = "UNSECURED" /\ k.u.rcvKm = "NOSECRET"
          /\ x.km = KmReport("NOSECRET")
               => ~a.cfg.enforced /\ k.u.sndKm = "NOSECRET" /\ k.u.rcvKm = "UNSECURED"
          /\ x.km = KmReport("BADSECRET")
               => ~a.cfg.enforced /\ k.u.sndKm = "BADSECRET" /\ k.u.rcvKm = "BADSECRET"
          /\ x.km = a.kmMsg /\ x.km.pw # "-"
               => k.u.sndKm = "SECURED" /\ k.u.rcvKm = "SECURED"
      BY <1>11, <2>3, <3>1, KmResponded, Zenon DEF k
    <3>3. c.secret # "" => KmOf(c, id).pw # "-"
      BY KeyMessage, Zenon
    <3> QED BY <1>7, <2>1, <2>3, <3>2, <3>3, Zenon DEF KeyOutcome
  <2> QED BY <2>2, <2>3
<1>13. IsSocket(k.u) /\ k.u.fail = FALSE /\ k.u.cfg = c /\ k.u.filter = c.filter /\ k.u.side = "INITIATOR"
  BY <1>7, <1>12 DEF Kept, Fields
<1> HIDE DEF KeyState
<1>14. /\ Kept(k.u, b, {"filter"}) /\ FilterSettled(k.u, x, b.filter)
       /\ x.congctl = "" \/ x.congctl = c.congctl
  BY <1>3, <1>13, ConfigAccepted, Zenon DEF b
<1>15. IsSocket(b) /\ b.fail = FALSE /\ b.cfg = c /\ k.encrypted \in BOOLEAN
       /\ b.side = "INITIATOR" /\ (c.secret # "" => k.encrypted = TRUE)
  <2>1. k.encrypted \in BOOLEAN /\ (c.secret # "" => k.encrypted = TRUE)
    BY <1>12, Zenon DEF KeyState
  <2> QED BY <1>13, <1>14, <2>1 DEF Kept, Fields
<1>16. PostSettled(b, x, k.encrypted, v)
  BY <1>3, <1>15, PostPassed, Zenon
<1>17. /\ c.congctl = "live" \/ x.congctl # ""
       /\ Kept(b, v, {"filter"}) /\ v.filter = b.filter
       /\ ~(b.filter # NoFilter /\ x.filter = NoFilter)
  BY <1>15, <1>16 DEF PostSettled
<1>18. c.congctl = l.congctl
  BY <1>2, <1>14, <1>17 DEF ConfigOk
<1>19. v.filter = s.filter
  <2>1. CASE s.filter = NoFilter
    BY <1>2, <1>13, <1>14, <1>17, <2>1 DEF FilterSettled
  <2>2. CASE s.filter # NoFilter /\ c.filter = NoFilter
    BY <1>2, <1>13, <1>14, <1>17, <2>2 DEF FilterSettled
  <2>3. CASE s.filter # NoFilter /\ c.filter # NoFilter
    <3>1. v.filter = Over(s.filter, c.filter)
      BY <1>2, <1>13, <1>14, <1>17, <2>3 DEF FilterSettled
    <3>2. IsFcn(s.filter) /\ DOMAIN c.filter \subseteq DOMAIN s.filter
      BY <2>3 DEF Negotiated
    <3> QED BY <3>1, <3>2, Merged, Zenon
  <2> QED BY <2>1, <2>2, <2>3
<1>20. \A f \in Fields \ {"sndKm", "rcvKm", "filter"} : v[f] = a[f]
  BY <1>12, <1>14, <1>17 DEF KeyState, Kept
<1>21. v.sndKm = k.u.sndKm /\ v.rcvKm = k.u.rcvKm
  BY <1>14, <1>17 DEF Kept, Fields
<1>22. /\ v.cfg = c /\ v.tsbpd = c.tsbpd /\ v.peerTsbpd = l.tsbpd
       /\ c.tsbpd => v.delay = s.peerDelay
       /\ l.tsbpd => v.peerDelay = s.delay
  BY <1>7, <1>10, <1>20 DEF Fields
<1>23. /\ s.cfg = l /\ s.tsbpd = (c.tsbpd /\ l.tsbpd) /\ s.peerTsbpd = c.tsbpd
       /\ c.tsbpd /\ l.tsbpd => s.delay = Max2(l.rcvLatency, c.peerLatency)
       /\ c.tsbpd => s.peerDelay = Max2(c.rcvLatency, l.peerLatency)
  <2>1. Max2(c.rcvLatency, l.peerLatency) = Max2(l.peerLatency, c.rcvLatency)
    BY Max2Symmetric DEF ConfigOk
  <2> QED BY <2>1, Zenon DEF Negotiated
<1>24. v.sndKm = s.rcvKm /\ s.sndKm = v.rcvKm /\ Encrypted(v)
  BY <1>12, <1>21, <1>22, Zenon DEF KeyState, Encrypted
<1>25. Matching(v, s)
  BY <1>18, <1>19, <1>22, <1>23, <1>24, Zenon DEF Matching
<1>26. Matching(s, v)
  BY <1>18, <1>19, <1>22, <1>23, <1>24, Zenon DEF Matching
<1>27. \A f \in Fields \ AnsweredFields : v[f] = u[f]
  BY <1>6, <1>20 DEF AnsweredFields
<1>28. AnswerSettled(c, l, s, v)
  <2>1. v.fail = FALSE
    BY <1>15, <1>17 DEF Kept, Fields
  <2> QED BY <1>19, <1>22, <2>1, Zenon DEF AnswerSettled
<1> QED BY <1>17, <1>22, <1>24, <1>25, <1>26, <1>27, <1>28, Zenon DEF Kept, r, AgreesWith

(* In particular, the two ends match. *)
LEMMA InitiatorAgrees ==
  ASSUME NEW c, ConfigOk(c), NEW l, ConfigOk(l), NEW id, NEW u, Requesting(u, c, id),
         NEW s, NEW x, Negotiated(c, l, id, s, x),
         interpretSrtHandshake(u, x).u.fail # TRUE
  PROVE  LET v == interpretSrtHandshake(u, x).u
         IN IsSocket(v) /\ v.cfg = c /\ Matching(v, s) /\ Matching(s, v) /\ Encrypted(v)
<1>1. AgreesWith(c, l, u, s, interpretSrtHandshake(u, x).u)
  BY InitiatorSettles, Zenon
<1> QED BY <1>1, Zenon DEF AgreesWith

(* u and v differ at most in what no negotiation looks at. *)
Alike(u, v) == Kept(u, v, {"fail", "reason", "connected", "peerId"})

(* What was negotiated does not depend on the rest of the socket. *)
LEMMA StillNegotiated ==
  ASSUME NEW c, NEW l, NEW id, NEW s, NEW x, Negotiated(c, l, id, s, x), NEW t, Alike(s, t)
  PROVE  Negotiated(c, l, id, t, x)
<1>1. /\ IsSocket(t) /\ t.cfg = s.cfg /\ t.startTime = s.startTime /\ t.crypto = s.crypto
      /\ t.tsbpd = s.tsbpd /\ t.peerTsbpd = s.peerTsbpd /\ t.delay = s.delay
      /\ t.peerDelay = s.peerDelay /\ t.filter = s.filter /\ t.kmMsg = s.kmMsg
      /\ t.sndKm = s.sndKm /\ t.rcvKm = s.rcvKm
  BY DEF Alike, Kept, Fields
<1>2. fillSrtHandshake_HSRSP(t) = fillSrtHandshake_HSRSP(s)
  BY <1>1 DEF fillSrtHandshake_HSRSP, HsBlock
<1>3. KeyOutcome(c, l, id, t, x.km)
  BY <1>1, Zenon DEF Negotiated, KeyOutcome
<1> QED BY <1>1, <1>2, <1>3, Zenon DEF Negotiated

(* Two ends that match still do after a change that negotiates nothing. *)
LEMMA StillMatching ==
  ASSUME NEW u, NEW v, NEW s, NEW t, Alike(u, v), Alike(s, t), Matching(u, s)
  PROVE  Matching(v, t)
<1>1. /\ v.cfg = u.cfg /\ v.tsbpd = u.tsbpd /\ v.delay = u.delay /\ v.filter = u.filter
      /\ v.sndKm = u.sndKm
  BY DEF Alike, Kept, Fields
<1>2. /\ t.cfg = s.cfg /\ t.peerTsbpd = s.peerTsbpd /\ t.peerDelay = s.peerDelay
      /\ t.filter = s.filter /\ t.rcvKm = s.rcvKm
  BY DEF Alike, Kept, Fields
<1> QED BY <1>1, <1>2, Zenon DEF Matching

Repeated(c, l, id, s, hadKm) ==
  LET k == craftKmResponse([s EXCEPT !.fail = FALSE], hadKm)
      w == createSrtHandshake(k.u, "HSRSP", k.km)
  IN /\ k.u.fail = FALSE /\ w.u.fail = FALSE
     /\ Alike(s, w.u) /\ Negotiated(c, l, id, w.u, w.ext)

(* Answering a repeated request (craftKmResponse, createSrtHandshake): the  *)
(* socket keeps what it negotiated, and the answer is one it may give.      *)
LEMMA RepeatAnswer ==
  ASSUME NEW c, ConfigOk(c), NEW l, NEW id, NEW s, NEW x, Negotiated(c, l, id, s, x),
         NEW hadKm \in BOOLEAN, hadKm = (c.secret # "")
  PROVE  Repeated(c, l, id, s, hadKm)
<1> DEFINE s0 == [s EXCEPT !.fail = FALSE]
           k == craftKmResponse(s0, hadKm)
           w == createSrtHandshake(k.u, "HSRSP", k.km)
<1>1. IsSocket(s) /\ s.crypto = TRUE /\ s.startTime = TRUE /\ s.cfg = l
  BY DEF Negotiated
<1>2. Kept(s, s0, {"fail"}) /\ s0.fail = FALSE
  BY <1>1, Cleared
<1>3. /\ IsSocket(s0) /\ s0.crypto = TRUE /\ s0.startTime = TRUE /\ s0.cfg = l
      /\ s0.kmMsg = s.kmMsg /\ s0.sndKm = s.sndKm /\ s0.rcvKm = s.rcvKm /\ s0.filter = s.filter
  BY <1>1, <1>2 DEF Kept, Fields
<1>4. Negotiated(c, l, id, s0, x)
  <2>1. Alike(s, s0)
    BY <1>2 DEF Alike, Kept
  <2> QED BY <2>1, StillNegotiated, Zenon
<1> HIDE DEF s0
<1>5. k = CASE ~hadKm -> [u |-> s0, km |-> NoKm]
            [] hadKm /\ ~s0.crypto -> [u |-> Reject(s0, "IPE"), km |-> NoKm]
            [] hadKm /\ s0.crypto /\ s0.kmMsg # NoKm -> [u |-> s0, km |-> s0.kmMsg]
            [] hadKm /\ s0.crypto /\ s0.kmMsg = NoKm ->
                 IF s0.rcvKm \in {"NOSECRET", "BADSECRET"}
                 THEN [u |-> s0, km |-> KmReport(s0.rcvKm)]
                 ELSE [u |-> Reject(s0, "IPE"), km |-> NoKm]
  BY DEF craftKmResponse
<1> HIDE DEF k
<1> DEFINE none == l.secret # "" /\ k.km = NoKm
           km == IF none THEN KmReport("UNSECURED") ELSE k.km
<1>6. KeyOutcome(c, l, id, s0, x.km)
  BY <1>4 DEF Negotiated
<1>7. /\ k.u = s0 /\ km = x.km
      /\ none => s0.sndKm = "NOSECRET" /\ s0.rcvKm = "UNSECURED"
  <2>1. CASE c.secret = ""
    <3>1. k = [u |-> s0, km |-> NoKm]
      BY <1>5, <2>1
    <3>2. k.u = s0 /\ k.km = NoKm
      BY <3>1
    <3> QED BY <1>6, <2>1, <3>2, Zenon DEF KeyOutcome
  <2>2. CASE c.secret # "" /\ l.secret # c.secret
    <3>1. /\ s0.kmMsg = NoKm /\ s0.rcvKm \in {"NOSECRET", "BADSECRET"}
          /\ x.km = KmReport(s0.rcvKm)
      BY <1>6, <2>2 DEF KeyOutcome
    <3>2. k = [u |-> s0, km |-> KmReport(s0.rcvKm)]
      BY <1>3, <1>5, <2>2, <3>1
    <3>3. k.u = s0 /\ k.km = x.km
      BY <3>1, <3>2
    <3>4. KmReport(s0.rcvKm) # NoKm
      BY <3>1 DEF KmReport, NoKm
    <3> QED BY <3>1, <3>3, <3>4, Zenon
  <2>3. CASE c.secret # "" /\ l.secret = c.secret
    <3>1. KmOf(c, id) # NoKm
      BY <2>3, KeyMessage, Zenon
    <3>2. s0.kmMsg = x.km /\ s0.kmMsg # NoKm
      BY <1>6, <2>3, <3>1, Zenon DEF KeyOutcome
    <3>3. k = [u |-> s0, km |-> s0.kmMsg]
      BY <1>3, <1>5, <2>3, <3>2
    <3>4. k.u = s0 /\ k.km = x.km
      BY <3>2, <3>3
    <3> QED BY <3>2, <3>4, Zenon
  <2> QED BY <2>1, <2>2, <2>3
<1>8. Answered(s0, k.km, w)
  BY <1>3, <1>7, AnswerMade, Zenon
<1> HIDE DEF w, none, km
<1>9. /\ Kept(s0, w.u, {"sndKm", "rcvKm", "fail"}) /\ w.u.fail = FALSE
      /\ none => w.u.sndKm = "NOSECRET" /\ w.u.rcvKm = "UNSECURED"
      /\ ~none => w.u.sndKm = s0.sndKm /\ w.u.rcvKm = s0.rcvKm
      /\ w.ext = [cmd |-> "HSRSP", hs |-> fillSrtHandshake_HSRSP(s0),
                  km |-> km, filter |-> s0.filter, congctl |-> OwnCongctl(s0)]
  BY <1>3, <1>8, Zenon DEF Answered, none, km
<1>10. w.u.sndKm = s0.sndKm /\ w.u.rcvKm = s0.rcvKm
  BY <1>7, <1>9
<1>11. Alike(s, w.u) /\ Alike(s0, w.u)
  BY <1>2, <1>9, <1>10 DEF Alike, Kept, Fields
<1>12. w.ext = x
  BY <1>3, <1>4, <1>7, <1>9, Zenon DEF Negotiated, IsAnswer, OwnCongctl
<1>13. Negotiated(c, l, id, w.u, w.ext)
  BY <1>4, <1>11, <1>12, StillNegotiated, Zenon
<1>14. k.u.fail = FALSE
  BY <1>2, <1>7
<1> QED BY <1>9, <1>11, <1>13, <1>14, Zenon DEF w, k, s0, Repeated

(* r is what a responder u with settled keys makes of the same key message. *)
KeysStay(c, l, id, u, km, r) ==
  /\ Kept(u, r.u, KeyFields) /\ r.u.fail = FALSE /\ r.encrypted = TRUE
  /\ r.km = km /\ KeyOutcome(c, l, id, r.u, km)

(* A responder that has settled its keys is asked again with the same key   *)
(* message (processSrtMsg_KMREQ): it gives the same answer or rejects.      *)
LEMMA KmAskedAgain ==
  ASSUME NEW c, ConfigOk(c), NEW l, ConfigOk(l), NEW id, NEW u, IsSocket(u), u.fail = FALSE, u.cfg = l,
         NEW km, KeyOutcome(c, l, id, u, km), c.secret # "",
         NEW ext, ext.cmd = "HSREQ", ext.km = KmOf(c, id), InterpretKm(u, ext).u.fail # TRUE
  PROVE  KeysStay(c, l, id, u, km, InterpretKm(u, ext))
<1> DEFINE r == InterpretKm(u, ext)
           q == processSrtMsg_KMREQ(u, ext.km)
           rej(v, why) == [u |-> Reject(v, why), km |-> NoKm, encrypted |-> FALSE]
           securing == IF u.rcvCtx THEN u ELSE [u EXCEPT !.rcvKm = "SECURING"]
           withCtx == [securing EXCEPT !.rcvCtx = TRUE]
           secured == [withCtx EXCEPT !.rcvKm = "SECURED"]
           bad == IF u.rcvCtx THEN withCtx ELSE [withCtx EXCEPT !.sndKm = "BADSECRET"]
<1>0. ext.km # NoKm /\ ext.km.pw = c.secret
  BY KeyMessage, Zenon
<1>1. r = IF u.cfg.secret = "" /\ u.cfg.enforced THEN rej(u, "UNSECURE")
          ELSE IF q.rsp # "KMRSP" THEN rej(q.u, "IPE")
          ELSE IF KmLen(q.km) = 1 /\ u.cfg.enforced
               THEN rej(q.u, IF q.u.rcvKm = "BADSECRET" THEN "BADSECRET" ELSE "UNSECURE")
          ELSE [u |-> q.u, km |-> q.km, encrypted |-> TRUE]
  BY <1>0, Zenon DEF InterpretKm
<1>2. r.u.fail # TRUE
  OBVIOUS
<1>3. /\ Kept(u, securing, {"rcvKm"}) /\ Kept(u, withCtx, {"rcvKm", "rcvCtx"})
      /\ Kept(u, secured, {"rcvKm", "rcvCtx"}) /\ secured.rcvKm = "SECURED"
      /\ Kept(u, bad, {"rcvKm", "rcvCtx", "sndKm"}) /\ (~u.rcvCtx => bad.sndKm = "BADSECRET")
  <2>1. CASE u.rcvCtx
    <3>1. securing = u /\ bad = [u EXCEPT !.rcvCtx = TRUE]
      BY <2>1, Zenon
    <3>2. withCtx = [u EXCEPT !.rcvCtx = TRUE] /\ secured = [[u EXCEPT !.rcvCtx = TRUE] EXCEPT !.rcvKm = "SECURED"]
      BY <3>1, Zenon
    <3> HIDE DEF securing, withCtx, secured, bad
    <3> QED BY <2>1, <3>1, <3>2, ZenonT(30) DEF Kept, IsSocket, Fields
  <2>2. CASE ~u.rcvCtx
    <3>1. securing = [u EXCEPT !.rcvKm = "SECURING"] /\ bad = [withCtx EXCEPT !.sndKm = "BADSECRET"]
      BY <2>2, Zenon
    <3>2. withCtx = [securing EXCEPT !.rcvCtx = TRUE] /\ secured = [withCtx EXCEPT !.rcvKm = "SECURED"]
      OBVIOUS
    <3> HIDE DEF securing, withCtx, secured, bad
    <3> QED BY <2>2, <3>1, <3>2, ZenonT(30) DEF Kept, IsSocket, Fields
  <2> QED BY <2>1, <2>2
<1>4. \A v, why : IsSocket(v) => rej(v, why).u.fail = TRUE
  BY RejectOnly
<1>5. \A st : KmReport(st).pw = "-"
  BY DEF KmReport
<1>6. CASE l.secret = ""
  <2>1. q = IF u.rcvCtx THEN [u |-> securing, rsp |-> "NONE", km |-> KmReport("NOSECRET")]
            ELSE [u |-> [securing EXCEPT !.rcvKm = "NOSECRET",
                                         !.sndCtx = securing.sndCtx \/ securing.cfg.secret # ""],
                  rsp |-> "KMRSP", km |-> KmReport("NOSECRET")]
    BY <1>6, Zenon DEF processSrtMsg_KMREQ, KmreqError
  <2>2. u.sndKm = "UNSECURED" /\ u.kmMsg = NoKm /\ km = KmReport("NOSECRET")
    BY <1>6, Zenon DEF KeyOutcome
  <2> HIDE DEF q, securing, withCtx, secured, bad, r, rej
  <2>3. u.rcvCtx => q.rsp # "KMRSP" /\ q.u = securing
    BY <2>1
  <2>4. ~u.rcvCtx
    <3> SUFFICES ASSUME u.rcvCtx PROVE FALSE
      OBVIOUS
    <3>1. IsSocket(securing) /\ q.rsp # "KMRSP" /\ q.u = securing
      BY <1>3, <2>3 DEF Kept
    <3> QED BY <1>1, <1>2, <1>4, <3>1, Zenon
  <2>5. /\ q.u = [securing EXCEPT !.rcvKm = "NOSECRET",
                                  !.sndCtx = securing.sndCtx \/ securing.cfg.secret # ""]
        /\ q.rsp = "KMRSP" /\ q.km = KmReport("NOSECRET")
    BY <2>1, <2>4
  <2>6. Kept(securing, q.u, {"rcvKm", "sndCtx"}) /\ q.u.rcvKm = "NOSECRET"
    BY <2>5, <1>3 DEF Kept, IsSocket, Fields
  <2>7. Kept(u, q.u, KeyFields) /\ q.u.fail = FALSE /\ q.u.kmMsg = NoKm /\ q.u.sndKm = "UNSECURED"
    BY <1>3, <2>2, <2>6 DEF Kept, KeyFields, Fields
  <2>8. r = [u |-> q.u, km |-> q.km, encrypted |-> TRUE]
    BY <1>1, <1>2, <1>4, <2>5, <2>7, Zenon DEF Kept
  <2>9. r.u = q.u /\ r.km = q.km /\ r.encrypted = TRUE
    BY <2>8
  <2> QED BY <1>6, <2>2, <2>5, <2>6, <2>7, <2>9, Zenon DEF r, KeyOutcome, KeysStay
<1>7. CASE l.secret # "" /\ c.secret # l.secret
  <2>1. q = IF u.rcvCtx THEN [u |-> bad, rsp |-> "NONE", km |-> KmReport("BADSECRET")]
            ELSE [u |-> [bad EXCEPT !.rcvKm = "BADSECRET", !.sndCtx = bad.sndCtx \/ bad.cfg.secret # ""],
                  rsp |-> "KMRSP", km |-> KmReport("BADSECRET")]
    BY <1>0, <1>7, Zenon DEF processSrtMsg_KMREQ, KmreqError
  <2>2. u.kmMsg = NoKm /\ km = KmReport("BADSECRET") /\ ~l.enforced
    BY <1>7, Zenon DEF KeyOutcome
  <2> HIDE DEF q, securing, withCtx, secured, bad, r, rej
  <2>3. u.rcvCtx => q.rsp # "KMRSP" /\ q.u = bad
    BY <2>1
  <2>4. ~u.rcvCtx
    <3> SUFFICES ASSUME u.rcvCtx PROVE FALSE
      OBVIOUS
    <3>1. IsSocket(bad) /\ q.rsp # "KMRSP" /\ q.u = bad
      BY <1>3, <2>3 DEF Kept
    <3> QED BY <1>1, <1>2, <1>4, <3>1, Zenon
  <2>5. /\ q.u = [bad EXCEPT !.rcvKm = "BADSECRET", !.sndCtx = bad.sndCtx \/ bad.cfg.secret # ""]
        /\ q.rsp = "KMRSP" /\ q.km = KmReport("BADSECRET")
    BY <2>1, <2>4
  <2>6. Kept(bad, q.u, {"rcvKm", "sndCtx"}) /\ q.u.rcvKm = "BADSECRET"
    BY <2>5, <1>3 DEF Kept, IsSocket, Fields
  <2>7. Kept(u, q.u, KeyFields) /\ q.u.fail = FALSE /\ q.u.kmMsg = NoKm /\ q.u.sndKm = "BADSECRET"
    BY <1>3, <2>2, <2>4, <2>6 DEF Kept, KeyFields, Fields
  <2>8. r = [u |-> q.u, km |-> q.km, encrypted |-> TRUE]
    BY <1>1, <1>2, <1>4, <2>5, <2>7, Zenon DEF Kept
  <2>9. r.u = q.u /\ r.km = q.km /\ r.encrypted = TRUE
    BY <2>8
  <2> QED BY <1>7, <2>2, <2>5, <2>6, <2>7, <2>9, Zenon DEF r, KeyOutcome, KeysStay
<1>8. CASE l.secret = c.secret
  <2>1. q = [u |-> IF secured.sndKm = "SECURING" /\ ~secured.sndCtx
                   THEN [secured EXCEPT !.sndCtx = TRUE, !.sndKm = "SECURED", !.kmMsg = ext.km]
                   ELSE secured,
             rsp |-> "KMRSP", km |-> ext.km]
    BY <1>0, <1>8, Zenon DEF processSrtMsg_KMREQ
  <2>2. u.sndKm = "SECURED" /\ u.kmMsg = KmOf(c, id) /\ km = KmOf(c, id)
    BY <1>8, Zenon DEF KeyOutcome
  <2> HIDE DEF q, securing, withCtx, secured, bad, r, rej
  <2>3. secured.sndKm = "SECURED"
    BY <1>3, <2>2 DEF Kept, Fields
  <2>4. q.u = secured /\ q.rsp = "KMRSP" /\ q.km = km
    BY <2>1, <2>2, <2>3
  <2>5. Kept(u, q.u, KeyFields) /\ q.u.fail = FALSE /\ q.u.kmMsg = km /\ q.u.rcvKm = "SECURED"
    BY <1>3, <2>2, <2>4 DEF Kept, KeyFields, Fields
  <2>6. r = [u |-> q.u, km |-> q.km, encrypted |-> TRUE]
    BY <1>1, <1>2, <1>4, <2>4, <2>5, Zenon DEF Kept
  <2>7. r.u = q.u /\ r.km = q.km /\ r.encrypted = TRUE
    BY <2>6
  <2> QED BY <1>8, <2>2, <2>3, <2>4, <2>5, <2>7, Zenon DEF r, KeyOutcome, KeysStay
<1> QED BY <1>6, <1>7, <1>8

(* An answer with the key message km (createSrtHandshake) that says what    *)
(* was negotiated.                                                          *)
LEMMA AnswerGiven ==
  ASSUME NEW c, ConfigOk(c), NEW l, NEW id, NEW s, NEW x, Negotiated(c, l, id, s, x),
         NEW km, x.km = IF l.secret # "" /\ km = NoKm THEN KmReport("UNSECURED") ELSE km
  PROVE  LET w == createSrtHandshake(s, "HSRSP", km)
         IN w.u.fail = FALSE /\ Alike(s, w.u) /\ Negotiated(c, l, id, w.u, w.ext)
<1> DEFINE w == createSrtHandshake(s, "HSRSP", km)
           none == l.secret # "" /\ km = NoKm
<1>1. IsSocket(s) /\ s.crypto = TRUE /\ s.startTime = TRUE /\ s.cfg = l
  BY DEF Negotiated
<1>2. Answered(s, km, w)
  BY <1>1, AnswerMade, Zenon
<1> HIDE DEF w
<1>3. /\ Kept(s, w.u, {"sndKm", "rcvKm", "fail"}) /\ w.u.fail = FALSE
      /\ none => w.u.sndKm = "NOSECRET" /\ w.u.rcvKm = "UNSECURED"
      /\ ~none => w.u.sndKm = s.sndKm /\ w.u.rcvKm = s.rcvKm
      /\ w.ext = [cmd |-> "HSRSP", hs |-> fillSrtHandshake_HSRSP(s),
                  km |-> x.km, filter |-> s.filter, congctl |-> OwnCongctl(s)]
  BY <1>1, <1>2, Zenon DEF Answered
<1>4. none => s.sndKm = "NOSECRET" /\ s.rcvKm = "UNSECURED"
  <2>1. KmReport("UNSECURED") \notin {NoKm, KmReport("NOSECRET"), KmReport("BADSECRET")}
    BY DEF KmReport, NoKm
  <2>2. c.secret # "" => KmOf(c, id) # KmReport("UNSECURED")
    BY KeyMessage, Zenon
  <2> QED BY <2>1, <2>2, Zenon DEF Negotiated, KeyOutcome
<1>5. w.u.sndKm = s.sndKm /\ w.u.rcvKm = s.rcvKm
  BY <1>3, <1>4, Zenon
<1>6. Alike(s, w.u)
  BY <1>3, <1>5 DEF Alike, Kept, Fields
<1>7. w.ext = x
  BY <1>1, <1>3, Zenon DEF Negotiated, IsAnswer, OwnCongctl
<1> QED BY <1>3, <1>6, <1>7, StillNegotiated, Zenon DEF w

(* A filter that is the same as another one up to the defaults d. *)
SameFilter(f, g, d) == Over(f, d) = Over(g, d)

(* Defaults are filled in once. *)
LEMMA DefaultsOnce == ASSUME NEW f, NEW d PROVE SameFilter(Over(f, d), f, d)
<1>1. /\ IsFcn(Over(f, d)) /\ DOMAIN Over(f, d) = DOMAIN f \cup DOMAIN d
      /\ IsFcn(Over(f, d)) /\ DOMAIN d \subseteq DOMAIN Over(f, d) => Over(Over(f, d), d) = Over(f, d)
  BY Merged, Zenon
<1> QED BY <1>1 DEF SameFilter

(* A filter merged with itself. *)
LEMMA OverItself == ASSUME NEW f, IsFcn(f) PROVE Over(f, f) = f
  BY Merged, Zenon

(* A filter whose settings include those of one that is set is set. *)
LEMMA FilterIsSet ==
  ASSUME NEW f, IsFcn(f), NEW g, f # NoFilter, DOMAIN f \subseteq DOMAIN g
  PROVE  g # NoFilter
<1>1. DOMAIN f # {}
  <2> SUFFICES ASSUME DOMAIN f = {} PROVE FALSE
    OBVIOUS
  <2>1. f = [x \in {} |-> f[x]]
    BY DEF IsFcn
  <2>2. NoFilter = [x \in {} |-> f[x]]
    BY EmptyFilter DEF IsFcn
  <2> QED BY <2>1, <2>2
<1> QED BY <1>1, EmptyFilter

(* The answer s may give with the key message km. *)
AnswerWith(s, km) ==
  [cmd |-> "HSRSP", hs |-> fillSrtHandshake_HSRSP(s), km |-> km, filter |-> s.filter,
   congctl |-> OwnCongctl(s)]

(* The responder s after it looked at the request once more, and the key    *)
(* message its next answer carries.                                         *)
Reconsidered(c, l, id, s) ==
  LET r == interpretSrtHandshake(s, RequestOf(c, id))
  IN /\ r.u.fail = FALSE /\ r.u.side = s.side
     /\ SameFilter(r.u.filter, s.filter, l.filterDefaults)
     /\ \E y : /\ Negotiated(c, l, id, r.u, y)
               /\ y.km = IF l.secret # "" /\ r.km = NoKm THEN KmReport("UNSECURED") ELSE r.km

(* A responder that has negotiated and accepts the same request again still *)
(* has negotiated; its filter is at most completed with the defaults.       *)
LEMMA RequestAgain ==
  ASSUME NEW c, ConfigOk(c), NEW l, ConfigOk(l), l.rendezvous = TRUE, NEW id,
         NEW s, s.side # "INITIATOR", NEW x, Negotiated(c, l, id, s, x),
         interpretSrtHandshake(s, RequestOf(c, id)).u.fail # TRUE
  PROVE  Reconsidered(c, l, id, s)
<1> DEFINE ext == RequestOf(c, id)
           u0 == [s EXCEPT !.fail = FALSE]
           a == InterpretHs(u0, ext)
           k == InterpretKm(a, ext)
           b == InterpretConfig(k.u, ext)
           r == interpretSrtHandshake(s, ext)
<1>1. IsSocket(s)
  BY DEF Negotiated
<1>2. /\ r.u = PostChecks(b, ext, k.encrypted) /\ r.km = k.km
      /\ a.fail # TRUE /\ k.u.fail # TRUE /\ b.fail # TRUE /\ r.u.fail # TRUE
      /\ a = processSrtMsg_HSREQ(u0, ext.hs)
  <2>1. ext.cmd = "HSREQ"
    BY DEF RequestOf
  <2> HIDE DEF ext
  <2> QED BY <1>1, <2>1, Stages, Zenon DEF ext
<1>3. Kept(s, u0, {"fail"}) /\ u0.fail = FALSE /\ IsSocket(u0)
  BY <1>1, Cleared DEF Kept
<1>4. /\ ext.cmd = "HSREQ" /\ ext.hs = RequestHs(c) /\ ext.km = KmOf(c, id)
      /\ ext.filter = c.filter
  BY DEF RequestOf
<1>5. /\ ext.hs.tsbpdSnd = c.tsbpd /\ ext.hs.tsbpdRcv = c.tsbpd
      /\ c.tsbpd => ext.hs.sndLat = c.peerLatency /\ ext.hs.rcvLat = c.rcvLatency
  BY <1>4 DEF RequestHs
<1> HIDE DEF ext, u0, a, k, b, r
<1>6. RequestTaken(u0, ext.hs, a)
  BY <1>2, <1>3, HsReqAccepted, Zenon
<1>7. /\ s.tsbpd = (c.tsbpd /\ l.tsbpd) /\ s.peerTsbpd = c.tsbpd /\ s.cfg = l /\ s.crypto = TRUE
      /\ KeyOutcome(c, l, id, s, x.km)
      /\ IsFcn(s.filter) /\ (c.filter # NoFilter => DOMAIN c.filter \subseteq DOMAIN s.filter)
      /\ c.filter = NoFilter => s.filter = NoFilter \/ (c.secret = "" /\ l.secret # "")
  BY Zenon DEF Negotiated
<1>8. /\ u0.tsbpd = s.tsbpd /\ u0.peerTsbpd = s.peerTsbpd /\ u0.cfg = l
      /\ \A f \in Fields \ {"fail"} : u0[f] = s[f]
  BY <1>3, <1>7 DEF Kept, Fields
<1>9. a.tsbpd = (c.tsbpd /\ l.tsbpd) /\ a.peerTsbpd = c.tsbpd
  BY <1>5, <1>6, <1>7, <1>8 DEF ConfigOk, RequestTaken
<1>10. /\ c.tsbpd /\ l.tsbpd => a.delay = Max2(l.rcvLatency, c.peerLatency)
       /\ c.tsbpd => a.peerDelay = Max2(l.peerLatency, c.rcvLatency)
  BY <1>5, <1>6, <1>8 DEF RequestTaken
<1>11. /\ IsSocket(a) /\ a.fail = FALSE /\ a.cfg = l /\ a.crypto = TRUE /\ a.side = s.side
       /\ a.filter = s.filter /\ a.sndKm = s.sndKm /\ a.rcvKm = s.rcvKm /\ a.kmMsg = s.kmMsg
       /\ a.startTime = TRUE
  <2>1. \A f \in Fields \ TimeFields : a[f] = u0[f]
    BY <1>6 DEF RequestTaken, Kept
  <2>2. IsSocket(a) /\ a.startTime = TRUE
    BY <1>6 DEF RequestTaken, Kept
  <2> QED BY <1>3, <1>7, <1>8, <2>1, <2>2, ZenonT(30) DEF Fields, TimeFields
<1>12. KeyOutcome(c, l, id, a, x.km)
  BY <1>7, <1>11, Zenon DEF KeyOutcome
<1> DEFINE KeyState ==
      /\ Kept(a, k.u, KeyFields) /\ k.u.fail = FALSE
      /\ k.encrypted \in BOOLEAN /\ (k.encrypted = TRUE <=> c.secret # "")
      /\ KeyOutcome(c, l, id, k.u, x.km)
      /\ x.km = IF l.secret # "" /\ k.km = NoKm THEN KmReport("UNSECURED") ELSE k.km
<1>13. KeyState
  <2>1. CASE c.secret = ""
    <3>1. ext.km = NoKm
      BY <1>4, <2>1, Zenon DEF KmOf
    <3>2. k = [u |-> a, km |-> NoKm, encrypted |-> FALSE]
      BY <1>11, <3>1, Zenon DEF k, InterpretKm
    <3>3. k.u = a /\ k.km = NoKm /\ k.encrypted = FALSE
      BY <3>2
    <3>4. Kept(a, a, KeyFields)
      BY <1>11 DEF Kept
    <3>5. x.km = IF l.secret # "" THEN KmReport("UNSECURED") ELSE NoKm
      BY <1>12, <2>1, Zenon DEF KeyOutcome
    <3> QED BY <1>11, <1>12, <2>1, <3>3, <3>4, <3>5, Zenon
  <2>2. CASE c.secret # ""
    <3>1. InterpretKm(a, ext).u.fail # TRUE
      BY <1>2, ZenonT(30) DEF k
    <3>6. IsSocket(a) /\ a.fail = FALSE /\ a.cfg = l /\ ext.cmd = "HSREQ" /\ ext.km = KmOf(c, id)
      BY <1>4, <1>11
    <3>7. KeysStay(c, l, id, a, x.km, k)
      BY <1>12, <2>2, <3>1, <3>6, KmAskedAgain, Zenon DEF k
    <3>2. /\ Kept(a, k.u, KeyFields) /\ k.u.fail = FALSE /\ k.encrypted = TRUE
          /\ k.km = x.km /\ KeyOutcome(c, l, id, k.u, x.km)
      BY <3>7, Zenon DEF KeysStay
    <3>3. KmReport("NOSECRET") # NoKm /\ KmReport("BADSECRET") # NoKm
      BY DEF KmReport, NoKm
    <3>4. KmOf(c, id) # NoKm
      BY <2>2, KeyMessage, Zenon
    <3>5. k.km # NoKm
      BY <1>12, <2>2, <3>2, <3>3, <3>4, Zenon DEF KeyOutcome
    <3> QED BY <2>2, <3>2, <3>5, Zenon
  <2> QED BY <2>1, <2>2
<1>14. /\ Kept(k.u, b, {"filter"}) /\ FilterSettled(k.u, ext, b.filter)
  <2>1. IsSocket(k.u) /\ k.u.fail = FALSE
    BY <1>13 DEF Kept
  <2> HIDE DEF KeyState
  <2> QED BY <1>2, <2>1, ConfigAccepted, Zenon DEF b
<1>15. /\ k.encrypted \in BOOLEAN /\ IsSocket(b) /\ b.fail = FALSE /\ b.cfg = l /\ k.u.cfg = l
       /\ b.side = s.side /\ k.u.filter = s.filter /\ k.u.side = s.side
  BY <1>11, <1>13, <1>14 DEF Kept, KeyFields, Fields
<1>16. PostSettled(b, ext, k.encrypted, r.u)
  <2> HIDE DEF KeyState
  <2> QED BY <1>2, <1>15, PostPassed, Zenon
<1> DEFINE unkeyed == ~k.encrypted /\ l.secret # ""
<1>17. /\ IsSocket(r.u)
       /\ \A f \in Fields \ {"sndCtx", "sndKm", "rcvKm", "filter"} : r.u[f] = b[f]
       /\ unkeyed => /\ r.u.filter = b.filter
                     /\ r.u.sndKm = "NOSECRET" /\ r.u.rcvKm = "UNSECURED"
       /\ ~unkeyed => /\ r.u.sndKm = b.sndKm /\ r.u.rcvKm = b.rcvKm
       /\ ~unkeyed /\ b.filter # NoFilter /\ ext.filter = NoFilter => r.u.filter = NoFilter
       /\ ~(b.filter # NoFilter /\ ext.filter = NoFilter) => r.u.filter = b.filter
  BY <1>15, <1>16 DEF Kept, Fields, PostSettled
<1> HIDE DEF unkeyed
<1>18. unkeyed <=> c.secret = "" /\ l.secret # ""
  BY <1>13, Zenon DEF unkeyed
<1> HIDE DEF KeyState
<1>19. \A f \in Fields \ (KeyFields \cup {"filter"}) : r.u[f] = a[f]
  BY <1>13, <1>14, <1>17 DEF KeyState, Kept, KeyFields
<1>20. /\ r.u.cfg = l /\ r.u.startTime = TRUE /\ r.u.crypto = TRUE
       /\ r.u.tsbpd = a.tsbpd /\ r.u.peerTsbpd = a.peerTsbpd
       /\ r.u.delay = a.delay /\ r.u.peerDelay = a.peerDelay /\ r.u.side = s.side
  BY <1>11, <1>19 DEF Fields, KeyFields
<1>21. r.u.fail = FALSE /\ r.u.kmMsg = k.u.kmMsg
  BY <1>14, <1>15, <1>17 DEF Fields, Kept
<1>22. /\ IsFcn(r.u.filter) /\ (c.filter # NoFilter => DOMAIN c.filter \subseteq DOMAIN r.u.filter)
       /\ c.filter = NoFilter => r.u.filter = NoFilter \/ (c.secret = "" /\ l.secret # "")
       /\ SameFilter(r.u.filter, s.filter, l.filterDefaults)
  <2>1. CASE c.filter = NoFilter
    <3>1. b.filter = s.filter
      BY <1>4, <1>14, <1>15, <2>1, Zenon DEF FilterSettled
    <3>2. r.u.filter = s.filter
      BY <1>4, <1>7, <1>17, <1>18, <2>1, <3>1, Zenon
    <3> QED BY <1>7, <2>1, <3>2, Zenon DEF SameFilter
  <2>2. CASE c.filter # NoFilter
    <3>1. s.filter # NoFilter
      BY <1>7, <2>2, FilterIsSet DEF ConfigOk, IsFcn
    <3>2. /\ b.filter = Over(Over(s.filter, c.filter), l.filterDefaults)
          /\ s.filter = c.filter
      BY <1>4, <1>14, <1>15, <2>2, <3>1, Zenon DEF FilterSettled
    <3>3. r.u.filter = b.filter
      BY <1>4, <1>17, <2>2, Zenon
    <3>4. r.u.filter = Over(s.filter, l.filterDefaults)
      BY <1>7, <3>2, <3>3, OverItself, Zenon
    <3>5. IsFcn(r.u.filter) /\ DOMAIN r.u.filter = DOMAIN s.filter \cup DOMAIN l.filterDefaults
      <4>1. /\ IsFcn(Over(s.filter, l.filterDefaults))
            /\ DOMAIN Over(s.filter, l.filterDefaults) = DOMAIN s.filter \cup DOMAIN l.filterDefaults
        BY Merged, Zenon
      <4> QED BY <3>4, <4>1
    <3>6. SameFilter(r.u.filter, s.filter, l.filterDefaults)
      BY <3>4, DefaultsOnce, Zenon
    <3> QED BY <1>7, <2>2, <3>5, <3>6
  <2> QED BY <2>1, <2>2
<1>23. KeyOutcome(c, l, id, r.u, x.km)
  <2>1. CASE unkeyed
    <3>1. KeyOutcome(c, l, id, k.u, x.km)
      BY <1>13 DEF KeyState
    <3> QED BY <1>17, <1>18, <2>1, <3>1, Zenon DEF KeyOutcome
  <2>2. CASE ~unkeyed
    <3>1. r.u.sndKm = k.u.sndKm /\ r.u.rcvKm = k.u.rcvKm
      BY <1>14, <1>17, <2>2 DEF Kept, Fields
    <3>2. KeyOutcome(c, l, id, k.u, x.km)
      BY <1>13 DEF KeyState
    <3> QED BY <1>21, <3>1, <3>2, Zenon DEF KeyOutcome
  <2> QED BY <2>1, <2>2
<1> DEFINE y == AnswerWith(r.u, x.km)
<1>24. y.km = x.km
  BY DEF AnswerWith
<1>25. Negotiated(c, l, id, r.u, y)
  <2>1. IsAnswer(y, fillSrtHandshake_HSRSP(r.u), y.km, r.u.filter,
                 IF l.congctl = "live" THEN "" ELSE l.congctl)
    BY <1>20, <1>24, Zenon DEF AnswerWith, IsAnswer, OwnCongctl
  <2> HIDE DEF y
  <2> QED BY <1>9, <1>10, <1>17, <1>20, <1>22, <1>23, <1>24, <2>1, Zenon DEF Negotiated
<1>26. y.km = IF l.secret # "" /\ r.km = NoKm THEN KmReport("UNSECURED") ELSE r.km
  BY <1>2, <1>13, <1>24, Zenon DEF KeyState
<1> HIDE DEF y
<1> QED BY <1>20, <1>21, <1>22, <1>25, <1>26, Zenon DEF Reconsidered, r, ext

(* The key states of an initiator that accepted an answer. *)
InitiatorKeys(c, l, v) ==
  \/ c.secret = "" /\ l.secret = "" /\ v.sndKm = "UNSECURED" /\ v.rcvKm = "UNSECURED"
  \/ c.secret = "" /\ l.secret # "" /\ v.sndKm = "UNSECURED" /\ v.rcvKm = "NOSECRET"
  \/ c.secret # "" /\ l.secret = "" /\ v.sndKm = "NOSECRET" /\ v.rcvKm = "UNSECURED"
  \/ /\ c.secret # "" /\ l.secret # "" /\ c.secret # l.secret
     /\ v.sndKm = "BADSECRET" /\ v.rcvKm = "BADSECRET"
  \/ c.secret # "" /\ l.secret = c.secret /\ v.sndKm = "SECURED" /\ v.rcvKm = "SECURED"

(* An initiator named id that is connected to a responder with options l. *)
Confirmed(u, c, l, id) ==
  /\ IsSocket(u) /\ u.cfg = c /\ u.side = "INITIATOR" /\ u.connected = TRUE
  /\ u.tsbpd = c.tsbpd /\ u.peerTsbpd = l.tsbpd
  /\ c.tsbpd => u.delay = Max2(c.rcvLatency, l.peerLatency)
  /\ c.tsbpd /\ l.tsbpd => u.peerDelay = Max2(l.rcvLatency, c.peerLatency)
  /\ c.congctl = l.congctl
  /\ u.kmMsg = KmOf(c, id) /\ u.sndCtx = (c.secret # "") /\ u.rcvCtx = (c.secret # "")
  /\ InitiatorKeys(c, l, u) /\ Encrypted(u)

(* An initiator connected to the responder s, with its filter. *)
ConfirmedBy(u, s, c, l, id) == Confirmed(u, c, l, id) /\ u.filter = s.filter

(* A connected initiator and a responder with the same filter match. *)
LEMMA ConfirmedMatches ==
  ASSUME NEW c, ConfigOk(c), NEW l, ConfigOk(l), c.filterDefaults = l.filterDefaults, NEW id,
         NEW u, Confirmed(u, c, l, id), NEW s, NEW x, Negotiated(c, l, id, s, x),
         SameFilter(u.filter, s.filter, l.filterDefaults)
  PROVE  Matching(u, s) /\ Matching(s, u)
<1>1. Max2(c.rcvLatency, l.peerLatency) = Max2(l.peerLatency, c.rcvLatency)
  BY Max2Symmetric DEF ConfigOk
<1>2. /\ s.cfg = l /\ s.tsbpd = (c.tsbpd /\ l.tsbpd) /\ s.peerTsbpd = c.tsbpd
      /\ c.tsbpd /\ l.tsbpd => s.delay = Max2(l.rcvLatency, c.peerLatency)
      /\ c.tsbpd => s.peerDelay = Max2(c.rcvLatency, l.peerLatency)
      /\ KeyOutcome(c, l, id, s, x.km)
  BY <1>1, Zenon DEF Negotiated
<1>3. /\ u.cfg = c /\ u.tsbpd = c.tsbpd /\ u.peerTsbpd = l.tsbpd
      /\ c.tsbpd => u.delay = Max2(c.rcvLatency, l.peerLatency)
      /\ c.tsbpd /\ l.tsbpd => u.peerDelay = Max2(l.rcvLatency, c.peerLatency)
      /\ c.congctl = l.congctl /\ InitiatorKeys(c, l, u)
  BY Zenon DEF Confirmed
<1>4. u.sndKm = s.rcvKm /\ s.sndKm = u.rcvKm
  BY <1>2, <1>3, Zenon DEF KeyOutcome, InitiatorKeys
<1>5. Over(u.filter, l.filterDefaults) = Over(s.filter, l.filterDefaults)
  BY DEF SameFilter
<1>6. Matching(u, s)
  BY <1>2, <1>3, <1>4, <1>5, Zenon DEF Matching
<1>7. Matching(s, u)
  BY <1>2, <1>3, <1>4, <1>5, Zenon DEF Matching
<1> QED BY <1>6, <1>7

(* An initiator that accepts the first answer and is connected. *)
LEMMA FirstAnswer ==
  ASSUME NEW c, ConfigOk(c), NEW l, ConfigOk(l), NEW id, NEW u, Requesting(u, c, id),
         u.sndCtx = (c.secret # ""), u.rcvCtx = (c.secret # ""),
         NEW s, NEW x, Negotiated(c, l, id, s, x),
         interpretSrtHandshake(u, x).u.fail # TRUE,
         NEW v, Kept(interpretSrtHandshake(u, x).u, v, {"connected"}), v.connected = TRUE
  PROVE  ConfirmedBy(v, s, c, l, id)
<1> DEFINE r == interpretSrtHandshake(u, x).u
<1>1. IsSocket(r) /\ r.cfg = c /\ Matching(r, s) /\ Matching(s, r) /\ Encrypted(r)
  BY InitiatorAgrees, Zenon
<1>2. AnswerSettled(c, l, s, r) /\ Kept(u, r, AnsweredFields)
  <2>1. AgreesWith(c, l, u, s, r)
    BY InitiatorSettles, Zenon
  <2> QED BY <2>1, Zenon DEF AgreesWith
<1>3. Kept(r, v, {"connected"})
  OBVIOUS
<1> HIDE DEF r
<1>4. /\ v.cfg = c /\ v.tsbpd = r.tsbpd /\ v.peerTsbpd = r.peerTsbpd /\ v.delay = r.delay
      /\ v.peerDelay = r.peerDelay /\ v.filter = r.filter /\ v.sndKm = r.sndKm /\ v.rcvKm = r.rcvKm
      /\ IsSocket(v)
  BY <1>1, <1>3 DEF Kept, Fields
<1>5. /\ v.side = "INITIATOR" /\ v.kmMsg = KmOf(c, id)
      /\ v.sndCtx = u.sndCtx /\ v.rcvCtx = u.rcvCtx
  BY <1>2, <1>3 DEF Kept, Fields, AnsweredFields, TimeFields, Requesting
<1>6. /\ s.cfg = l /\ s.tsbpd = (c.tsbpd /\ l.tsbpd) /\ s.peerTsbpd = c.tsbpd
      /\ c.tsbpd /\ l.tsbpd => s.delay = Max2(l.rcvLatency, c.peerLatency)
      /\ c.tsbpd => s.peerDelay = Max2(c.rcvLatency, l.peerLatency)
      /\ KeyOutcome(c, l, id, s, x.km)
  <2>1. Max2(c.rcvLatency, l.peerLatency) = Max2(l.peerLatency, c.rcvLatency)
    BY Max2Symmetric DEF ConfigOk
  <2> QED BY <2>1, Zenon DEF Negotiated
<1>7. c.congctl = l.congctl /\ r.sndKm = s.rcvKm /\ s.sndKm = r.rcvKm
  BY <1>1, <1>6, Zenon DEF Matching
<1>8. InitiatorKeys(c, l, v)
  BY <1>4, <1>6, <1>7, Zenon DEF KeyOutcome, InitiatorKeys
<1>9. Encrypted(v)
  BY <1>1, <1>4, Zenon DEF Encrypted
<1> QED BY <1>2, <1>4, <1>5, <1>6, <1>7, <1>8, <1>9, Zenon DEF Confirmed, ConfirmedBy, AnswerSettled

(* What a connected initiator makes of an answer to its key message         *)
(* (processSrtMsg_KMRSP).                                                   *)
LEMMA KmRspConnected ==
  ASSUME NEW u, u.connected = TRUE, NEW km
  PROVE  LET q == processSrtMsg_KMRSP(u, km)
         IN /\ u.sndCtx = FALSE => q.u = u
            /\ u.sndCtx = TRUE /\ u.rcvCtx = TRUE /\ KmLen(km) = 1 => q.u = u
            /\ u.sndCtx = TRUE /\ KmLen(km) = 2 /\ km = u.kmMsg
                 => q.u = [u EXCEPT !.sndKm = "SECURED", !.rcvKm = "SECURED"]
<1>1. ASSUME u.sndCtx = FALSE PROVE processSrtMsg_KMRSP(u, km).u = u
  BY <1>1 DEF processSrtMsg_KMRSP
<1>2. ASSUME u.sndCtx = TRUE, u.rcvCtx = TRUE, KmLen(km) = 1 PROVE processSrtMsg_KMRSP(u, km).u = u
  BY <1>2 DEF processSrtMsg_KMRSP
<1>3. ASSUME u.sndCtx = TRUE, KmLen(km) = 2, km = u.kmMsg
      PROVE  processSrtMsg_KMRSP(u, km).u = [u EXCEPT !.sndKm = "SECURED", !.rcvKm = "SECURED"]
  BY <1>3 DEF processSrtMsg_KMRSP
<1> QED BY <1>1, <1>2, <1>3, Zenon

(* A connected initiator's own half of the key exchange. *)
KeysHeld(u, c, l, id) ==
  /\ IsSocket(u) /\ u.fail = FALSE /\ u.cfg = c /\ u.connected = TRUE /\ u.kmMsg = KmOf(c, id)
  /\ u.sndCtx = (c.secret # "") /\ u.rcvCtx = (c.secret # "") /\ InitiatorKeys(c, l, u)

KeysUnmoved(c, u, k) ==
  /\ Kept(u, k.u, {"sndKm", "rcvKm"}) /\ k.u.sndKm = u.sndKm /\ k.u.rcvKm = u.rcvKm
  /\ k.encrypted \in BOOLEAN /\ (c.secret # "" => k.encrypted = TRUE)

(* The keys of a connected initiator are not touched by a repeated answer. *)
LEMMA KeysConfirmedAgain ==
  ASSUME NEW c, ConfigOk(c), NEW l, NEW id, NEW u, KeysHeld(u, c, l, id),
         NEW s, NEW x, x.cmd # "HSREQ", KeyOutcome(c, l, id, s, x.km), InterpretKm(u, x).u.fail # TRUE
  PROVE  KeysUnmoved(c, u, InterpretKm(u, x))
<1> DEFINE k == InterpretKm(u, x)
           q == processSrtMsg_KMRSP(u, x.km)
           rej(v, why) == [u |-> Reject(v, why), km |-> NoKm, encrypted |-> FALSE]
<1>0. /\ IsSocket(u) /\ u.fail = FALSE /\ u.cfg = c /\ u.connected = TRUE /\ u.kmMsg = KmOf(c, id)
      /\ u.sndCtx = (c.secret # "") /\ u.rcvCtx = (c.secret # "") /\ InitiatorKeys(c, l, u)
  BY Zenon DEF KeysHeld
<1>1. KmReport("NOSECRET") # NoKm /\ KmReport("BADSECRET") # NoKm /\ KmReport("UNSECURED") # NoKm
  BY DEF KmReport, NoKm
<1>2. c.secret # "" => KmOf(c, id) # NoKm /\ KmOf(c, id).pw # "-"
  BY KeyMessage, Zenon
<1>3. c.secret # "" => x.km # NoKm
  BY <1>1, <1>2, Zenon DEF KeyOutcome
<1>4. Kept(u, u, {"sndKm", "rcvKm"})
  BY <1>0 DEF Kept
<1>5. CASE x.km = NoKm
  <2>1. k = [u |-> u, km |-> NoKm, encrypted |-> FALSE]
    BY <1>0, <1>5, Zenon DEF InterpretKm
  <2> HIDE DEF k
  <2>2. k.u = u /\ k.encrypted = FALSE
    BY <2>1
  <2> QED BY <1>3, <1>4, <1>5, <2>2, Zenon DEF k, KeysUnmoved
<1>6. CASE x.km # NoKm
  <2>1. k = IF u.cfg.secret = "" /\ u.cfg.enforced THEN rej(u, "UNSECURE")
            ELSE IF u.cfg.enforced /\ q.res = -1
                 THEN rej(q.u, IF q.u.sndKm = "BADSECRET" THEN "BADSECRET" ELSE "UNSECURE")
            ELSE [u |-> q.u, km |-> NoKm, encrypted |-> TRUE]
    BY <1>0, <1>6, Zenon DEF InterpretKm
  <2>2. k.u.fail # TRUE
    BY ZenonT(30)
  <2>3. q.u = u \/ (c.secret # "" /\ l.secret = c.secret /\ q.u = [u EXCEPT !.sndKm = "SECURED", !.rcvKm = "SECURED"])
    <3>1. /\ u.sndCtx = FALSE => q.u = u
          /\ u.sndCtx = TRUE /\ u.rcvCtx = TRUE /\ KmLen(x.km) = 1 => q.u = u
          /\ u.sndCtx = TRUE /\ KmLen(x.km) = 2 /\ x.km = u.kmMsg
               => q.u = [u EXCEPT !.sndKm = "SECURED", !.rcvKm = "SECURED"]
      BY <1>0, KmRspConnected, Zenon
    <3> HIDE DEF q
    <3>2. u.sndCtx \in BOOLEAN /\ (u.sndCtx = TRUE <=> c.secret # "") /\ u.rcvCtx = u.sndCtx
      BY <1>0, Zenon
    <3>3. KmLen(x.km) = 1 \/ (KmLen(x.km) = 2 /\ x.km.pw # "-")
      BY <1>6, Zenon DEF KmLen
    <3>4. CASE u.sndCtx = FALSE
      BY <3>1, <3>4, Zenon
    <3>5. CASE u.sndCtx = TRUE /\ KmLen(x.km) = 1
      BY <3>1, <3>2, <3>5, Zenon
    <3>6. CASE u.sndCtx = TRUE /\ KmLen(x.km) = 2 /\ x.km.pw # "-"
      <4>1. \A st : KmReport(st).pw = "-"
        BY DEF KmReport
      <4>2. x.km = KmOf(c, id) /\ l.secret = c.secret
        BY <1>6, <3>2, <3>6, <4>1, Zenon DEF KeyOutcome
      <4> QED BY <1>0, <3>1, <3>2, <3>6, <4>2, Zenon
    <3> QED BY <3>2, <3>3, <3>4, <3>5, <3>6, Zenon
  <2>4. \A v, why : IsSocket(v) => rej(v, why).u.fail = TRUE
    BY RejectOnly, ZenonT(30)
  <2> HIDE DEF k, q, rej
  <2>5. Kept(u, q.u, {"sndKm", "rcvKm"}) /\ q.u.sndKm = u.sndKm /\ q.u.rcvKm = u.rcvKm
    <3>1. CASE q.u = u
      BY <1>4, <3>1
    <3>2. CASE c.secret # "" /\ l.secret = c.secret /\ q.u = [u EXCEPT !.sndKm = "SECURED", !.rcvKm = "SECURED"]
      <4>1. u.sndKm = "SECURED" /\ u.rcvKm = "SECURED"
        BY <1>0, <3>2, Zenon DEF InitiatorKeys
      <4>2. q.u = [u EXCEPT !.sndKm = "SECURED", !.rcvKm = "SECURED"]
        BY <3>2
      <4> QED BY <1>0, <4>1, <4>2, ZenonT(30) DEF Kept, IsSocket, Fields
    <3> QED BY <2>3, <3>1, <3>2
  <2>6. IsSocket(q.u)
    BY <2>5 DEF Kept
  <2>7. k = [u |-> q.u, km |-> NoKm, encrypted |-> TRUE]
    BY <1>0, <2>1, <2>2, <2>4, <2>6, Zenon
  <2>8. k.u = q.u /\ k.encrypted = TRUE
    BY <2>7
  <2> QED BY <2>5, <2>8, Zenon DEF k, KeysUnmoved
<1> QED BY <1>5, <1>6, Zenon

(* A connected initiator that accepts another answer stays as it is, but    *)
(* for the filter, which is the one of the answer.                          *)
LEMMA AnswerAgain ==
  ASSUME NEW c, ConfigOk(c), c.rendezvous = TRUE, NEW l, ConfigOk(l), NEW id,
         NEW u, Confirmed(u, c, l, id), NEW s, NEW x, Negotiated(c, l, id, s, x),
         interpretSrtHandshake(u, x).u.fail # TRUE
  PROVE  ConfirmedBy(interpretSrtHandshake(u, x).u, s, c, l, id)
<1> DEFINE u0 == [u EXCEPT !.fail = FALSE]
           a == InterpretHs(u0, x)
           k == InterpretKm(a, x)
           b == InterpretConfig(k.u, x)
           r == interpretSrtHandshake(u, x)
           v == r.u
<1>1. IsSocket(u) /\ u.cfg = c /\ u.side = "INITIATOR" /\ u.connected = TRUE
      /\ u.tsbpd = c.tsbpd /\ u.peerTsbpd = l.tsbpd
      /\ c.congctl = l.congctl
      /\ u.kmMsg = KmOf(c, id) /\ u.sndCtx = (c.secret # "") /\ u.rcvCtx = (c.secret # "")
      /\ InitiatorKeys(c, l, u) /\ Encrypted(u)
  BY Zenon DEF Confirmed
<1>2. x.cmd = "HSRSP" /\ x.hs = fillSrtHandshake_HSRSP(s) /\ x.filter = s.filter
  <2> DEFINE g == IF l.congctl = "live" THEN "" ELSE l.congctl
  <2>1. IsAnswer(x, fillSrtHandshake_HSRSP(s), x.km, s.filter, g)
    BY DEF Negotiated
  <2> HIDE DEF g, u0, a, k, b, r, v
  <2> QED BY <2>1, AnswerFields
<1>3. /\ v = PostChecks(b, x, k.encrypted)
      /\ a.fail # TRUE /\ k.u.fail # TRUE /\ b.fail # TRUE /\ v.fail # TRUE
      /\ a = processSrtMsg_HSRSP(u0, x.hs)
  <2>1. x.cmd # "HSREQ"
    BY <1>2
  <2> QED BY <1>1, <2>1, Stages, Zenon
<1>4. Kept(u, u0, {"fail"}) /\ u0.fail = FALSE /\ IsSocket(u0)
  BY <1>1, Cleared DEF Kept
<1> HIDE DEF u0, a, k, b, r
<1>5. AnswerTaken(u0, x.hs, a)
  BY <1>3, <1>4, HsRspAccepted, Zenon
<1>6. \A f \in Fields \ (TimeFields \cup {"fail"}) : a[f] = u[f]
  BY <1>4, <1>5 DEF Kept, AnswerTaken
<1>7. /\ IsSocket(a) /\ a.cfg = c /\ a.side = "INITIATOR" /\ a.filter = u.filter
      /\ a.connected = TRUE /\ a.kmMsg = KmOf(c, id) /\ a.rcvKm = u.rcvKm
      /\ a.fail = FALSE /\ a.sndKm = u.sndKm /\ a.sndCtx = u.sndCtx /\ a.rcvCtx = u.rcvCtx
  <2>1. a.fail = u0.fail /\ IsSocket(a)
    BY <1>5 DEF AnswerTaken, Kept, Fields, TimeFields
  <2> QED BY <1>1, <1>4, <1>6, <2>1 DEF Fields, TimeFields
<1>8. /\ x.hs.tsbpdSnd = c.tsbpd /\ x.hs.tsbpdRcv = l.tsbpd
      /\ c.tsbpd => x.hs.sndLat = s.peerDelay
      /\ l.tsbpd => x.hs.rcvLat = s.delay
  <2>1. s.peerTsbpd = c.tsbpd /\ s.cfg = l
    BY DEF Negotiated
  <2> QED BY <1>2, <2>1, BlockFields, Zenon
<1>9. u0.cfg = c /\ u0.tsbpd = c.tsbpd /\ u0.peerTsbpd = l.tsbpd
  BY <1>1, <1>4 DEF Kept, Fields
<1>10. /\ a.tsbpd = c.tsbpd /\ a.peerTsbpd = l.tsbpd
       /\ c.tsbpd => a.delay = s.peerDelay
       /\ l.tsbpd => a.peerDelay = s.delay
  BY <1>5, <1>8, <1>9 DEF AnswerTaken, ConfigOk
<1>11. /\ Kept(a, k.u, {"sndKm", "rcvKm"}) /\ k.u.sndKm = a.sndKm /\ k.u.rcvKm = a.rcvKm
       /\ k.encrypted \in BOOLEAN /\ (c.secret # "" => k.encrypted = TRUE)
  <2>1. InitiatorKeys(c, l, a)
    BY <1>1, <1>7, Zenon DEF InitiatorKeys
  <2>2. KeyOutcome(c, l, id, s, x.km)
    BY DEF Negotiated
  <2>3. InterpretKm(a, x).u.fail # TRUE /\ x.cmd # "HSREQ"
    BY <1>2, <1>3, ZenonT(30) DEF k
  <2>4. a.sndCtx = (c.secret # "") /\ a.rcvCtx = (c.secret # "")
    BY <1>1, <1>7
  <2>5. KeysHeld(a, c, l, id)
    BY <1>7, <2>1, <2>4, Zenon DEF KeysHeld
  <2>6. KeysUnmoved(c, a, k)
    BY <2>2, <2>3, <2>5, KeysConfirmedAgain, Zenon DEF k
  <2> QED BY <2>6, Zenon DEF KeysUnmoved
<1>12. /\ IsSocket(k.u) /\ k.u.fail = FALSE /\ k.u.cfg = c /\ k.u.filter = u.filter
       /\ k.u.side = "INITIATOR"
  BY <1>7, <1>11 DEF Kept, Fields
<1>13. Kept(k.u, b, {"filter"}) /\ FilterSettled(k.u, x, b.filter)
  BY <1>3, <1>12, ConfigAccepted, Zenon DEF b
<1>14. IsSocket(b) /\ b.fail = FALSE /\ b.cfg = c /\ b.side = "INITIATOR"
  BY <1>12, <1>13 DEF Kept, Fields
<1>15. PostSettled(b, x, k.encrypted, v)
  BY <1>3, <1>11, <1>14, PostPassed, Zenon
<1>16. /\ Kept(b, v, {"filter"}) /\ v.filter = b.filter
       /\ ~(b.filter # NoFilter /\ x.filter = NoFilter)
  BY <1>11, <1>14, <1>15 DEF PostSettled
<1>17. v.filter = s.filter
  <2>1. CASE s.filter = NoFilter
    BY <1>2, <1>12, <1>13, <1>16, <2>1 DEF FilterSettled
  <2>2. CASE s.filter # NoFilter /\ u.filter = NoFilter
    BY <1>2, <1>12, <1>13, <1>16, <2>2 DEF FilterSettled
  <2>3. CASE s.filter # NoFilter /\ u.filter # NoFilter
    <3>1. v.filter = Over(s.filter, u.filter) /\ u.filter = s.filter
      BY <1>2, <1>12, <1>13, <1>16, <2>3 DEF FilterSettled
    <3>2. IsFcn(s.filter)
      BY DEF Negotiated
    <3> QED BY <3>1, <3>2, OverItself, Zenon
  <2> QED BY <2>1, <2>2, <2>3
<1>18. \A f \in Fields \ {"sndKm", "rcvKm", "filter"} : v[f] = a[f]
  BY <1>11, <1>13, <1>16 DEF Kept
<1>19. v.sndKm = u.sndKm /\ v.rcvKm = u.rcvKm
  BY <1>7, <1>11, <1>13, <1>16 DEF Kept, Fields
<1>20. /\ v.cfg = c /\ v.tsbpd = c.tsbpd /\ v.peerTsbpd = l.tsbpd /\ v.side = "INITIATOR"
       /\ c.tsbpd => v.delay = s.peerDelay
       /\ l.tsbpd => v.peerDelay = s.delay
       /\ v.connected = TRUE /\ v.kmMsg = KmOf(c, id) /\ v.sndCtx = u.sndCtx /\ v.rcvCtx = u.rcvCtx
       /\ v.fail = FALSE
  BY <1>7, <1>10, <1>18 DEF Fields
<1>21. /\ c.tsbpd /\ l.tsbpd => s.delay = Max2(l.rcvLatency, c.peerLatency)
       /\ c.tsbpd => s.peerDelay = Max2(c.rcvLatency, l.peerLatency)
  <2>1. Max2(c.rcvLatency, l.peerLatency) = Max2(l.peerLatency, c.rcvLatency)
    BY Max2Symmetric DEF ConfigOk
  <2> QED BY <2>1, Zenon DEF Negotiated
<1>22. InitiatorKeys(c, l, v) /\ Encrypted(v)
  BY <1>1, <1>19, <1>20, Zenon DEF InitiatorKeys, Encrypted
<1>23. IsSocket(v)
  BY <1>16 DEF Kept
<1> QED BY <1>1, <1>17, <1>20, <1>21, <1>22, <1>23, Zenon DEF Confirmed, ConfirmedBy, r

(************************** queues of datagrams ***************************)

Elems(q) == {q[i] : i \in DOMAIN q}

IsSeq(q) == q \in Seq(Elems(q))

(* What a sequence is made of. *)
LEMMA SequenceElems ==
  ASSUME NEW S, NEW q \in Seq(S)
  PROVE  IsSeq(q) /\ Elems(q) \subseteq S /\ DOMAIN q = 1 .. Len(q) /\ Len(q) \in Nat
<1>1. DOMAIN q = 1 .. Len(q) /\ Len(q) \in Nat /\ \A i \in 1 .. Len(q) : q[i] \in S
  OBVIOUS
<1>2. \A i \in 1 .. Len(q) : q[i] \in Elems(q)
  BY <1>1 DEF Elems
<1>3. q \in Seq(Elems(q))
  BY <1>1, <1>2
<1> QED BY <1>1, <1>3 DEF IsSeq, Elems

(* Taking the first datagram of a queue. *)
LEMMA TailElems ==
  ASSUME NEW q, IsSeq(q), q # <<>>
  PROVE  IsSeq(Tail(q)) /\ Elems(Tail(q)) \subseteq Elems(q) /\ Head(q) \in Elems(q)
<1>1. Tail(q) \in Seq(Elems(q)) /\ Head(q) \in Elems(q)
  BY DEF IsSeq
<1> QED BY <1>1, SequenceElems, ZenonT(30)

(* A datagram sent adds only itself. *)
LEMMA AppendElems ==
  ASSUME NEW q, IsSeq(q), NEW m
  PROVE  IsSeq(Append(q, m)) /\ Elems(Append(q, m)) \subseteq Elems(q) \cup {m}
<1>1. q \in Seq(Elems(q) \cup {m})
  BY DEF IsSeq
<1>2. Append(q, m) \in Seq(Elems(q) \cup {m})
  BY <1>1
<1> QED BY <1>2, SequenceElems, ZenonT(30)

(* Datagrams sent together add only themselves. *)
LEMMA ConcatElems ==
  ASSUME NEW p, IsSeq(p), NEW q, IsSeq(q)
  PROVE  IsSeq(p \o q) /\ Elems(p \o q) \subseteq Elems(p) \cup Elems(q)
<1>1. p \in Seq(Elems(p) \cup Elems(q)) /\ q \in Seq(Elems(p) \cup Elems(q))
  BY DEF IsSeq
<1>2. p \o q \in Seq(Elems(p) \cup Elems(q))
  BY <1>1
<1> QED BY <1>2, SequenceElems, ZenonT(30)

(* An empty network. *)
LEMMA NoElems == IsSeq(<<>>) /\ Elems(<<>>) = {}
  BY DEF IsSeq, Elems

(* A single datagram. *)
LEMMA OneElem == ASSUME NEW m PROVE IsSeq(<<m>>) /\ Elems(<<m>>) = {m}
  BY DEF IsSeq, Elems
====
