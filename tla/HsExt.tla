------------------------------- MODULE HsExt -------------------------------
(* The SRT extensions of a handshake (HSv5): what a socket puts into the    *)
(* HSREQ, HSRSP, KMREQ, KMRSP and CONFIG blocks, and what it makes of the   *)
(* blocks it receives.  Every operator takes and returns a socket record u: *)
(* the CUDT object, the members of its CSrtConfig that take part in the     *)
(* negotiation (u.cfg) and its CCryptoControl.  u.fail says that the        *)
(* function returned the value that makes its caller reject, u.reason is    *)
(* m_RejectReason.  Operators named Bad... are faulty variants of the       *)
(* operator that follows them.                                              *)
EXTENDS Integers

NoFilter == <<>>

(* A keying-material message: the key wrapped by secret pw, generated by    *)
(* the socket named key; with pw = "-" it is the one-word state report.     *)
NoKm == [pw |-> "-", key |-> "none"]

KmReport(state) == [pw |-> "-", key |-> state]

KmLen(km) == IF km = NoKm THEN 0 ELSE IF km.pw = "-" THEN 1 ELSE 2

(* A handshake packet with no extension blocks. *)
NoExt == [cmd |-> "none"]

Socket(id, cfg) ==
  [id |-> id, cfg |-> cfg, side |-> "DRAW", filter |-> cfg.filter,
   startTime |-> FALSE, tsbpd |-> FALSE, peerTsbpd |-> FALSE,
   delay |-> cfg.rcvLatency, peerDelay |-> 0,
   peerDrop |-> FALSE, peerNak |-> FALSE,
   crypto |-> FALSE, sndCtx |-> FALSE, rcvCtx |-> FALSE,
   sndKm |-> "UNSECURED", rcvKm |-> "UNSECURED", kmMsg |-> NoKm,
   connected |-> FALSE, peerId |-> "none", reason |-> "UNKNOWN", fail |-> FALSE]

(* Options as an application can set them: a filter is a map of settings,   *)
(* congestion control has a name; "-" is no secret but the mark of a report. *)
ConfigOk(c) ==
  /\ c.tsbpd \in BOOLEAN /\ c.enforced \in BOOLEAN
  /\ c.rcvLatency \in Int /\ c.peerLatency \in Int
  /\ c.secret # "-" /\ c.congctl # "" /\ c.filter = [k \in DOMAIN c.filter |-> c.filter[k]]

Reject(u, reason) == [u EXCEPT !.reason = reason, !.fail = TRUE]

(****************************** key exchange ******************************)

createCrypter(u) ==
  IF u.crypto THEN u
  ELSE LET pw == u.cfg.secret # ""
           ctx == pw /\ u.side = "INITIATOR"
       IN [u EXCEPT !.crypto = TRUE, !.rcvKm = "UNSECURED",
                    !.sndKm = IF pw THEN "SECURING" ELSE "UNSECURED",
                    !.sndCtx = ctx, !.rcvCtx = ctx,
                    !.kmMsg = IF ctx THEN [pw |-> u.cfg.secret, key |-> u.id] ELSE NoKm]

(* The failure exit: the state report is answered only to the first KMREQ;  *)
(* with a receiver context in place the message counts as a key update and  *)
(* gets no answer, which interpretSrtHandshake turns into a rejection.      *)
KmreqError(u, update, state) ==
  IF update THEN [u |-> u, rsp |-> "NONE", km |-> KmReport(state)]
  ELSE [u |-> [u EXCEPT !.rcvKm = state,
                        !.sndCtx = u.sndCtx \/ u.cfg.secret # ""],
        rsp |-> "KMRSP", km |-> KmReport(state)]

processSrtMsg_KMREQ(u, km) ==
  LET update == u.rcvCtx
      securing == IF update THEN u ELSE [u EXCEPT !.rcvKm = "SECURING"]
      withCtx  == [securing EXCEPT !.rcvCtx = TRUE]
      secured  == [withCtx EXCEPT !.rcvKm = "SECURED"]
  IN IF u.cfg.secret = "" THEN KmreqError(securing, update, "NOSECRET")
     ELSE IF km.pw # u.cfg.secret
          THEN KmreqError(IF update THEN withCtx ELSE [withCtx EXCEPT !.sndKm = "BADSECRET"],
                          update, "BADSECRET")
     ELSE [u |-> IF secured.sndKm = "SECURING" /\ ~secured.sndCtx
                 THEN [secured EXCEPT !.sndCtx = TRUE, !.sndKm = "SECURED", !.kmMsg = km]
                 ELSE secured,
           rsp |-> "KMRSP", km |-> km]

ErraticKMState(state) ==
  CASE state = "NOSECRET"  -> [snd |-> state, rcv |-> "UNSECURED"]
    [] state = "UNSECURED" -> [snd |-> state, rcv |-> "NOSECRET"]
    [] OTHER               -> [snd |-> state, rcv |-> state]

(* res: 1 the key was confirmed, 0 nothing to say, -1 the exchange failed.  *)
processSrtMsg_KMRSP(u, km) ==
  LET hs    == ~u.connected \/ (~u.rcvCtx /\ u.sndKm # "SECURED")
      st    == ErraticKMState(km.key)
      Set(s, r) == IF hs THEN [u EXCEPT !.sndKm = s, !.rcvKm = r] ELSE u
  IN CASE u.connected /\ ~u.sndCtx -> [u |-> u, res |-> 0]
       [] KmLen(km) = 1 /\ (~u.connected \/ u.sndCtx) ->
            [u |-> Set(st.snd, st.rcv), res |-> IF st.snd = "UNSECURED" THEN 0 ELSE -1]
       [] KmLen(km) = 2 /\ (~u.connected \/ u.sndCtx) ->
            IF km = u.kmMsg
            THEN [u |-> [u EXCEPT !.sndKm = "SECURED", !.rcvKm = "SECURED"], res |-> 1]
            ELSE [u |-> Set("BADSECRET", "BADSECRET"), res |-> -1]

(* The answer to a repeated request is made from what the socket recorded.  *)
craftKmResponse(u, hadKm) ==
  CASE ~hadKm -> [u |-> u, km |-> NoKm]
    [] hadKm /\ ~u.crypto -> [u |-> Reject(u, "IPE"), km |-> NoKm]
    [] hadKm /\ u.crypto /\ u.kmMsg # NoKm -> [u |-> u, km |-> u.kmMsg]
    [] hadKm /\ u.crypto /\ u.kmMsg = NoKm ->
         IF u.rcvKm \in {"NOSECRET", "BADSECRET"}
         THEN [u |-> u, km |-> KmReport(u.rcvKm)]
         ELSE [u |-> Reject(u, "IPE"), km |-> NoKm]

(***************************** packet filter ******************************)

(* The settings of f, and those of g that f does not have. *)
Over(f, g) == [k \in DOMAIN f \cup DOMAIN g |-> IF k \in DOMAIN f THEN f[k] ELSE g[k]]

CheckFilterCompat(agent, peer, defaults) ==
  LET a == Over(Over(agent, peer), defaults)
      p == Over(Over(peer, agent), defaults)
  IN [ok |-> \A k \in DOMAIN agent \cup DOMAIN peer : a[k] = p[k], conf |-> a]

checkApplyFilterConfig(u, conf) ==
  LET compat == CheckFilterCompat(u.filter, conf, u.cfg.filterDefaults)
  IN IF u.filter = NoFilter THEN [u EXCEPT !.filter = conf]
     ELSE IF u.cfg.rendezvous /\ u.filter # conf THEN Reject(u, "FILTER")
     ELSE IF u.side = "INITIATOR" THEN [u EXCEPT !.filter = Over(conf, u.filter)]
     ELSE IF compat.ok THEN [u EXCEPT !.filter = compat.conf]
     ELSE Reject(u, "FILTER")

(***************************** HSREQ and HSRSP ****************************)

(* The latency fields are zero unless the flag next to them is set.  All    *)
(* the versions this code is built as set FILTERCAP and REXMITFLG.          *)
HsBlock(sndOn, sndLat, rcvOn, rcvLat, u, drop) ==
  [ver |-> u.cfg.version, stream |-> ~u.cfg.messageAPI,
   tsbpdSnd |-> sndOn, sndLat |-> IF sndOn THEN sndLat ELSE 0,
   tsbpdRcv |-> rcvOn, rcvLat |-> IF rcvOn THEN rcvLat ELSE 0,
   drop |-> drop, nak |-> u.cfg.nakReport]

(* Filling the request also resets the delays to the configured ones. *)
fillSrtHandshake_HSREQ(u) ==
  LET on == u.cfg.tsbpd
  IN [u |-> IF on THEN [u EXCEPT !.delay = u.cfg.rcvLatency, !.peerDelay = u.cfg.peerLatency]
            ELSE u,
      hs |-> HsBlock(on, u.cfg.peerLatency, on, u.cfg.rcvLatency, u, on /\ u.cfg.tlpktdrop)]

fillSrtHandshake_HSRSP(u) ==
  HsBlock(u.peerTsbpd, u.peerDelay, u.cfg.tsbpd, u.delay, u, u.cfg.tlpktdrop)

Max2(a, b) == IF a >= b THEN a ELSE b

(* Faulty: the latency the sender asks for is not taken into account. *)
BadHSREQ_ownLatency(u, hs) ==
  [u EXCEPT !.startTime = TRUE,
            !.delay = u.cfg.rcvLatency,
            !.tsbpd = u.tsbpd \/ (hs.tsbpdSnd /\ u.cfg.tsbpd),
            !.peerTsbpd = u.peerTsbpd \/ hs.tsbpdRcv,
            !.peerDelay = Max2(u.cfg.peerLatency, hs.rcvLat)]

processSrtMsg_HSREQ(u, hs) ==
  LET fixed == [u EXCEPT !.startTime = TRUE, !.delay = u.cfg.rcvLatency,
                         !.peerDelay = u.cfg.peerLatency]
  IN IF hs.ver < u.cfg.minVersion THEN Reject(fixed, "VERSION")
     ELSE IF hs.stream = u.cfg.messageAPI THEN Reject(fixed, "MESSAGEAPI")
     ELSE [fixed EXCEPT
            !.tsbpd     = u.tsbpd \/ (hs.tsbpdSnd /\ u.cfg.tsbpd),
            !.delay     = IF hs.tsbpdSnd /\ u.cfg.tsbpd THEN Max2(@, hs.sndLat) ELSE @,
            !.peerTsbpd = u.peerTsbpd \/ hs.tsbpdRcv,
            !.peerDelay = IF hs.tsbpdRcv THEN Max2(@, hs.rcvLat) ELSE @,
            !.peerDrop  = @ \/ hs.drop,
            !.peerNak   = @ \/ hs.nak]

processSrtMsg_HSRSP(u, hs) ==
  LET started == [u EXCEPT !.startTime = TRUE]
  IN IF hs.ver < u.cfg.minVersion THEN Reject(started, "VERSION")
     ELSE [started EXCEPT
            !.peerTsbpd = @ \/ hs.tsbpdRcv,
            !.peerDelay = IF hs.tsbpdRcv THEN hs.rcvLat ELSE @,
            !.tsbpd     = @ \/ (hs.tsbpdSnd /\ u.cfg.tsbpd),
            !.delay     = IF hs.tsbpdSnd /\ u.cfg.tsbpd THEN hs.sndLat ELSE @,
            !.peerDrop  = @ \/ hs.drop,
            !.peerNak   = @ \/ hs.nak]

(***************************** interpretation *****************************)

(* Each step leaves a socket that already failed as it is. *)
InterpretHs(u, ext) ==
  IF u.fail THEN u
  ELSE IF ext = NoExt THEN Reject(u, "ROGUE")
  ELSE IF ext.cmd = "HSREQ" THEN processSrtMsg_HSREQ(u, ext.hs)
  ELSE processSrtMsg_HSRSP(u, ext.hs)

(* The KM block; w.km is the response to put into KMRSP. *)
InterpretKm(u, ext) ==
  LET none == [u |-> u, km |-> NoKm, encrypted |-> FALSE]
      Rej(v, r) == [u |-> Reject(v, r), km |-> NoKm, encrypted |-> FALSE]
      Why(state) == IF state = "BADSECRET" THEN "BADSECRET" ELSE "UNSECURE"
      Requested(req) ==
        IF req.rsp # "KMRSP" THEN Rej(req.u, "IPE")
        ELSE IF KmLen(req.km) = 1 /\ u.cfg.enforced THEN Rej(req.u, Why(req.u.rcvKm))
        ELSE [u |-> req.u, km |-> req.km, encrypted |-> TRUE]
      Responded(rsp) ==
        IF u.cfg.enforced /\ rsp.res = -1 THEN Rej(rsp.u, Why(rsp.u.sndKm))
        ELSE [u |-> rsp.u, km |-> NoKm, encrypted |-> TRUE]
  IN IF u.fail THEN none
     ELSE IF ext.km = NoKm THEN none
     ELSE IF u.cfg.secret = "" /\ u.cfg.enforced THEN Rej(u, "UNSECURE")
     ELSE IF ext.cmd = "HSREQ" THEN Requested(processSrtMsg_KMREQ(u, ext.km))
     ELSE Responded(processSrtMsg_KMRSP(u, ext.km))

InterpretConfig(u, ext) ==
  IF u.fail THEN u
  ELSE IF ext.congctl # "" /\ ext.congctl # u.cfg.congctl THEN Reject(u, "CONGESTION")
  ELSE IF ext.filter # NoFilter THEN checkApplyFilterConfig(u, ext.filter)
  ELSE u

(* Faulty: the encryption check is left out for a peer without a key. *)
BadPostChecks(u, ext, encrypted) ==
  IF u.fail THEN u
  ELSE IF ~encrypted /\ u.cfg.secret # ""
       THEN [u EXCEPT !.sndCtx = TRUE, !.sndKm = "NOSECRET", !.rcvKm = "UNSECURED"]
  ELSE u

(* A socket with a secret whose peer sent no key leaves here before the     *)
(* congestion control and the filter are compared.                          *)
PostChecks(u, ext, encrypted) ==
  IF u.fail THEN u
  ELSE IF ~encrypted /\ u.cfg.secret # ""
       THEN IF u.cfg.enforced THEN Reject(u, "UNSECURE")
            ELSE [u EXCEPT !.sndCtx = TRUE, !.sndKm = "NOSECRET", !.rcvKm = "UNSECURED"]
  ELSE IF u.cfg.congctl # "live" /\ ext.congctl = "" THEN Reject(u, "CONGESTION")
  ELSE IF u.filter # NoFilter /\ ext.filter = NoFilter
       THEN IF u.side = "INITIATOR" THEN Reject(u, "FILTER")
            ELSE [u EXCEPT !.filter = NoFilter]
  ELSE u

interpretSrtHandshake(u, ext) ==
  LET Rest(k) == [u |-> PostChecks(InterpretConfig(k.u, ext), ext, k.encrypted), km |-> k.km]
  IN Rest(InterpretKm(InterpretHs([u EXCEPT !.fail = FALSE], ext), ext))

(****************************** serialization *****************************)

(* The extension blocks of an outgoing handshake: cmd is HSREQ or HSRSP, km *)
(* the key message to answer with.  The result has fail set when the code   *)
(* returns false.                                                           *)
createSrtHandshake(u0, cmd, km) ==
  LET u    == [u0 EXCEPT !.fail = FALSE]
      kmOn == u.cfg.secret # "" \/ km # NoKm
      req  == fillSrtHandshake_HSREQ(u)
      rspU == IF kmOn /\ km = NoKm
              THEN [u EXCEPT !.sndKm = "NOSECRET", !.rcvKm = "UNSECURED"] ELSE u
      Blocks(hs, k) ==
        [cmd |-> cmd, hs |-> hs, km |-> k, filter |-> u.filter,
         congctl |-> IF u.cfg.congctl = "live" THEN "" ELSE u.cfg.congctl]
      Bad(v) == [u |-> v, ext |-> NoExt]
  IN IF cmd = "HSREQ" /\ u.side = "RESPONDER" THEN Bad(Reject(u, "IPE"))
     ELSE IF cmd = "HSRSP" /\ ~u.startTime THEN Bad(u)
     ELSE IF kmOn /\ ~u.crypto THEN Bad(Reject(u, "IPE"))
     ELSE IF cmd = "HSREQ"
          THEN IF kmOn /\ u.kmMsg = NoKm THEN Bad(Reject(req.u, "IPE"))
               ELSE [u |-> req.u, ext |-> Blocks(req.hs, IF kmOn THEN u.kmMsg ELSE NoKm)]
     ELSE [u |-> rspU,
           ext |-> Blocks(fillSrtHandshake_HSRSP(u),
                          IF kmOn /\ km = NoKm THEN KmReport("UNSECURED") ELSE km)]

=============================================================================
