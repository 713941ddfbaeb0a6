----------------------------- MODULE KeyRefresh -----------------------------
(***************************************************************************)
(* Change of the stream key in one direction of an encrypted connection:   *)
(* the two contexts (even 0, odd 1) of the sending crypto (hcrypt_tx.c,    *)
(* hcrypt_ctx_tx.c), those of the receiving one (hcrypt_rx.c,              *)
(* hcrypt_ctx_rx.c), and the KMREQ/KMRSP exchange of CCryptoControl.       *)
(* A key is a number, a KM message the pair of keys it carries (0: none);  *)
(* the salt and the key-encrypting key do not change after the handshake.  *)
(* Control messages keep their order but may be lost; a data packet may    *)
(* arrive up to "lag" packets late, as it is retransmitted as encrypted.   *)
(***************************************************************************)
EXTENDS Integers, Sequences, FiniteSets

CONSTANT Cases     \* [side, rate, pre, lag, pkts, losses, maxRetry]

VARIABLES env,
          tx,      \* the sending crypto: active context and the pair
          rx,      \* the receiving crypto
          kmMsg,   \* m_SndKmMsg
          req, rsp,\* KMREQ and KMRSP on the way
          data,    \* data packets not yet received, [n, ki, key]
          losses,
          hist     \* history: packets sent, keys learnt, last confirmed KM, wrong decryptions

vars == <<env, tx, rx, kmMsg, req, rsp, data, losses, hist>>

S_INIT == 1
S_SARDY == 2
S_KEYED == 3
S_ACTIVE == 4
S_DEPRECATED == 5

NoMsg == <<0, 0>>
Both(km) == km[1] # 0 /\ km[2] # 0
KeyIndex(km) == IF km[2] # 0 THEN 1 ELSE 0
Sek(km, ki) == km[ki + 1]
Alt(ki) == 1 - ki

-----------------------------------------------------------------------------
(* Contexts                                                                *)

AsmKM(ki, sek, altSek) == IF ki = 0 THEN <<sek, altSek>> ELSE <<altSek, sek>>

TxInit == [status |-> S_SARDY, announce |-> FALSE, ttsend |-> FALSE, cnt |-> 0,
           sek |-> 0, km |-> NoMsg]

RxInit == [status |-> S_SARDY, sek |-> 0, km |-> NoMsg]

\* A context with a key of its own, which its message carries alone.
Rekey(c, sek) ==
    [c EXCEPT !.status = S_KEYED, !.cnt = 1, !.sek = sek, !.km = AsmKM(0, sek, 0)]

\* A sending crypto starts with its even context active and due for sending.
Started(even) ==
    [ctx  |-> 0,
     pair |-> [i \in {0, 1} |-> IF i = 1 THEN TxInit ELSE
                 [even EXCEPT !.status = S_ACTIVE, !.announce = TRUE, !.ttsend = TRUE]]]

Create(sek) == Started(Rekey(TxInit, sek))
CreateRx    == [ctx |-> -1, pair |-> [i \in {0, 1} |-> RxInit]]

\* The key of the last context used, or of the even one if none was.
CloneKey(c, r) == Rekey(c, r.pair[IF r.ctx = -1 THEN 0 ELSE r.ctx].sek)
CloneTx(r)     == Started(CloneKey(TxInit, r))
CloneRx        == [CreateRx EXCEPT !.ctx = 0]

RxRekey(c, sek, km) == [c EXCEPT !.status = S_KEYED, !.sek = sek, !.km = km]

\* Both keys of a message, or its only one, with the message itself as the cache.
ParseKM(r, km) ==
    [r EXCEPT !.pair = [i \in {0, 1} |->
        IF Sek(km, i) = 0 THEN r.pair[i]
        ELSE RxRekey(r.pair[i], Sek(km, i), km)]]

Rx_Process(r, km) ==
    LET c == r.pair[KeyIndex(km)]
    IN IF c.status < S_KEYED \/ c.km # km THEN ParseKM(r, km) ELSE r

-----------------------------------------------------------------------------
(* The sender's key management, run after every packet it encrypts         *)

\* The idle context gets a new key, announced together with the current one.
Refresh(t, key) ==
    LET a == Alt(t.ctx)
    IN [t EXCEPT !.pair[a] = [@ EXCEPT !.sek = key, !.km = AsmKM(a, key, t.pair[t.ctx].sek),
                                       !.cnt = 0, !.status = S_KEYED]]

PreSwitch(t) ==
    LET a == Alt(t.ctx)
    IN [t EXCEPT !.pair[a].announce = TRUE, !.pair[a].ttsend = TRUE,
                 !.pair[t.ctx].announce = @ /\ ~Both(t.pair[a].km)]

Switch(t) ==
    LET a == Alt(t.ctx)
    IN [t EXCEPT !.pair[t.ctx].status = S_DEPRECATED, !.pair[a].status = S_ACTIVE,
                 !.pair[a].announce = TRUE, !.ctx = a]

PostSwitch(t) ==
    LET a == Alt(t.ctx)
    IN [t EXCEPT !.pair[a].announce = FALSE, !.pair[a].status = S_SARDY,
                 !.pair[t.ctx].km = IF Both(@) THEN AsmKM(t.ctx, t.pair[t.ctx].sek, 0) ELSE @]

ManageKM(t, key) ==
    LET c == t.pair[t.ctx]
        a == t.pair[Alt(t.ctx)]
    IN IF c.cnt > env.rate \/ c.cnt = 0 THEN Switch(t)
       ELSE IF c.cnt > env.rate - env.pre /\ ~a.announce THEN PreSwitch(Refresh(t, key))
       ELSE IF a.status = S_DEPRECATED /\ c.cnt > env.pre THEN PostSwitch(t)
       ELSE t

\* InjectKM: the messages due, even context first; tx_period is 0, so nothing is
\* announced by time.
InjectKM(t) ==
    [out |-> SelectSeq(<<0, 1>>, LAMBDA i : t.pair[i].ttsend),
     t   |-> [t EXCEPT !.pair = [i \in {0, 1} |-> [t.pair[i] EXCEPT !.ttsend = FALSE]]]]

\* regenCryptoKm: those that differ from the recorded one are recorded and sent.
regenCryptoKm(t, k) ==
    LET inj    == InjectKM(t)
        new    == SelectSeq(inj.out, LAMBDA i :
                     LET km == t.pair[i].km IN km # k[KeyIndex(km)].msg)
        Msg(i) == t.pair[i].km
    IN [t    |-> inj.t,
        k    |-> [ki \in {0, 1} |->
                    IF \E j \in DOMAIN new : KeyIndex(Msg(new[j])) = ki
                      THEN LET j == CHOOSE j \in DOMAIN new : KeyIndex(Msg(new[j])) = ki
                           IN [msg |-> Msg(new[j]), retry |-> env.maxRetry]
                      ELSE k[ki]],
        sent |-> [j \in DOMAIN new |-> Msg(new[j])]]

-----------------------------------------------------------------------------
(* After the handshake: the initiator made the key, cloned its receiving   *)
(* crypto and gave it the message; the responder created a receiving       *)
(* crypto from the message and cloned the sending one from it.             *)

NoKms == [ki \in {0, 1} |-> [msg |-> NoMsg, retry |-> 0]]

Init ==
    /\ env \in Cases
    /\ LET gen == regenCryptoKm(Create(1), NoKms)
           km0 == gen.k[0].msg
       IN IF env.side = "initiator"
            THEN /\ tx = gen.t
                 /\ kmMsg = [gen.k EXCEPT ![0].retry = 0]   \* the handshake's KMRSP
                 /\ rx = Rx_Process(CreateRx, km0)
            ELSE /\ tx = CloneTx(Rx_Process(CreateRx, km0))
                 /\ kmMsg = [NoKms EXCEPT ![0].msg = km0]
                 /\ rx = Rx_Process(CloneRx, km0)
    /\ req = << >> /\ rsp = << >> /\ data = {}
    /\ losses = env.losses
    /\ hist = [n |-> 0, keys |-> 1, learnt |-> {1}, ok |-> NoMsg, wrong |-> {}, at |-> <<0>>,
               used |-> <<0>>]

encrypt(t) == [t EXCEPT !.pair[t.ctx].cnt = @ + 1]

\* packUniqueData: encrypted with the active context, then the keys are managed.
packUniqueData ==
    LET c == tx.pair[tx.ctx]
        m == ManageKM(encrypt(tx), hist.keys + 1)
        g == regenCryptoKm(m, kmMsg)
        fresh == m.pair[Alt(tx.ctx)].sek > hist.keys
    IN /\ hist.n < env.pkts
       /\ \A p \in data : hist.n + 1 - p.n < env.lag
       /\ tx' = g.t
       /\ kmMsg' = g.k
       /\ req' = req \o g.sent
       /\ data' = data \cup {[n |-> hist.n + 1, ki |-> tx.ctx, key |-> c.sek]}
       /\ hist' = [hist EXCEPT !.n = @ + 1,
                     !.keys = IF fresh THEN @ + 1 ELSE @,
                     !.at = IF fresh THEN Append(@, hist.n + 1) ELSE @,
                     !.used = IF c.sek > Len(@) THEN Append(@, hist.n + 1) ELSE @]
       /\ UNCHANGED <<env, rx, rsp, losses>>

\* sendKeysToPeer, an RTT and a half after the last KMREQ: it may still be on its way.
sendKeysToPeer ==
    LET due == SelectSeq(<<0, 1>>, LAMBDA i : kmMsg[i].retry > 0 /\ kmMsg[i].msg # NoMsg)
    IN /\ due # << >>
       /\ kmMsg' = [i \in {0, 1} |-> IF \E j \in DOMAIN due : due[j] = i
                                     THEN [kmMsg[i] EXCEPT !.retry = @ - 1] ELSE kmMsg[i]]
       /\ req' = req \o [j \in DOMAIN due |-> kmMsg[due[j]].msg]
       /\ UNCHANGED <<env, tx, rx, rsp, data, losses, hist>>

\* processSrtMsg_KMREQ with the contexts in place: the message is the answer.
processKMREQ ==
    /\ req # << >>
    /\ rx' = Rx_Process(rx, Head(req))
    /\ req' = Tail(req)
    /\ rsp' = Append(rsp, Head(req))
    /\ hist' = [hist EXCEPT !.learnt = @ \cup {Head(req)[1], Head(req)[2]}]
    /\ UNCHANGED <<env, tx, kmMsg, data, losses>>

\* Faulty: any answer stops the retries.
BadacceptResponse(km) == [i \in {0, 1} |-> [kmMsg[i] EXCEPT !.retry = 0]]

\* The even slot first; only the first that matches is confirmed.
acceptResponse(km) ==
    IF kmMsg[0].msg = km THEN [kmMsg EXCEPT ![0].retry = 0]
    ELSE IF kmMsg[1].msg = km THEN [kmMsg EXCEPT ![1].retry = 0]
    ELSE kmMsg

processKMRSP ==
    /\ rsp # << >>
    /\ rsp' = Tail(rsp)
    /\ kmMsg' = acceptResponse(Head(rsp))
    /\ hist' = [hist EXCEPT !.ok =
          IF kmMsg'[1].retry < kmMsg[1].retry THEN kmMsg[1].msg ELSE @]
    /\ UNCHANGED <<env, tx, rx, req, data, losses>>

Lose ==
    /\ losses > 0
    /\ \/ req # << >> /\ req' = Tail(req) /\ UNCHANGED rsp
       \/ rsp # << >> /\ rsp' = Tail(rsp) /\ UNCHANGED req
    /\ losses' = losses - 1
    /\ UNCHANGED <<env, tx, rx, kmMsg, data, hist>>

\* The context the packet names decides, whatever its key is.
RxData(r, ki) == [r EXCEPT !.ctx = ki]

decrypt ==
    \E p \in data :
        LET c == rx.pair[p.ki]
        IN /\ rx' = RxData(rx, p.ki)
           /\ data' = data \ {p}
           /\ hist' = IF c.status >= S_KEYED /\ c.sek = p.key THEN hist
                      ELSE [hist EXCEPT !.wrong = @ \cup {<<p.key, p.key \in hist.learnt>>}]
           /\ UNCHANGED <<env, tx, kmMsg, req, rsp, losses>>

Next == packUniqueData \/ sendKeysToPeer \/ processKMREQ \/ processKMRSP \/ Lose \/ decrypt

Spec == Init /\ [][Next]_vars

-----------------------------------------------------------------------------
\* A packet fails to decrypt only if the receiver was never given its key: neither
\* a late packet nor a repeated message meets a key that was replaced too early.
DecryptsWhatItLearnt == \A w \in hist.wrong : ~w[2]

\* The message the sender takes as confirmed, once it stops repeating it, is the
\* one whose keys the receiver holds.
ConfirmedIsInstalled ==
    (hist.ok # NoMsg /\ hist.ok = kmMsg[1].msg) =>
        \A i \in {0, 1} : rx.pair[i].sek = Sek(hist.ok, i)

\* docs/API/API-socket-options.md, SRTO_KMPREANNOUNCE: a key is sent that many
\* packets before the first packet that uses it, which an active context encrypts.
PreAnnounceKept ==
    /\ \A k \in 2 .. Len(hist.used) : hist.used[k] - hist.at[k] > env.pre
    /\ tx.pair[tx.ctx].status = S_ACTIVE

\* The two ends keep their keys in step through delay, loss and repetition.
KeysInStep == DecryptsWhatItLearnt /\ ConfirmedIsInstalled /\ PreAnnounceKept
=============================================================================
