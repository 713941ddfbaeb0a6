------------------------------ MODULE Options ------------------------------
(* Socket options (socketconfig.cpp, CUDT::setOpt) on a socket, and on a group *)
(* with the members it opens (CUDTGroup::setOpt, groupConnect).  An option     *)
(* call that throws changes nothing unless the code changed something first.   *)
(* Texts (stream name, device, passphrase) are their lengths.                  *)
EXTENDS Integers, Sequences, SequencesExt

CONSTANT Cases

UDP_HDR_SIZE == 28
HS_SIZE == 48
AUTHTAG_MAX == 16
LIVE_DEF_PLSIZE == 1316
LIVE_MAX_PLSIZE == 1456
DEF_MIN_FLIGHT_PKT == 32
MIN_STABILITY_MS == 60
DEF_KM_REFRESH_RATE == 16777216
DEF_KM_PRE_ANNOUNCE == 4096
SRT_CRYPT_KM_PRE_ANNOUNCE == 65536
IFNAMSIZ == 16
MAX_SID_LENGTH == 512
GCM == 2

VARIABLES env, cfg, phase, tolerance, grp
vars == <<env, cfg, phase, tolerance, grp>>

Defaults ==
    [MSS |-> 1500, FC |-> 25600, SNDBUF |-> 8192, RCVBUF |-> 8192, UDP_SNDBUF |-> 65536,
     UDP_RCVBUF |-> 8192 * 1500, PAYLOADSIZE |-> LIVE_DEF_PLSIZE, TSBPDMODE |-> TRUE,
     RCVLATENCY |-> 120, PEERLATENCY |-> 0, TLPKTDROP |-> TRUE, SNDDROPDELAY |-> 0,
     MESSAGEAPI |-> TRUE, NAKREPORT |-> TRUE, RETRANSMITALGO |-> 1, LINGER |-> 0,
     CONGESTION |-> "live", PACKETFILTER |-> 0, CRYPTOMODE |-> 0, PASSPHRASE |-> 0,
     PBKEYLEN |-> 0, KMREFRESHRATE |-> 0, KMPREANNOUNCE |-> 0, PEERIDLETIMEO |-> 5000,
     GROUPMINSTABLETIMEO |-> MIN_STABILITY_MS, STREAMID |-> 0, IPTTL |-> -1,
     SNDTIMEO |-> -1, RCVTIMEO |-> -1, MAXBW |-> -1, INPUTBW |-> 0, MININPUTBW |-> 0,
     OHEADBW |-> 25, CONNTIMEO |-> 3000, LOSSMAXTTL |-> 0, DRIFTTRACER |-> TRUE,
     RENDEZVOUS |-> FALSE, SNDSYN |-> TRUE, RCVSYN |-> TRUE, REUSEADDR |-> TRUE,
     SENDER |-> FALSE, ENFORCEDENCRYPTION |-> TRUE, SRTLA |-> FALSE,
     IPTOS |-> -1, IPV6ONLY |-> -1, MINVERSION |-> 65536, GROUPCONNECT |-> 0,
     BINDTODEVICE |-> 0]

Smaller(a, b) == IF a < b THEN a ELSE b
Larger(a, b) == IF a > b THEN a ELSE b

-----------------------------------------------------------------------------
\* Each setter: the values it accepts, and the configuration it leaves.
bytesPerPkt(c) == c.MSS - UDP_HDR_SIZE

RcvBufferSizeOptionToValue(val, fc, mss) ==
    LET b == mss - UDP_HDR_SIZE
    IN Smaller(fc, IF val > b * DEF_MIN_FLIGHT_PKT THEN val \div b ELSE DEF_MIN_FLIGHT_PKT)

SizeOk(o, v) ==
    \/ o = "MSS" /\ v >= UDP_HDR_SIZE + HS_SIZE
    \/ o = "FC" /\ v >= DEF_MIN_FLIGHT_PKT
    \/ o \in {"SNDBUF", "RCVBUF"} /\ v > 0
    \/ o \in {"UDP_SNDBUF", "UDP_RCVBUF"}

\* A packet never exceeds the UDP buffers, whichever of them is set last.
SetSize(c, o, v) ==
    CASE o = "MSS" -> [c EXCEPT !.MSS = Smaller(Smaller(v, c.UDP_SNDBUF), c.UDP_RCVBUF)]
      [] o = "SNDBUF" -> [c EXCEPT !.SNDBUF = v \div bytesPerPkt(c)]
      [] o = "RCVBUF" -> [c EXCEPT !.RCVBUF = RcvBufferSizeOptionToValue(v, c.FC, c.MSS)]
      [] o \in {"UDP_SNDBUF", "UDP_RCVBUF"} -> [c EXCEPT ![o] = Larger(c.MSS, v)]
      [] o = "FC" -> [c EXCEPT !.FC = v]
Sizes == {"MSS", "FC", "SNDBUF", "RCVBUF", "UDP_SNDBUF", "UDP_RCVBUF"}

\* Options of the first part of the table, stored as they come.
PlainOk(o, v) ==
    \/ o \in {"LINGER", "RENDEZVOUS", "SNDSYN", "RCVSYN", "REUSEADDR", "IPTOS", "SENDER"}
    \/ o \in {"SNDTIMEO", "RCVTIMEO", "MAXBW"} /\ v >= -1
    \/ o = "IPTTL" /\ (v = -1 \/ v \in 1 .. 255)
    \/ o = "BINDTODEVICE" /\ v < IFNAMSIZ
    \/ o \in {"INPUTBW", "MININPUTBW"} /\ v >= 0
    \/ o = "OHEADBW" /\ v \in 5 .. 100

TsbpdModeOk(c, v) == c.CRYPTOMODE = GCM => v

LatencyOk(o, v) ==
    \/ o \in {"LATENCY", "RCVLATENCY", "PEERLATENCY"} /\ v >= 0
    \/ o = "TLPKTDROP"
    \/ o = "SNDDROPDELAY" /\ v >= -1
SetLatency(c, v) == [c EXCEPT !.RCVLATENCY = v, !.PEERLATENCY = v]

PassphraseOk(v) == v = 0 \/ v \in 10 .. 80
KeyLenOk(v) == v \in {0, 16, 24, 32}

ModeOk(o, v) ==
    \/ o \in {"NAKREPORT", "DRIFTTRACER", "LOSSMAXTTL", "MINVERSION", "MESSAGEAPI"}
    \/ o = "CONNTIMEO" /\ v >= 0
    \/ o = "STREAMID" /\ v <= MAX_SID_LENGTH
    \/ o = "CONGESTION" /\ v \in {"live", "file", "vod"}
SetCongestion(c, v) == [c EXCEPT !.CONGESTION = IF v = "vod" THEN "file" ELSE v]

PeerOk(o, v) == o \in {"ENFORCEDENCRYPTION", "IPV6ONLY"} \/ (o = "PEERIDLETIMEO" /\ v >= 0)
LinkOk(o, v) == o = "SRTLA" \/ (o = "RETRANSMITALGO" /\ v \in 0 .. 1)
CryptoModeOk(c, v) == v \in 0 .. GCM /\ (v = GCM => c.TSBPDMODE)

payloadSizeFits(c, v) ==
    /\ v <= LIVE_MAX_PLSIZE - c.PACKETFILTER
    /\ c.CRYPTOMODE = GCM => v <= LIVE_MAX_PLSIZE - AUTHTAG_MAX

PayloadOk(c, v) == v >= 0 /\ v <= LIVE_MAX_PLSIZE /\ payloadSizeFits(c, v)

\* A filter is the size of its header (0: a text the filter does not accept); it
\* takes its room from the payload.
SetFilter(c, v) ==
    [c EXCEPT !.PACKETFILTER = v, !.PAYLOADSIZE = Smaller(@, LIVE_MAX_PLSIZE - v)]

\* The mode presets eleven options, whatever they were set to.
SetTranstype(c, v) ==
    LET live == v = "live"
    IN [c EXCEPT !.TSBPDMODE = live, !.RCVLATENCY = IF live THEN 120 ELSE 0,
          !.PEERLATENCY = 0, !.TLPKTDROP = live, !.SNDDROPDELAY = IF live THEN 0 ELSE -1,
          !.MESSAGEAPI = live, !.NAKREPORT = live, !.RETRANSMITALGO = IF live THEN 1 ELSE 0,
          !.PAYLOADSIZE = IF live THEN LIVE_DEF_PLSIZE ELSE 0,
          !.LINGER = IF live THEN 0 ELSE 180, !.CONGESTION = v]

KmRate(c) == IF c.KMREFRESHRATE = 0 THEN DEF_KM_REFRESH_RATE ELSE c.KMREFRESHRATE
KmPre(c) == IF c.KMPREANNOUNCE = 0 THEN DEF_KM_PRE_ANNOUNCE ELSE c.KMPREANNOUNCE

\* Faulty: the pre-announcement of an earlier rate is kept.
BadSetKmRefreshRate(c, v) == [c EXCEPT !.KMREFRESHRATE = v]

SetKmRefreshRate(c, v) ==
    LET c1 == [c EXCEPT !.KMREFRESHRATE = v]
        most == (KmRate(c1) - 1) \div 2
    IN IF c1.KMPREANNOUNCE = 0 /\ v = 0 THEN c1
       ELSE IF c1.KMPREANNOUNCE = 0 \/ KmPre(c1) > most
       THEN [c1 EXCEPT !.KMPREANNOUNCE = most] ELSE c1

KmPreAnnounceOk(c, v) ==
    v >= 0 /\ (IF v = 0 THEN DEF_KM_PRE_ANNOUNCE ELSE v) <= (KmRate(c) - 1) \div 2

MinStableOk(c, v) == v >= MIN_STABILITY_MS /\ v <= c.PEERIDLETIMEO

\* CSrtConfig::set dispatches on the option: the values it accepts, and what it leaves.
Ok(c, o, v) ==
    \/ SizeOk(o, v) \/ PlainOk(o, v) \/ LatencyOk(o, v) \/ ModeOk(o, v)
    \/ PeerOk(o, v) \/ LinkOk(o, v)
    \/ o = "TSBPDMODE" /\ TsbpdModeOk(c, v)
    \/ o = "PASSPHRASE" /\ PassphraseOk(v)
    \/ o = "PBKEYLEN" /\ KeyLenOk(v)
    \/ o = "CRYPTOMODE" /\ CryptoModeOk(c, v)
    \/ o = "PAYLOADSIZE" /\ PayloadOk(c, v)
    \/ o = "PACKETFILTER" /\ v > 0
    \/ o = "TRANSTYPE" /\ v \in {"live", "file"}
    \/ o = "KMREFRESHRATE" /\ v >= 0
    \/ o = "KMPREANNOUNCE" /\ KmPreAnnounceOk(c, v)
    \/ o = "GROUPMINSTABLETIMEO" /\ MinStableOk(c, v)
    \/ o = "GROUPCONNECT"

set(c, o, v) ==
    CASE o \in Sizes -> SetSize(c, o, v)
      [] o = "LATENCY" -> SetLatency(c, v)
      [] o = "CONGESTION" -> SetCongestion(c, v)
      [] o = "PACKETFILTER" -> SetFilter(c, v)
      [] o = "TRANSTYPE" -> SetTranstype(c, v)
      [] o = "KMREFRESHRATE" -> SetKmRefreshRate(c, v)
      [] OTHER -> [c EXCEPT ![o] = v]

-----------------------------------------------------------------------------
PreBind == {"MSS", "SNDBUF", "RCVBUF", "UDP_SNDBUF", "UDP_RCVBUF", "REUSEADDR", "IPTTL",
            "TRANSTYPE", "IPTOS", "IPV6ONLY", "BINDTODEVICE"}
PostOptions == {"SNDSYN", "RCVSYN", "LINGER", "SNDTIMEO", "RCVTIMEO", "MAXBW", "INPUTBW",
                "OHEADBW", "SNDDROPDELAY", "DRIFTTRACER", "MININPUTBW", "LOSSMAXTTL"}

\* What the phase of the socket still allows.
flags(o, ph) ==
    /\ ph # "broken"
    /\ o \in PreBind => ph = "init"
    /\ o \notin PreBind \cup PostOptions => ph \in {"init", "opened"}

setOpt ==
    \E ov \in env.opts :
        /\ flags(ov[1], phase) /\ Ok(cfg, ov[1], ov[2])
        /\ cfg' = set(cfg, ov[1], ov[2])
        /\ tolerance' = IF ov[1] = "LOSSMAXTTL" /\ phase = "connected"
                        THEN ov[2] ELSE tolerance
        /\ UNCHANGED <<env, phase, grp>>

\* bind; connect, listen or an accepted connection; a broken connection.
Advance ==
    /\ env.opts # {}
    /\ \/ phase = "init" /\ phase' = "opened"
       \/ phase = "opened" /\ phase' = "connected"
       \/ phase = "connected" /\ phase' = "broken"
    /\ UNCHANGED <<env, cfg, tolerance, grp>>

-----------------------------------------------------------------------------
\* A group keeps the calls, replays them on every new member, and passes a later
\* one on to the members there are.
SocketOnly == {"SENDER", "IPV6ONLY", "RENDEZVOUS", "BINDTODEVICE", "GROUPCONNECT", "TRANSTYPE", "TSBPDMODE", "CONGESTION"}
OwnOptions == {"RCVSYN", "SNDSYN"}

StoredIdle ==
    LET idle == SelectSeq(grp.config, LAMBDA ov : ov[1] = "PEERIDLETIMEO")
    IN IF idle = << >> THEN 5000 ELSE idle[1][2]

GroupMinStableOk(v) == v >= MIN_STABILITY_MS /\ v <= StoredIdle

Applied(m, o, v) == [m EXCEPT !.cfg = set(@, o, v)]

\* The first member that refuses ends the call: those before it have the option,
\* those after it do not, and the group does not keep it.
Refusing(o, v) ==
    {i \in DOMAIN grp.members : grp.members[i].broken \/ ~Ok(grp.members[i].cfg, o, v)}
PassOn(o, v) ==
    [i \in DOMAIN grp.members |->
        IF \A j \in Refusing(o, v) : i < j THEN Applied(grp.members[i], o, v)
        ELSE grp.members[i]]

\* Faulty: an open group stores the option only.
BadGroupSetOpt(o, v) ==
    grp' = [grp EXCEPT !.config = IF Ok(Defaults, o, v) THEN Append(@, <<o, v>>) ELSE @]

\* What the group keeps for itself is set before the call can still be refused.
GroupSetOpt(o, v) ==
    LET own == IF o \in DOMAIN grp.own THEN [grp EXCEPT !.own[o] = v] ELSE grp
        told == [own EXCEPT !.members = PassOn(o, v)]
        keep(g) == IF Ok(Defaults, o, v)
                   THEN [g EXCEPT !.config = Append(@, <<o, v>>)] ELSE g
    IN grp' = IF o = "GROUPMINSTABLETIMEO" /\ ~GroupMinStableOk(v) THEN grp
              ELSE IF o \in OwnOptions THEN own
              ELSE IF grp.members = << >> THEN keep(own)
              ELSE IF o \notin PostOptions THEN own
              ELSE IF Refusing(o, v) # {} THEN [told EXCEPT !.failed = @ \/ 1 \notin Refusing(o, v)]
              ELSE keep(told)

setGroupOpt ==
    \E ov \in env.gopts :
        /\ ov[1] \notin SocketOnly /\ Len(grp.config) < env.maxConfig
        /\ GroupSetOpt(ov[1], ov[2])
        /\ UNCHANGED <<env, cfg, phase, tolerance>>

\* SRT_SocketOptionObject::add accepts these for one member only.
MemberOptions ==
    {"CONNTIMEO", "DRIFTTRACER", "GROUPMINSTABLETIMEO", "IPTTL", "KMREFRESHRATE",
     "KMPREANNOUNCE", "LOSSMAXTTL", "NAKREPORT", "PEERIDLETIMEO", "RCVBUF", "SNDBUF",
     "SNDDROPDELAY", "UDP_RCVBUF", "UDP_SNDBUF", "IPTOS", "BINDTODEVICE"}

\* The group's calls in their order, then the member's own; one refused call
\* drops the member.
Replay(calls) ==
    FoldLeft(LAMBDA r, ov : IF r.ok /\ Ok(r.cfg, ov[1], ov[2])
                            THEN [ok |-> TRUE, cfg |-> set(r.cfg, ov[1], ov[2])]
                            ELSE [ok |-> FALSE, cfg |-> r.cfg],
             [ok |-> TRUE, cfg |-> Defaults], calls)

groupConnect ==
    \E own \in env.memberConfigs :
        LET r == Replay(grp.config \o own)
        IN /\ Len(grp.members) < env.maxMembers
           /\ \A i \in DOMAIN own : own[i][1] \in MemberOptions
           /\ r.ok
           /\ grp' = [grp EXCEPT !.members =
                 Append(@, [cfg |-> [r.cfg EXCEPT !.SNDSYN = FALSE, !.RCVSYN = FALSE,
                                                   !.GROUPCONNECT = 1],
                            broken |-> FALSE,
                            own |-> {own[i][1] : i \in DOMAIN own}])]
           /\ UNCHANGED <<env, cfg, phase, tolerance>>

MemberBreaks ==
    \E i \in DOMAIN grp.members :
        /\ ~grp.members[i].broken
        /\ grp' = [grp EXCEPT !.members[i].broken = TRUE]
        /\ UNCHANGED <<env, cfg, phase, tolerance>>

Init ==
    /\ env \in Cases
    /\ cfg = Defaults
    /\ phase = "init" /\ tolerance = 0
    /\ grp = [config |-> << >>, members |-> << >>, failed |-> FALSE,
              own |-> [SNDTIMEO |-> -1, RCVTIMEO |-> -1, SNDSYN |-> TRUE, RCVSYN |-> TRUE,
                       GROUPMINSTABLETIMEO |-> MIN_STABILITY_MS]]

Next == setOpt \/ Advance \/ setGroupOpt \/ groupConnect \/ MemberBreaks

Spec == Init /\ [][Next]_vars

-----------------------------------------------------------------------------
\* Whatever order the options are set in (CSrtConfig::set): a packet has room for a
\* handshake and fits the UDP buffers, the payload leaves room for the filter's
\* header, the receiver buffer has its least size, and a stored pre-announcement is
\* below half of the refresh rate.
ConfigCoherent ==
    /\ cfg.MSS >= UDP_HDR_SIZE + HS_SIZE
    /\ cfg.MSS <= cfg.UDP_SNDBUF /\ cfg.MSS <= cfg.UDP_RCVBUF
    /\ cfg.PAYLOADSIZE + cfg.PACKETFILTER <= LIVE_MAX_PLSIZE
    /\ cfg.RCVBUF >= DEF_MIN_FLIGHT_PKT
    /\ cfg.KMPREANNOUNCE <= (KmRate(cfg) - 1) \div 2

Affected(o) == IF o = "KMREFRESHRATE" THEN {o, "KMPREANNOUNCE"} ELSE {o}

\* A member that joins later (groupConnect's replay) has the options the earlier
\* ones have (CUDTGroup::setOpt passed them on), but for those it was given as its
\* own; only a call that failed half-way makes them differ.
MembersAgree ==
    grp.failed \/
    \A i, j \in DOMAIN grp.members :
        LET own == UNION {Affected(o) : o \in grp.members[i].own \cup grp.members[j].own}
        IN \A o \in DOMAIN Defaults \ own :
              grp.members[i].cfg[o] = grp.members[j].cfg[o]
=============================================================================
