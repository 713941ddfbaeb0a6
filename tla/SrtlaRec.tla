------------------------------ MODULE SrtlaRec ------------------------------
(***************************************************************************)
(* The SRTLA receiver (class SrtlaRec): the registry that bonds several    *)
(* source addresses (links) into a group and maps a group onto one CUDT.   *)
(* Its handlers run under m_Lock, so each one is an atomic action.  Three  *)
(* kinds of step share the registry:                                       *)
(*   - the receive worker reads a datagram (onIngress) and, when the       *)
(*     datagram is an accepted handshake, binds the new CUDT (bindGroup);  *)
(*   - the receive worker runs the periodic pass (onPeriodic), on the      *)
(*     iterations that reach it;                                           *)
(*   - the send worker asks where to send feedback (onEgress).             *)
(*                                                                         *)
(* A group is named by its node of the list m_Groups: a slot that is freed *)
(* by removeGroup and may be taken by the next group, so a stale pointer   *)
(* would alias another group.  The 256-byte id is drawn afresh for every   *)
(* group, so an id received in REG2 is that of a live group or matches     *)
(* none (a slot that is not live).  An address owns at most one Link       *)
(* (LinkMapExact), so the Link objects are indexed by address.             *)
(*                                                                         *)
(* Instants are kept as ages in ticks, capped where no comparison of the   *)
(* code tells them apart any more.  Rates, transit times, the stats and    *)
(* the recovery of a link (recovering, recovery_start, last_keepalive)     *)
(* decide only what is reported and when keepalives are sent, and          *)
(* has_last_addr is TRUE from the creation of a group on: they are left    *)
(* out.                                                                    *)
(***************************************************************************)
EXTENDS Integers, FiniteSets

CONSTANTS
    Addrs,          \* source addresses of datagrams
    Slots,          \* memory nodes of the list m_Groups
    None,           \* NULL, or no address
    MaxGroups,      \* MAX_GROUPS
    MaxConns,       \* MAX_CONNS_PER_GROUP
    NakFanout,      \* NAK_FANOUT
    AckInterval,    \* RECV_ACK_INT
    AckFlush,       \* ACK_FLUSH_US
    LinkPass,       \* LINK_PASS_US
    CleanupPeriod,  \* CLEANUP_PERIOD, 3 s
    ConnTimeout,    \* CONN_TIMEOUT, 4 s
    GroupTimeout    \* GROUP_TIMEOUT, 4 s

ASSUME NamesAssumption ==
    /\ None \notin Addrs
    /\ None \notin Slots
    /\ IsFiniteSet(Addrs)
    /\ IsFiniteSet(Slots)

ASSUME LimitsAssumption ==
    /\ MaxGroups \in Nat \ {0}
    /\ MaxConns \in Nat \ {0}
    /\ NakFanout \in Nat \ {0}
    /\ AckInterval \in Nat \ {0}

(* The same 4 s bound both, so that a group whose last link timed out is   *)
(* itself past its grace period.                                           *)
ASSUME TimesAssumption ==
    /\ AckFlush \in Nat \ {0}
    /\ LinkPass \in Nat \ {0}
    /\ CleanupPeriod \in Nat \ {0}
    /\ GroupTimeout \in Nat
    /\ ConnTimeout \in Nat
    /\ GroupTimeout <= ConnTimeout

VARIABLES
    groups,      \* the slots in m_Groups
    group,       \* slot -> Group
    link,        \* address -> its Link
    linkMap,     \* m_LinkMap: address -> slot
    egressMap,   \* m_EgressMap: peer address -> slot
    haveTimers,  \* m_HaveTimers
    cleanupAge,  \* now - m_LastCleanup
    passAge,     \* now - m_LastLinkPass
    loop,        \* where the receive worker is in its loop
    sent         \* the datagrams the last handler sent: <<address, type>>

vars == <<groups, group, link, linkMap, egressMap, haveTimers, cleanupAge,
          passAge, loop, sent>>

-----------------------------------------------------------------------------

AgeCap == ConnTimeout + 1

Older(age, cap) == IF age < cap THEN age + 1 ELSE age

(* "peer" stands for socket_id and bound: it is the address the CUDT the   *)
(* group is bound to was accepted from, None while the group is unbound.   *)
Group == [links : SUBSET Addrs, age : 0..AgeCap, last_addr : Addrs \cup {None},
          data_seen : BOOLEAN, peer : Addrs \cup {None}]

NoGroup == [links |-> {}, age |-> 0, last_addr |-> None, data_seen |-> FALSE,
            peer |-> None]

(* ack_count and the age of ack_first_pending, idle = now - last_rcvd.     *)
Link == [idle : 0..AgeCap, ack_count : 0..AckInterval, ackAge : 0..AckFlush]

NewLink == [idle |-> 0, ack_count |-> 0, ackAge |-> 0]

IsLink(a) == linkMap[a] # None

IsGhost(s) == group[s].links = {} /\ ~group[s].data_seen

GhostsOf(a) == {s \in groups : IsGhost(s) /\ group[s].last_addr = a}

Init ==
    /\ groups = {}
    /\ group = [s \in Slots |-> NoGroup]
    /\ link = [a \in Addrs |-> NewLink]
    /\ linkMap = [a \in Addrs |-> None]
    /\ egressMap = [a \in Addrs |-> None]
    /\ haveTimers = FALSE
    /\ cleanupAge = 0
    /\ passAge = 0
    /\ loop = "read"
    /\ sent = {}

-----------------------------------------------------------------------------
(* Removing groups.                                                        *)

(* The egress entries left when the groups in "dead" are removed.          *)
EgressWithout(dead) ==
    [a \in Addrs |-> IF egressMap[a] \in dead THEN None ELSE egressMap[a]]

LinksWithout(dead) ==
    [a \in Addrs |-> IF linkMap[a] \in dead THEN None ELSE linkMap[a]]

(* Faulty: a group that has links may be evicted.                          *)
BadVictims == {s \in groups : ~group[s].data_seen}

(* The groups REG1 may evict from a full table: an oldest ghost.           *)
Victims ==
    {s \in groups : IsGhost(s)
        /\ \A t \in groups : IsGhost(t) => group[t].age <= group[s].age}

-----------------------------------------------------------------------------
(* Registration: consumed by the demux, so the worker reads again.         *)

Answer(a, type) ==
    /\ sent' = {<<a, type>>}
    /\ UNCHANGED <<groups, group, link, linkMap, egressMap>>

(* The new group replaces the victim, if any, and takes any free node.     *)
CreateGroup(a, victim) ==
    \E s \in (Slots \ groups) \cup victim :
        /\ groups' = (groups \ victim) \cup {s}
        /\ group' = [t \in Slots |->
                        IF t = s THEN [NoGroup EXCEPT !.last_addr = a]
                        ELSE IF t \in victim THEN NoGroup ELSE group[t]]
        /\ linkMap' = LinksWithout(victim)
        /\ egressMap' = EgressWithout(victim)
        /\ sent' = {<<a, "REG2">>}
        /\ UNCHANGED link

handleReg1(a) ==
    IF IsLink(a) THEN Answer(a, "REG_ERR")
    ELSE IF GhostsOf(a) # {} THEN Answer(a, "REG2")
    ELSE IF Cardinality(groups) < MaxGroups THEN CreateGroup(a, {})
    ELSE IF Victims = {} THEN Answer(a, "REG_ERR")
    ELSE \E s \in Victims : CreateGroup(a, {s})

Joined(g, a) == [g EXCEPT !.links = @ \cup {a}, !.last_addr = a]

Join(a, s) ==
    /\ group' = [group EXCEPT ![s] = Joined(@, a)]
    /\ link' = [link EXCEPT ![a] = NewLink]
    /\ linkMap' = [linkMap EXCEPT ![a] = s]
    /\ sent' = {<<a, "REG3">>}
    /\ UNCHANGED <<groups, egressMap>>

handleReg2(a, s) ==
    IF s \notin groups THEN Answer(a, "REG_NGP")
    ELSE IF IsLink(a) /\ linkMap[a] # s THEN Answer(a, "REG_ERR")
    ELSE IF linkMap[a] = s THEN Answer(a, "REG3")
    ELSE IF Cardinality(group[s].links) >= MaxConns THEN Answer(a, "REG_ERR")
    ELSE Join(a, s)

Reg1(a) ==
    /\ loop = "read"
    /\ handleReg1(a)
    /\ UNCHANGED <<haveTimers, cleanupAge, passAge, loop>>

Reg2(a, s) ==
    /\ loop = "read"
    /\ handleReg2(a, s)
    /\ UNCHANGED <<haveTimers, cleanupAge, passAge, loop>>

-----------------------------------------------------------------------------
(* Traffic of a registered link.                                           *)

(* Any datagram refreshes its link, also one that was silent for too long  *)
(* but is not removed yet (the code then sends it keepalives for a while). *)
Heard(l) == [l EXCEPT !.idle = 0]

SendAck(l) == [idle |-> l.idle, ack_count |-> 0, ackAge |-> 0]

LogAck(l) == [l EXCEPT !.ack_count = @ + 1]

AckDue(l) == l.ack_count >= AckInterval \/ l.ackAge >= AckFlush

(* A datagram the demux consumes: from an address that is no link, or a    *)
(* keepalive (echoed), another native control packet or a short one.       *)
Consumed(a) ==
    /\ loop = "read"
    /\ IF IsLink(a)
       THEN /\ link' = [link EXCEPT ![a] = Heard(@)]
            /\ sent' \in {{}, {<<a, "KEEPALIVE">>}}
       ELSE sent' = {} /\ UNCHANGED link
    /\ UNCHANGED <<groups, group, linkMap, egressMap, haveTimers, cleanupAge,
                   passAge, loop>>

(* An SRT packet passes the demux.  The periodic pass follows, unless the  *)
(* dispatch of the packet ended in CONN_AGAIN.                             *)
Pass(a, g) ==
    /\ loop = "read"
    /\ IsLink(a)
    /\ group' = [group EXCEPT ![linkMap[a]] = g]
    /\ loop' \in {"read", "periodic"}
    /\ UNCHANGED <<groups, linkMap, haveTimers, cleanupAge, passAge>>

Active(a) == [group[linkMap[a]] EXCEPT !.last_addr = a, !.data_seen = TRUE]

Data(a) ==
    /\ Pass(a, Active(a))
    /\ LET l == LogAck(Heard(link[a])) IN
         /\ link' = [link EXCEPT ![a] = IF AckDue(l) THEN SendAck(l) ELSE l]
         /\ sent' = IF AckDue(l) THEN {<<a, "SRTLA_ACK">>} ELSE {}
    /\ UNCHANGED egressMap

Control(a) ==
    /\ Pass(a, Active(a))
    /\ link' = [link EXCEPT ![a] = Heard(@)]
    /\ sent' = {}
    /\ UNCHANGED egressMap

(* The conclusion handshake from "a" creates a CUDT: acceptAndRespond      *)
(* calls bindGroup in the same iteration of the receive worker.            *)
Accept(a) ==
    /\ Pass(a, [Active(a) EXCEPT !.peer = a])
    /\ link' = [link EXCEPT ![a] = Heard(@)]
    /\ egressMap' = [egressMap EXCEPT ![a] = linkMap[a]]
    /\ sent' = {}

-----------------------------------------------------------------------------
(* The periodic pass.                                                      *)

(* The read timed out (10 ms): the iteration goes on to the periodic pass. *)
NoDatagram ==
    /\ loop = "read"
    /\ loop' = "periodic"
    /\ sent' = {}
    /\ UNCHANGED <<groups, group, link, linkMap, egressMap, haveTimers,
                   cleanupAge, passAge>>

PassDue == passAge >= LinkPass

Flushed(a) ==
    PassDue /\ link[a].ack_count > 0 /\ link[a].ackAge >= AckFlush

Silent(a) == IsLink(a) /\ link[a].idle > ConnTimeout

(* Faulty: one tick late.                                                  *)
BadCleanupDue == cleanupAge > CleanupPeriod

CleanupDue == cleanupAge >= CleanupPeriod

(* The groups that lost their last link, or never had one, in time.        *)
Emptied ==
    {s \in groups : (\A a \in group[s].links : Silent(a))
                    /\ group[s].age > GroupTimeout}

Purged(g) == [g EXCEPT !.links = {a \in @ : ~Silent(a)}]

(* Faulty: only the links of removed groups leave the map.                 *)
BaddoCleanup ==
    /\ groups' = groups \ Emptied
    /\ group' = [s \in Slots |->
                    IF s \in Emptied THEN NoGroup
                    ELSE Purged(group[s])]
    /\ linkMap' = LinksWithout(Emptied)
    /\ egressMap' = EgressWithout(Emptied)

doCleanup ==
    /\ groups' = groups \ Emptied
    /\ group' = [s \in Slots |->
                    IF s \in Emptied THEN NoGroup
                    ELSE Purged(group[s])]
    /\ linkMap' = [a \in Addrs |-> IF Silent(a) THEN None ELSE linkMap[a]]
    /\ egressMap' = EgressWithout(Emptied)

onPeriodic ==
    /\ loop = "periodic"
    /\ loop' = "read"
    /\ haveTimers' = TRUE
    /\ \/ /\ ~haveTimers
          /\ cleanupAge' = 0
          /\ passAge' = 0
          /\ sent' = {}
          /\ UNCHANGED <<groups, group, link, linkMap, egressMap>>
       \/ /\ haveTimers
          /\ passAge' = IF PassDue THEN 0 ELSE passAge
          /\ sent' = {<<a, "SRTLA_ACK">> : a \in {b \in Addrs : Flushed(b)}}
          /\ IF CleanupDue
             THEN /\ doCleanup
                  /\ cleanupAge' = 0
                  /\ link' = [a \in Addrs |->
                        IF Silent(a) THEN NewLink
                        ELSE IF Flushed(a) THEN SendAck(link[a]) ELSE link[a]]
             ELSE /\ link' = [a \in Addrs |->
                        IF Flushed(a) THEN SendAck(link[a]) ELSE link[a]]
                  /\ UNCHANGED <<groups, group, linkMap, egressMap, cleanupAge>>

-----------------------------------------------------------------------------
(* Feedback of the CUDT accepted from "peer", by the send worker or the    *)
(* receive worker.  The list order of the links is left open.              *)

First(s) == group[s].links \cap {group[s].last_addr}

NakTargets(s) ==
    LET others == {t \in SUBSET (group[s].links \ First(s)) :
                      Cardinality(t) + Cardinality(First(s)) <= NakFanout}
    IN  {First(s) \cup t : t \in
            {u \in others : \A v \in others : Cardinality(v) <= Cardinality(u)}}

(* Faulty: the ACK goes to the peer too.                                   *)
BadonEgress(peer) ==
    /\ LET s == egressMap[peer] IN
         IF s = None \/ group[s].links = {}
         THEN sent' = {<<peer, "SRT">>}
         ELSE sent' = (group[s].links \cup {peer}) \X {"ACK"}
    /\ UNCHANGED <<groups, group, link, linkMap, egressMap, haveTimers,
                   cleanupAge, passAge, loop>>

onEgress(peer) ==
    /\ LET s == egressMap[peer] IN
         IF s = None \/ group[s].links = {}
         THEN sent' = {<<peer, "SRT">>}
         ELSE \/ sent' = group[s].links \X {"ACK"}
              \/ \E t \in NakTargets(s) : sent' = t \X {"NAK"}
              \/ sent' = {<<group[s].last_addr, "SRT">>}
    /\ UNCHANGED <<groups, group, link, linkMap, egressMap, haveTimers,
                   cleanupAge, passAge, loop>>

(* Time passes.                                                            *)
OlderGroup(g) == [g EXCEPT !.age = Older(@, AgeCap)]

OlderLink(l) ==
    [idle      |-> Older(l.idle, AgeCap),
     ack_count |-> l.ack_count,
     ackAge    |-> IF l.ack_count > 0 THEN Older(l.ackAge, AckFlush) ELSE l.ackAge]

Tick ==
    /\ group' = [s \in Slots |->
                    IF s \in groups THEN OlderGroup(group[s]) ELSE group[s]]
    /\ link' = [a \in Addrs |->
                  IF IsLink(a) THEN OlderLink(link[a]) ELSE link[a]]
    /\ cleanupAge' = Older(cleanupAge, CleanupPeriod)
    /\ passAge' = Older(passAge, LinkPass)
    /\ sent' = {}
    /\ UNCHANGED <<groups, linkMap, egressMap, haveTimers, loop>>

Datagram(a) ==
    \/ Reg1(a)
    \/ \E s \in Slots : Reg2(a, s)
    \/ Consumed(a)
    \/ Data(a)
    \/ Control(a)
    \/ Accept(a)

Next ==
    \/ \E a \in Addrs : Datagram(a) \/ onEgress(a)
    \/ NoDatagram
    \/ onPeriodic
    \/ Tick

Spec == Init /\ [][Next]_vars

-----------------------------------------------------------------------------
(* Fairness.  The worker's read gives up after 10 ms, so unless the socket *)
(* is flooded with datagrams the demux consumes, an iteration reaches the  *)
(* periodic pass again and again; the clock advances.                      *)

FairSpec ==
    /\ Spec
    /\ WF_vars(NoDatagram)
    /\ WF_vars(onPeriodic)
    /\ WF_vars(Tick)

-----------------------------------------------------------------------------
(* Properties.                                                             *)

(* Every variable has its type: the maps hold slots or NULL, a link's      *)
(* unsent SRTLA ACK batch never outgrows ack_log between two handlers.     *)
TypeOK ==
    /\ groups \subseteq Slots
    /\ group \in [Slots -> Group]
    /\ link \in [Addrs -> Link]
    /\ \A a \in Addrs : link[a].ack_count < AckInterval
    /\ linkMap \in [Addrs -> Slots \cup {None}]
    /\ egressMap \in [Addrs -> Slots \cup {None}]
    /\ haveTimers \in BOOLEAN
    /\ cleanupAge \in 0..CleanupPeriod
    /\ passAge \in 0..LinkPass
    /\ loop \in {"read", "periodic"}

(* m_LinkMap is exactly the membership of the live groups: a reference     *)
(* findLink returns is never dangling, every Link in a list is found, and  *)
(* an address is a link of one group at most, whatever order of REG1,      *)
(* REG2, eviction and timeouts led here.                                   *)
LinkMapExact ==
    \A a \in Addrs, s \in Slots :
        linkMap[a] = s <=> (s \in groups /\ a \in group[s].links)

(* A pointer in m_EgressMap, which onEgress dereferences in the send       *)
(* worker, is that of a live group that a CUDT was bound to, although      *)
(* groups are removed by eviction and by timeouts in the receive worker.   *)
EgressMapLive ==
    \A a \in Addrs : egressMap[a] # None =>
        /\ egressMap[a] \in groups
        /\ group[egressMap[a]].peer # None

(* The case "registration gone but the CUDT still alive" of onEgress never *)
(* arises: a bound group has a link as long as it exists, because a link   *)
(* that timed out is no older than its group, which is removed with it.    *)
BoundGroupHasLink ==
    \A s \in groups : group[s].peer # None => group[s].links # {}

(* A link was last heard after its group was created; with it the two      *)
(* properties around this one are inductive.                               *)
LinkNoOlder ==
    \A a \in Addrs : IsLink(a) => link[a].idle <= group[linkMap[a]].age

(* A REG1 that is repeated, duplicated or interleaved with others leaves   *)
(* its sender with one empty group at most (findGhostCreator).             *)
OneGhostPerCreator == \A a \in Addrs : \A s, t \in GhostsOf(a) : s = t

(* The registry as a whole: the three tables agree with each other and with *)
(* the groups after any order of REG1, REG2, REG3, eviction and timeouts.    *)
RegistryExact ==
    LinkMapExact /\ EgressMapLive /\ BoundGroupHasLink /\ OneGhostPerCreator

(* Eviction and cleanup never take a group away from a live link: a group  *)
(* goes only when it is an unused ghost, or when it is past its grace      *)
(* period and every one of its links has timed out.                        *)
GroupOutlivesLinks ==
    [][\A s \in groups :
          (s \notin groups' \/ group'[s].age < group[s].age) =>
              IsGhost(s) \/ s \in Emptied]_vars

(* A loss report goes over NAK_FANOUT links, or over all of them when      *)
(* there are fewer, even when the most recently active address is no       *)
(* longer a link of the group.                                             *)
NakReachesFanout ==
    \A s \in groups : \A t \in NakTargets(s) :
        /\ t \subseteq group[s].links
        /\ Cardinality(t) = NakFanout \/ t = group[s].links

(* An ACK or NAK of a bound CUDT, and REG3, goes to registered links only: *)
(* the peer address of the CUDT gets none once its own link timed out.     *)
FeedbackOnlyToLinks ==
    \A a \in Addrs :
        (\E type \in {"ACK", "NAK", "REG3"} : <<a, type>> \in sent) => IsLink(a)

(* Both: what a bound CUDT sends back reaches its links, and only them.    *)
FeedbackReachesLinks == FeedbackOnlyToLinks /\ NakReachesFanout

(* A link that fell silent is removed, or is heard again.                  *)
SilentLinkGoes == \A a \in Addrs : []<>~Silent(a)

(* An empty group past its grace period is removed, or joined.             *)
EmptyGroupGoes ==
    \A s \in Slots :
        LET Overdue == s \in groups /\ group[s].links = {} /\ group[s].age = AgeCap
        IN  []<>~Overdue

(* Every sequence number logged for an SRTLA ACK is acknowledged, also     *)
(* when the link goes quiet with a partial batch.                          *)
AcksFlushed == \A a \in Addrs : []<>(link[a].ack_count = 0)

(* The periodic pass gets to all of it: silent links and empty groups go,  *)
(* partial batches are acknowledged (onPeriodic, doCleanup).               *)
PeriodicWorkDone == SilentLinkGoes /\ EmptyGroupGoes /\ AcksFlushed
=============================================================================
