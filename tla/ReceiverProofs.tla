--------------------------- MODULE ReceiverProofs ---------------------------
(* What is proved of the receiving queue and of the arithmetic beneath it.      *)
(*                                                                              *)
(* The SRTLA registry, for every set of addresses, every number of groups and   *)
(* links, and all timeouts: the two maps of pointers stay exact, and a bound    *)
(* group always has a link.                                                     *)
(*                                                                              *)
(* The circular arithmetic on sequence numbers, for every size of the sequence  *)
(* space.  The one fact behind all of it is Congruent: the wrapped numbers      *)
(* differ from their true distance by at most one turn.                         *)
(*                                                                              *)
(* The pool of packet units, for every size of its entries, every number of     *)
(* rebuilt packets and every number of reading threads below the size of an     *)
(* entry: a unit has one user, and the pool is dry only after a failed          *)
(* allocation.  What makes it inductive is the counter's exact value while      *)
(* units are given back (CounterExact) and, for each place of the worker, which *)
(* units may be marked without being in a buffer (MarksExact).                  *)
EXTENDS SrtlaRec, SeqNoClock, UnitQueue, FiniteSetTheorems, WellFoundedInduction, TLAPS

(* The inductive invariant.  LinkMapExact alone is not inductive: that a   *)
(* group emptied by the cleanup is removed in the same pass follows from   *)
(* the ages of links and groups (LinkNoOlder).                             *)
IInv ==
    /\ TypeOK
    /\ LinkMapExact
    /\ EgressMapLive
    /\ BoundGroupHasLink
    /\ LinkNoOlder
    /\ OneGhostPerCreator

-----------------------------------------------------------------------------
(* The blank records are records of their types.                           *)
LEMMA Blank == AgeCap \in Nat /\ NoGroup \in Group /\ NewLink \in Link
  <1>1. AgeCap \in Nat
    BY TimesAssumption DEF AgeCap
  <1>2. NoGroup \in Group
    BY <1>1 DEF NoGroup, Group
  <1>3. NewLink \in Link
    BY <1>1, LimitsAssumption, TimesAssumption DEF NewLink, Link
  <1> QED
    BY <1>1, <1>2, <1>3

(* Initially every table is empty.                                         *)
LEMMA InitInv == Init => IInv
  <1> SUFFICES ASSUME Init PROVE IInv
    OBVIOUS
  <1> USE NamesAssumption, LimitsAssumption, TimesAssumption
  <1>1. TypeOK
    <2>1. \A a \in Addrs : link[a].ack_count < AckInterval
      BY DEF Init, NewLink
    <2>2. haveTimers \in BOOLEAN
      BY Zenon DEF Init
    <2>3. group \in [Slots -> Group] /\ link \in [Addrs -> Link]
      BY Blank DEF Init
    <2> QED
      BY <2>1, <2>2, <2>3 DEF Init, TypeOK
  <1>2. LinkMapExact
    BY DEF Init, LinkMapExact
  <1>3. EgressMapLive
    BY DEF Init, EgressMapLive
  <1>4. BoundGroupHasLink
    BY DEF Init, BoundGroupHasLink
  <1>5. LinkNoOlder
    BY DEF Init, LinkNoOlder, IsLink
  <1>6. OneGhostPerCreator
    BY DEF Init, OneGhostPerCreator, GhostsOf
  <1> QED
    BY <1>1, <1>2, <1>3, <1>4, <1>5, <1>6 DEF IInv

(* A step that leaves the tables alone preserves the invariant.            *)
LEMMA SameTables ==
    ASSUME IInv,
           UNCHANGED <<groups, group, link, linkMap, egressMap>>,
           haveTimers' \in BOOLEAN,
           cleanupAge' \in 0..CleanupPeriod,
           passAge' \in 0..LinkPass,
           loop' \in {"read", "periodic"}
    PROVE  IInv'
  BY DEF IInv, TypeOK, LinkMapExact, EgressMapLive, BoundGroupHasLink,
         LinkNoOlder, IsLink, OneGhostPerCreator, GhostsOf, IsGhost

(* REG1 creates a group, in place of a ghost if the table is full.         *)
LEMMA CreateInv ==
    ASSUME IInv,
           NEW a \in Addrs, GhostsOf(a) = {},
           NEW victim \in SUBSET groups, \A s \in victim : IsGhost(s),
           CreateGroup(a, victim),
           UNCHANGED <<haveTimers, cleanupAge, passAge, loop>>
    PROVE  IInv'
  <1> USE NamesAssumption DEF IInv
  <1>1. PICK s \in (Slots \ groups) \cup victim :
            /\ groups' = (groups \ victim) \cup {s}
            /\ group' = [t \in Slots |->
                            IF t = s THEN [NoGroup EXCEPT !.last_addr = a]
                            ELSE IF t \in victim THEN NoGroup ELSE group[t]]
            /\ linkMap' = LinksWithout(victim)
            /\ egressMap' = EgressWithout(victim)
            /\ UNCHANGED link
    BY DEF CreateGroup
  <1>2. s \in Slots /\ groups' \subseteq Slots
    BY <1>1 DEF TypeOK
  <1>3. [NoGroup EXCEPT !.last_addr = a] \in Group
    BY Blank, Zenon DEF NoGroup, Group
  <1>4. TypeOK'
    BY <1>1, <1>2, <1>3, Blank DEF TypeOK, LinksWithout, EgressWithout
  <1>5. /\ group'[s].links = {} /\ group'[s].peer = None
        /\ group'[s].last_addr = a
        /\ \A t \in Slots \ {s} :
              IF t \in victim THEN group'[t] = NoGroup ELSE group'[t] = group[t]
    BY <1>1, <1>2 DEF NoGroup
  <1>6. \A b \in Addrs : linkMap[b] \notin victim /\ linkMap'[b] = linkMap[b]
    BY <1>1 DEF LinksWithout, LinkMapExact, IsGhost, TypeOK
  <1>7. \A b \in Addrs : egressMap[b] \notin victim /\ egressMap'[b] = egressMap[b]
    BY <1>1 DEF EgressWithout, EgressMapLive, BoundGroupHasLink, IsGhost, TypeOK
  <1>8. LinkMapExact'
    <2>1. ASSUME NEW b \in Addrs, NEW t \in Slots
          PROVE  (linkMap[b] = t <=> (t \in groups /\ b \in group[t].links))'
      <3>1. CASE t = s
        BY <3>1, <1>1, <1>5, <1>6 DEF LinkMapExact
      <3>2. CASE t # s /\ t \in victim
        BY <3>2, <1>1, <1>5, <1>6 DEF NoGroup
      <3>3. CASE t # s /\ t \notin victim
        BY <3>3, <1>1, <1>5, <1>6 DEF LinkMapExact
      <3> QED
        BY <3>1, <3>2, <3>3
    <2> QED
      BY <2>1 DEF LinkMapExact
  <1>9. EgressMapLive'
    <2> SUFFICES ASSUME NEW b \in Addrs, egressMap'[b] # None
                 PROVE  egressMap'[b] \in groups' /\ group'[egressMap'[b]].peer # None
      BY DEF EgressMapLive
    <2>1. egressMap[b] \in groups \ victim /\ group[egressMap[b]].peer # None
      BY <1>7 DEF EgressMapLive
    <2>2. egressMap[b] # s /\ egressMap[b] \in Slots
      BY <1>1, <2>1 DEF TypeOK
    <2> QED
      BY <1>1, <1>5, <1>7, <2>1, <2>2
  <1>10. BoundGroupHasLink'
    BY <1>1, <1>2, <1>5, Zenon DEF BoundGroupHasLink, TypeOK
  <1>11. LinkNoOlder'
    <2> SUFFICES ASSUME NEW b \in Addrs, linkMap'[b] # None
                 PROVE  link'[b].idle <= group'[linkMap'[b]].age
      BY DEF LinkNoOlder, IsLink
    <2>1. linkMap[b] \in groups \ victim
      BY <1>6 DEF LinkMapExact, TypeOK
    <2>2. group'[linkMap'[b]] = group[linkMap[b]]
      BY <1>1, <1>5, <1>6, <2>1 DEF TypeOK
    <2> QED
      BY <1>1, <1>6, <2>2, Zenon DEF LinkNoOlder, IsLink
  <1>12. OneGhostPerCreator'
    <2> SUFFICES ASSUME NEW b \in Addrs, NEW t \in GhostsOf(b)', NEW u \in GhostsOf(b)'
                 PROVE  t = u
      BY DEF OneGhostPerCreator
    <2>1. \A v \in GhostsOf(b)' : v = s \/ v \in GhostsOf(b)
      BY <1>1, <1>2, <1>5, Zenon DEF GhostsOf, IsGhost, TypeOK
    <2>2. s \in GhostsOf(b)' => b = a
      BY <1>5 DEF GhostsOf
    <2> QED
      BY <2>1, <2>2 DEF OneGhostPerCreator
  <1> QED
    BY <1>4, <1>8, <1>9, <1>10, <1>11, <1>12

\* Registering a link (REG2) adds its address to the group and keeps the age.
LEMMA JoinedFields ==
    ASSUME NEW g \in Group, NEW a \in Addrs
    PROVE  /\ Joined(g, a) \in Group
           /\ Joined(g, a).links = g.links \cup {a}
           /\ Joined(g, a).last_addr = a
           /\ Joined(g, a).age = g.age
           /\ Joined(g, a).peer = g.peer
  BY Zenon DEF Joined, Group

(* REG2 makes an address that is no link yet a link of a live group.       *)
LEMMA JoinInv ==
    ASSUME IInv,
           NEW a \in Addrs, ~IsLink(a),
           NEW s \in groups,
           Join(a, s),
           UNCHANGED <<haveTimers, cleanupAge, passAge, loop>>
    PROVE  IInv'
  <1> USE NamesAssumption DEF IInv
  <1>1. s \in Slots
    BY DEF TypeOK
  <1>2. group[s] \in Group
    BY <1>1 DEF TypeOK
  <1>3. /\ group' = [group EXCEPT ![s] = Joined(group[s], a)]
        /\ link' = [link EXCEPT ![a] = NewLink]
        /\ linkMap' = [linkMap EXCEPT ![a] = s]
        /\ UNCHANGED <<groups, egressMap>>
    BY DEF Join
  <1>4. /\ group'[s].links = group[s].links \cup {a}
        /\ group'[s].peer = group[s].peer
        /\ group'[s].age = group[s].age
        /\ group'[s].last_addr = a
        /\ \A t \in Slots \ {s} : group'[t] = group[t]
    BY <1>1, <1>2, <1>3, JoinedFields DEF TypeOK
  <1>5. TypeOK'
    <2>1. group' \in [Slots -> Group]
      BY <1>1, <1>2, <1>3, JoinedFields DEF TypeOK
    <2>2. \A b \in Addrs : link'[b].ack_count < AckInterval
      BY <1>3, LimitsAssumption DEF TypeOK, NewLink
    <2>3. link' \in [Addrs -> Link] /\ linkMap' \in [Addrs -> Slots \cup {None}]
      BY <1>1, <1>3, Blank DEF TypeOK
    <2> QED
      BY <2>1, <2>2, <2>3, <1>3 DEF TypeOK
  <1>6. /\ linkMap'[a] = s
        /\ \A b \in Addrs \ {a} : linkMap'[b] = linkMap[b] /\ link'[b] = link[b]
        /\ link'[a].idle = 0
    BY <1>3 DEF TypeOK, NewLink
  <1>7. LinkMapExact'
    BY <1>1, <1>3, <1>4, <1>6 DEF LinkMapExact, IsLink
  <1>8. EgressMapLive'
    BY <1>1, <1>3, <1>4 DEF EgressMapLive, TypeOK
  <1>9. BoundGroupHasLink'
    BY <1>1, <1>3, <1>4 DEF BoundGroupHasLink, TypeOK
  <1>10. LinkNoOlder'
    <2> SUFFICES ASSUME NEW b \in Addrs, linkMap'[b] # None
                 PROVE  link'[b].idle <= group'[linkMap'[b]].age
      BY DEF LinkNoOlder, IsLink
    <2>1. CASE b = a
      BY <2>1, <1>2, <1>4, <1>6, Blank DEF Group
    <2>2. CASE b # a
      <3>1. linkMap[b] \in Slots /\ linkMap'[b] = linkMap[b]
        BY <2>2, <1>6 DEF TypeOK
      <3> QED
        BY <2>2, <3>1, <1>3, <1>4, <1>6 DEF LinkNoOlder, IsLink
    <2> QED
      BY <2>1, <2>2
  <1>11. OneGhostPerCreator'
    <2>1. \A t \in groups' : IsGhost(t)' => t # s
      BY <1>4 DEF IsGhost
    <2>2. \A b \in Addrs : GhostsOf(b)' \subseteq GhostsOf(b)
      BY <2>1, <1>3, <1>4 DEF GhostsOf, IsGhost, TypeOK
    <2> QED
      BY <2>2 DEF OneGhostPerCreator
  <1> QED
    BY <1>5, <1>7, <1>8, <1>9, <1>10, <1>11

(* Traffic of a link refreshes the link and may mark, and bind, its group. *)
LEMMA TrafficInv ==
    ASSUME IInv,
           NEW a \in Addrs, IsLink(a),
           NEW g \in Group,
           g.links = group[linkMap[a]].links,
           g.age = group[linkMap[a]].age,
           group[linkMap[a]].peer # None => g.peer # None,
           NEW l \in Link, l.idle = 0, l.ack_count < AckInterval,
           group' = [group EXCEPT ![linkMap[a]] = g],
           link' = [link EXCEPT ![a] = l],
           \/ egressMap' = egressMap
           \/ egressMap' = [egressMap EXCEPT ![a] = linkMap[a]] /\ g.peer # None,
           UNCHANGED <<groups, linkMap, haveTimers, cleanupAge, passAge>>,
           loop' \in {"read", "periodic"}
    PROVE  IInv'
  <1> USE NamesAssumption DEF IInv
  <1> DEFINE s == linkMap[a]
  <1>1. s \in Slots /\ s \in groups /\ a \in group[s].links
    BY DEF IsLink, LinkMapExact, TypeOK
  <1> HIDE DEF s
  <1>2. /\ group'[s] = g
        /\ \A t \in Slots \ {s} : group'[t] = group[t]
        /\ \A t \in Slots : /\ group'[t].links = group[t].links
                            /\ group'[t].age = group[t].age
                            /\ group[t].peer # None => group'[t].peer # None
    BY <1>1 DEF TypeOK, s
  <1>3. group'[s].links # {}
    BY <1>1, <1>2
  <1>4. TypeOK'
    <2>1. group' \in [Slots -> Group] /\ link' \in [Addrs -> Link]
      BY Zenon DEF TypeOK
    <2>2. \A b \in Addrs : link'[b].ack_count < AckInterval
      BY DEF TypeOK
    <2>3. egressMap' \in [Addrs -> Slots \cup {None}]
      BY <1>1 DEF TypeOK, s
    <2> QED
      BY <2>1, <2>2, <2>3 DEF TypeOK
  <1>5. LinkMapExact'
    BY <1>1, <1>2 DEF LinkMapExact
  <1>6. EgressMapLive'
    <2> SUFFICES ASSUME NEW b \in Addrs, egressMap'[b] # None
                 PROVE  egressMap'[b] \in groups /\ group'[egressMap'[b]].peer # None
      BY DEF EgressMapLive
    <2>1. CASE egressMap'[b] = egressMap[b]
      <3>1. egressMap[b] \in groups /\ egressMap[b] \in Slots
            /\ group[egressMap[b]].peer # None
        BY <2>1 DEF EgressMapLive, TypeOK
      <3> QED
        BY <2>1, <3>1, <1>2
    <2>2. CASE egressMap'[b] = s /\ g.peer # None
      BY <2>2, <1>1, <1>2
    <2> QED
      BY <2>1, <2>2 DEF TypeOK, s
  <1>7. BoundGroupHasLink'
    BY <1>2, <1>3 DEF BoundGroupHasLink, TypeOK
  <1>8. LinkNoOlder'
    <2> SUFFICES ASSUME NEW b \in Addrs, linkMap[b] # None
                 PROVE  link'[b].idle <= group'[linkMap[b]].age
      BY DEF LinkNoOlder, IsLink
    <2>1. linkMap[b] \in Slots /\ link[b].idle <= group[linkMap[b]].age
      BY DEF LinkNoOlder, IsLink, TypeOK
    <2>2. group[linkMap[b]].age \in Nat
      BY <2>1, Blank DEF TypeOK, Group
    <2>3. link'[b].idle = 0 \/ link'[b].idle = link[b].idle
      BY DEF TypeOK
    <2> QED
      BY <2>1, <2>2, <2>3, <1>2
  <1>9. OneGhostPerCreator'
    <2>1. \A t \in groups' : IsGhost(t)' => t # s
      BY <1>3 DEF IsGhost
    <2>2. \A b \in Addrs : GhostsOf(b)' \subseteq GhostsOf(b)
      BY <2>1, <1>2 DEF GhostsOf, IsGhost, TypeOK
    <2> QED
      BY <2>2 DEF OneGhostPerCreator
  <1> QED
    BY <1>4, <1>5, <1>6, <1>7, <1>8, <1>9

\* A datagram resets the idle time of its link and leaves the ACK count alone.
LEMMA HeardFields ==
    ASSUME NEW l \in Link
    PROVE  Heard(l) \in Link /\ Heard(l).idle = 0 /\ Heard(l).ack_count = l.ack_count
  BY Blank DEF Heard, Link

\* Sending an SRTLA ACK empties the ACK buffer and leaves the idle time alone.
LEMMA SendAckFields ==
    ASSUME NEW l \in Link
    PROVE  SendAck(l) \in Link /\ SendAck(l).idle = l.idle /\ SendAck(l).ack_count = 0
  <1>1. 0 \in 0..AckInterval /\ 0 \in 0..AckFlush
    BY LimitsAssumption, TimesAssumption
  <1> QED
    BY <1>1 DEF Link, SendAck

(* After a data packet is logged and the batch sent if due, there is room  *)
(* for one more in ack_log.                                                *)
LEMMA LoggedFields ==
    ASSUME NEW l \in Link, l.ack_count < AckInterval, l.idle = 0
    PROVE  LET m == IF AckDue(LogAck(l)) THEN SendAck(LogAck(l)) ELSE LogAck(l)
           IN  m \in Link /\ m.idle = 0 /\ m.ack_count < AckInterval
  <1> USE LimitsAssumption, TimesAssumption, Blank
  <1>1. LogAck(l) \in Link /\ LogAck(l).idle = 0
    BY DEF LogAck, Link
  <1>2. SendAck(LogAck(l)) \in Link /\ SendAck(LogAck(l)).idle = 0
        /\ SendAck(LogAck(l)).ack_count = 0
    BY <1>1, SendAckFields
  <1>3. ~AckDue(LogAck(l)) => LogAck(l).ack_count < AckInterval
    BY <1>1 DEF AckDue, Link
  <1> QED
    BY <1>1, <1>2, <1>3

\* Traffic of a link leaves the links, the age and the peer of its group alone.
LEMMA ActiveFields ==
    ASSUME NEW a \in Addrs, group[linkMap[a]] \in Group
    PROVE  /\ Active(a) \in Group
           /\ Active(a).links = group[linkMap[a]].links
           /\ Active(a).age = group[linkMap[a]].age
           /\ Active(a).peer = group[linkMap[a]].peer
  BY Zenon DEF Active, Group

-----------------------------------------------------------------------------
(* Time passes for links and groups alike.                                 *)

\* A capped age stays within its cap, and ageing keeps the order of two ages.
LEMMA OlderFacts ==
    ASSUME NEW cap \in Nat, NEW x \in 0..cap
    PROVE  /\ Older(x, cap) \in 0..cap
           /\ \A y \in 0..cap : x <= y => Older(x, cap) <= Older(y, cap)
  BY DEF Older

\* Time ages a group and leaves its links and its peer alone.
LEMMA OlderGroupFields ==
    ASSUME NEW g \in Group
    PROVE  /\ OlderGroup(g) \in Group
           /\ OlderGroup(g).age = Older(g.age, AgeCap)
           /\ OlderGroup(g).links = g.links
           /\ OlderGroup(g).peer = g.peer
           /\ OlderGroup(g).last_addr = g.last_addr
           /\ OlderGroup(g).data_seen = g.data_seen
  <1>1. g.age \in 0..AgeCap
    BY DEF Group
  <1>2. Older(g.age, AgeCap) \in 0..AgeCap
    BY <1>1, Blank, OlderFacts, SMTT(20)
  <1> HIDE DEF Older
  <1> QED
    BY <1>2 DEF OlderGroup, Group

\* Time ages a link and leaves its ACK count alone.
LEMMA OlderLinkFields ==
    ASSUME NEW l \in Link
    PROVE  /\ OlderLink(l) \in Link
           /\ OlderLink(l).idle = Older(l.idle, AgeCap)
           /\ OlderLink(l).ack_count = l.ack_count
  <1>1. l.idle \in 0..AgeCap /\ l.ackAge \in 0..AckFlush
    BY DEF Link
  <1>2. Older(l.idle, AgeCap) \in 0..AgeCap
    BY <1>1, Blank, OlderFacts, SMTT(20)
  <1>3. Older(l.ackAge, AckFlush) \in 0..AckFlush
    BY <1>1, TimesAssumption, OlderFacts, ZenonT(60)
  <1> QED
    BY <1>1, <1>2, <1>3 DEF OlderLink, Link

\* The passing of time keeps the invariant of the registry.
LEMMA TickInv == IInv /\ Tick => IInv'
  <1> SUFFICES ASSUME IInv, Tick PROVE IInv'
    OBVIOUS
  <1> USE NamesAssumption DEF IInv
  <1>1. /\ \A s \in Slots : group[s] \in Group
        /\ \A a \in Addrs : link[a] \in Link
    BY DEF TypeOK
  <1>2. /\ \A s \in Slots : group'[s] = IF s \in groups THEN OlderGroup(group[s])
                                                     ELSE group[s]
        /\ \A a \in Addrs : link'[a] = IF IsLink(a) THEN OlderLink(link[a])
                                                   ELSE link[a]
        /\ UNCHANGED <<groups, linkMap, egressMap, haveTimers, loop>>
    BY DEF Tick
  <1>3. TypeOK'
    <2>1. group' \in [Slots -> Group] /\ link' \in [Addrs -> Link]
      BY <1>1, OlderGroupFields, OlderLinkFields DEF Tick
    <2>2. \A a \in Addrs : link'[a].ack_count < AckInterval
      BY <1>1, <1>2, OlderLinkFields DEF TypeOK
    <2>3. cleanupAge' \in 0..CleanupPeriod /\ passAge' \in 0..LinkPass
      BY OlderFacts, TimesAssumption DEF Tick, TypeOK
    <2> QED
      BY <2>1, <2>2, <2>3, <1>2 DEF TypeOK
  <1>4. \A s \in Slots : /\ group'[s].links = group[s].links
                        /\ group'[s].peer = group[s].peer
                        /\ group'[s].last_addr = group[s].last_addr
                        /\ group'[s].data_seen = group[s].data_seen
    BY <1>1, <1>2, OlderGroupFields
  <1>5. LinkMapExact'
    BY <1>2, <1>4 DEF LinkMapExact
  <1>6. EgressMapLive'
    BY <1>2, <1>4 DEF EgressMapLive, TypeOK
  <1>7. BoundGroupHasLink'
    BY <1>2, <1>4 DEF BoundGroupHasLink, TypeOK
  <1>8. LinkNoOlder'
    <2> SUFFICES ASSUME NEW a \in Addrs, linkMap[a] # None
                 PROVE  link'[a].idle <= group'[linkMap[a]].age
      BY <1>2 DEF LinkNoOlder, IsLink
    <2> DEFINE s == linkMap[a]
    <2>1. s \in groups /\ s \in Slots /\ link[a].idle <= group[s].age
      BY DEF LinkMapExact, LinkNoOlder, IsLink, TypeOK
    <2>2. group'[s].age = Older(group[s].age, AgeCap)
      BY <2>1, <1>1, <1>2, OlderGroupFields
    <2>3. link'[a].idle = Older(link[a].idle, AgeCap)
      BY <1>1, <1>2, OlderLinkFields DEF IsLink
    <2>4. link[a].idle \in 0..AgeCap /\ group[s].age \in 0..AgeCap
      BY <2>1, <1>1 DEF Link, Group
    <2> QED
      BY <2>1, <2>2, <2>3, <2>4, OlderFacts, Blank, Zenon
  <1>9. OneGhostPerCreator'
    <2>1. \A b \in Addrs : GhostsOf(b)' \subseteq GhostsOf(b)
      BY <1>2, <1>4 DEF GhostsOf, IsGhost, TypeOK
    <2> QED
      BY <2>1 DEF OneGhostPerCreator
  <1> QED
    BY <1>3, <1>5, <1>6, <1>7, <1>8, <1>9

-----------------------------------------------------------------------------
(* The periodic pass.                                                      *)

\* The cleanup drops the silent links of a group and keeps its age and peer.
LEMMA PurgedFields ==
    ASSUME NEW g \in Group
    PROVE  /\ Purged(g) \in Group
           /\ Purged(g).links = {a \in g.links : ~Silent(a)}
           /\ Purged(g).age = g.age
           /\ Purged(g).peer = g.peer
           /\ Purged(g).last_addr = g.last_addr
           /\ Purged(g).data_seen = g.data_seen
  BY DEF Purged, Group

(* A group whose links are all silent is past its grace period, so it goes *)
(* in the same pass; the group that stays keeps a link, if it had one.     *)
LEMMA StaysLinked ==
    ASSUME IInv, NEW s \in groups \ Emptied, group[s].links # {}
    PROVE  \E a \in group[s].links : ~Silent(a)
  <1> SUFFICES ASSUME \A a \in group[s].links : Silent(a) PROVE FALSE
    OBVIOUS
  <1>1. s \in Slots /\ group[s] \in Group
    BY DEF IInv, TypeOK
  <1>2. PICK a \in Addrs : a \in group[s].links
    BY <1>1 DEF Group
  <1>3. linkMap[a] = s /\ linkMap[a] # None
    BY <1>1, <1>2, NamesAssumption DEF IInv, LinkMapExact
  <1>4. link[a].idle <= group[s].age /\ link[a].idle > ConnTimeout
    BY <1>2, <1>3 DEF IInv, LinkNoOlder, IsLink, Silent
  <1>5. link[a].idle \in Int /\ group[s].age \in Int
    BY <1>1, Blank DEF IInv, TypeOK, Link, Group
  <1>6. group[s].age > GroupTimeout
    BY <1>4, <1>5, TimesAssumption, SMTT(20)
  <1> QED
    BY <1>6 DEF Emptied

\* The cleanup of links and groups keeps the invariant of the registry.
LEMMA CleanupInv ==
    ASSUME IInv, doCleanup,
           link' \in [Addrs -> Link],
           \A a \in Addrs : link'[a].ack_count < AckInterval,
           \A a \in Addrs : ~Silent(a) => link'[a].idle = link[a].idle,
           haveTimers' \in BOOLEAN,
           cleanupAge' \in 0..CleanupPeriod,
           passAge' \in 0..LinkPass,
           loop' \in {"read", "periodic"}
    PROVE  IInv'
  <1> USE NamesAssumption DEF IInv
  <1>1. /\ groups' = groups \ Emptied
        /\ group' = [s \in Slots |-> IF s \in Emptied THEN NoGroup ELSE Purged(group[s])]
        /\ linkMap' = [a \in Addrs |-> IF Silent(a) THEN None ELSE linkMap[a]]
        /\ egressMap' = EgressWithout(Emptied)
    BY DEF doCleanup
  <1>2. \A s \in Slots : group[s] \in Group
    BY DEF TypeOK
  <1>3. TypeOK'
    <2>1. group' \in [Slots -> Group]
      BY <1>1, <1>2, Blank, PurgedFields
    <2>2. /\ linkMap' \in [Addrs -> Slots \cup {None}]
          /\ egressMap' \in [Addrs -> Slots \cup {None}]
          /\ groups' \subseteq Slots
      BY <1>1, ZenonT(60) DEF TypeOK, EgressWithout
    <2> QED
      BY <2>1, <2>2 DEF TypeOK
  <1>4. \A s \in Slots \ Emptied :
            /\ group'[s].links = {a \in group[s].links : ~Silent(a)}
            /\ group'[s].peer = group[s].peer
            /\ group'[s].age = group[s].age
            /\ group'[s].last_addr = group[s].last_addr
            /\ group'[s].data_seen = group[s].data_seen
    BY <1>1, <1>2, PurgedFields
  <1>5. \A s \in Emptied : s \in groups /\ \A a \in group[s].links : Silent(a)
    BY DEF Emptied
  <1>6. LinkMapExact'
    <2>1. ASSUME NEW a \in Addrs, NEW s \in Slots
          PROVE  (linkMap[a] = s <=> (s \in groups /\ a \in group[s].links))'
      <3>1. linkMap'[a] = s <=> (~Silent(a) /\ linkMap[a] = s)
        BY <1>1, ZenonT(60) DEF TypeOK
      <3>2. CASE s \in Emptied
        BY <3>1, <3>2, <1>1, <1>5, ZenonT(60) DEF LinkMapExact
      <3>3. CASE s \notin Emptied
        BY <3>1, <3>3, <1>1, <1>4, SMTT(20) DEF LinkMapExact
      <3> QED
        BY <3>2, <3>3
    <2> QED
      BY <2>1 DEF LinkMapExact
  <1>7. EgressMapLive'
    <2> SUFFICES ASSUME NEW a \in Addrs, egressMap'[a] # None
                 PROVE  egressMap'[a] \in groups' /\ group'[egressMap'[a]].peer # None
      BY DEF EgressMapLive
    <2>1. egressMap'[a] = egressMap[a] /\ egressMap[a] \notin Emptied
      BY <1>1 DEF EgressWithout
    <2>2. egressMap[a] \in groups /\ egressMap[a] \in Slots
          /\ group[egressMap[a]].peer # None
      BY <2>1 DEF EgressMapLive, TypeOK
    <2> QED
      BY <2>1, <2>2, <1>1, <1>4
  <1>8. \A s \in groups' : group'[s].links = {} => group[s].links = {}
    BY <1>1, <1>4, StaysLinked, ZenonT(30) DEF TypeOK
  <1>9. BoundGroupHasLink'
    BY <1>1, <1>4, <1>8, ZenonT(60) DEF BoundGroupHasLink, TypeOK
  <1>10. LinkNoOlder'
    <2> SUFFICES ASSUME NEW a \in Addrs, linkMap'[a] # None
                 PROVE  link'[a].idle <= group'[linkMap'[a]].age
      BY DEF LinkNoOlder, IsLink
    <2>1. ~Silent(a) /\ linkMap'[a] = linkMap[a]
      BY <1>1, ZenonT(60)
    <2>2. linkMap[a] \in Slots /\ linkMap[a] \in groups /\ a \in group[linkMap[a]].links
      BY <2>1 DEF LinkMapExact, TypeOK
    <2>3. linkMap[a] \notin Emptied
      BY <2>1, <2>2, <1>5, ZenonT(60)
    <2> QED
      BY <2>1, <2>2, <2>3, <1>4, ZenonT(60) DEF LinkNoOlder, IsLink
  <1>11. OneGhostPerCreator'
    <2>1. \A b \in Addrs : GhostsOf(b)' \subseteq GhostsOf(b)
      BY <1>1, <1>4, <1>8, Zenon DEF GhostsOf, IsGhost, TypeOK
    <2> QED
      BY <2>1 DEF OneGhostPerCreator
  <1> QED
    BY <1>3, <1>6, <1>7, <1>9, <1>10, <1>11, ZenonT(60)

\* The whole periodic pass keeps the invariant of the registry.
LEMMA PeriodicInv == IInv /\ onPeriodic => IInv'
  <1> SUFFICES ASSUME IInv, onPeriodic PROVE IInv'
    OBVIOUS
  <1>1. CASE ~haveTimers
    <2>1. /\ UNCHANGED <<groups, group, link, linkMap, egressMap>>
          /\ cleanupAge' = 0 /\ passAge' = 0 /\ loop' = "read" /\ haveTimers' = TRUE
      BY <1>1 DEF onPeriodic
    <2>2. cleanupAge' \in 0..CleanupPeriod /\ passAge' \in 0..LinkPass
      BY <2>1, TimesAssumption
    <2>3. haveTimers' \in BOOLEAN
      BY <2>1, Zenon
    <2> QED
      BY <2>1, <2>2, <2>3, SameTables
  <1>2. CASE haveTimers
    <2>1. haveTimers' \in BOOLEAN /\ loop' = "read"
      BY Zenon DEF onPeriodic
    <2>2. passAge' \in 0..LinkPass
      BY <1>2, TimesAssumption DEF onPeriodic, IInv, TypeOK
    <2>3. \A a \in Addrs : link[a] \in Link /\ link[a].ack_count < AckInterval
                           /\ SendAck(link[a]) \in Link
                           /\ SendAck(link[a]).idle = link[a].idle
                           /\ SendAck(link[a]).ack_count < AckInterval
      BY SendAckFields, LimitsAssumption DEF IInv, TypeOK
    <2>4. CASE CleanupDue
      <3>1. /\ doCleanup
            /\ cleanupAge' = 0
            /\ link' = [a \in Addrs |->
                          IF Silent(a) THEN NewLink
                          ELSE IF Flushed(a) THEN SendAck(link[a]) ELSE link[a]]
        BY <1>2, <2>4 DEF onPeriodic
      <3>2. NewLink \in Link /\ NewLink.ack_count < AckInterval
        BY Blank, LimitsAssumption DEF NewLink
      <3>3. /\ link' \in [Addrs -> Link]
            /\ \A a \in Addrs : link'[a].ack_count < AckInterval
            /\ \A a \in Addrs : ~Silent(a) => link'[a].idle = link[a].idle
        BY <2>3, <3>1, <3>2
      <3>4. cleanupAge' \in 0..CleanupPeriod
        BY <3>1, TimesAssumption
      <3> QED
        BY <2>1, <2>2, <3>1, <3>3, <3>4, CleanupInv
    <2>5. CASE ~CleanupDue
      <3>1. /\ UNCHANGED <<groups, group, linkMap, egressMap, cleanupAge>>
            /\ link' = [a \in Addrs |->
                          IF Flushed(a) THEN SendAck(link[a]) ELSE link[a]]
        BY <1>2, <2>5 DEF onPeriodic
      <3>2. /\ link' \in [Addrs -> Link]
            /\ \A a \in Addrs : /\ link'[a].ack_count < AckInterval
                                /\ link'[a].idle = link[a].idle
        BY <2>3, <3>1
      <3>3. TypeOK'
        BY <2>1, <2>2, <3>1, <3>2, ZenonT(60) DEF IInv, TypeOK
      <3>4. (LinkMapExact /\ EgressMapLive /\ BoundGroupHasLink /\ OneGhostPerCreator)'
        BY <3>1 DEF IInv, LinkMapExact, EgressMapLive, BoundGroupHasLink,
                    OneGhostPerCreator, GhostsOf, IsGhost
      <3>5. LinkNoOlder'
        BY <3>1, <3>2 DEF IInv, LinkNoOlder, IsLink
      <3> QED
        BY <3>3, <3>4, <3>5 DEF IInv
    <2> QED
      BY <2>4, <2>5
  <1> QED
    BY <1>1, <1>2

-----------------------------------------------------------------------------
(* Datagrams.                                                              *)

\* The handling of any datagram keeps the invariant of the registry.
LEMMA DatagramInv ==
    ASSUME IInv, NEW a \in Addrs, Datagram(a)
    PROVE  IInv'
  <1>1. ASSUME NEW type, Answer(a, type),
               UNCHANGED <<haveTimers, cleanupAge, passAge, loop>>
        PROVE  IInv'
    <2>1. UNCHANGED <<groups, group, link, linkMap, egressMap>>
      BY <1>1 DEF Answer
    <2>2. haveTimers' \in BOOLEAN
      BY <1>1 DEF IInv, TypeOK
    <2> QED
      BY <1>1, <2>1, <2>2, SameTables DEF IInv, TypeOK
  <1>2. CASE Reg1(a)
    <2>1. UNCHANGED <<haveTimers, cleanupAge, passAge, loop>>
      BY <1>2 DEF Reg1
    <2>2. CASE \E type : Answer(a, type)
      BY <1>1, <2>1, <2>2
    <2>3. CASE GhostsOf(a) = {} /\ CreateGroup(a, {})
      BY <2>1, <2>3, CreateInv
    <2>4. CASE GhostsOf(a) = {} /\ \E s \in Victims : CreateGroup(a, {s})
      <3>1. PICK s \in Victims : CreateGroup(a, {s})
        BY <2>4, ZenonT(60)
      <3>2. {s} \in SUBSET groups /\ \A t \in {s} : IsGhost(t)
        BY DEF Victims
      <3> QED
        BY <2>1, <2>4, <3>1, <3>2, CreateInv
    <2> QED
      BY <1>2, <2>2, <2>3, <2>4 DEF Reg1, handleReg1
  <1>3. ASSUME NEW s \in Slots, Reg2(a, s) PROVE IInv'
    <2>1. UNCHANGED <<haveTimers, cleanupAge, passAge, loop>>
      BY <1>3 DEF Reg2
    <2>2. CASE \E type : Answer(a, type)
      BY <1>1, <2>1, <2>2
    <2>3. CASE s \in groups /\ ~IsLink(a) /\ Join(a, s)
      BY <2>1, <2>3, JoinInv
    <2> QED
      BY <1>3, <2>2, <2>3 DEF Reg2, handleReg2
  <1>4. link[a] \in Link /\ link[a].ack_count < AckInterval
    BY DEF IInv, TypeOK
  <1>5. ASSUME IsLink(a)
        PROVE  linkMap[a] \in Slots /\ group[linkMap[a]] \in Group
    BY <1>5 DEF IInv, TypeOK, IsLink
  <1>6. CASE Consumed(a)
    <2>1. /\ UNCHANGED <<groups, group, linkMap, egressMap, cleanupAge, passAge, loop>>
          /\ UNCHANGED haveTimers
      BY <1>6 DEF Consumed
    <2>2. haveTimers' \in BOOLEAN
      BY <2>1 DEF IInv, TypeOK
    <2>3. CASE ~IsLink(a)
      BY <1>6, <2>1, <2>2, <2>3, SameTables DEF Consumed, IInv, TypeOK
    <2>4. CASE IsLink(a)
      <3>1. link' = [link EXCEPT ![a] = Heard(link[a])]
        BY <1>6, <2>4 DEF Consumed
      <3>2. group' = [group EXCEPT ![linkMap[a]] = group[linkMap[a]]]
        BY <2>1 DEF IInv, TypeOK
      <3>3. loop' \in {"read", "periodic"}
        BY <2>1 DEF IInv, TypeOK
      <3> QED
        BY <1>4, <1>5, <2>1, <2>4, <3>1, <3>2, <3>3, HeardFields, TrafficInv, Zenon
    <2> QED
      BY <2>3, <2>4
  <1>7. CASE Data(a)
    <2> DEFINE h == Heard(link[a])
               l == IF AckDue(LogAck(h)) THEN SendAck(LogAck(h)) ELSE LogAck(h)
    <2>1. Pass(a, Active(a)) /\ link' = [link EXCEPT ![a] = l] /\ UNCHANGED egressMap
      BY <1>7, ZenonT(60) DEF Data
    <2>2. l \in Link /\ l.idle = 0 /\ l.ack_count < AckInterval
      BY <1>4, HeardFields, LoggedFields
    <2>3. /\ IsLink(a)
          /\ group' = [group EXCEPT ![linkMap[a]] = Active(a)]
          /\ loop' \in {"read", "periodic"}
          /\ UNCHANGED <<groups, linkMap, haveTimers, cleanupAge, passAge>>
      BY <2>1 DEF Pass
    <2> HIDE DEF l, h
    <2> QED
      BY <1>5, <2>1, <2>2, <2>3, ActiveFields, TrafficInv, Zenon
  <1>8. CASE Control(a)
    <2>1. Pass(a, Active(a)) /\ link' = [link EXCEPT ![a] = Heard(link[a])]
          /\ UNCHANGED egressMap
      BY <1>8 DEF Control
    <2>2. /\ IsLink(a)
          /\ group' = [group EXCEPT ![linkMap[a]] = Active(a)]
          /\ loop' \in {"read", "periodic"}
          /\ UNCHANGED <<groups, linkMap, haveTimers, cleanupAge, passAge>>
      BY <2>1 DEF Pass
    <2> QED
      BY <1>4, <1>5, <2>1, <2>2, HeardFields, ActiveFields, TrafficInv, Zenon
  <1>9. CASE Accept(a)
    <2> DEFINE g == [Active(a) EXCEPT !.peer = a]
    <2>1. Pass(a, g) /\ link' = [link EXCEPT ![a] = Heard(link[a])]
          /\ egressMap' = [egressMap EXCEPT ![a] = linkMap[a]]
      BY <1>9 DEF Accept
    <2>2. /\ IsLink(a)
          /\ group' = [group EXCEPT ![linkMap[a]] = g]
          /\ loop' \in {"read", "periodic"}
          /\ UNCHANGED <<groups, linkMap, haveTimers, cleanupAge, passAge>>
      BY <2>1 DEF Pass
    <2>3. /\ g \in Group /\ g.peer # None
          /\ g.links = group[linkMap[a]].links /\ g.age = group[linkMap[a]].age
      <3>1. /\ Active(a) \in Group
            /\ Active(a).links = group[linkMap[a]].links
            /\ Active(a).age = group[linkMap[a]].age
        BY <1>5, <2>2, ActiveFields
      <3> QED
        BY <3>1, NamesAssumption DEF Group
    <2> HIDE DEF g
    <2> QED
      BY <1>4, <1>5, <2>1, <2>2, <2>3, HeardFields, TrafficInv, Zenon
  <1> QED
    BY <1>2, <1>3, <1>6, <1>7, <1>8, <1>9, ZenonT(60) DEF Datagram

(* Every step preserves the invariant.                                     *)
LEMMA NextInv == IInv /\ [Next]_vars => IInv'
  <1> SUFFICES ASSUME IInv, [Next]_vars PROVE IInv'
    OBVIOUS
  <1>1. ASSUME NEW a \in Addrs, Datagram(a) PROVE IInv'
    BY <1>1, DatagramInv
  <1>2. ASSUME UNCHANGED <<groups, group, link, linkMap, egressMap, haveTimers,
                           cleanupAge, passAge>>,
               loop' \in {"read", "periodic"}
        PROVE  IInv'
    <2>1. haveTimers' \in BOOLEAN
      BY <1>2, ZenonT(60) DEF IInv, TypeOK
    <2> QED
      BY <1>2, <2>1, SameTables DEF IInv, TypeOK
  <1>3. ASSUME NEW a \in Addrs, onEgress(a) PROVE IInv'
    BY <1>2, <1>3 DEF onEgress, IInv, TypeOK
  <1>4. CASE NoDatagram
    BY <1>2, <1>4 DEF NoDatagram
  <1>5. CASE onPeriodic
    BY <1>5, PeriodicInv
  <1>6. CASE Tick
    BY <1>6, TickInv, ZenonT(60)
  <1>7. CASE UNCHANGED vars
    BY <1>2, <1>7 DEF vars, IInv, TypeOK
  <1> QED
    BY <1>1, <1>3, <1>4, <1>5, <1>6, <1>7 DEF Next

\* The inductive invariant holds in every behaviour of the registry.
LEMMA Invariance == Spec => []IInv
  BY InitInv, NextInv, PTL DEF Spec

(* In every behaviour of the registry m_LinkMap is exact, m_EgressMap      *)
(* points to live bound groups only, a bound group has a link, and an      *)
(* address has one ghost group at most: for any number of addresses,       *)
(* groups and links, and any timeouts with GroupTimeout <= ConnTimeout.    *)
THEOREM RegistryIntegrity ==
    Spec => [](TypeOK /\ RegistryExact)
  <1>1. IInv => TypeOK /\ RegistryExact
    BY DEF IInv, RegistryExact
  <1> QED
    BY <1>1, Invariance, PTL

-----------------------------------------------------------------------------
(* Who may lose its group.                                                 *)

Kept(s) == s \in groups' /\ group'[s].age >= group[s].age

\* Creating a group (REG1) keeps every group but those it evicts.
LEMMA CreateKeeps ==
    ASSUME IInv, NEW a \in Addrs, NEW victim, CreateGroup(a, victim),
           NEW s \in groups \ victim
    PROVE  Kept(s)
  <1>1. s \in Slots /\ group[s].age \in Int
    BY Blank DEF IInv, TypeOK, Group
  <1>2. s \in groups' /\ group'[s] = group[s]
    BY <1>1 DEF CreateGroup
  <1> QED
    BY <1>1, <1>2 DEF Kept

\* Traffic of any kind, the accept of a peer included, removes no group.
LEMMA TrafficKeeps ==
    ASSUME IInv, NEW a \in Addrs, NEW s \in groups,
           Consumed(a) \/ Data(a) \/ Control(a) \/ Accept(a)
    PROVE  Kept(s)
  <1>1. s \in Slots /\ group[s] \in Group /\ group[s].age \in Int
    BY Blank, SMTT(20) DEF IInv, TypeOK, Group
  <1>2. CASE Consumed(a)
    BY <1>1, <1>2 DEF Consumed, Kept
  <1>3. CASE Data(a) \/ Control(a) \/ Accept(a)
    <2>1. IsLink(a)
      BY <1>3 DEF Data, Control, Accept, Pass
    <2>2. linkMap[a] \in Slots /\ group[linkMap[a]] \in Group
      BY <2>1 DEF IInv, TypeOK, IsLink
    <2>3. /\ Active(a) \in Group
          /\ Active(a).age = group[linkMap[a]].age
      BY <2>2, ActiveFields
    <2>4. [Active(a) EXCEPT !.peer = a].age = group[linkMap[a]].age
      BY <2>3 DEF Group
    <2>5. PICK g : /\ Pass(a, g)
                   /\ g.age = group[linkMap[a]].age
      BY <1>3, <2>3, <2>4, Zenon DEF Data, Control, Accept
    <2>6. groups' = groups /\ group' = [group EXCEPT ![linkMap[a]] = g]
      BY <2>5 DEF Pass
    <2>7. group'[s].age = group[s].age
      BY <1>1, <2>2, <2>5, <2>6, ZenonT(60) DEF IInv, TypeOK
    <2> QED
      BY <1>1, <2>6, <2>7 DEF Kept
  <1> QED
    BY <1>2, <1>3

(* A step takes a group away only if it is a ghost or has timed out.       *)
LEMMA NextKeeps ==
    ASSUME IInv, Next, NEW s \in groups, ~IsGhost(s), s \notin Emptied
    PROVE  Kept(s)
  <1>1. s \in Slots /\ group[s] \in Group /\ group[s].age \in Int
        /\ group[s].age \in 0..AgeCap
    BY Blank DEF IInv, TypeOK, Group
  <1>2. ASSUME UNCHANGED <<groups, group>> PROVE Kept(s)
    BY <1>1, <1>2 DEF Kept
  <1>3. ASSUME NEW a \in Addrs, Reg1(a) PROVE Kept(s)
    <2>1. CASE \E type : Answer(a, type)
      BY <2>1, <1>2 DEF Answer
    <2>2. CASE CreateGroup(a, {})
      BY <2>2, CreateKeeps
    <2>3. CASE \E v \in Victims : CreateGroup(a, {v})
      BY <2>3, CreateKeeps, ZenonT(60) DEF Victims
    <2> QED
      BY <1>3, <2>1, <2>2, <2>3 DEF Reg1, handleReg1
  <1>4. ASSUME NEW a \in Addrs, NEW t \in Slots, Reg2(a, t) PROVE Kept(s)
    <2>1. CASE \E type : Answer(a, type)
      BY <2>1, <1>2 DEF Answer
    <2>2. CASE Join(a, t)
      <3>1. groups' = groups /\ group' = [group EXCEPT ![t] = Joined(group[t], a)]
        BY <2>2 DEF Join
      <3>2. group[t] \in Group
        BY ZenonT(60) DEF IInv, TypeOK
      <3>3. group'[s].age = group[s].age
        BY <1>1, <3>1, <3>2, JoinedFields DEF IInv, TypeOK
      <3> QED
        BY <1>1, <3>1, <3>3 DEF Kept
    <2> QED
      BY <1>4, <2>1, <2>2 DEF Reg2, handleReg2
  <1>5. ASSUME NEW a \in Addrs, Datagram(a) PROVE Kept(s)
    BY <1>3, <1>4, <1>5, TrafficKeeps DEF Datagram
  <1>6. CASE onPeriodic
    <2>1. CASE UNCHANGED <<groups, group>>
      BY <2>1, <1>2
    <2>2. CASE doCleanup
      <3>1. s \in groups' /\ group'[s] = Purged(group[s])
        BY <2>2, <1>1 DEF doCleanup
      <3> QED
        BY <3>1, <1>1, PurgedFields, SMTT(20) DEF Kept
    <2> QED
      BY <1>6, <2>1, <2>2 DEF onPeriodic
  <1>7. CASE Tick
    <2>1. groups' = groups /\ group'[s] = OlderGroup(group[s])
      BY <1>1, <1>7, ZenonT(60) DEF Tick
    <2>2. group'[s].age = Older(group[s].age, AgeCap)
      BY <1>1, <2>1, OlderGroupFields
    <2> QED
      BY <1>1, <2>1, <2>2, Blank, SMTT(20) DEF Kept, Older
  <1> QED
    BY <1>2, <1>5, <1>6, <1>7 DEF Next, NoDatagram, onEgress

(* No behaviour of the registry takes a group with a link that is still    *)
(* heard away from that link, be it by eviction or by cleanup.             *)
THEOREM GroupsOutliveLinks == Spec => GroupOutlivesLinks
  <1> DEFINE Lost == \A s \in groups :
                       (s \notin groups' \/ group'[s].age < group[s].age) =>
                           IsGhost(s) \/ s \in Emptied
  <1>1. IInv /\ [Next]_vars => [Lost]_vars
    <2> SUFFICES ASSUME IInv, Next, NEW s \in groups,
                        s \notin groups' \/ group'[s].age < group[s].age
                 PROVE  IsGhost(s) \/ s \in Emptied
      BY ZenonT(60)
    <2>1. s \in Slots /\ group[s].age \in Int /\ group'[s].age \in Int
      <3>1. IInv'
        BY NextInv
      <3> QED
        BY <3>1, Blank DEF IInv, TypeOK, Group
    <2>2. ~Kept(s)
      BY <2>1 DEF Kept
    <2> QED
      BY <2>2, NextKeeps
  <1> QED
    BY <1>1, Invariance, PTL DEF Spec, GroupOutlivesLinks

-----------------------------------------------------------------------------
(* Where feedback goes.                                                    *)

(* The first target is a link of the group, if there is one at all.        *)
LEMMA FirstFields ==
    ASSUME IInv, NEW s \in Slots
    PROVE  /\ First(s) \subseteq group[s].links
           /\ IsFiniteSet(group[s].links)
           /\ IsFiniteSet(First(s))
           /\ Cardinality(First(s)) \in 0..1
  <1>1. group[s].links \subseteq Addrs
    BY DEF IInv, TypeOK, Group
  <1>2. IsFiniteSet(group[s].links)
    BY <1>1, NamesAssumption, FS_Subset
  <1>3. First(s) = {} \/ First(s) = {group[s].last_addr}
    BY DEF First
  <1>4. First(s) \subseteq group[s].links
    BY DEF First
  <1>5. Cardinality(First(s)) = 0 \/ Cardinality(First(s)) = 1
    BY <1>3, FS_EmptySet, FS_Singleton, Zenon
  <1>6. IsFiniteSet(First(s))
    BY <1>2, <1>4, FS_Subset, SMTT(20)
  <1> QED
    BY <1>2, <1>4, <1>5, <1>6

(* The loss report's targets: as many links as NAK_FANOUT allows.          *)
LEMMA NakTargetsFanout ==
    ASSUME IInv, NEW s \in Slots, NEW t \in NakTargets(s)
    PROVE  /\ t \subseteq group[s].links
           /\ Cardinality(t) = NakFanout \/ t = group[s].links
  <1> DEFINE others == {u \in SUBSET (group[s].links \ First(s)) :
                           Cardinality(u) + Cardinality(First(s)) <= NakFanout}
  <1>1. PICK u \in others : /\ t = First(s) \cup u
                            /\ \A v \in others : Cardinality(v) <= Cardinality(u)
    BY DEF NakTargets
  <1>2. u \subseteq group[s].links /\ u \cap First(s) = {}
    BY ZenonT(60)
  <1>3. IsFiniteSet(u) /\ Cardinality(u) \in Nat
    BY <1>2, FirstFields, FS_Subset, FS_CardinalityType, ZenonT(60)
  <1>4. Cardinality(t) = Cardinality(First(s)) + Cardinality(u)
    <2>1. /\ IsFiniteSet(First(s)) /\ Cardinality(First(s)) \in Nat
          /\ Cardinality(First(s) \cap u) = 0
      BY <1>2, FirstFields, FS_EmptySet, FS_CardinalityType, ZenonT(60)
    <2>2. Cardinality(First(s) \cup u)
             = Cardinality(First(s)) + Cardinality(u) - Cardinality(First(s) \cap u)
      BY <1>3, <2>1, FS_Union, ZenonT(60)
    <2> HIDE DEF others
    <2> QED
      BY <1>1, <1>3, <2>1, <2>2, SMTT(20)
  <1>5. ASSUME NEW x \in group[s].links \ t PROVE Cardinality(t) = NakFanout
    <2>1. u \cup {x} \subseteq group[s].links \ First(s) /\ x \notin u
      BY <1>1, <1>2, SMTT(20)
    <2>2. Cardinality(u \cup {x}) = Cardinality(u) + 1
      BY <1>3, <2>1, FS_AddElement, ZenonT(30)
    <2>3. u \cup {x} \notin others
      BY <1>1, <1>3, <2>2
    <2>4. ~(Cardinality(u) + 1 + Cardinality(First(s)) <= NakFanout)
      BY <2>1, <2>2, <2>3, ZenonT(60)
    <2> QED
      <3>1. Cardinality(u) + Cardinality(First(s)) <= NakFanout
        BY ZenonT(60)
      <3>2. Cardinality(First(s)) \in Nat
        BY FirstFields, FS_CardinalityType, ZenonT(60)
      <3> HIDE DEF others
      <3> QED
        BY <1>3, <1>4, <2>4, <3>1, <3>2, LimitsAssumption, SMTT(20)
  <1> QED
    BY <1>1, <1>2, <1>5, FirstFields, Zenon

(* What a handler sends, it sends to links: each handler's datagrams.      *)
LEMMA SentToLinks ==
    ASSUME IInv, Next PROVE FeedbackOnlyToLinks'
  <1> SUFFICES ASSUME NEW b \in Addrs, NEW type \in {"ACK", "NAK", "REG3"},
                      <<b, type>> \in sent'
               PROVE  linkMap'[b] # None
    BY Zenon DEF FeedbackOnlyToLinks, IsLink
  <1> USE NamesAssumption
  <1>1. ASSUME NEW s \in Slots, s \in groups, b \in group[s].links, UNCHANGED linkMap
        PROVE  linkMap'[b] # None
    BY <1>1 DEF IInv, LinkMapExact
  <1>2. ASSUME NEW a \in Addrs, Reg1(a) PROVE FALSE
    <2>1. sent' = {<<a, "REG_ERR">>} \/ sent' = {<<a, "REG2">>}
      BY <1>2, Zenon DEF Reg1, handleReg1, Answer, CreateGroup
    <2> QED
      BY <2>1
  <1>3. ASSUME NEW a \in Addrs, NEW s \in Slots, Reg2(a, s) PROVE linkMap'[b] # None
    <2>1. CASE linkMap[a] = s /\ Answer(a, "REG3")
      BY <2>1 DEF Answer
    <2>2. CASE Join(a, s)
      <3>1. a = b /\ linkMap' = [linkMap EXCEPT ![a] = s]
        BY <2>2 DEF Join
      <3> QED
        BY <3>1 DEF IInv, TypeOK
    <2>3. CASE Answer(a, "REG_ERR") \/ Answer(a, "REG_NGP")
      BY <2>3 DEF Answer
    <2> QED
      BY <1>3, <2>1, <2>2, <2>3 DEF Reg2, handleReg2
  <1>4. ASSUME NEW a \in Addrs, Consumed(a) PROVE FALSE
    BY <1>4 DEF Consumed
  <1>5. ASSUME NEW a \in Addrs, Data(a) \/ Control(a) \/ Accept(a) PROVE FALSE
    BY <1>5 DEF Data, Control, Accept
  <1>6. ASSUME NEW a \in Addrs, onEgress(a) PROVE linkMap'[b] # None
    <2> DEFINE s == egressMap[a]
    <2>1. s # None /\ b \in group[s].links
      <3>1. CASE s = None \/ group[s].links = {}
        BY <1>6, <3>1, SMTT(20) DEF onEgress
      <3>2. CASE ~(s = None \/ group[s].links = {})
        <4>1. s \in Slots
          BY <3>2 DEF IInv, TypeOK
        <4>2. CASE sent' = group[s].links \X {"ACK"}
          BY <3>2, <4>2
        <4>3. ASSUME NEW t \in NakTargets(s), sent' = t \X {"NAK"}
              PROVE  b \in group[s].links
          BY <4>1, <4>3, NakTargetsFanout
        <4>4. CASE sent' = {<<group[s].last_addr, "SRT">>}
          BY <4>4, ZenonT(60)
        <4> QED
          BY <1>6, <3>2, <4>2, <4>3, <4>4, ZenonT(60) DEF onEgress
      <3> QED
        BY <3>1, <3>2, ZenonT(60)
    <2>2. s \in Slots /\ s \in groups
      BY <2>1, ZenonT(60) DEF IInv, TypeOK, EgressMapLive
    <2>3. UNCHANGED linkMap
      BY <1>6 DEF onEgress
    <2> QED
      BY <1>1, <2>1, <2>2, <2>3, ZenonT(60)
  <1>7. CASE NoDatagram \/ Tick
    BY <1>7 DEF NoDatagram, Tick
  <1>8. CASE onPeriodic
    BY <1>8 DEF onPeriodic
  <1> QED
    BY <1>2, <1>3, <1>4, <1>5, <1>6, <1>7, <1>8, ZenonT(60) DEF Next, Datagram

(* Whatever the registration order, evictions and timeouts, an ACK, a NAK  *)
(* or a REG3 goes to registered links only, and a loss report reaches      *)
(* NAK_FANOUT links or all of them, for any number of links and fanout.    *)
THEOREM FeedbackReachesTheLinks == Spec => []FeedbackReachesLinks
  <1>1. Init => FeedbackOnlyToLinks
    BY DEF Init, FeedbackOnlyToLinks
  <1>2. IInv /\ FeedbackOnlyToLinks /\ [Next]_vars => FeedbackOnlyToLinks'
    <2>1. CASE UNCHANGED vars
      BY <2>1, Zenon DEF vars, FeedbackOnlyToLinks, IsLink
    <2> QED
      BY <2>1, SentToLinks
  <1>3. IInv => NakReachesFanout
    BY NakTargetsFanout DEF NakReachesFanout, IInv, TypeOK
  <1>4. IInv /\ FeedbackOnlyToLinks => FeedbackReachesLinks
    BY <1>3 DEF FeedbackReachesLinks
  <1> QED
    BY <1>1, <1>2, <1>4, Invariance, PTL DEF Spec

-----------------------------------------------------------------------------
\* The wrapped difference is the true distance, or one turn away from it.
Congruent ==
    \/ second - first = dist
    \/ second - first = dist + MaxSeqNo + 1
    \/ second - first = dist - MaxSeqNo - 1

ClockInv == ClockTypeOK /\ Congruent

\* incseq and decseq stay within the sequence numbers and undo each other.
LEMMA IncDecInverse ==
    ASSUME NEW s \in SeqNos
    PROVE  /\ incseq(s) \in SeqNos
           /\ decseq(s) \in SeqNos
           /\ decseq(incseq(s)) = s
           /\ incseq(decseq(s)) = s
  BY SeqNoAssumption DEF SeqNos, incseq, decseq

\* A jump by at most a whole turn stays within the sequence numbers and is
\* undone by the opposite jump.
LEMMA JumpInverse ==
    ASSUME NEW s \in SeqNos, NEW n \in 0 .. MaxSeqNo
    PROVE  /\ incseqBy(s, n) \in SeqNos
           /\ decseqBy(s, n) \in SeqNos
           /\ decseqBy(incseqBy(s, n), n) = s
  BY SeqNoAssumption, SMTT(20) DEF SeqNos, incseqBy, decseqBy

\* seqoff inverts incseqBy and decseqBy below the threshold: the fact every
\* buffer offset in the library rests on.
LEMMA SeqoffOfIncseqBy ==
    ASSUME NEW s \in SeqNos, NEW n \in 0 .. SeqNoTH - 1
    PROVE  seqoff(s, incseqBy(s, n)) = n /\ seqoff(incseqBy(s, n), s) = -n
  BY SeqNoAssumption DEF SeqNos, incseqBy, seqoff, AbsDiff

\* seqcmp is antisymmetric and is zero only on equal numbers.
LEMMA SeqcmpAntisymmetric ==
    ASSUME NEW s \in SeqNos, NEW t \in SeqNos
    PROVE  /\ seqcmp(s, t) = -seqcmp(t, s)
           /\ seqcmp(s, t) = 0 <=> s = t
  BY SeqNoAssumption DEF SeqNos, seqcmp, AbsDiff

\* The window keeps the wrapped numbers congruent to their true distance.
THEOREM ClockInvariant == ClockSpec => []ClockInv
<1>1. ClockInit => ClockInv
  BY SeqNoAssumption, WindowAssumption, SMTT(20) DEF ClockInit, ClockInv, ClockTypeOK, Congruent, SeqNos
<1>2. ClockInv /\ [ClockNext]_clockVars => ClockInv'
  <2> SUFFICES ASSUME ClockInv, [ClockNext]_clockVars PROVE ClockInv'
    OBVIOUS
  <2> USE SeqNoAssumption, WindowAssumption DEF ClockInv, ClockTypeOK, Congruent, SeqNos
  <2>1. CASE StepForward
    BY <2>1 DEF StepForward, incseq
  <2>2. CASE StepBack
    BY <2>2 DEF StepBack, decseq
  <2>3. CASE CatchUp
    BY <2>3 DEF CatchUp, incseq
  <2>4. ASSUME NEW n \in 0 .. Window, JumpForward(n) PROVE ClockInv'
    BY <2>4 DEF JumpForward, incseqBy
  <2>5. ASSUME NEW n \in 0 .. Window, JumpBack(n) PROVE ClockInv'
    BY <2>5 DEF JumpBack, decseqBy
  <2>6. CASE UNCHANGED clockVars
    BY <2>6 DEF clockVars
  <2> QED
    BY <2>1, <2>2, <2>3, <2>4, <2>5, <2>6, ZenonT(60) DEF ClockNext
<1> QED
  BY <1>1, <1>2, PTL DEF ClockSpec

\* With a window below the threshold, seqoff is the true distance.
LEMMA SeqoffCorrect == ASSUME Window < SeqNoTH, ClockInv PROVE SeqoffIsDistance
  BY SeqNoAssumption, WindowAssumption
     DEF ClockInv, ClockTypeOK, Congruent, SeqNos, SeqoffIsDistance, seqoff, AbsDiff

\* With a window below the threshold, the sign of seqcmp and the choice of
\* maxseq follow the true order.
LEMMA SeqcmpCorrect == ASSUME Window < SeqNoTH, ClockInv PROVE SeqcmpIsOrder
  BY SeqNoAssumption, WindowAssumption
     DEF ClockInv, ClockTypeOK, Congruent, SeqNos, SeqcmpIsOrder, seqcmp, maxseq, AbsDiff

\* seqlen counts the packets of a range.
LEMMA SeqlenCorrect == ASSUME ClockInv PROVE SeqlenCountsRange
  BY SeqNoAssumption, WindowAssumption
     DEF ClockInv, ClockTypeOK, Congruent, SeqNos, SeqlenCountsRange, seqlen

\* With a window below the threshold, seqoff, seqcmp, maxseq and seqlen recover the
\* true distance, order and count in every reachable state, whatever the wraps in
\* between and however large the space of sequence numbers.
THEOREM ArithmeticCorrect == ASSUME Window < SeqNoTH PROVE ClockSpec => []ArithmeticExact
<1>1. ClockInv => ArithmeticExact
  <2> SUFFICES ASSUME ClockInv PROVE ArithmeticExact
    OBVIOUS
  <2> QED
    BY SeqoffCorrect, SeqcmpCorrect, SeqlenCorrect, Zenon DEF ArithmeticExact
<1> QED
  BY <1>1, ClockInvariant, PTL

-----------------------------------------------------------------------------
Units == 1 .. capacity
Incoming == {incoming[i] : i \in 1 .. Len(incoming)}

\* The types; the pool has at least its first entry.
PoolType ==
    /\ env \in Cases
    /\ taken \in Seq(BOOLEAN) /\ capacity >= env.block
    /\ numTaken \in Nat /\ avail \in Units
    /\ pc \in {"retrieve", "receive", "rebuild", "insert"}
    /\ incoming \in Seq(Units) /\ rebuild \in Nat
    /\ kept \subseteq Units /\ freeing \subseteq Units
    /\ dry \in BOOLEAN

\* Giving a unit back takes its flag first: until the counter follows, the unit counts,
\* even when it has a new user by then.
CounterExact ==
    /\ numTaken = Cardinality(kept) + Cardinality(freeing)
    /\ Cardinality(freeing) <= env.readers

\* A unit is marked when a buffer has it.  While the filter rebuilds packets, it marks
\* those on their way to the buffer too, and only those.
MarksExact ==
    /\ pc # "rebuild" => \A v \in Units : taken[v] => v \in kept
    /\ pc = "rebuild" => \A v \in Units : taken[v] => v \in kept \/ v \in Incoming
    /\ pc = "rebuild" /\ env.filter => \A v \in Incoming : taken[v]
    /\ pc = "rebuild" /\ rebuild > 0 => env.filter
    /\ pc = "retrieve" => incoming = <<>>
    /\ pc = "receive" => Len(incoming) = 1

PoolInv == PoolType /\ CounterExact /\ MarksExact /\ UnitsExact

-----------------------------------------------------------------------------
\* The remainders the ring of units is walked with.
LEMMA ModRange == ASSUME NEW m \in Nat, NEW n \in Nat \ {0} PROVE m % n \in 0 .. n - 1
  OBVIOUS

\* One full turn around a ring of n comes back to the same place.
LEMMA ModTurn ==
    ASSUME NEW n \in Nat \ {0}, NEW x \in 0 .. n - 1
    PROVE  x % n = x /\ (x + n) % n = x
  OBVIOUS

\* The size of an interval, and a new entry as a sequence of flags.
LEMMA IntervalSize == ASSUME NEW n \in Nat PROVE IsFiniteSet(1 .. n) /\ Cardinality(1 .. n) = n
  BY FS_Interval

\* A new entry of the unit queue is a sequence of n flags, all free.
LEMMA EntryIsSeq ==
    ASSUME NEW n \in Nat, NEW e, e = [i \in 1 .. n |-> FALSE]
    PROVE  e \in Seq(BOOLEAN) /\ Len(e) = n
  <1>1. e \in Seq(BOOLEAN)
    OBVIOUS
  <1>2. Len(e) = n
    OBVIOUS
  <1> QED
    BY <1>1, <1>2

\* A nonempty set of naturals has a least element, the one Nearest picks.
LEMMA NearestIsMember ==
    ASSUME NEW S \in SUBSET Nat, S # {} PROVE Nearest(S) \in S
  <1> DEFINE Less == {p \in Nat \X Nat : p[1] < p[2]}
  <1>1. IsWellFoundedOn(Less, Nat)
    BY NatLessThanWellFounded DEF OpToRel
  <1>2. \E x \in S : \A y \in S : ~(<<y, x>> \in Less)
    <2> HIDE DEF Less
    <2> QED
      BY <1>1, WFMin, Zenon
  <1>3. \A x, y \in Nat : y < x => <<y, x>> \in Less
    OBVIOUS
  <1> HIDE DEF Less
  <1>4. PICK x \in S : \A y \in S : ~(<<y, x>> \in Less)
    BY <1>2
  <1>5. \A y \in S : ~(y < x)
    BY <1>3, <1>4, Zenon
  <1>6. \A y \in S : x <= y
    BY <1>5
  <1> QED
    BY <1>6, Zenon DEF Nearest

\* The search finds a free unit whenever there is one, wherever it starts.
LEMMA SearchFinds ==
    ASSUME NEW flags \in Seq(BOOLEAN), avail \in 1 .. Len(flags), env.block \in Nat \ {0}
    PROVE  /\ Search(flags).avail \in 1 .. Len(flags)
           /\ Search(flags).unit # NoUnit =>
                Search(flags).unit \in 1 .. Len(flags) /\ ~flags[Search(flags).unit]
           /\ (\E v \in 1 .. Len(flags) : ~flags[v]) => Search(flags).unit # NoUnit
  <1> DEFINE n == Len(flags)
             At(i) == ((avail - 1 + i) % n) + 1
             free == {i \in 0 .. n - 1 : ~flags[At(i)]}
             turn == ((avail + env.block - 2) \div env.block) * env.block
             nextEntry == (turn % n) + 1
  <1>1. n \in Nat \ {0} /\ avail \in 1 .. n
    OBVIOUS
  <1>2. \A i \in 0 .. n - 1 : At(i) \in 1 .. n
    <2> SUFFICES ASSUME NEW i \in 0 .. n - 1 PROVE At(i) \in 1 .. n
      OBVIOUS
    <2>1. avail - 1 + i \in Nat
      BY <1>1
    <2> HIDE DEF n
    <2> QED
      BY <1>1, <2>1, ModRange
  <1>3. nextEntry \in 1 .. n
    <2>1. avail + env.block - 2 \in Nat \/ (avail = 1 /\ env.block = 1)
      BY <1>1
    <2>2. avail + env.block - 2 \in Nat
      BY <1>1
    <2>3. (avail + env.block - 2) \div env.block \in Nat
      BY <2>2, SMTT(20)
    <2>4. turn \in Nat
      BY <2>3
    <2> HIDE DEF n, turn
    <2> QED
      BY <1>1, <2>4, ModRange
  <1>4. ASSUME NEW v \in 1 .. n, ~flags[v] PROVE free # {}
    <2>1. CASE v >= avail
      <3>1. v - avail \in 0 .. n - 1 /\ avail - 1 + (v - avail) = v - 1
        BY <1>1, <2>1
      <3>2. At(v - avail) = v
        <4> HIDE DEF n
        <4> QED
          BY <1>1, <3>1, ModTurn
      <3> QED
        BY <1>4, <3>1, <3>2, Zenon
    <2>2. CASE v < avail
      <3>1. /\ v - avail + n \in 0 .. n - 1
            /\ avail - 1 + (v - avail + n) = (v - 1) + n
            /\ v - 1 \in 0 .. n - 1
        BY <1>1, <2>2
      <3>2. At(v - avail + n) = v
        <4> HIDE DEF n
        <4> QED
          BY <1>1, <3>1, ModTurn, SMTT(20)
      <3> QED
        BY <1>4, <3>1, <3>2, Zenon
    <2> QED
      BY <1>1, <2>1, <2>2
  <1>5. CASE free = {}
    <2>1. Search(flags) = [unit |-> NoUnit, avail |-> nextEntry]
      BY <1>5, ZenonT(60) DEF Search
    <2>2. Search(flags).unit = NoUnit /\ Search(flags).avail = nextEntry
      BY <2>1, SMTT(20)
    <2> HIDE DEF n, free, nextEntry
    <2>3. Search(flags).avail \in 1 .. n /\ \A v \in 1 .. n : flags[v]
      BY <1>3, <1>4, <1>5, <2>2, ZenonT(60)
    <2> USE DEF n
    <2> QED
      BY <2>2, <2>3, ZenonT(60)
  <1>6. CASE free # {}
    <2>1. Nearest(free) \in free
      <3>1. free \in SUBSET Nat
        BY SMTT(20)
      <3> HIDE DEF free
      <3> QED
        BY <1>6, <3>1, NearestIsMember
    <2>2. Search(flags) = [unit |-> At(Nearest(free)), avail |-> At(Nearest(free))]
      BY <1>6, SMTT(20) DEF Search
    <2>3. At(Nearest(free)) \in 1 .. n /\ ~flags[At(Nearest(free))]
      BY <1>2, <2>1, Zenon
    <2> QED
      BY <2>2, <2>3 DEF NoUnit
  <1> QED
    BY <1>5, <1>6

\* What getNextAvailUnit returns: the pool, grown or not, its old flags in place, and
\* a free unit; none only when the counter or the flags say that the pool is full.
LEMMA GetNextAvailUnit ==
    ASSUME PoolInv, PoolAssumption, NEW ok \in BOOLEAN, NEW r, r = getNextAvailUnit(ok)
    PROVE  /\ r.flags \in Seq(BOOLEAN) /\ Len(r.flags) >= capacity
           /\ \A v \in Units : r.flags[v] = taken[v]
           /\ \A v \in 1 .. Len(r.flags) : v \notin Units => ~r.flags[v]
           /\ r.avail \in 1 .. Len(r.flags)
           /\ r.unit # NoUnit => r.unit \in 1 .. Len(r.flags) /\ ~r.flags[r.unit]
           /\ r.unit = NoUnit =>
                \/ numTaken >= Len(r.flags)
                \/ \A v \in 1 .. Len(r.flags) : r.flags[v]
           /\ Len(r.flags) = IF Crowded /\ ok THEN capacity + env.block ELSE capacity
  <1> DEFINE flags == increase_(ok)
  <1>1. env.block \in Nat \ {0} /\ capacity \in Nat /\ taken \in Seq(BOOLEAN)
        /\ capacity >= env.block
    BY SMTT(20) DEF PoolInv, PoolType, PoolAssumption, capacity
  <1>2. /\ flags \in Seq(BOOLEAN) /\ Len(flags) >= capacity
        /\ Len(flags) = IF Crowded /\ ok THEN capacity + env.block ELSE capacity
        /\ \A v \in Units : flags[v] = taken[v]
        /\ \A v \in 1 .. Len(flags) : v \notin Units => ~flags[v]
    <2>1. CASE ~(Crowded /\ ok)
      <3>1. flags = taken
        BY <2>1, Zenon DEF increase_
      <3> QED
        BY <1>1, <2>1, <3>1 DEF capacity, Units
    <2>2. CASE Crowded /\ ok
      <3> DEFINE entry == [i \in 1 .. env.block |-> FALSE]
      <3>1. entry \in Seq(BOOLEAN) /\ Len(entry) = env.block
        BY <1>1, EntryIsSeq
      <3>2. flags = taken \o entry
        BY <2>2, Zenon DEF increase_
      <3>3. \A i \in 1 .. env.block : ~entry[i]
        OBVIOUS
      <3> HIDE DEF entry
      <3>4. flags \in Seq(BOOLEAN) /\ Len(flags) = capacity + env.block
        BY <1>1, <3>1, <3>2 DEF capacity
      <3>5. \A v \in Units : flags[v] = taken[v]
        BY <1>1, <3>1, <3>2 DEF capacity, Units
      <3>6. \A v \in 1 .. Len(flags) : v \notin Units => ~flags[v]
        BY <1>1, <3>1, <3>2, <3>3, <3>4 DEF capacity, Units
      <3>7. Len(flags) = IF Crowded /\ ok THEN capacity + env.block ELSE capacity
        BY <2>2, <3>4, Zenon
      <3>8. Len(flags) >= capacity
        BY <1>1, <3>4
      <3> QED
        BY <3>4, <3>5, <3>6, <3>7, <3>8, Zenon
    <2> QED
      BY <2>1, <2>2
  <1>3. avail \in 1 .. Len(flags)
    BY <1>1, <1>2, SMTT(20) DEF PoolInv, PoolType, Units
  <1> HIDE DEF flags
  <1>4. CASE numTaken >= Len(flags)
    <2>1. r = [flags |-> flags, unit |-> NoUnit, avail |-> avail]
      BY <1>4, ZenonT(60) DEF getNextAvailUnit, flags
    <2>2. r.flags = flags /\ r.unit = NoUnit /\ r.avail = avail
      BY <2>1, SMTT(20)
    <2> QED
      BY <1>2, <1>3, <1>4, <2>2, ZenonT(60)
  <1>5. CASE ~(numTaken >= Len(flags))
    <2>1. r = [flags |-> flags, unit |-> Search(flags).unit, avail |-> Search(flags).avail]
      BY <1>5 DEF getNextAvailUnit, flags
    <2>2. /\ r.flags = flags /\ r.unit = Search(flags).unit
          /\ r.avail = Search(flags).avail
      BY <2>1, SMTT(20)
    <2>3. /\ r.avail \in 1 .. Len(flags)
          /\ r.unit # NoUnit => r.unit \in 1 .. Len(flags) /\ ~flags[r.unit]
          /\ (\E v \in 1 .. Len(flags) : ~flags[v]) => r.unit # NoUnit
      BY <1>1, <1>2, <1>3, <2>2, SearchFinds, ZenonT(60)
    <2>4. \A v \in 1 .. Len(flags) : flags[v] \in BOOLEAN
      BY <1>2
    <2> QED
      BY <1>2, <2>2, <2>3, <2>4, ZenonT(60)
  <1> QED
    BY <1>4, <1>5

\* The counter bounds the units in the buffers, which fit into the pool; while fewer
\* threads than an entry has units give units back, it stays below the next size.
LEMMA CounterBounds ==
    ASSUME PoolInv, PoolAssumption
    PROVE  /\ IsFiniteSet(kept) /\ IsFiniteSet(freeing)
           /\ Cardinality(kept) \in Nat /\ Cardinality(freeing) \in Nat
           /\ Cardinality(kept) <= numTaken
           /\ numTaken < capacity + env.block
  <1>1. capacity \in Nat /\ env.readers < env.block /\ env.readers \in Nat
        /\ env.block \in Nat
    BY DEF PoolInv, PoolType, PoolAssumption, capacity
  <1>2. IsFiniteSet(Units) /\ Cardinality(Units) = capacity
    BY <1>1, IntervalSize DEF Units
  <1>3. kept \in SUBSET Units /\ freeing \in SUBSET Units
    BY DEF PoolInv, PoolType
  <1>4. IsFiniteSet(kept) /\ IsFiniteSet(freeing) /\ Cardinality(kept) <= capacity
    BY <1>2, <1>3, FS_Subset
  <1>5. Cardinality(kept) \in Nat /\ Cardinality(freeing) \in Nat
    BY <1>4, FS_CardinalityType
  <1> QED
    BY <1>1, <1>4, <1>5 DEF PoolInv, CounterExact

\* With its allocations granted, the worker always gets a unit.
LEMMA NeverDry ==
    ASSUME PoolInv, PoolAssumption, pc = "retrieve" PROVE getNextAvailUnit(TRUE).unit # NoUnit
  <1> DEFINE r == getNextAvailUnit(TRUE)
  <1>1. /\ r.flags \in Seq(BOOLEAN) /\ Len(r.flags) >= capacity
        /\ \A v \in Units : r.flags[v] = taken[v]
        /\ \A v \in 1 .. Len(r.flags) : v \notin Units => ~r.flags[v]
        /\ Len(r.flags) = IF Crowded THEN capacity + env.block ELSE capacity
        /\ r.unit = NoUnit => \/ numTaken >= Len(r.flags)
                            \/ \A v \in 1 .. Len(r.flags) : r.flags[v]
    BY GetNextAvailUnit, Zenon
  <1>2. capacity \in Nat \ {0} /\ numTaken \in Nat /\ env.block \in Nat \ {0}
    BY DEF PoolInv, PoolType, PoolAssumption, capacity
  <1> HIDE DEF r
  <1>3. numTaken < Len(r.flags)
    <2>1. CASE Crowded
      BY <1>1, <2>1, CounterBounds, ZenonT(60)
    <2>2. CASE ~Crowded
      BY <1>1, <1>2, <2>2 DEF Crowded
    <2> QED
      BY <2>1, <2>2, ZenonT(60)
  <1>4. ASSUME \A v \in 1 .. Len(r.flags) : r.flags[v] PROVE FALSE
    <2>1. Len(r.flags) = capacity
      BY <1>1, <1>2, <1>4, SMTT(20) DEF Units
    <2>2. \A v \in Units : v \in kept
      BY <1>1, <1>4, <2>1 DEF Units, PoolInv, MarksExact
    <2>3. kept = Units
      BY <2>2, Zenon DEF PoolInv, PoolType
    <2>4. Cardinality(kept) = capacity
      BY <1>2, <2>3, IntervalSize, ZenonT(60) DEF Units
    <2> QED
      BY <1>2, <1>3, <2>1, <2>4, CounterBounds
  <1>5. r.unit # NoUnit
    BY <1>1, <1>2, <1>3, <1>4
  <1> QED
    BY <1>5, Zenon DEF r


-----------------------------------------------------------------------------
\* At first the pool is one entry of free units.
LEMMA PoolInitInv == ASSUME PoolAssumption, PoolInit PROVE PoolInv
  <1>1. env \in Cases /\ env.block \in Nat \ {0} /\ env.readers \in Nat
    BY DEF PoolInit, PoolAssumption
  <1>2. taken \in Seq(BOOLEAN) /\ capacity = env.block
    BY <1>1, EntryIsSeq DEF PoolInit, capacity
  <1>3. dry \in BOOLEAN /\ ~dry
    BY Zenon DEF PoolInit
  <1>4. incoming = <<>> /\ incoming \in Seq(Units) /\ avail \in Units
    BY <1>1, <1>2 DEF PoolInit, Units
  <1>5. PoolType
    BY <1>1, <1>2, <1>3, <1>4 DEF PoolInit, PoolType
  <1>6. CounterExact
    BY <1>1, FS_EmptySet DEF PoolInit, CounterExact
  <1>7. MarksExact
    BY <1>2 DEF PoolInit, MarksExact, Units
  <1>8. UnitsExact
    BY <1>3, <1>4 DEF PoolInit, UnitsExact, OneUserPerUnit, DryOnlyOnFailure
  <1> QED
    BY <1>5, <1>6, <1>7, <1>8, ZenonT(60) DEF PoolInv

\* The worker gets a unit that no buffer has, or none.
LEMMA RetrieveInv == ASSUME PoolInv, PoolAssumption, worker_RetrieveUnit PROVE PoolInv'
  <1>1. PICK ok \in BOOLEAN :
          LET r == getNextAvailUnit(ok)
          IN /\ taken' = r.flags /\ avail' = r.avail
             /\ incoming' = IF r.unit = NoUnit THEN <<>> ELSE <<r.unit>>
             /\ pc' = IF r.unit = NoUnit THEN "retrieve" ELSE "receive"
             /\ dry' = (dry \/ (r.unit = NoUnit /\ ok))
    BY Zenon DEF worker_RetrieveUnit, Allocation
  <1>2. pc = "retrieve" /\ UNCHANGED <<env, numTaken, rebuild, kept, freeing>>
    BY ZenonT(60) DEF worker_RetrieveUnit
  <1> DEFINE r == getNextAvailUnit(ok)
  <1>3. /\ r.flags \in Seq(BOOLEAN) /\ Len(r.flags) >= capacity
        /\ \A v \in Units : r.flags[v] = taken[v]
        /\ \A v \in 1 .. Len(r.flags) : v \notin Units => ~r.flags[v]
        /\ r.avail \in 1 .. Len(r.flags)
        /\ r.unit # NoUnit => r.unit \in 1 .. Len(r.flags) /\ ~r.flags[r.unit]
    BY GetNextAvailUnit
  <1>4. r.unit = NoUnit => ok # TRUE
    BY <1>2, NeverDry, Zenon
  <1>5. dry' = FALSE
    <2>1. dry = FALSE
      BY DEF PoolInv, UnitsExact, DryOnlyOnFailure, PoolType
    <2>2. dry' = (dry \/ (r.unit = NoUnit /\ ok))
      BY <1>1, Zenon
    <2> HIDE DEF r
    <2> QED
      BY <1>4, <2>1, <2>2, Zenon
  <1>6. /\ taken' = r.flags /\ avail' = r.avail
        /\ incoming' = IF r.unit = NoUnit THEN <<>> ELSE <<r.unit>>
        /\ pc' = IF r.unit = NoUnit THEN "retrieve" ELSE "receive"
    BY <1>1, Zenon
  <1> HIDE DEF r
  <1>7. capacity' = Len(r.flags) /\ Units' = 1 .. Len(r.flags) /\ Units \subseteq Units'
        /\ capacity \in Nat
    BY <1>3, <1>6 DEF Units, capacity, PoolInv, PoolType
  <1>8. incoming' \in Seq(Units') /\ avail' \in Units'
    <2>1. CASE r.unit = NoUnit
      BY <1>3, <1>6, <1>7, <2>1, SMTT(20)
    <2>2. CASE r.unit # NoUnit
      <3>1. r.unit \in Units' /\ incoming' = <<r.unit>>
        BY <1>3, <1>6, <1>7, <2>2
      <3>2. incoming' \in Seq(Units')
        BY <3>1
      <3> QED
        BY <1>3, <1>6, <1>7, <3>2, ZenonT(60)
    <2> QED
      BY <2>1, <2>2, ZenonT(60)
  <1>9. PoolType'
    <2>1. capacity' >= env'.block
      BY <1>2, <1>3, <1>7 DEF PoolInv, PoolType, PoolAssumption
    <2> QED
      BY <1>2, <1>3, <1>5, <1>6, <1>7, <1>8, <2>1, Zenon DEF PoolInv, PoolType
  <1>10. CounterExact'
    BY <1>2, ZenonT(60) DEF PoolInv, CounterExact
  <1>11. \A v \in Units' : taken'[v] => v \in kept
    BY <1>2, <1>3, <1>6, <1>7, ZenonT(60) DEF PoolInv, MarksExact
  <1>12. MarksExact'
    BY <1>2, <1>6, <1>11, ZenonT(60) DEF MarksExact
  <1>13. \A u \in kept : taken'[u]
    BY <1>3, <1>6, ZenonT(60) DEF PoolInv, PoolType, UnitsExact, OneUserPerUnit
  <1>14. \A i \in 1 .. Len(incoming') : incoming'[i] = r.unit /\ i = 1 /\ r.unit \notin kept
    BY <1>3, <1>6, <1>13
  <1>15. UnitsExact'
    BY <1>2, <1>5, <1>13, <1>14 DEF UnitsExact, OneUserPerUnit, DryOnlyOnFailure
  <1> QED
    BY <1>9, <1>10, <1>12, <1>15 DEF PoolInv


\* The filter marks the received unit, or consumes it.
LEMMA ReceiveInv == ASSUME PoolInv, PoolAssumption, receive PROVE PoolInv'
  <1> DEFINE w == incoming[1]
  <1>1. PICK pass \in BOOLEAN, n \in 0 .. env.maxRebuilt :
          /\ ~env.filter => pass /\ n = 0
          /\ taken' = [taken EXCEPT ![w] = env.filter /\ pass]
          /\ incoming' = IF pass THEN incoming ELSE <<>>
          /\ rebuild' = n
    BY Zenon DEF receive
  <1>2. /\ pc = "receive" /\ pc' = "rebuild"
        /\ UNCHANGED <<env, numTaken, avail, kept, freeing, dry>>
    BY ZenonT(60) DEF receive
  <1>3. /\ taken \in Seq(BOOLEAN) /\ incoming \in Seq(Units) /\ Len(incoming) = 1
        /\ env.maxRebuilt \in Nat /\ env.filter \in BOOLEAN
    BY <1>2, ZenonT(60) DEF PoolInv, PoolType, MarksExact, PoolAssumption
  <1>4. w \in Units /\ w \notin kept
    BY <1>3 DEF PoolInv, UnitsExact, OneUserPerUnit
  <1>5. w \in 1 .. Len(taken)
    BY <1>4, ZenonT(60) DEF Units, capacity
  <1>6. /\ taken' \in Seq(BOOLEAN) /\ Len(taken') = Len(taken)
        /\ taken'[w] = (env.filter /\ pass)
        /\ \A v \in Units : v # w => taken'[v] = taken[v]
    <2>1. (env.filter /\ pass) \in BOOLEAN
      OBVIOUS
    <2> DEFINE flag == (env.filter /\ pass)
    <2>2. flag \in BOOLEAN
      OBVIOUS
    <2> HIDE DEF flag
    <2>3. taken' = [taken EXCEPT ![w] = flag]
      BY <1>1 DEF flag
    <2>4. /\ taken' \in Seq(BOOLEAN) /\ Len(taken') = Len(taken)
          /\ taken'[w] = flag
          /\ \A v \in Units : v # w => taken'[v] = taken[v]
      BY <1>3, <1>5, <2>2, <2>3 DEF Units, capacity
    <2> QED
      BY <2>4 DEF flag
  <1>7. capacity' = capacity /\ Units' = Units
    BY <1>6 DEF capacity, Units
  <1>8. incoming' \in Seq(Units)
    BY <1>1, <1>3, SMTT(20)
  <1>9. PoolType'
    BY <1>1, <1>2, <1>3, <1>6, <1>7, <1>8 DEF PoolInv, PoolType
  <1>10. CounterExact'
    BY <1>2 DEF PoolInv, CounterExact
  <1> HIDE DEF w
  <1>11. /\ Incoming' = IF pass THEN {w} ELSE {}
         /\ \A i \in 1 .. Len(incoming') : i = 1 /\ incoming'[i] = w
    <2>1. CASE pass
      <3>1. incoming' = incoming
        BY <1>1, <2>1
      <3>2. Len(incoming') = 1 /\ incoming'[1] = w
        BY <1>3, <3>1 DEF w
      <3>3. \A i \in 1 .. Len(incoming') : i = 1
        BY <3>2
      <3>4. 1 \in 1 .. Len(incoming')
        BY <3>2
      <3>5. \A i \in 1 .. Len(incoming') : i = 1 /\ incoming'[i] = w
        BY <3>2, <3>3
      <3>6. Incoming' = {w}
        BY <3>2, <3>3, <3>4, Zenon DEF Incoming
      <3> QED
        BY <2>1, <3>5, <3>6, ZenonT(60)
    <2>2. CASE ~pass
      <3>1. incoming' = <<>>
        BY <1>1, <2>2, ZenonT(60)
      <3> QED
        BY <2>2, <3>1 DEF Incoming
    <2> QED
      BY <2>1, <2>2
  <1>12. MarksExact'
    <2>1. \A v \in Units : taken'[v] => v \in kept \/ v \in Incoming'
      <3> SUFFICES ASSUME NEW v \in Units, taken'[v], v \notin kept PROVE v \in Incoming'
        BY ZenonT(60)
      <3>1. v = w
        BY <1>2, <1>6, ZenonT(60) DEF PoolInv, MarksExact
      <3> QED
        BY <1>6, <1>11, <3>1
    <2>2. env.filter => \A v \in Incoming' : taken'[v]
      BY <1>6, <1>11
    <2>3. rebuild' > 0 => env.filter
      BY <1>1, SMTT(20)
    <2> QED
      BY <1>2, <1>7, <2>1, <2>2, <2>3, ZenonT(60) DEF MarksExact
  <1>13. UnitsExact'
    <2>1. \A u \in kept : taken'[u]
      BY <1>4, <1>6 DEF PoolInv, PoolType, UnitsExact, OneUserPerUnit
    <2> QED
      BY <1>2, <1>4, <1>11, <2>1, ZenonT(60) DEF PoolInv, UnitsExact, OneUserPerUnit, DryOnlyOnFailure
  <1> QED
    BY <1>9, <1>10, <1>12, <1>13 DEF PoolInv

\* A rebuilt packet takes a unit that neither a buffer nor the filter has.
LEMMA InsertRebuiltInv == ASSUME PoolInv, PoolAssumption, InsertRebuilt PROVE PoolInv'
  <1>1. PICK ok \in BOOLEAN :
          LET r == getNextAvailUnit(ok)
          IN /\ avail' = r.avail
             /\ taken' = IF r.unit = NoUnit THEN r.flags ELSE [r.flags EXCEPT ![r.unit] = TRUE]
             /\ incoming' = IF r.unit = NoUnit THEN incoming ELSE Append(incoming, r.unit)
             /\ rebuild' = IF r.unit = NoUnit THEN 0 ELSE rebuild - 1
    BY Zenon DEF InsertRebuilt, Allocation
  <1>2. /\ pc = "rebuild" /\ rebuild > 0
        /\ UNCHANGED <<env, numTaken, pc, kept, freeing, dry>>
    BY DEF InsertRebuilt
  <1> DEFINE r == getNextAvailUnit(ok)
  <1>3. /\ r.flags \in Seq(BOOLEAN) /\ Len(r.flags) >= capacity
        /\ \A v \in Units : r.flags[v] = taken[v]
        /\ \A v \in 1 .. Len(r.flags) : v \notin Units => ~r.flags[v]
        /\ r.avail \in 1 .. Len(r.flags)
        /\ r.unit # NoUnit => r.unit \in 1 .. Len(r.flags) /\ ~r.flags[r.unit]
    BY GetNextAvailUnit
  <1>4. /\ avail' = r.avail
        /\ taken' = IF r.unit = NoUnit THEN r.flags ELSE [r.flags EXCEPT ![r.unit] = TRUE]
        /\ incoming' = IF r.unit = NoUnit THEN incoming ELSE Append(incoming, r.unit)
        /\ rebuild' = IF r.unit = NoUnit THEN 0 ELSE rebuild - 1
    BY <1>1, Zenon
  <1> HIDE DEF r
  <1>5. /\ env.filter /\ incoming \in Seq(Units) /\ rebuild \in Nat /\ capacity \in Nat
        /\ \A v \in Units : taken[v] => v \in kept \/ v \in Incoming
        /\ \A v \in Incoming : taken[v]
        /\ \A u \in kept : taken[u]
        /\ kept \subseteq Units
    BY <1>2 DEF PoolInv, MarksExact, PoolType, capacity, UnitsExact, OneUserPerUnit
  <1>6. Incoming \subseteq Units
    BY <1>5 DEF Incoming
  <1>7. /\ taken' \in Seq(BOOLEAN) /\ Len(taken') = Len(r.flags)
        /\ \A v \in Units' : taken'[v] <=> r.flags[v] \/ v = r.unit
        /\ Units' = 1 .. Len(r.flags)
    <2>1. CASE r.unit = NoUnit
      BY <1>3, <1>4, <2>1, SMTT(20) DEF Units, capacity, NoUnit
    <2>2. CASE r.unit # NoUnit
      <3>1. taken' = [r.flags EXCEPT ![r.unit] = TRUE] /\ r.unit \in 1 .. Len(r.flags)
        BY <1>3, <1>4, <2>2, ZenonT(60)
      <3>2. taken' \in Seq(BOOLEAN) /\ Len(taken') = Len(r.flags)
        BY <1>3, <3>1, SMTT(20)
      <3> QED
        BY <1>3, <3>1, <3>2, SMTT(20) DEF Units, capacity
    <2> QED
      BY <2>1, <2>2, ZenonT(60)
  <1>8. capacity' = Len(r.flags) /\ Units \subseteq Units'
    BY <1>3, <1>5, <1>7 DEF capacity, Units
  <1>9. incoming' \in Seq(Units')
    <2>1. incoming \in Seq(Units')
      BY <1>5, <1>8
    <2>2. CASE r.unit = NoUnit
      BY <1>4, <2>1, <2>2
    <2>3. CASE r.unit # NoUnit
      <3>1. r.unit \in Units' /\ incoming' = Append(incoming, r.unit)
        BY <1>3, <1>4, <1>7, <2>3, ZenonT(60)
      <3> QED
        BY <2>1, <3>1, SMTT(20)
    <2> QED
      BY <2>2, <2>3
  <1>10. Incoming' = IF r.unit = NoUnit THEN Incoming ELSE Incoming \cup {r.unit}
    BY <1>4, <1>5, SMTT(20) DEF Incoming
  <1>11. PoolType'
    <2>1. capacity' >= env'.block
      BY <1>2, <1>3, <1>5, <1>8, SMTT(20) DEF PoolInv, PoolType, PoolAssumption
    <2>2. rebuild' \in Nat
      <3>1. rebuild - 1 \in Nat /\ 0 \in Nat
        BY <1>2, <1>5
      <3> QED
        BY <1>4, <3>1, ZenonT(60)
    <2>3. kept \subseteq Units' /\ freeing \subseteq Units' /\ avail' \in Units'
      BY <1>3, <1>4, <1>7, <1>8 DEF PoolInv, PoolType
    <2> QED
      BY <1>2, <1>7, <1>9, <2>1, <2>2, <2>3, ZenonT(60) DEF PoolInv, PoolType
  <1>12. CounterExact'
    BY <1>2, ZenonT(60) DEF PoolInv, CounterExact
  <1>13. MarksExact'
    <2>1. \A v \in Units' : taken'[v] => v \in kept \/ v \in Incoming'
      <3> SUFFICES ASSUME NEW v \in Units', taken'[v], v \notin kept PROVE v \in Incoming'
        OBVIOUS
      <3>1. CASE v = r.unit
        <4>1. v # NoUnit
          BY DEF Units, NoUnit
        <4> QED
          BY <1>10, <3>1, <4>1, ZenonT(60)
      <3>2. CASE v # r.unit
        BY <1>3, <1>5, <1>7, <1>10, <3>2, ZenonT(60)
      <3> QED
        BY <3>1, <3>2
    <2>2. \A v \in Incoming' : taken'[v]
      BY <1>3, <1>5, <1>6, <1>7, <1>8, <1>10, ZenonT(60)
    <2> QED
      BY <1>2, <1>5, <2>1, <2>2 DEF MarksExact
  <1>14. UnitsExact'
    <2>1. \A u \in kept : taken'[u]
      BY <1>3, <1>5, <1>7, <1>8, ZenonT(60)
    <2>2. r.unit # NoUnit => r.unit \notin kept /\ r.unit \notin Incoming
      BY <1>3, <1>5, <1>6, ZenonT(60)
    <2>3. /\ \A i, j \in 1 .. Len(incoming) : incoming[i] = incoming[j] => i = j
          /\ \A i \in 1 .. Len(incoming) : incoming[i] \notin kept
      BY DEF PoolInv, UnitsExact, OneUserPerUnit
    <2>4. /\ \A i, j \in 1 .. Len(incoming') : incoming'[i] = incoming'[j] => i = j
          /\ \A i \in 1 .. Len(incoming') : incoming'[i] \notin kept
      <3>1. CASE r.unit = NoUnit
        BY <1>4, <2>3, <3>1, ZenonT(60)
      <3>2. CASE r.unit # NoUnit
        <4>1. /\ Len(incoming') = Len(incoming) + 1 /\ Len(incoming) \in Nat
              /\ incoming'[Len(incoming) + 1] = r.unit
              /\ \A i \in 1 .. Len(incoming) : incoming'[i] = incoming[i] /\ incoming[i] # r.unit
          BY <1>4, <1>5, <2>2, <3>2 DEF Incoming
        <4> QED
          BY <2>2, <2>3, <3>2, <4>1, SMTT(20)
      <3> QED
        BY <3>1, <3>2, ZenonT(60)
    <2> QED
      BY <1>2, <2>1, <2>4, ZenonT(60) DEF PoolInv, UnitsExact, OneUserPerUnit, DryOnlyOnFailure
  <1> QED
    BY <1>11, <1>12, <1>13, <1>14 DEF PoolInv


\* The units on their way to the buffer are unmarked before it decides on them.
LEMMA SetAllFreeInv == ASSUME PoolInv, PoolAssumption, SetAllFree PROVE PoolInv'
  <1>1. /\ pc = "rebuild" /\ pc' = "insert"
        /\ taken' = [u \in 1 .. capacity |->
                        taken[u] /\ ~\E i \in 1 .. Len(incoming) : incoming[i] = u]
        /\ UNCHANGED <<env, numTaken, avail, incoming, rebuild, kept, freeing, dry>>
    BY DEF SetAllFree
  <1>2. capacity \in Nat
    BY DEF PoolInv, PoolType, capacity
  <1>3. /\ taken' \in [1 .. capacity -> BOOLEAN]
        /\ \A v \in Units : taken'[v] <=> taken[v] /\ v \notin Incoming
    BY <1>1, Zenon DEF Units, Incoming
  <1>4. taken' \in Seq(BOOLEAN) /\ Len(taken') = capacity
    BY <1>2, <1>3
  <1>5. capacity' = capacity /\ Units' = Units
    BY <1>4 DEF capacity, Units
  <1>6. PoolType'
    BY <1>1, <1>4, <1>5 DEF PoolInv, PoolType
  <1>7. CounterExact'
    BY <1>1 DEF PoolInv, CounterExact
  <1>8. MarksExact'
    BY <1>1, <1>3, <1>5, Zenon DEF PoolInv, MarksExact
  <1>9. \A v \in kept : taken'[v]
    BY <1>3 DEF PoolInv, UnitsExact, OneUserPerUnit, PoolType, Incoming
  <1>10. UnitsExact'
    BY <1>1, <1>9 DEF PoolInv, UnitsExact, OneUserPerUnit, DryOnlyOnFailure
  <1> QED
    BY <1>6, <1>7, <1>8, <1>10, ZenonT(60) DEF PoolInv

\* The buffer keeps a unit, and counts it, or leaves it.
LEMMA InsertInv == ASSUME PoolInv, PoolAssumption, insert PROVE PoolInv'
  <1>1. pc = "insert" /\ UNCHANGED <<env, avail, rebuild, freeing, dry>>
    BY ZenonT(60) DEF insert
  <1>2. CASE incoming = <<>>
    <2>1. UNCHANGED <<taken, numTaken, incoming, kept>> /\ pc' = "retrieve"
      BY <1>2 DEF insert
    <2> QED
      BY <1>1, <1>2, <2>1 DEF PoolInv, PoolType, CounterExact, MarksExact, UnitsExact,
         OneUserPerUnit, DryOnlyOnFailure, Units, capacity, Incoming
  <1>3. CASE incoming # <<>>
    <2> DEFINE h == Head(incoming)
    <2>1. incoming' = Tail(incoming) /\ pc' = pc
      BY <1>3 DEF insert
    <2>2. incoming \in Seq(Units) /\ taken \in Seq(BOOLEAN)
      BY DEF PoolInv, PoolType
    <2>3. /\ h \in Units /\ h = incoming[1] /\ Len(incoming) \in Nat \ {0}
          /\ incoming' \in Seq(Units) /\ Len(incoming') = Len(incoming) - 1
          /\ \A i \in 1 .. Len(incoming') : incoming'[i] = incoming[i + 1]
      BY <1>3, <2>1, <2>2
    <2>4. /\ h \notin kept
          /\ \A i, j \in 1 .. Len(incoming') : incoming'[i] = incoming'[j] => i = j
          /\ \A i \in 1 .. Len(incoming') : incoming'[i] \notin kept \cup {h}
      <3>1. h \notin kept
        BY <2>3, SMTT(20) DEF PoolInv, UnitsExact, OneUserPerUnit
      <3>2. ASSUME NEW i \in 1 .. Len(incoming') PROVE incoming'[i] \notin kept \cup {h}
        <4>1. i + 1 \in 1 .. Len(incoming) /\ 1 \in 1 .. Len(incoming) /\ i + 1 # 1
          BY <2>3
        <4> QED
          BY <2>3, <4>1 DEF PoolInv, UnitsExact, OneUserPerUnit
      <3>3. ASSUME NEW i \in 1 .. Len(incoming'), NEW j \in 1 .. Len(incoming'),
                   incoming'[i] = incoming'[j]
            PROVE  i = j
        <4>1. i + 1 \in 1 .. Len(incoming) /\ j + 1 \in 1 .. Len(incoming)
          BY <2>3, SMTT(20)
        <4>2. i + 1 = j + 1
          BY <2>3, <3>3, <4>1 DEF PoolInv, UnitsExact, OneUserPerUnit
        <4> QED
          BY <4>2
      <3> QED
        BY <3>1, <3>2, <3>3, SMTT(20)
    <2> HIDE DEF h
    <2>5. CASE UNCHANGED <<taken, numTaken, kept>>
      <3>1. PoolType'
        BY <1>1, <2>1, <2>3, <2>5, ZenonT(60) DEF PoolInv, PoolType, Units, capacity
      <3>2. CounterExact' /\ MarksExact'
        BY <1>1, <2>1, <2>5, ZenonT(60) DEF PoolInv, CounterExact, MarksExact, Units, capacity
      <3>3. UnitsExact'
        BY <1>1, <2>4, <2>5, ZenonT(60) DEF PoolInv, UnitsExact, OneUserPerUnit, DryOnlyOnFailure
      <3> QED
        BY <3>1, <3>2, <3>3 DEF PoolInv
    <2>6. CASE /\ numTaken' = numTaken + 1
               /\ taken' = [taken EXCEPT ![h] = TRUE]
               /\ kept' = kept \cup {h}
      <3>1. /\ taken' \in Seq(BOOLEAN) /\ Len(taken') = Len(taken)
            /\ \A v \in Units : taken'[v] <=> taken[v] \/ v = h
        BY <2>2, <2>3, <2>6 DEF Units, capacity
      <3>2. capacity' = capacity /\ Units' = Units
        BY <3>1, ZenonT(60) DEF capacity, Units
      <3>3. PoolType'
        <4>1. /\ kept' \subseteq Units' /\ incoming' \in Seq(Units')
              /\ avail' \in Units' /\ freeing' \subseteq Units'
          BY <1>1, <2>3, <2>6, <3>2, SMTT(20) DEF PoolInv, PoolType
        <4>2. numTaken' \in Nat
          BY <2>6, SMTT(20) DEF PoolInv, PoolType
        <4> QED BY <1>1, <2>1, <3>1, <3>2, <4>1, <4>2, ZenonT(60) DEF PoolInv, PoolType
      <3>4. Cardinality(kept') = Cardinality(kept) + 1
        BY <2>4, <2>6, CounterBounds, FS_AddElement, Zenon
      <3>5. CounterExact'
        BY <1>1, <2>6, <3>4, CounterBounds DEF PoolInv, CounterExact
      <3>6. MarksExact'
        BY <1>1, <2>1, <2>6, <3>1, <3>2, ZenonT(60) DEF PoolInv, MarksExact
      <3>7. \A v \in kept' : taken'[v]
        BY <2>3, <2>6, <3>1, ZenonT(60) DEF PoolInv, UnitsExact, OneUserPerUnit, PoolType
      <3>8. UnitsExact'
        BY <1>1, <2>4, <2>6, <3>7, ZenonT(60) DEF PoolInv, UnitsExact, OneUserPerUnit, DryOnlyOnFailure
      <3> QED
        BY <3>3, <3>5, <3>6, <3>8 DEF PoolInv
    <2> QED
      BY <1>3, <2>5, <2>6 DEF insert, h
  <1> QED
    BY <1>2, <1>3

\* A reader's two steps: the flag, then the counter.
LEMMA MakeUnitFreeInv == ASSUME PoolInv, PoolAssumption, makeUnitFree PROVE PoolInv'
  <1> USE CounterBounds
  <1>1. ASSUME NEW u \in kept,
               /\ taken' = [taken EXCEPT ![u] = FALSE]
               /\ kept' = kept \ {u} /\ freeing' = freeing \cup {u}
               /\ Cardinality(freeing) < env.readers /\ u \notin freeing
               /\ UNCHANGED <<env, numTaken, avail, pc, incoming, rebuild, dry>>
        PROVE  PoolInv'
    <2>1. u \in Units /\ taken \in Seq(BOOLEAN)
      BY ZenonT(60) DEF PoolInv, PoolType
    <2>2. /\ taken' \in Seq(BOOLEAN) /\ Len(taken') = Len(taken)
          /\ \A v \in Units : taken'[v] <=> taken[v] /\ v # u
      BY <1>1, <2>1 DEF Units, capacity
    <2>3. capacity' = capacity /\ Units' = Units
      BY <2>2, ZenonT(60) DEF capacity, Units
    <2>4. PoolType'
      BY <1>1, <2>1, <2>2, <2>3 DEF PoolInv, PoolType
    <2>5. /\ Cardinality(kept') = Cardinality(kept) - 1
          /\ Cardinality(freeing') = Cardinality(freeing) + 1
      BY <1>1, FS_RemoveElement, FS_AddElement, Zenon
    <2>6. env.readers \in Nat
      BY ZenonT(60) DEF PoolInv, PoolType, PoolAssumption
    <2>7. CounterExact'
      BY <1>1, <2>5, <2>6, SMTT(20) DEF PoolInv, CounterExact
    <2>8. \A i \in 1 .. Len(incoming) : incoming[i] # u
      BY ZenonT(60) DEF PoolInv, UnitsExact, OneUserPerUnit
    <2>9. Incoming' = Incoming /\ u \notin Incoming /\ Incoming \subseteq Units
      <3>1. Incoming' = Incoming /\ u \notin Incoming
        BY <1>1, <2>8, ZenonT(60) DEF Incoming
      <3>2. incoming \in Seq(Units)
        BY ZenonT(60) DEF PoolInv, PoolType
      <3>3. Incoming \subseteq Units
        BY <3>2 DEF Incoming
      <3> QED
        BY <3>1, <3>3, ZenonT(60)
    <2>10. MarksExact'
      BY <1>1, <2>2, <2>3, <2>9, ZenonT(60) DEF PoolInv, MarksExact
    <2>11. UnitsExact'
      BY <1>1, <2>2, ZenonT(60) DEF PoolInv, PoolType, UnitsExact, OneUserPerUnit, DryOnlyOnFailure
    <2> QED
      BY <2>4, <2>7, <2>10, <2>11, ZenonT(60) DEF PoolInv
  <1>2. ASSUME NEW u \in freeing,
               numTaken' = numTaken - 1, freeing' = freeing \ {u},
               UNCHANGED <<env, taken, avail, pc, incoming, rebuild, kept, dry>>
        PROVE  PoolInv'
    <2>1. Cardinality(freeing') = Cardinality(freeing) - 1
      BY <1>2, FS_RemoveElement, ZenonT(30)
    <2>2. Cardinality(freeing') \in Nat /\ env.readers \in Nat
      BY <1>2, FS_RemoveElement, FS_CardinalityType, ZenonT(60) DEF PoolInv, PoolType, PoolAssumption
    <2>3. CounterExact' /\ numTaken' \in Nat
      BY <1>2, <2>1, <2>2 DEF PoolInv, CounterExact
    <2>4. PoolType'
      BY <1>2, <2>3, ZenonT(60) DEF PoolInv, PoolType, Units, capacity
    <2>5. MarksExact' /\ UnitsExact'
      BY <1>2 DEF PoolInv, MarksExact, UnitsExact, OneUserPerUnit, DryOnlyOnFailure, Units,
         capacity, Incoming
    <2> QED
      BY <2>3, <2>4, <2>5 DEF PoolInv
  <1> QED
    BY <1>1, <1>2, ZenonT(60) DEF makeUnitFree

\* For every entry size, any number of rebuilt packets, failing allocations or not, and
\* fewer reading threads than an entry has units: a unit has one user, and the worker
\* goes without one only after a failed allocation.
THEOREM PoolServesAll == ASSUME PoolAssumption PROVE PoolSpec => []UnitsExact
  <1>1. PoolInit => PoolInv
    BY PoolInitInv
  <1>2. PoolInv /\ [PoolNext]_poolVars => PoolInv'
    <2>1. ASSUME PoolInv, UNCHANGED poolVars PROVE PoolInv'
      <3>1. UNCHANGED <<env, taken, numTaken, avail, pc, incoming, rebuild, kept, freeing, dry>>
        BY <2>1, ZenonT(60) DEF poolVars
      <3>2. Units' = Units /\ capacity' = capacity /\ Incoming' = Incoming
        BY <3>1, ZenonT(60) DEF Units, capacity, Incoming
      <3>3. PoolType'
        BY <2>1, <3>1, <3>2, ZenonT(60) DEF PoolInv, PoolType
      <3>4. CounterExact' /\ MarksExact'
        BY <2>1, <3>1, <3>2, ZenonT(60) DEF PoolInv, CounterExact, MarksExact
      <3>5. UnitsExact'
        BY <2>1, <3>1, ZenonT(60) DEF PoolInv, UnitsExact, OneUserPerUnit, DryOnlyOnFailure
      <3> QED
        BY <3>3, <3>4, <3>5, ZenonT(60) DEF PoolInv
    <2> QED
      BY <2>1, RetrieveInv, ReceiveInv, InsertRebuiltInv, SetAllFreeInv, InsertInv,
         MakeUnitFreeInv, ZenonT(60) DEF PoolNext
  <1>3. PoolInv => UnitsExact
    BY DEF PoolInv
  <1> QED
    BY <1>1, <1>2, <1>3, PTL DEF PoolSpec

=============================================================================
