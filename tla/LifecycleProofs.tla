--------------------------- MODULE LifecycleProofs ---------------------------
(***************************************************************************)
(* Proofs about Lifecycle, second part: the steps that give a multiplexer  *)
(* a user or take one from it, accept(), and the theorems.  For any number *)
(* of sockets, any options and any interleaving of close(), accept(), the  *)
(* workers and the collector, no deleted socket is referred to, no dead    *)
(* socket is handed out, and the reference counts of the multiplexers are  *)
(* exact.                                                                  *)
(***************************************************************************)
EXTENDS LifecycleStepProofs, FiniteSetTheorems, WellFoundedInduction

-----------------------------------------------------------------------------
(* Steps that change the users of a multiplexer, and accept() *)

(* A socket joins multiplexer m: one more user, one more reference. *)
LEMMA UserJoins ==
  ASSUME SocksOk, MuxOk, RefsOk, NEW s \in Socks, NEW m \in Socks, mux[m] # NoMux,
         sock[s].mux = None, \A x \in Socks \ {s} : sock'[x] = sock[x],
         Exists(s)', sock'[s].mux = m, mux' = [mux EXCEPT ![m].refs = @ + 1]
  PROVE  MuxOk' /\ RefsOk' /\ \A k \in Socks : mux'[k].listener = mux[k].listener
<1>1. mux'[m] = [mux[m] EXCEPT !.refs = @ + 1] /\ \A k \in Socks \ {m} : mux'[k] = mux[k]
  BY DEF MuxOk, Map
<1>2. Map(mux')
  BY Zenon DEF MuxOk, Map
<1>3. IsMux(mux[m]) /\ mux[m].refs \in Nat \ {0}
  BY DEF MuxOk
<1>4. /\ IsMux(mux'[m]) /\ mux'[m].refs = mux[m].refs + 1
      /\ mux'[m].listener = mux[m].listener
  BY <1>1, <1>3 DEF IsMux
<1>5. mux'[m].refs \in Nat \ {0} /\ mux'[m] # NoMux
  BY <1>3, <1>4 DEF NoMux
<1>6. MuxOk'
  BY <1>1, <1>2, <1>4, <1>5 DEF MuxOk
<1>7. \A k \in Socks : mux'[k].listener = mux[k].listener
  BY <1>1, <1>4
<1>8. m # None
  BY IdsAssumption DEF Socks, None
<1>9. s \notin Users(m) /\ Users(m)' = Users(m) \cup {s}
  BY <1>8 DEF Users, Exists
<1>10. ASSUME NEW k \in Socks \ {m} PROVE Users(k)' = Users(k)
  <2>1. k # None
    BY IdsAssumption DEF Socks, None
  <2> QED BY <2>1 DEF Users, Exists
<1>11. IsFiniteSet(Users(m))
  BY IdsAssumption, FS_Subset DEF Users, Socks
<1>12. Cardinality(Users(m)') = Cardinality(Users(m)) + 1
  BY <1>9, <1>11, FS_AddElement, Zenon
<1>13. ASSUME NEW k \in Socks, mux'[k] # NoMux PROVE mux'[k].refs = Cardinality(Users(k)')
  <2>1. CASE k = m
    <3>1. mux[m].refs = Cardinality(Users(m))
      BY DEF RefsOk
    <3> QED BY <1>4, <1>12, <2>1, <3>1
  <2>2. CASE k # m
    <3>1. mux'[k] = mux[k] /\ Users(k)' = Users(k)
      BY <1>1, <1>10, <2>2
    <3>2. mux[k].refs = Cardinality(Users(k))
      BY <1>13, <3>1 DEF RefsOk
    <3> QED BY <3>1, <3>2, Zenon
  <2> QED BY <2>1, <2>2
<1>14. ASSUME NEW x \in Socks, Exists(x)', sock'[x].mux # None PROVE mux'[sock'[x].mux] # NoMux
  <2>1. CASE x = s
    BY <1>5, <2>1
  <2>2. CASE x # s
    <3>1. mux[sock[x].mux] # NoMux /\ sock'[x] = sock[x] /\ sock[x].mux \in Socks
      BY <1>14, <2>2 DEF RefsOk, Exists, SocksOk, SockOk, Typed
    <3> QED BY <1>1, <1>5, <3>1
  <2> QED BY <2>1, <2>2
<1> QED BY <1>6, <1>7, <1>13, <1>14 DEF RefsOk

(* A socket opens a multiplexer of its own: one user, one reference. *)
LEMMA UserInstalls ==
  ASSUME SocksOk, MuxOk, RefsOk, ListenerOk, NEW s \in Socks, NEW req, mux[s] = NoMux,
         sock[s].mux = None, \A x \in Socks \ {s} : sock'[x] = sock[x],
         Exists(s)', sock'[s].mux = s, installNew(s, req)
  PROVE  MuxOk' /\ RefsOk' /\ \A k \in Socks : mux'[k].listener = mux[k].listener
<1>1. /\ mux'[s] = [addr |-> req, cfg |-> env.cfg, refs |-> 1, listener |-> None]
      /\ \A k \in Socks \ {s} : mux'[k] = mux[k]
  BY DEF MuxOk, Map, installNew
<1>2. Map(mux')
  BY Zenon DEF MuxOk, Map, installNew
<1>3. IsMux(mux'[s]) /\ mux'[s].refs = 1 /\ mux'[s].listener = None /\ mux'[s] # NoMux
  BY <1>1 DEF IsMux, NoMux
<1>4. MuxOk'
  BY <1>1, <1>2, <1>3 DEF MuxOk
<1>5. \A k \in Socks : mux'[k].listener = mux[k].listener
  BY <1>1, <1>3 DEF NoMux
<1>6. s # None
  BY IdsAssumption DEF Socks, None
<1>7. Users(s)' = {s}
  BY <1>6 DEF Users, Exists, RefsOk
<1>8. ASSUME NEW k \in Socks \ {s} PROVE Users(k)' = Users(k)
  <2>1. k # None
    BY IdsAssumption DEF Socks, None
  <2> QED BY <2>1 DEF Users, Exists
<1>9. Cardinality({s}) = 1
  BY FS_Singleton, Zenon
<1>13. ASSUME NEW k \in Socks, mux'[k] # NoMux PROVE mux'[k].refs = Cardinality(Users(k)')
  <2>1. CASE k = s
    BY <1>3, <1>7, <1>9, <2>1
  <2>2. CASE k # s
    <3>1. mux'[k] = mux[k] /\ Users(k)' = Users(k)
      BY <1>1, <1>8, <2>2
    <3>2. mux[k].refs = Cardinality(Users(k))
      BY <1>13, <3>1 DEF RefsOk
    <3> QED BY <3>1, <3>2
  <2> QED BY <2>1, <2>2
<1>14. ASSUME NEW x \in Socks, Exists(x)', sock'[x].mux # None PROVE mux'[sock'[x].mux] # NoMux
  <2>1. CASE x = s
    BY <1>3, <2>1
  <2>2. CASE x # s
    <3>1. mux[sock[x].mux] # NoMux /\ sock'[x] = sock[x] /\ sock[x].mux \in Socks
      BY <1>14, <2>2 DEF RefsOk, Exists, SocksOk, SockOk, Typed
    <3> QED BY <1>1, <1>3, <3>1
  <2> QED BY <2>1, <2>2
<1> QED BY <1>4, <1>5, <1>13, <1>14 DEF RefsOk

(* An open socket without a multiplexer is given one. *)
LEMMA GetsMux ==
  ASSUME Inv, NEW s \in Socks, Only(s), UNCHANGED <<conn, gc, forced, env>>,
         sock[s].at = "open", sock[s].given, sock[s].mux = None,
         Same(sock[s], sock'[s], {"opened", "st", "mux", "connecting"}), sock'[s].st # "INIT",
         SockOk(sock'[s], closer'[s], acceptor'[s], forced),
         MuxOk', RefsOk', \A k \in Socks : mux'[k].listener = mux[k].listener
  PROVE  Inv'
<1> DEFINE r == sock[s]
           rp == sock'[s]
<1>1. /\ rp.at = "open" /\ rp.queue = r.queue /\ rp.lsn = r.lsn /\ rp.given
      /\ rp.listening = r.listening /\ rp.ready = r.ready /\ rp.age = r.age
  BY DEF Same, SockFields
<1>2. \A x \in Socks \ {s} : sock'[x] = sock[x]
  BY DEF Only
<1>3. Maps' /\ SocksOk'
  BY OneSockOk
<1>4. ConnOk'
  BY <1>1, <1>2, IdsAssumption, SMTT(20) DEF Inv, ConnOk, Fresh, Socks
<1>5. QueueOk'
  <2>1. SUFFICES ASSUME NEW l \in Socks, NEW q \in sock'[l].queue
                 PROVE  /\ sock'[q].at # "free" /\ ~(conn.pc = "made" /\ conn.s = q)
                        /\ ~forced /\ sock'[l].at \in {"open", "closed"} =>
                             /\ sock'[q].at = "open" /\ sock'[q].lsn = l
                             /\ ~sock'[q].given /\ sock'[q].st # "INIT"
    BY DEF QueueOk
  <2>2. q \in sock[l].queue /\ sock'[l].at = sock[l].at
    BY <1>1, <1>2
  <2>3. q \in Socks
    BY <2>2 DEF Inv, SocksOk, SockOk, Typed, Socks
  <2> QED BY <1>1, <1>2, <2>2, <2>3, SMTT(20) DEF Inv, QueueOk
<1>6. ReadyOk'
  BY <1>1, <1>2 DEF Inv, ReadyOk, Exists
<1>7. GcOk'
  BY <1>1, <1>2 DEF Inv, GcOk
<1>8. ListenerOk'
  <2>1. \A m \in Socks : mux[m].listener # s
    BY IdsAssumption, SMTT(20) DEF Inv, ListenerOk, Socks, None
  <2> QED BY <1>2, <2>1 DEF Inv, ListenerOk, Exists
<1> QED BY <1>3, <1>4, <1>5, <1>6, <1>7, <1>8 DEF Inv

(* bind() reuses a multiplexer, opens one, or is refused. *)
LEMMA BindKeeps ==
  ASSUME Inv, NEW s \in Socks, NEW req, bind(s, req)
  PROVE  Inv'
<1> DEFINE r == sock[s]
           rp == sock'[s]
<1>1. SockOk(r, closer[s], acceptor[s], forced) /\ Maps
  BY DEF Inv, SocksOk
<1>2. /\ r.at = "open" /\ r.given /\ r.st = "INIT" /\ closer[s] \in {"idle", "entered"}
      /\ closer' = closer /\ acceptor' = acceptor /\ UNCHANGED <<conn, gc, forced, env>>
  BY DEF bind, Open, ControlFree
<1>3. r.mux = None /\ IsRec(r)
  BY <1>1, <1>2 DEF SockOk, Local
<1>4. Only(s)
  BY <1>1, ZenonT(30) DEF bind, Only, Maps, Map
<1>5. \/ \E m \in Socks : /\ rp = [r EXCEPT !.opened = TRUE, !.st = "OPENED", !.mux = m]
                          /\ \/ m = s /\ mux[s] = NoMux /\ installNew(s, req)
                             \/ mux[m] # NoMux /\ mux' = [mux EXCEPT ![m].refs = @ + 1]
      \/ rp = [r EXCEPT !.opened = TRUE] /\ UNCHANGED mux
  <2> DEFINE hit == FirstAnswer(req)
  <2>1. hit \subseteq Socks /\ \A m \in hit : mux[m] # NoMux
    BY DEF FirstAnswer, Muxes
  <2> HIDE DEF hit
  <2>2. \/ /\ mux[s] = NoMux /\ installNew(s, req)
           /\ sock' = [sock EXCEPT ![s].opened = TRUE, ![s].st = "OPENED", ![s].mux = s]
        \/ \E m \in hit :
             \/ /\ mux' = [mux EXCEPT ![m].refs = @ + 1]
                /\ sock' = [sock EXCEPT ![s].opened = TRUE, ![s].st = "OPENED", ![s].mux = m]
             \/ sock' = [sock EXCEPT ![s].opened = TRUE] /\ UNCHANGED mux
    BY ZenonT(30) DEF bind, hit
  <2>3. CASE /\ mux[s] = NoMux /\ installNew(s, req)
             /\ sock' = [sock EXCEPT ![s].opened = TRUE, ![s].st = "OPENED", ![s].mux = s]
    BY <1>1, <2>3, Zenon DEF Maps, Map
  <2>4. ASSUME NEW m \in hit, mux' = [mux EXCEPT ![m].refs = @ + 1],
               sock' = [sock EXCEPT ![s].opened = TRUE, ![s].st = "OPENED", ![s].mux = m]
        PROVE  /\ m \in Socks /\ mux[m] # NoMux
               /\ rp = [r EXCEPT !.opened = TRUE, !.st = "OPENED", !.mux = m]
    BY <1>1, <2>1, <2>4 DEF Maps, Map
  <2>5. ASSUME sock' = [sock EXCEPT ![s].opened = TRUE]
        PROVE  rp = [r EXCEPT !.opened = TRUE]
    BY <1>1, <2>5 DEF Maps, Map
  <2> HIDE DEF r, rp
  <2> QED BY <2>2, <2>3, <2>4, <2>5, Zenon
<1> HIDE DEF r, rp
<1>6. ASSUME NEW m \in Socks, rp = [r EXCEPT !.opened = TRUE, !.st = "OPENED", !.mux = m],
             \/ m = s /\ mux[s] = NoMux /\ installNew(s, req)
             \/ mux[m] # NoMux /\ mux' = [mux EXCEPT ![m].refs = @ + 1]
      PROVE  Inv'
  <2>1. Same(r, rp, {"opened", "st", "mux", "connecting"})
    BY <1>3, <1>6, Zenon DEF Same, IsRec, SockFields
  <2>2. rp.st = "OPENED" /\ rp.mux = m /\ rp.connecting = r.connecting /\ rp.at = r.at
    BY <1>3, <1>6 DEF IsRec, SockFields
  <2>3. m # None
    BY IdsAssumption DEF Socks, None
  <2>4. SockOk(rp, closer'[s], acceptor'[s], forced)
    BY <1>1, <1>2, <2>1, <2>2, <2>3 DEF SockOk, Same, SockFields, Typed, Local, Fresh, Unset
  <2>5. \A x \in Socks \ {s} : sock'[x] = sock[x]
    BY <1>4 DEF Only
  <2>6. Exists(s)'
    BY <1>2, <2>2 DEF Exists, rp
  <2>7. MuxOk' /\ RefsOk' /\ \A k \in Socks : mux'[k].listener = mux[k].listener
    <3>1. CASE m = s /\ mux[s] = NoMux /\ installNew(s, req)
      BY <1>3, <2>2, <2>5, <2>6, <3>1, UserInstalls DEF Inv, r, rp
    <3>2. CASE mux[m] # NoMux /\ mux' = [mux EXCEPT ![m].refs = @ + 1]
      BY <1>3, <2>2, <2>5, <2>6, <3>2, UserJoins, Zenon DEF Inv, r, rp
    <3> QED BY <1>6, <3>1, <3>2
  <2>8. rp.st # "INIT"
    BY <2>2
  <2> QED BY <1>2, <1>3, <1>4, <2>1, <2>4, <2>7, <2>8, GetsMux DEF r, rp
<1>7. ASSUME rp = [r EXCEPT !.opened = TRUE], UNCHANGED mux
      PROVE  Inv'
  <2>1. Same(r, rp, {"opened"})
    BY <1>3, <1>7, Zenon DEF Same, IsRec, SockFields
  <2>2. Kept(r, rp)
    BY <2>1 DEF Same, SockFields, Kept
  <2>3. SockOk(rp, closer'[s], acceptor'[s], forced)
    BY <1>1, <1>2, <2>1 DEF SockOk, Same, SockFields, Typed, Local, Fresh, Unset
  <2>4. Rest
    BY <1>2, <1>7 DEF Rest
  <2> QED BY <1>4, <2>2, <2>3, <2>4, KeptStep DEF r, rp
<1> QED BY <1>5, <1>6, <1>7, Zenon

(* connect() opens a multiplexer of its own, or uses the one it is bound to. *)
LEMMA ConnectKeeps ==
  ASSUME Inv, NEW s \in Socks, connectIn(s)
  PROVE  Inv'
<1> DEFINE r == sock[s]
           rp == sock'[s]
<1>1. SockOk(r, closer[s], acceptor[s], forced) /\ Maps
  BY DEF Inv, SocksOk
<1>2. /\ r.at = "open" /\ r.given /\ closer[s] \in {"idle", "entered"}
      /\ closer' = closer /\ acceptor' = acceptor /\ UNCHANGED <<conn, gc, forced, env>>
  BY DEF connectIn, locateSocket, Open, ControlFree
<1>3. IsRec(r)
  BY <1>1 DEF SockOk
<1>4. Only(s)
  BY <1>1, ZenonT(30) DEF connectIn, Only, Maps, Map
<1>5. CASE /\ r.st = "INIT" /\ mux[s] = NoMux /\ installNew(s, Autoselect(s))
           /\ sock' = [sock EXCEPT ![s].opened = TRUE, ![s].st = "CONNECTING",
                                   ![s].connecting = TRUE, ![s].mux = s]
  <2>1. rp = [r EXCEPT !.opened = TRUE, !.st = "CONNECTING", !.connecting = TRUE, !.mux = s]
    BY <1>1, <1>5 DEF Maps, Map
  <2> HIDE DEF r, rp
  <2>2. Same(r, rp, {"opened", "st", "mux", "connecting"})
    BY <1>3, <2>1, Zenon DEF Same, IsRec, SockFields
  <2>3. rp.st = "CONNECTING" /\ rp.mux = s /\ rp.at = r.at
    BY <1>3, <2>1 DEF IsRec, SockFields
  <2>4. r.mux = None
    BY <1>1, <1>2, <1>5 DEF SockOk, Local
  <2>5. SockOk(rp, closer'[s], acceptor'[s], forced)
    BY <1>1, <1>2, <1>5, <2>2, <2>3 DEF SockOk, Same, SockFields, Typed, Local, Fresh, Unset
  <2>6. \A x \in Socks \ {s} : sock'[x] = sock[x]
    BY <1>4 DEF Only
  <2>7. Exists(s)'
    BY <1>2, <2>3 DEF Exists, rp
  <2>8. MuxOk' /\ RefsOk' /\ \A k \in Socks : mux'[k].listener = mux[k].listener
    BY <1>5, <2>3, <2>4, <2>6, <2>7, UserInstalls, Zenon DEF Inv, r, rp
  <2>9. rp.st # "INIT"
    BY <2>3
  <2> QED BY <1>2, <1>4, <2>2, <2>4, <2>5, <2>8, <2>9, GetsMux, Zenon DEF r, rp
<1>6. CASE /\ r.st = "OPENED" /\ UNCHANGED mux
           /\ sock' = [sock EXCEPT ![s].st = "CONNECTING", ![s].connecting = TRUE]
  <2>1. rp = [r EXCEPT !.st = "CONNECTING", !.connecting = TRUE]
    BY <1>1, <1>6 DEF Maps, Map
  <2> HIDE DEF r, rp
  <2>2. Same(r, rp, {"st", "connecting"})
    BY <1>3, <2>1, Zenon DEF Same, IsRec, SockFields
  <2>3. rp.st = "CONNECTING"
    BY <1>3, <2>1 DEF IsRec, SockFields
  <2>4. Kept(r, rp)
    BY <1>6, <2>2, <2>3 DEF Same, SockFields, Kept
  <2>5. SockOk(rp, closer'[s], acceptor'[s], forced)
    BY <1>1, <1>2, <1>6, <2>2, <2>3 DEF SockOk, Same, SockFields, Typed, Local, Fresh, Unset
  <2>6. Rest
    BY <1>2, <1>6 DEF Rest
  <2> QED BY <1>4, <2>4, <2>5, <2>6, KeptStep DEF r, rp
<1> QED BY <1>5, <1>6, Zenon DEF connectIn

(* newConnection: the new socket joins m_Sockets and the multiplexer of the *)
(* listener.                                                                *)
LEMMA NewConnectionKeeps ==
  ASSUME Inv, NEW l \in AppSocks, NEW s \in Socks, newConnection(l, s)
  PROVE  Inv'
<1> DEFINE r == sock[s]
           rp == sock'[s]
           m == sock[l].mux
<1>1. SockOk(r, closer[s], acceptor[s], forced) /\ Maps /\ l \in Socks
  BY DEF Inv, SocksOk, Socks
<1>2. /\ conn.pc = "idle" /\ s \in PeerSocks /\ r.at = "free" /\ sock[l].at = "open"
      /\ m # None /\ conn' = [l |-> l, s |-> s, pc |-> "made"]
      /\ mux' = [mux EXCEPT ![m].refs = @ + 1]
      /\ closer' = closer /\ acceptor' = acceptor /\ UNCHANGED <<gc, forced, env>>
  BY DEF newConnection, updateListenerMux, locateSocket, Open
<1>3. rp = [r EXCEPT !.at = "open", !.opened = TRUE, !.lsn = l, !.mux = m]
  BY <1>1 DEF newConnection, updateListenerMux, Maps, Map
<1>4. Only(s) /\ l # s
  BY <1>1, <1>2, Zenon DEF newConnection, updateListenerMux, Only, Maps, Map
<1>5. IsRec(r) /\ m \in Socks
  BY <1>1, <1>2 DEF SockOk, Inv, SocksOk, Typed
<1>6. mux[m] # NoMux
  BY <1>1, <1>2 DEF Inv, RefsOk, Exists
<1> HIDE DEF r, rp, m
<1>7. Same(r, rp, {"at", "opened", "lsn", "mux"})
  BY <1>3, <1>5, Zenon DEF Same, IsRec, SockFields
<1>8. rp.at = "open" /\ rp.lsn = l /\ rp.mux = m
  BY <1>3, <1>5 DEF IsRec, SockFields
<1>9. SockOk(rp, closer'[s], acceptor'[s], forced)
  BY <1>1, <1>2, <1>5, <1>7, <1>8 DEF SockOk, Same, SockFields, Typed, Local, Fresh, Unset
<1>10. r.mux = None /\ rp.queue = {} /\ ~rp.given /\ rp.st = "INIT"
  BY <1>1, <1>2, <1>7 DEF SockOk, Same, SockFields, Local
<1>11. \A x \in Socks \ {s} : sock'[x] = sock[x]
  BY <1>4 DEF Only
<1>12. MuxOk' /\ RefsOk' /\ \A k \in Socks : mux'[k].listener = mux[k].listener
  <2>1. Exists(s)'
    BY <1>8 DEF Exists, rp
  <2> QED BY <1>2, <1>5, <1>6, <1>8, <1>10, <1>11, <2>1, UserJoins, Zenon DEF Inv, r, rp
<1>13. Maps' /\ SocksOk'
  BY <1>2, <1>4, <1>9, OneSockOk DEF rp
<1>14. ConnOk'
  BY <1>1, <1>2, <1>4, <1>8, <1>10, <1>11 DEF ConnOk, Fresh, rp
<1>15. QueueOk'
  <2>1. SUFFICES ASSUME NEW k \in Socks, NEW q \in sock'[k].queue
                 PROVE  /\ sock'[q].at # "free" /\ ~(conn'.pc = "made" /\ conn'.s = q)
                        /\ ~forced /\ sock'[k].at \in {"open", "closed"} =>
                             /\ sock'[q].at = "open" /\ sock'[q].lsn = k
                             /\ ~sock'[q].given /\ sock'[q].st # "INIT"
    BY <1>2 DEF QueueOk
  <2>2. k # s /\ sock'[k] = sock[k] /\ q \in sock[k].queue
    BY <1>10, <1>11 DEF rp
  <2>3. q \in Socks /\ sock[q].at # "free"
    BY <2>2 DEF Inv, SocksOk, SockOk, Typed, Socks, QueueOk
  <2>4. q # s /\ sock'[q] = sock[q]
    BY <1>2, <1>11, <2>3 DEF r
  <2> QED BY <1>2, <2>2, <2>4 DEF Inv, QueueOk
<1>16. ReadyOk'
  BY <1>2, <1>10, <1>11 DEF Inv, ReadyOk, Exists, rp
<1>17. GcOk'
  <2>1. gc' = gc /\ \A x \in Socks : sock[x].at \in {"closed", "removing"} => sock'[x] = sock[x]
    BY <1>2, <1>11 DEF r
  <2> QED BY <1>12, <2>1 DEF Inv, GcOk
<1>18. ListenerOk'
  <2>1. \A x \in Socks : Exists(x) => sock'[x] = sock[x]
    BY <1>2, <1>11, SMTT(20) DEF r, Exists
  <2> QED BY <1>12, <2>1 DEF Inv, ListenerOk, Exists
<1> QED BY <1>12, <1>13, <1>14, <1>15, <1>16, <1>17, <1>18 DEF Inv

(* A set of natural numbers has a least element. *)
LEMMA LeastElement ==
  ASSUME NEW S \in SUBSET Nat, S # {}
  PROVE  \E x \in S : \A y \in S : x <= y
<1>1. PICK x \in S : \A y \in S : ~(<<y, x>> \in OpToRel(<, Nat))
  BY NatLessThanWellFounded, WFMin, Zenon
<1>2. \A y \in S : ~(y < x)
  BY <1>1, Zenon DEF OpToRel
<1>3. \A y \in S : x <= y
  BY <1>2
<1> QED BY <1>3

(* accept() takes a socket nobody else has from the queue, waits, or gives  *)
(* up on a closed listener.                                                 *)
LEMMA AcceptKeeps ==
  ASSUME Inv, NEW l \in Socks, accept(l)
  PROVE  Inv'
<1> DEFINE r == sock[l]
           rp == sock'[l]
           u == CHOOSE u \in r.queue : \A v \in r.queue : u <= v
<1>1. SockOk(r, closer[l], acceptor[l], forced) /\ Maps /\ IsRec(r)
  BY SMTT(20) DEF Inv, SocksOk, SockOk
<1>2. /\ acceptor[l] \in {"started", "woken"} /\ ~forced /\ r.given /\ Fresh(r)
      /\ closer' = closer /\ UNCHANGED <<mux, conn, gc, forced, env>>
  BY <1>1 DEF accept, SockOk, Local
<1>3. ConnOk /\ \A k \in Socks : \A q \in sock[k].queue : q \in Socks
  BY DEF Inv, SocksOk, SockOk, Typed, Socks
<1>4. ASSUME acceptor' = [acceptor EXCEPT ![l] = "idle"] \/
               (acceptor' = [acceptor EXCEPT ![l] = "waiting"] /\ r.st = "LISTENING"),
             sock' = [sock EXCEPT ![l].ready = StillReady(l, r.queue)] \/
               (sock' = [sock EXCEPT ![l].ready = FALSE] /\ r.queue = {})
      PROVE  Inv'
  <2> DEFINE b == rp.ready
  <2>1. /\ rp = [r EXCEPT !.ready = StillReady(l, r.queue)] \/
             (rp = [r EXCEPT !.ready = FALSE] /\ r.queue = {})
        /\ acceptor'[l] = "idle" \/ (acceptor'[l] = "waiting" /\ r.st = "LISTENING")
    BY <1>1, <1>4, Zenon DEF Maps, Map
  <2>2. Only(l)
    BY <1>1, <1>2, <1>4, Zenon DEF Only, Maps, Map
  <2> HIDE DEF r, rp
  <2>3. Same(r, rp, {"ready"})
    BY <1>1, <2>1, Zenon DEF Same, IsRec, SockFields
  <2>4. r.queue # {} /\ r.ready => rp.ready
    <3>1. CASE rp = [r EXCEPT !.ready = StillReady(l, r.queue)]
      BY <1>1, <3>1, Zenon DEF IsRec, SockFields, StillReady, r
    <3> QED BY <2>1, <3>1
  <2>5. SockOk(rp, closer'[l], acceptor'[l], forced)
    BY <1>1, <1>2, <2>1, <2>3 DEF SockOk, Same, SockFields, Typed, Local, Fresh, Unset
  <2>6. \A x \in Socks : /\ Alike(sock[x], sock'[x]) /\ sock'[x].queue = sock[x].queue
                         /\ sock'[x].given = sock[x].given /\ sock'[x].st = sock[x].st
                         /\ sock'[x].age = sock[x].age
                         /\ sock[x].queue # {} /\ sock[x].ready => sock'[x].ready
    BY <2>2, <2>3, <2>4, SMTT(20) DEF Only, Alike, Same, SockFields, r, rp
  <2>7. GcOk' /\ ListenerOk' /\ MuxOk' /\ RefsOk'
    BY <1>2, <2>6, AlikeKeeps, SMTT(20)
  <2>8. Maps' /\ SocksOk'
    BY <1>2, <2>2, <2>5, OneSockOk DEF rp
  <2>9. ConnOk'
    BY <1>2, <1>3, <2>6, SMTT(20) DEF ConnOk, Fresh, Alike, Socks
  <2>10. QueueOk'
    BY <1>2, <1>3, <2>6, SMTT(20) DEF Inv, QueueOk, Alike
  <2>11. ReadyOk'
    BY <1>2, <2>6, SMTT(20) DEF Inv, ReadyOk, Exists, Alike
  <2> QED BY <2>7, <2>8, <2>9, <2>10, <2>11 DEF Inv
<1>5. ASSUME r.st = "LISTENING", r.queue # {}, acceptor' = [acceptor EXCEPT ![l] = "idle"],
             sock' = [sock EXCEPT ![l].queue = @ \ {u},
                                  ![l].ready = StillReady(l, r.queue \ {u}),
                                  ![u].given = TRUE]
      PROVE  Inv'
  <2> DEFINE a == sock[u]
             ap == sock'[u]
  <2>1. u \in r.queue
    <3>1. r.queue \in SUBSET Nat
      BY <1>1, IdsAssumption, Zenon DEF SockOk, Typed
    <3> QED BY <1>5, <3>1, LeastElement, SMTT(20)
  <2> HIDE DEF u
  <2>2. /\ u \in Socks /\ u # l /\ a.at = "open" /\ a.lsn = l /\ ~a.given /\ a.st # "INIT"
        /\ ~(conn.pc = "made" /\ conn.s = u)
    <3>1. r.at = "open"
      BY <1>1, <1>5 DEF SockOk, Local
    <3> QED BY <1>2, <1>3, <2>1, <3>1 DEF Inv, QueueOk
  <2>3. rp = [r EXCEPT !.queue = @ \ {u}, !.ready = StillReady(l, r.queue \ {u})]
    BY <1>1, <1>5, <2>2, Zenon DEF Maps, Map
  <2>4. ap = [a EXCEPT !.given = TRUE]
    BY <1>1, <1>5, <2>2, Zenon DEF Maps, Map
  <2>5. Maps' /\ (\A x \in Socks \ {l, u} : sock'[x] = sock[x])
        /\ acceptor'[l] = "idle" /\ \A x \in Socks \ {l} : acceptor'[x] = acceptor[x]
    BY <1>1, <1>2, <1>5, <2>2, Zenon DEF Maps, Map
  <2>6. SockOk(a, closer[u], acceptor[u], forced) /\ IsRec(a)
    BY <2>2 DEF Inv, SocksOk, SockOk
  <2> HIDE DEF r, rp, a, ap
  <2>7. Same(r, rp, {"queue", "ready"}) /\ Same(a, ap, {"given"})
    BY <1>1, <2>3, <2>4, <2>6, Zenon DEF Same, IsRec, SockFields
  <2>8. rp.queue = r.queue \ {u} /\ ap.given = TRUE
    BY <1>1, <2>3, <2>4, <2>6 DEF IsRec, SockFields
  <2>9. r.queue \ {u} # {} /\ r.ready => rp.ready
    BY <1>1, <2>3, ZenonT(30) DEF IsRec, SockFields, StillReady, r
  <2>10. SockOk(rp, closer'[l], acceptor'[l], forced)
    BY <1>1, <1>2, <2>5, <2>7, <2>8, SMTT(20) DEF SockOk, Same, SockFields, Typed, Local, Fresh, Unset
  <2>11. SockOk(ap, closer'[u], acceptor'[u], forced)
    BY <1>2, <2>2, <2>5, <2>6, <2>7, <2>8
  , SMTT(20) DEF SockOk, Same, SockFields, Typed, Local, Fresh, Unset
  <2>12. \A x \in Socks : /\ Alike(sock[x], sock'[x]) /\ sock'[x].age = sock[x].age
                          /\ x # l => /\ sock'[x].queue = sock[x].queue
                                      /\ sock'[x].ready = sock[x].ready
                          /\ x # u => sock'[x].given = sock[x].given
                          /\ sock'[x].st = sock[x].st
    BY <2>5, <2>7 DEF Alike, Same, SockFields, r, rp, a, ap
  <2>13. GcOk' /\ ListenerOk' /\ MuxOk' /\ RefsOk'
    BY <1>2, <2>12, AlikeKeeps
  <2>14. SocksOk'
    BY <1>2, <2>5, <2>10, <2>11, SMTT(20) DEF Inv, SocksOk, rp, ap
  <2>15. ConnOk'
    BY <1>2, <1>3, <2>2, <2>12 DEF ConnOk, Fresh, Alike, Socks
  <2>16. QueueOk'
    <3>1. SUFFICES ASSUME NEW k \in Socks, NEW q \in sock'[k].queue
                   PROVE  /\ sock'[q].at # "free" /\ ~(conn.pc = "made" /\ conn.s = q)
                          /\ ~forced /\ sock'[k].at \in {"open", "closed"} =>
                               /\ sock'[q].at = "open" /\ sock'[q].lsn = k
                               /\ ~sock'[q].given /\ sock'[q].st # "INIT"
      BY <1>2 DEF QueueOk
    <3>2. q \in sock[k].queue /\ (k = l => q # u)
      BY <2>8, <2>12 DEF r, rp
    <3>3. q \in Socks
      BY <1>3, <3>2
    <3>4. /\ sock[q].at # "free" /\ ~(conn.pc = "made" /\ conn.s = q)
          /\ sock[k].at \in {"open", "closed"} =>
               /\ sock[q].at = "open" /\ sock[q].lsn = k
               /\ ~sock[q].given /\ sock[q].st # "INIT"
      BY <1>2, <3>2 DEF Inv, QueueOk
    <3>5. sock[k].at \in {"open", "closed"} => q # u
      BY <2>2, <3>2, <3>4, SMTT(20) DEF a
    <3> QED BY <2>12, <3>3, <3>4, <3>5, SMTT(20) DEF Alike
  <2>17. ReadyOk'
    BY <1>2, <2>8, <2>9, <2>12 DEF Inv, ReadyOk, Exists, Alike, r, rp
  <2> QED BY <2>5, <2>13, <2>14, <2>15, <2>16, <2>17, SMTT(20) DEF Inv
<1>6. \/ /\ acceptor' = [acceptor EXCEPT ![l] = "idle"]
         /\ sock' = [sock EXCEPT ![l].ready = StillReady(l, r.queue)]
      \/ /\ r.st = "LISTENING" /\ r.queue # {} /\ acceptor' = [acceptor EXCEPT ![l] = "idle"]
         /\ sock' = [sock EXCEPT ![l].queue = @ \ {u},
                                  ![l].ready = StillReady(l, r.queue \ {u}),
                                  ![u].given = TRUE]
      \/ /\ r.st = "LISTENING" /\ r.queue = {}
         /\ sock' = [sock EXCEPT ![l].ready = FALSE]
         /\ acceptor' = [acceptor EXCEPT ![l] = "waiting"]
  BY Zenon DEF accept
<1> HIDE DEF r, u
<1> QED BY <1>4, <1>5, <1>6, Zenon

(* A reference of multiplexer m is given back, and with the last one m. *)
Released(m) ==
  mux' = IF mux[m].refs = 1 THEN [mux EXCEPT ![m] = NoMux] ELSE [mux EXCEPT ![m].refs = @ - 1]

(* A socket that is deleted gives its reference back. *)
LEMMA UserLeaves ==
  ASSUME SocksOk, MuxOk, RefsOk, NEW u \in Socks, Exists(u), ~Exists(u)', sock[u].mux # None,
         \A x \in Socks \ {u} : sock'[x] = sock[x],
         Released(sock[u].mux)
  PROVE  /\ MuxOk' /\ RefsOk'
         /\ \A k \in Socks : mux'[k].listener \in {None, mux[k].listener}
<1>1. PICK m \in Socks : m = sock[u].mux
  BY DEF SocksOk, SockOk, Typed
<1>2. mux[m] # NoMux
  BY <1>1, SMTT(20) DEF RefsOk
<1>3. mux[m].refs \in Nat \ {0} /\ IsMux(mux[m]) /\ mux[m].refs = Cardinality(Users(m))
  BY <1>1, <1>2, SMTT(20) DEF RefsOk, MuxOk
<1>4. Users(m) \subseteq Socks /\ IsFiniteSet(Users(m)) /\ u \in Users(m)
  BY <1>1, IdsAssumption, FS_Subset, SMTT(20) DEF Users, Socks
<1>5. Users(m)' = Users(m) \ {u} /\ \A k \in Socks \ {m} : Users(k)' = Users(k)
  BY <1>1, SMTT(20) DEF Users, Exists
<1>6. /\ IsFiniteSet(Users(m) \ {u})
      /\ Cardinality(Users(m) \ {u}) = Cardinality(Users(m)) - 1
  BY <1>4, FS_RemoveElement, SMTT(20)
<1>7. \A x \in Socks \ {u} : Exists(x)' = Exists(x) /\ sock'[x].mux = sock[x].mux
  BY DEF Exists
<1>8. CASE mux[m].refs = 1
  <2>1. mux' = [mux EXCEPT ![m] = NoMux]
    BY <1>1, <1>8 DEF Released
  <2>2. Map(mux')
    BY <2>1, Zenon DEF MuxOk, Map
  <2>3. mux'[m] = NoMux /\ \A k \in Socks \ {m} : mux'[k] = mux[k]
    BY <1>1, <2>1, SMTT(20) DEF MuxOk, Map
  <2>4. IsMux(NoMux) /\ NoMux.refs = 0 /\ NoMux.listener = None
    BY SMTT(20) DEF IsMux, NoMux
  <2>5. MuxOk'
    <3>1. \A k \in Socks \ {m} : mux'[k] = mux[k] /\ mux'[m] = NoMux
      BY <2>3
    <3>2. IsMux(mux'[m]) /\ mux'[m].refs = 0
      BY <2>3, <2>4, SMTT(20)
    <3>3. \A k \in Socks : IsMux(mux'[k]) /\ mux'[k].refs \in Nat
      BY <3>1, <3>2 DEF MuxOk
    <3>4. ASSUME NEW k \in Socks, mux'[k] # NoMux PROVE mux'[k].refs # 0
      <4>1. mux'[k] = mux[k]
        BY <2>3, <3>4, SMTT(20)
      <4>2. mux[k].refs # 0
        BY <3>4, <4>1, SMTT(20) DEF MuxOk
      <4> QED BY <4>1, <4>2
    <3> QED BY <2>2, <3>3, <3>4 DEF MuxOk
  <2>6. Users(m) \ {u} = {}
    BY <1>3, <1>6, <1>8, FS_EmptySet, SMTT(20)
  <2>7. RefsOk'
    <3>1. ASSUME NEW k \in Socks, mux'[k] # NoMux PROVE mux'[k].refs = Cardinality(Users(k)')
      <4>1. mux'[k] = mux[k] /\ Users(k)' = Users(k)
        BY <1>5, <2>3, <3>1, SMTT(20)
      <4>2. mux[k].refs = Cardinality(Users(k))
        BY <3>1, <4>1, SMTT(20) DEF RefsOk
      <4> QED BY <4>1, <4>2, SMTT(20)
    <3>2. ASSUME NEW x \in Socks, Exists(x)', sock'[x].mux # None
          PROVE  mux'[sock'[x].mux] # NoMux
      <4>1. x # u /\ Exists(x) /\ sock'[x].mux = sock[x].mux
        BY <1>7, <3>2, SMTT(20)
      <4>2. sock[x].mux # m
        BY <2>6, <4>1, SMTT(20) DEF Users
      <4>3. sock[x].mux \in Socks
        BY <3>2, <4>1 DEF SocksOk, SockOk, Typed
      <4> QED BY <2>3, <3>2, <4>1, <4>2, <4>3, SMTT(20) DEF RefsOk
    <3> QED BY <3>1, <3>2, SMTT(20) DEF RefsOk
  <2> QED BY <2>3, <2>4, <2>5, <2>7
<1>9. CASE mux[m].refs # 1
  <2>1. mux' = [mux EXCEPT ![m].refs = @ - 1]
    BY <1>1, <1>9 DEF Released
  <2>2. Map(mux')
    BY <2>1, Zenon DEF MuxOk, Map
  <2>3. mux'[m] = [mux[m] EXCEPT !.refs = @ - 1] /\ \A k \in Socks \ {m} : mux'[k] = mux[k]
    BY <1>1, <2>1 DEF MuxOk, Map
  <2>4. /\ IsMux(mux'[m]) /\ mux'[m].refs = mux[m].refs - 1
        /\ mux'[m].listener = mux[m].listener
    BY <1>3, <2>3 DEF IsMux
  <2>5. mux'[m].refs \in Nat \ {0}
    BY <1>3, <1>9, <2>4
  <2>6. mux'[m] # NoMux
    <3>1. NoMux.refs = 0
      BY DEF NoMux
    <3> QED BY <2>5, <3>1, Zenon
  <2>7. MuxOk'
    BY <2>2, <2>3, <2>4, <2>5, Zenon DEF MuxOk
  <2>8. RefsOk'
    <3>1. \A k \in Socks : mux'[k] # NoMux => mux'[k].refs = Cardinality(Users(k)')
      <4>1. mux'[m].refs = Cardinality(Users(m)')
        BY <1>3, <1>5, <1>6, <2>4, Zenon
      <4>2. \A k \in Socks \ {m} : mux'[k] # NoMux => mux'[k].refs = Cardinality(Users(k)')
        BY <1>5, <2>3 DEF RefsOk
      <4> QED BY <4>1, <4>2, SMTT(20)
    <3>2. ASSUME NEW x \in Socks, Exists(x)', sock'[x].mux # None
          PROVE  mux'[sock'[x].mux] # NoMux
      <4>1. x # u /\ Exists(x) /\ sock'[x].mux = sock[x].mux
        BY <1>7, <3>2
      <4>2. sock[x].mux \in Socks
        BY <3>2, <4>1 DEF SocksOk, SockOk, Typed
      <4> QED BY <2>3, <2>6, <3>2, <4>1, <4>2, SMTT(20) DEF RefsOk
    <3> QED BY <3>1, <3>2 DEF RefsOk
  <2> QED BY <2>3, <2>4, <2>7, <2>8, Zenon
<1> QED BY <1>8, <1>9, SMTT(20)

(* removeSocket deletes the socket under the lock it took again. *)
LEMMA GcDeletesKeeps ==
  ASSUME Inv, GcDeletes
  PROVE  Inv'
<1>u. PICK u \in Socks : u = gc.cur
  BY DEF Inv, GcOk, GcDeletes
<1> DEFINE r == sock[u]
           rp == sock'[u]
           o == r.opened
           v == r.onRcv
           w == r.used
           z == r.onSnd
<1>1. /\ gc.pc = "reenter" /\ u \in Socks /\ r.at = "removing"
      /\ \A m \in Socks : mux[m].listener # u
      /\ gc = [pc |-> gc.pc, tbr |-> gc.tbr, cur |-> gc.cur] /\ gc.tbr \subseteq Socks
      /\ \A x \in gc.tbr : sock[x].at = "closed" /\ sock[x].age # 0
  BY <1>u, SMTT(20) DEF Inv, GcOk, GcDeletes
<1>2. /\ SockOk(r, closer[u], acceptor[u], forced) /\ Maps
      /\ closer[u] = "idle" /\ acceptor[u] = "idle" /\ ~v /\ ~w /\ ~z
  BY <1>1, Zenon DEF Inv, SocksOk, SockOk, Local, Fresh
<1>3. /\ closer' = closer /\ acceptor' = acceptor /\ UNCHANGED <<conn, forced, env>>
      /\ gc' = [gc EXCEPT !.cur = None, !.pc = IF gc.tbr = {} THEN "idle" ELSE "locked"]
  BY DEF GcDeletes
<1>4. rp = [NewSocket EXCEPT !.at = "deleted", !.opened = o, !.onRcv = v, !.used = w,
                             !.onSnd = z]
  BY <1>u, <1>1, <1>2, Zenon DEF GcDeletes, Maps, Map
<1>5. Only(u)
  BY <1>u, <1>1, <1>2, Zenon DEF GcDeletes, Only, Maps, Map
<1> HIDE DEF r, rp, o, v, w, z
<1>6. /\ rp.at = "deleted" /\ rp.st = "INIT" /\ ~rp.onRcv /\ ~rp.used /\ ~rp.onSnd
      /\ ~rp.given /\ rp.mux = None /\ rp.queue = {} /\ ~rp.listening /\ ~rp.connected
      /\ ~rp.connecting /\ ~rp.broken /\ rp.age = 0
  BY <1>2, <1>4 DEF NewSocket
<1>7. IsRec(rp)
  <2>1. IsRec(NewSocket)
    BY Zenon DEF IsRec, NewSocket, SockFields
  <2> QED BY <1>4, <2>1, Zenon DEF IsRec, SockFields
<1>8. SockOk(rp, closer'[u], acceptor'[u], forced)
  BY <1>2, <1>3, <1>6, <1>7, SMTT(20) DEF SockOk, Typed, Local, Unset
<1>9. \A x \in Socks \ {u} : sock'[x] = sock[x]
  BY <1>5, Zenon DEF Only
<1>10. Maps' /\ SocksOk'
  BY <1>3, <1>5, <1>8, OneSockOk DEF rp
<1>11. ConnOk'
  <2>1. /\ ConnOk /\ (conn.pc # "idle" => conn.l \in Socks /\ conn.s \in Socks)
        /\ conn.pc # "idle" => conn.l # u /\ conn.s # u
    BY <1>1, SMTT(20) DEF Inv, ConnOk, Socks, Fresh, r
  <2> QED BY <1>3, <1>9, <2>1, SMTT(20) DEF ConnOk
<1>12. QueueOk'
  <2>1. SUFFICES ASSUME NEW k \in Socks, NEW q \in sock'[k].queue
                 PROVE  /\ sock'[q].at # "free" /\ ~(conn.pc = "made" /\ conn.s = q)
                        /\ ~forced /\ sock'[k].at \in {"open", "closed"} =>
                             /\ sock'[q].at = "open" /\ sock'[q].lsn = k
                             /\ ~sock'[q].given /\ sock'[q].st # "INIT"
    BY <1>3 DEF QueueOk
  <2>2. k # u /\ sock'[k] = sock[k] /\ q \in sock[k].queue
    BY <1>6, <1>9, SMTT(20) DEF rp
  <2>3. q \in Socks
    BY <2>2, SMTT(20) DEF Inv, SocksOk, SockOk, Typed, Socks
  <2>4. /\ sock[q].at # "free" /\ ~(conn.pc = "made" /\ conn.s = q)
        /\ ~forced /\ sock[k].at \in {"open", "closed"} =>
             /\ sock[q].at = "open" /\ sock[q].lsn = k
             /\ ~sock[q].given /\ sock[q].st # "INIT"
    BY <2>2 DEF Inv, QueueOk
  <2>5. CASE q = u
    BY <1>1, <1>6, <2>2, <2>4, <2>5, SMTT(20) DEF r, rp
  <2>6. CASE q # u
    BY <1>9, <2>2, <2>3, <2>4, <2>6
  <2> QED BY <2>5, <2>6
<1>13. ReadyOk'
  BY <1>3, <1>6, <1>9 DEF Inv, ReadyOk, Exists, rp
<1>14. GcOk'
  <2>1. gc' = [pc |-> IF gc.tbr = {} THEN "idle" ELSE "locked", tbr |-> gc.tbr, cur |-> None]
    BY <1>1, <1>3, Zenon
  <2>2. \A x \in gc.tbr : sock'[x] = sock[x]
    BY <1>1, <1>9 DEF r
  <2> QED BY <1>1, <2>1, <2>2 DEF GcOk
<1>15. /\ MuxOk' /\ RefsOk'
       /\ \A k \in Socks : mux'[k].listener \in {None, mux[k].listener}
  <2>1. ~Exists(u)' /\ Exists(u)
    BY <1>1, <1>6 DEF Exists, r, rp
  <2>2. CASE r.mux = None
    <3>1. mux' = mux
      BY <1>u, <2>2 DEF GcDeletes, r
    <3>2. MuxOk'
      BY <3>1, Zenon DEF Inv, MuxOk, Map, IsMux
    <3>3. ASSUME NEW m \in Socks PROVE Users(m)' = Users(m)
      <4>1. m # None
        BY IdsAssumption DEF Socks, None
      <4>2. u \notin Users(m) /\ u \notin Users(m)'
        BY <2>1, <2>2, <4>1 DEF Users, r
      <4>3. \A x \in Socks \ {u} : x \in Users(m)' <=> x \in Users(m)
        BY <1>9 DEF Users, Exists
      <4>4. Users(m) \subseteq Socks /\ Users(m)' \subseteq Socks
        BY DEF Users
      <4> QED BY <4>2, <4>3, <4>4
    <3>4. RefsOk'
      <4>1. \A x \in Socks : Exists(x)' => Exists(x) /\ sock'[x] = sock[x]
        BY <1>9, <2>1 DEF Exists
      <4> QED BY <3>1, <3>3, <4>1 DEF Inv, RefsOk
    <3> QED BY <3>1, <3>2, <3>4
  <2>3. CASE r.mux # None
    <3>1. mux[r.mux] # NoMux
      BY <1>1, <2>1, <2>3, SMTT(20) DEF Inv, RefsOk, r
    <3>2. Released(r.mux)
      BY <1>u, <2>3, <3>1 DEF GcDeletes, Released, r
    <3> QED BY <1>1, <1>9, <2>1, <2>3, <3>2, UserLeaves, SMTT(20) DEF Inv, r
  <2> QED BY <2>2, <2>3
<1>16. ListenerOk'
  <2>1. SUFFICES ASSUME NEW m \in Socks, mux'[m].listener # None
                 PROVE  /\ mux'[m].listener \in Socks /\ sock'[mux'[m].listener].listening
                        /\ sock'[mux'[m].listener].mux = m
                        /\ sock'[mux'[m].listener].at \in {"open", "closed", "removing"}
    BY DEF ListenerOk, Exists
  <2>2. mux'[m].listener = mux[m].listener /\ mux[m].listener # u
    BY <1>1, <1>15, <2>1
  <2>3. /\ mux[m].listener \in Socks /\ sock[mux[m].listener].listening
        /\ sock[mux[m].listener].mux = m /\ Exists(mux[m].listener)
    BY <2>1, <2>2 DEF Inv, ListenerOk
  <2> QED BY <1>9, <2>2, <2>3 DEF Exists
<1> QED BY <1>10, <1>11, <1>12, <1>13, <1>14, <1>15, <1>16, SMTT(20) DEF Inv

-----------------------------------------------------------------------------
(* The theorems *)

(* No socket exists at first. *)
LEMMA InitInv == Init => Inv
<1> SUFFICES ASSUME Init PROVE Inv
  OBVIOUS
<1>1. Maps
  BY Zenon DEF Init, Maps, Map
<1>2. /\ \A x \in Socks : /\ sock[x] = NewSocket /\ closer[x] = "idle" /\ acceptor[x] = "idle"
                          /\ mux[x] = NoMux
      /\ ~forced
  BY SMTT(20) DEF Init
<1>3. /\ NewSocket.at = "free" /\ NewSocket.st = "INIT" /\ NewSocket.mux = None
      /\ NewSocket.queue = {} /\ ~NewSocket.given /\ ~NewSocket.onRcv /\ ~NewSocket.onSnd
      /\ ~NewSocket.used /\ ~NewSocket.listening /\ ~NewSocket.connected
      /\ ~NewSocket.connecting /\ ~NewSocket.broken /\ NewSocket.age = 0
  BY DEF NewSocket
<1>4. IsRec(NewSocket)
  BY Zenon DEF IsRec, NewSocket, SockFields
<1>5. SocksOk
  <2>1. SockOk(NewSocket, "idle", "idle", FALSE)
    BY <1>3, <1>4, SMTT(20) DEF SockOk, Typed, Local, Unset
  <2>2. SockOk(NewSocket, "idle", "idle", forced)
    BY <1>2, <2>1 DEF SockOk, Local
  <2> QED BY <1>2, <2>2, SMTT(20) DEF SocksOk
<1>6. ConnOk
  BY SMTT(20) DEF Init, ConnOk
<1>7. QueueOk /\ ReadyOk
  BY <1>2, <1>3, SMTT(20) DEF QueueOk, ReadyOk
<1>8. GcOk
  BY DEF Init, GcOk
<1>9. NoMux.listener = None /\ NoMux.refs = 0 /\ IsMux(NoMux)
  BY DEF NoMux, IsMux
<1>10. ListenerOk
  BY <1>2, <1>9 DEF ListenerOk
<1>11. MuxOk
  <2>1. Map(mux)
    BY Zenon DEF Init, Map
  <2> QED BY <1>2, <1>9, <2>1 DEF MuxOk
<1>12. RefsOk
  BY <1>2, <1>3 DEF RefsOk, Exists
<1> QED BY <1>1, <1>5, <1>6, <1>7, <1>8, <1>10, <1>11, <1>12, SMTT(20) DEF Inv

(* Every step of the library, of the application and of the peers keeps the *)
(* invariant.                                                               *)
LEMMA NextInv == Inv /\ [Next]_vars => Inv'
<1> SUFFICES ASSUME Inv, [Next]_vars PROVE Inv'
  OBVIOUS
<1>1. ASSUME NEW s \in Socks, Application(s) PROVE Inv'
  <2>1. CASE newSocket(s)
    BY <2>1, NewSocketKeeps
  <2>2. CASE \E a \in env.addrs : bind(s, a)
    BY <2>2, BindKeeps
  <2>3. CASE listen(s) /\ ~forced
    BY <2>3, ListenKeeps
  <2>4. CASE StartAccept(s) /\ ~forced
    BY <2>4, StartAcceptKeeps, SMTT(20)
  <2>5. CASE connectIn(s)
    BY <2>5, ConnectKeeps
  <2>6. CASE StartClose(s) /\ ~forced
    BY <2>6, StartCloseKeeps
  <2>7. CASE Acquire(s) /\ ~forced
    BY <2>7, AcquireKeeps
  <2>8. CASE Send(s)
    BY <2>8, SendKeeps
  <2>9. CASE Recv(s)
    BY <2>9, RecvKeeps
  <2> QED BY <1>1, <2>1, <2>2, <2>3, <2>4, <2>5, <2>6, <2>7, <2>8, <2>9, Zenon DEF Application
<1>2. ASSUME NEW s \in Socks, Peer(s) PROVE Inv'
  <2>1. ASSUME NEW l \in AppSocks, newConnection(l, s) PROVE Inv'
    BY <2>1, NewConnectionKeeps
  <2> QED BY <1>2, <2>1, PostConnectKeeps, ConnectExpiresKeeps, ArrivesKeeps,
             ProcessCloseKeeps, CheckExpTimerKeeps, Zenon DEF Peer
<1>3. ASSUME NEW s \in Socks, Worker(s) \/ Release(s) \/ LingerExpires(s) PROVE Inv'
  BY <1>3, SndWorkerKeeps, RemoveFromListsKeeps, ReleaseKeeps, LingerExpiresKeeps, Zenon
  DEF Worker
<1>4. ASSUME NEW s \in Socks, Closing(s) \/ accept(s) PROVE Inv'
  BY <1>4, CloseKeeps, NotListeningKeeps, NotifyKeeps, CloseInternalKeeps,
     MoveToClosedKeeps, AcceptKeeps, Zenon DEF Closing
<1>5. ASSUME ConnectionFails \/ Connection \/ AnnounceConnection PROVE Inv'
  BY <1>5, ConnectionFailsKeeps, ConnectionKeeps, AnnounceKeeps
<1>6. ASSUME Collector PROVE Inv'
  BY <1>6, CheckBrokenKeeps, RemoveSocketKeeps, GcCloseInternalKeeps, GcDeletesKeeps, Zenon
  DEF Collector
<1>7. ASSUME SecondsPass \/ cleanup PROVE Inv'
  BY <1>7, SecondsPassKeeps, CleanupKeeps
<1>8. ASSUME UNCHANGED vars PROVE Inv'
  <2>1. UNCHANGED <<sock, mux, closer, acceptor, conn, gc, forced, env>>
    BY <1>8 DEF vars
  <2>2. Maps' /\ SocksOk'
    BY <2>1, Zenon DEF Inv, Maps, Map, SocksOk
  <2>3. ConnOk'
    BY <2>1, Zenon DEF Inv, ConnOk
  <2>4. QueueOk'
    BY <2>1 DEF Inv, QueueOk
  <2>5. ReadyOk'
    BY <2>1 DEF Inv, ReadyOk, Exists
  <2>6. GcOk'
    BY <2>1 DEF Inv, GcOk
  <2>7. ListenerOk' /\ MuxOk'
    BY <2>1, Zenon DEF Inv, ListenerOk, MuxOk, Map, Exists
  <2>8. RefsOk'
    BY <2>1 DEF Inv, RefsOk, Users, Exists
  <2> QED BY <2>2, <2>3, <2>4, <2>5, <2>6, <2>7, <2>8, SMTT(20) DEF Inv
<1> QED BY <1>1, <1>2, <1>3, <1>4, <1>5, <1>6, <1>7, <1>8, Zenon DEF Next

(* The invariant gives what the run checks. *)
LEMMA InvConsistent == Inv => SocketsConsistent
<1> SUFFICES ASSUME Inv PROVE SocketsConsistent
  OBVIOUS
<1>1. NoDangling
  <2>1. SUFFICES ASSUME NEW s \in Socks, sock[s].at = "deleted"
                 PROVE  /\ ~sock[s].onRcv /\ ~sock[s].onSnd
                        /\ ~isStillBusy(s) /\ acceptor[s] = "idle"
                        /\ conn.l # s /\ conn.s # s
                        /\ \A m \in Muxes : mux[m].listener # s
    BY SMTT(20) DEF NoDangling
  <2>2. /\ ~sock[s].onRcv /\ ~sock[s].onSnd /\ ~sock[s].used /\ closer[s] = "idle"
        /\ acceptor[s] = "idle"
    BY <2>1, Zenon DEF Inv, SocksOk, SockOk, Local, Fresh
  <2>3. conn.l # s /\ conn.s # s
    BY <2>1, IdsAssumption DEF Inv, ConnOk, Fresh, Socks, None
  <2>4. \A m \in Socks : mux[m].listener # s
    <3>1. ASSUME NEW m \in Socks, mux[m].listener = s PROVE FALSE
      <4>1. s # None
        BY IdsAssumption DEF Socks, None
      <4>2. Exists(s)
        BY <3>1, <4>1, Zenon DEF Inv, ListenerOk
      <4> QED BY <2>1, <4>2 DEF Exists
    <3> QED BY <3>1
  <2> QED BY <2>2, <2>3, <2>4, SMTT(20) DEF isStillBusy, Muxes
<1>2. QueuedIsOpen
  BY DEF Inv, QueueOk, QueuedIsOpen, Open
<1>3. EventNotLost
  BY DEF Inv, ReadyOk, EventNotLost
<1> QED BY <1>1, <1>2, <1>3 DEF SocketsConsistent

(* Whatever the interleaving of close(), accept(), the workers and the      *)
(* collector, no deleted socket is referred to, no dead socket waits in a   *)
(* queue, and no queued one is unannounced.                                 *)
THEOREM LifecycleConsistent == Spec => []SocketsConsistent
<1>1. Init => Inv
  BY InitInv
<1>2. Inv /\ [Next]_vars => Inv'
  BY NextInv
<1>3. Inv => SocketsConsistent
  BY InvConsistent
<1> QED BY <1>1, <1>2, <1>3, PTL DEF Spec

-----------------------------------------------------------------------------
(* Two multiplexers never receive on the same address and port *)

Overlap(a, b, cfg) ==
  a.port = b.port /\ Cover(a, cfg, {1, 2}) \cap Cover(b, cfg, {1, 2}) # {}

(* A multiplexer has the settings of the scenario, and an address of it or  *)
(* the one the system picked for its socket.                                *)
AddrsOk ==
  /\ env \in Cases
  /\ \A m \in Muxes : /\ mux[m].cfg = env.cfg
                      /\ mux[m].addr \in env.addrs \cup {Autoselect(m)}
  /\ \A k, m \in Muxes : k # m => ~Overlap(mux[k].addr, mux[m].addr, env.cfg)

(* The addresses and settings of the multiplexers that are left stay. *)
SameAddrs ==
  \A m \in Socks : mux'[m] # NoMux => /\ mux[m] # NoMux /\ mux'[m].addr = mux[m].addr
                                      /\ mux'[m].cfg = mux[m].cfg

(* Such a step keeps the addresses apart. *)
LEMMA SameAddrsKeep ==
  ASSUME AddrsOk, SameAddrs, env' = env
  PROVE  AddrsOk'
BY DEF AddrsOk, SameAddrs, Muxes

(* The verdict "pass" of updateMux: the request shares no address with the  *)
(* multiplexer, unless it is a dual-stack wildcard.                         *)
LEMMA PassIsApart ==
  ASSUME NEW m, NEW req, NEW cfg, m.cfg = cfg, Verdict(m, req, cfg) = "pass",
         ~(req.fam = 6 /\ req.any /\ m.addr.fam = 4 /\ ~m.addr.any
             /\ req.port = m.addr.port /\ cfg.v6only = 0)
  PROVE  ~Overlap(m.addr, req, cfg) /\ ~Overlap(req, m.addr, cfg)
<1> DEFINE a == m.addr
           A == Cover(a, cfg, {1, 2})
           R == Cover(req, cfg, {1, 2})
<1>1. SUFFICES ASSUME a.port = req.port PROVE A \cap R = {}
  BY DEF Overlap
<1>2. MuxSays(m, req, cfg) = "pass"
  BY SMTT(20) DEF Verdict
<1>3. /\ A \subseteq {<<f, i>> : f \in {a.fam} \cup (IF a.fam = 6 /\ a.any /\ cfg.v6only = 0
                                                    THEN {4} ELSE {}), i \in {1, 2, a.ip}}
      /\ R \subseteq {<<f, i>> : f \in {req.fam} \cup (IF req.fam = 6 /\ req.any /\ cfg.v6only = 0
                                                      THEN {4} ELSE {}), i \in {1, 2, req.ip}}
  BY DEF Cover
<1> HIDE DEF A, R
<1>4. CASE a.any
  <2>1. WildcardSays(m, req, cfg) = "pass"
    BY <1>1, <1>2, <1>4, SMTT(20) DEF MuxSays
  <2>2. CASE a.fam = 6
    <3>1. cfg.v6only = 1 /\ req.fam = 4
      BY <2>1, <2>2, SMTT(20) DEF WildcardSays
    <3> QED BY <1>3, <2>2, <3>1
  <2>3. CASE a.fam # 6
    <3>1. req.fam = 6 /\ (cfg.v6only = 1 \/ ~req.any)
      BY <2>1, <2>3 DEF WildcardSays
    <3> QED BY <1>3, <2>3, <3>1
  <2> QED BY <2>2, <2>3
<1>5. CASE ~a.any
  <2>1. ~(req.any /\ req.fam = a.fam) /\ ~(a.fam = req.fam /\ a.ip = req.ip)
    BY <1>1, <1>2, <1>5 DEF MuxSays
  <2>2. CASE a.fam = req.fam
    <3>1. A = {<<a.fam, a.ip>>} /\ R = {<<req.fam, req.ip>>}
      BY <1>5, <2>1, <2>2, SMTT(20) DEF A, R, Cover
    <3> QED BY <2>1, <2>2, <3>1, SMTT(20)
  <2>3. CASE a.fam # req.fam
    <3>1. ~(req.fam = 6 /\ req.any /\ cfg.v6only = 0 /\ a.fam = 4)
      BY <1>1, <1>5, SMTT(20)
    <3> QED BY <1>3, <1>5, <2>3, <3>1, SMTT(20)
  <2> QED BY <2>2, <2>3
<1> QED BY <1>4, <1>5, SMTT(20)

(* A new multiplexer apart from all others. *)
LEMMA InstallApart ==
  ASSUME Inv, AddrsOk, NEW s \in Socks, NEW req \in env.addrs \cup {Autoselect(s)},
         mux[s] = NoMux, installNew(s, req), env' = env,
         \A m \in Muxes : /\ ~Overlap(mux[m].addr, req, env.cfg)
                           /\ ~Overlap(req, mux[m].addr, env.cfg)
  PROVE  AddrsOk'
<1>1. /\ mux'[s].addr = req /\ mux'[s].cfg = env.cfg
      /\ \A k \in Socks \ {s} : mux'[k] = mux[k]
  BY DEF Inv, MuxOk, Map, installNew
<1>2. /\ \A k \in Muxes' \ {s} : k \in Muxes /\ mux'[k] = mux[k]
      /\ Muxes' \subseteq Socks
  BY <1>1, SMTT(20) DEF Muxes
<1>3. ASSUME NEW m \in Muxes'
      PROVE  mux'[m].cfg = env.cfg /\ mux'[m].addr \in env.addrs \cup {Autoselect(m)}
  BY <1>1, <1>2, SMTT(20) DEF AddrsOk
<1>4. ASSUME NEW k \in Muxes', NEW m \in Muxes', k # m
      PROVE  ~Overlap(mux'[k].addr, mux'[m].addr, env.cfg)
  <2>1. CASE k = s
    BY <1>1, <1>2, <1>4, <2>1, SMTT(20)
  <2>2. CASE m = s
    BY <1>1, <1>2, <1>4, <2>2, SMTT(20)
  <2>3. CASE k # s /\ m # s
    BY <1>2, <1>4, <2>3, SMTT(20) DEF AddrsOk
  <2> QED BY <2>1, <2>2, <2>3, SMTT(20)
<1> QED BY <1>3, <1>4 DEF AddrsOk

(* Ports the system picks differ from each other and from the bound ones. *)
LEMMA AutoselectApart ==
  ASSUME AddrsOk, NEW s \in Socks, NEW m \in Muxes, m # s
  PROVE  mux[m].addr.port # Autoselect(s).port
<1>1. m \in Socks /\ mux[m].addr \in env.addrs \cup {Autoselect(m)} /\ env \in Cases
  BY DEF AddrsOk, Muxes
<1>2. Autoselect(s).port = 1000 + s /\ Autoselect(m).port = 1000 + m
  BY DEF Autoselect
<1>3. 1000 + m # 1000 + s
  BY <1>1, IdsAssumption DEF Socks
<1>4. CASE mux[m].addr \in env.addrs
  BY <1>1, <1>4, CasesAssumption
<1> QED BY <1>1, <1>2, <1>3, <1>4, SMTT(20)

(* updateMux opens a multiplexer only when none of the others answers. *)
LEMMA NoAnswerPasses ==
  ASSUME NEW req, FirstAnswer(req) = {}
  PROVE  \A m \in Muxes : Verdict(mux[m], req, env.cfg) = "pass"
<1> DEFINE S == {m \in Muxes : Verdict(mux[m], req, env.cfg) # "pass"}
<1>1. SUFFICES ASSUME S # {} PROVE FALSE
  OBVIOUS
<1>2. S \in SUBSET Nat
  BY IdsAssumption, Zenon DEF Muxes, Socks
<1>3. PICK x \in S : \A y \in S : x <= y
  BY <1>1, <1>2, LeastElement, Zenon
<1>4. \A k \in Muxes : k < x => k \notin S
  <2>1. ASSUME NEW k \in Muxes, k < x, k \in S PROVE FALSE
    <3>1. k \in Nat /\ x \in Nat /\ x <= k
      BY <1>2, <1>3, <2>1
    <3> QED BY <2>1, <3>1
  <2> QED BY <2>1
<1>5. x \in FirstAnswer(req)
  BY <1>4 DEF FirstAnswer
<1> QED BY <1>5

(* A change of a reference count or of a listener entry. *)
LEMMA FieldSetSameAddrs ==
  ASSUME MuxOk, NEW m \in Socks, mux[m] # NoMux, NEW x,
         \/ mux' = [mux EXCEPT ![m].refs = x]
         \/ mux' = [mux EXCEPT ![m].listener = x]
  PROVE  SameAddrs
<1>1. /\ \A k \in Socks \ {m} : mux'[k] = mux[k]
      /\ mux'[m] = [mux[m] EXCEPT !.refs = x] \/ mux'[m] = [mux[m] EXCEPT !.listener = x]
  BY DEF MuxOk, Map
<1>2. IsMux(mux[m])
  BY DEF MuxOk
<1>3. mux'[m].addr = mux[m].addr /\ mux'[m].cfg = mux[m].cfg
  BY <1>1, <1>2, SMTT(20) DEF IsMux
<1> QED BY <1>1, <1>3 DEF SameAddrs

(* removeListener. *)
LEMMA ListenersRemovedSameAddrs ==
  ASSUME MuxOk, NEW S \in SUBSET Socks, mux' = removeListener(S)
  PROVE  SameAddrs
<1>1. SameRefs
  BY ListenersRemoved
<1>2. ASSUME NEW m \in Socks PROVE mux'[m].addr = mux[m].addr /\ mux'[m].cfg = mux[m].cfg
  <2>1. IsMux(mux[m]) /\ (mux'[m] = mux[m] \/ mux'[m] = [mux[m] EXCEPT !.listener = None])
    BY DEF MuxOk, removeListener
  <2> QED BY <2>1 DEF IsMux
<1> QED BY <1>1, <1>2 DEF SameRefs, SameAddrs

(* bind() *)
LEMMA BindApart ==
  ASSUME Inv, AddrsOk, NEW s \in Socks, NEW req \in env.addrs, bind(s, req)
  PROVE  AddrsOk'
<1>1. env' = env /\ MuxOk
  BY SMTT(20) DEF bind, Inv
<1>2. CASE FirstAnswer(req) = {} /\ mux[s] = NoMux /\ installNew(s, req)
  <2>1. ASSUME NEW m \in Muxes
        PROVE  /\ ~Overlap(mux[m].addr, req, env.cfg) /\ ~Overlap(req, mux[m].addr, env.cfg)
    <3>1. /\ Verdict(mux[m], req, env.cfg) = "pass" /\ mux[m].cfg = env.cfg /\ env \in Cases
          /\ m \in Socks /\ mux[m].addr \in env.addrs \cup {Autoselect(m)}
      BY <1>2, NoAnswerPasses, SMTT(20) DEF AddrsOk, Muxes
    <3>2. CASE mux[m].addr = Autoselect(m)
      <4>1. req.port # mux[m].addr.port
        BY <3>1, <3>2, CasesAssumption, SMTT(20)
      <4> QED BY <4>1 DEF Overlap
    <3>3. CASE mux[m].addr \in env.addrs
      <4>1. ~(req.fam = 6 /\ req.any /\ mux[m].addr.fam = 4 /\ ~mux[m].addr.any
                /\ req.port = mux[m].addr.port /\ env.cfg.v6only = 0)
        BY <3>1, <3>3, CasesAssumption
      <4> QED BY <3>1, <4>1, PassIsApart, Zenon
    <3> QED BY <3>1, <3>2, <3>3, SMTT(20)
  <2> QED BY <1>1, <1>2, <2>1, InstallApart, SMTT(20)
<1>3. CASE \E m \in FirstAnswer(req) : mux' = [mux EXCEPT ![m].refs = @ + 1] \/ UNCHANGED mux
  <2>1. PICK m \in FirstAnswer(req) : mux' = [mux EXCEPT ![m].refs = @ + 1] \/ UNCHANGED mux
    BY <1>3
  <2>2. m \in Socks /\ mux[m] # NoMux
    BY DEF FirstAnswer, Muxes
  <2>3. CASE mux' = [mux EXCEPT ![m].refs = @ + 1]
    <3>1. mux' = [mux EXCEPT ![m].refs = mux[m].refs + 1]
      BY <2>3
    <3>2. SameAddrs
      BY <1>1, <2>2, <3>1, FieldSetSameAddrs, Zenon
    <3> QED BY <1>1, <3>2, SameAddrsKeep
  <2>4. CASE UNCHANGED mux
    BY <1>1, <2>4, SameAddrsKeep DEF SameAddrs
  <2> QED BY <2>1, <2>3, <2>4
<1> QED BY <1>2, <1>3, Zenon DEF bind

(* connect() *)
LEMMA ConnectApart ==
  ASSUME Inv, AddrsOk, NEW s \in Socks, connectIn(s)
  PROVE  AddrsOk'
<1>1. env' = env
  BY DEF connectIn
<1>2. CASE mux[s] = NoMux /\ installNew(s, Autoselect(s))
  <2>1. ASSUME NEW m \in Muxes
        PROVE  /\ ~Overlap(mux[m].addr, Autoselect(s), env.cfg)
               /\ ~Overlap(Autoselect(s), mux[m].addr, env.cfg)
    <3>1. m # s
      BY <1>2 DEF Muxes
    <3>2. mux[m].addr.port # Autoselect(s).port
      BY <3>1, AutoselectApart
    <3> QED BY <3>2 DEF Overlap
  <2> QED BY <1>1, <1>2, <2>1, InstallApart
<1>3. CASE UNCHANGED mux
  BY <1>1, <1>3, SameAddrsKeep DEF SameAddrs
<1> QED BY <1>2, <1>3, Zenon DEF connectIn

(* The other steps that touch a multiplexer. *)
LEMMA MuxStepsApart ==
  ASSUME Inv, AddrsOk, NEW s \in Socks,
         \/ listen(s) \/ (\E l \in AppSocks : newConnection(l, s)) \/ notListening(s)
         \/ CloseInternal(s) \/ removeSocket(s) \/ GcCloseInternal \/ GcDeletes
  PROVE  AddrsOk'
<1>1. MuxOk /\ RefsOk /\ SocksOk
  BY SMTT(20) DEF Inv
<1>2. ASSUME NEW x \in Socks, Exists(x), sock[x].mux # None
      PROVE  sock[x].mux \in Socks /\ mux[sock[x].mux] # NoMux
  BY <1>1, <1>2 DEF RefsOk, SocksOk, SockOk, Typed
<1>3. CASE listen(s)
  <2>1. /\ env' = env /\ mux' = [mux EXCEPT ![sock[s].mux].listener = s]
        /\ sock[s].at = "open" /\ sock[s].st = "OPENED"
    BY <1>3 DEF listen, setListenState, locateSocket, Open
  <2>2. sock[s].mux # None
    BY <1>1, <2>1 DEF SocksOk, SockOk, Local
  <2>3. sock[s].mux \in Socks /\ mux[sock[s].mux] # NoMux
    BY <1>2, <2>1, <2>2 DEF Exists
  <2>4. SameAddrs
    BY <1>1, <2>1, <2>3, FieldSetSameAddrs, Zenon
  <2> QED BY <2>1, <2>4, SameAddrsKeep
<1>4. ASSUME NEW l \in AppSocks, newConnection(l, s) PROVE AddrsOk'
  <2>1. /\ env' = env /\ mux' = [mux EXCEPT ![sock[l].mux].refs = mux[sock[l].mux].refs + 1]
        /\ sock[l].at = "open" /\ sock[l].mux # None /\ l \in Socks
    BY <1>4, Zenon DEF newConnection, updateListenerMux, locateSocket, Open, Socks
  <2>2. sock[l].mux \in Socks /\ mux[sock[l].mux] # NoMux
    BY <1>2, <2>1 DEF Exists
  <2>3. SameAddrs
    BY <1>1, <2>1, <2>2, FieldSetSameAddrs, Zenon
  <2> QED BY <2>1, <2>3, SameAddrsKeep
<1>5. CASE notListening(s) \/ CloseInternal(s)
  <2>1. env' = env /\ mux' = removeListener({s})
    BY <1>5 DEF notListening, CloseInternal
  <2> QED BY <1>1, <2>1, ListenersRemovedSameAddrs, SameAddrsKeep
<1>6. CASE removeSocket(s)
  <2>1. env' = env /\ (UNCHANGED mux \/ mux' = removeListener({q \in sock[s].queue : Open(q)}))
    BY <1>6, ZenonT(30) DEF removeSocket
  <2>2. {q \in sock[s].queue : Open(q)} \in SUBSET Socks
    BY <1>1, SMTT(20) DEF SocksOk, SockOk, Typed, Socks
  <2>3. CASE UNCHANGED mux
    BY <2>1, <2>3, SameAddrsKeep DEF SameAddrs
  <2> QED BY <1>1, <2>1, <2>2, <2>3, ListenersRemovedSameAddrs, SameAddrsKeep
<1>7. CASE GcCloseInternal
  <2>1. env' = env /\ mux' = removeListener({gc.cur}) /\ gc.cur \in Socks
    BY <1>7 DEF GcCloseInternal, Inv, GcOk
  <2> QED BY <1>1, <2>1, ListenersRemovedSameAddrs, SameAddrsKeep
<1>8. CASE GcDeletes
  <2> DEFINE m == sock[gc.cur].mux
  <2>1. env' = env /\ gc.cur \in Socks /\ m \in Socks \cup {None}
    BY <1>1, <1>8 DEF GcDeletes, Inv, GcOk, SocksOk, SockOk, Typed
  <2>2. \/ UNCHANGED mux
        \/ /\ m # None /\ mux[m] # NoMux
           /\ \/ mux' = [mux EXCEPT ![m] = NoMux]
              \/ mux' = [mux EXCEPT ![m].refs = mux[m].refs - 1]
    BY <1>8, Zenon DEF GcDeletes
  <2> HIDE DEF m
  <2>3. SameAddrs
    <3>1. CASE UNCHANGED mux
      BY <3>1 DEF SameAddrs
    <3>2. CASE m # None /\ mux[m] # NoMux /\ mux' = [mux EXCEPT ![m] = NoMux]
      BY <1>1, <2>1, <3>2 DEF SameAddrs, MuxOk, Map
    <3>3. CASE m # None /\ mux[m] # NoMux /\ mux' = [mux EXCEPT ![m].refs = mux[m].refs - 1]
      BY <1>1, <2>1, <3>3, FieldSetSameAddrs, Zenon
    <3> QED BY <2>2, <3>1, <3>2, <3>3
  <2> QED BY <2>1, <2>3, SameAddrsKeep, SMTT(20)
<1> QED BY <1>3, <1>4, <1>5, <1>6, <1>7, <1>8, SMTT(20)

(* All steps. *)
LEMMA NextApart == Inv /\ AddrsOk /\ [Next]_vars => AddrsOk'
<1> SUFFICES ASSUME Inv, AddrsOk, [Next]_vars PROVE AddrsOk'
  OBVIOUS
<1>1. ASSUME UNCHANGED <<mux, env>> PROVE AddrsOk'
  BY <1>1, SameAddrsKeep DEF SameAddrs
<1>2. ASSUME NEW s \in Socks, Application(s) PROVE AddrsOk'
  <2>1. CASE \E a \in env.addrs : bind(s, a)
    BY <2>1, BindApart
  <2>2. CASE listen(s) \/ connectIn(s)
    BY <2>2, MuxStepsApart, ConnectApart
  <2>3. CASE newSocket(s) \/ StartAccept(s) \/ StartClose(s) \/ Acquire(s) \/ Send(s) \/ Recv(s)
    <3>1. UNCHANGED <<mux, env>>
      BY <2>3, Zenon DEF newSocket, StartAccept, StartClose, Acquire, Send, Recv
    <3> QED BY <1>1, <3>1
  <2> QED BY <1>2, <2>1, <2>2, <2>3, Zenon DEF Application
<1>3. ASSUME NEW s \in Socks, Peer(s) PROVE AddrsOk'
  <2>1. CASE \E l \in AppSocks : newConnection(l, s)
    BY <2>1, MuxStepsApart
  <2>2. CASE postConnect(s) \/ ConnectExpires(s) \/ Arrives(s) \/ processClose(s)
             \/ checkExpTimer(s)
    <3>1. UNCHANGED <<mux, env>>
      BY <2>2, Zenon DEF postConnect, ConnectExpires, Arrives, processClose, checkExpTimer
    <3> QED BY <1>1, <3>1
  <2> QED BY <1>3, <2>1, <2>2, Zenon DEF Peer
<1>4. ASSUME NEW s \in Socks, Worker(s) \/ accept(s) \/ Release(s) \/ LingerExpires(s)
      PROVE  AddrsOk'
  <2>1. UNCHANGED <<mux, env>>
    BY <1>4, Zenon DEF Worker, SndWorker, removeFromLists, accept, Release, LingerExpires
  <2> QED BY <1>1, <2>1
<1>5. ASSUME NEW s \in Socks, Closing(s) PROVE AddrsOk'
  <2>1. CASE notListening(s) \/ CloseInternal(s)
    BY <2>1, MuxStepsApart
  <2>2. CASE close(s) \/ NotifyAcceptors(s) \/ MoveToClosed(s)
    <3>1. UNCHANGED <<mux, env>>
      BY <2>2, Zenon DEF close, NotifyAcceptors, MoveToClosed
    <3> QED BY <1>1, <3>1
  <2> QED BY <1>5, <2>1, <2>2, Zenon DEF Closing
<1>6. CASE \/ ConnectionFails \/ Connection \/ AnnounceConnection \/ checkBrokenSockets
           \/ SecondsPass \/ cleanup \/ UNCHANGED vars
  <2>1. UNCHANGED <<mux, env>>
    BY <1>6, Zenon DEF ConnectionFails, Connection, AnnounceConnection, checkBrokenSockets,
       SecondsPass, cleanup, vars
  <2> QED BY <1>1, <2>1
<1>7. CASE (\E u \in Socks : removeSocket(u)) \/ GcCloseInternal \/ GcDeletes
  <2>1. (GcCloseInternal \/ GcDeletes) => \E u \in Socks : TRUE
    BY DEF GcCloseInternal, GcDeletes, Inv, GcOk
  <2> QED BY <1>7, <2>1, MuxStepsApart, SMTT(20)
<1> QED BY <1>2, <1>3, <1>4, <1>5, <1>6, <1>7, Zenon DEF Next, Collector

(* m_iRefCount of every multiplexer is the number of its sockets, and no    *)
(* two multiplexers receive on the same address and port.                   *)
THEOREM LifecycleMuxesExact == Spec => []MuxesExact
<1>1. Init => Inv /\ AddrsOk
  <2>1. Init => AddrsOk
    BY DEF Init, AddrsOk, Muxes
  <2> QED BY <2>1, InitInv, SMTT(20)
<1>2. Inv /\ AddrsOk /\ [Next]_vars => Inv' /\ AddrsOk'
  BY NextInv, NextApart, SMTT(20)
<1>3. Inv /\ AddrsOk => MuxesExact
  <2>1. SUFFICES ASSUME Inv, AddrsOk PROVE MuxesExact
    OBVIOUS
  <2>2. \A m \in Muxes :
          mux[m].refs = Cardinality({s \in Socks : Exists(s) /\ sock[s].mux = m})
    BY <2>1, SMTT(20) DEF Inv, RefsOk, Users, Muxes
  <2>3. ASSUME NEW m \in Muxes, NEW k \in Muxes, k # m, mux[k].addr.port = mux[m].addr.port
        PROVE  Cover(mux[k].addr, mux[k].cfg, {1, 2})
                 \cap Cover(mux[m].addr, mux[m].cfg, {1, 2}) = {}
    BY <2>1, <2>3, SMTT(20) DEF AddrsOk, Overlap
  <2>4. \A s \in Socks : Exists(s) /\ sock[s].mux # None => sock[s].mux \in Muxes
    BY <2>1, Zenon DEF Inv, RefsOk, SocksOk, SockOk, Typed, Muxes
  <2> QED BY <2>2, <2>3, <2>4 DEF MuxesExact
<1> QED BY <1>1, <1>2, <1>3, PTL DEF Spec

=============================================================================
