----------------------------- MODULE UnitQueue -----------------------------
(* The pool of packet units of a receiving queue (CUnitQueue, queue.cpp): the   *)
(* receiving worker takes a unit for every datagram, the packet filter takes    *)
(* more for the packets it rebuilds, the receiver buffers keep units, and the   *)
(* threads that read the buffers give them back.  A unit's flag and the counter *)
(* are two atomics: giving a unit back is two steps, with the worker between.   *)
EXTENDS Integers, Sequences, FiniteSets

CONSTANT Cases

\* A scenario: the units of an entry, the bound on the pool, the filter with the packets
\* it may rebuild at once, and the threads that may give units back at the same time.
\* There are fewer of those than units in an entry, which has 128 in the library.
PoolAssumption ==
    \A c \in Cases :
        /\ c.block \in Nat \ {0} /\ c.maxUnits \in Nat /\ c.maxRebuilt \in Nat
        /\ c.filter \in BOOLEAN /\ c.mayFail \in BOOLEAN
        /\ c.readers \in Nat /\ c.readers < c.block

NoUnit == -1

\* taken[u] is m_bTaken; units are numbered through the entries, in ring order.
\* kept: units in receiver buffers.  freeing: given back, the counter still to follow.
\* dry: the worker got no unit although no allocation failed.
VARIABLES env, taken, numTaken, avail, pc, incoming, rebuild, kept, freeing, dry
poolVars == <<env, taken, numTaken, avail, pc, incoming, rebuild, kept, freeing, dry>>

capacity == Len(taken)
Crowded == numTaken * 10 > capacity * 9

\* A new entry of m_iBlockSize units behind the last one, if it can be allocated.
increase_(ok) ==
    IF Crowded /\ ok THEN taken \o [i \in 1 .. env.block |-> FALSE] ELSE taken

\* The search takes the free unit it comes to first.
Nearest(steps) == CHOOSE i \in steps : \A j \in steps : i <= j

\* From m_pAvailUnit through the ring; after a search in vain the next entry is up.
Search(flags) ==
    LET n == Len(flags)
        free == {i \in 0 .. n - 1 : ~flags[((avail - 1 + i) % n) + 1]}
        nextEntry == ((((avail + env.block - 2) \div env.block) * env.block) % n) + 1
    IN IF free = {} THEN [unit |-> NoUnit, avail |-> nextEntry]
       ELSE LET u == ((avail - 1 + Nearest(free)) % n) + 1 IN [unit |-> u, avail |-> u]

getNextAvailUnit(ok) ==
    LET flags == increase_(ok)
    IN IF numTaken >= Len(flags) THEN [flags |-> flags, unit |-> NoUnit, avail |-> avail]
       ELSE [flags |-> flags, unit |-> Search(flags).unit, avail |-> Search(flags).avail]

\* Allocations succeed, or may fail; the pool stays within a bound.
Allocation == {ok \in BOOLEAN : ok \/ env.mayFail}
Bounded == Crowded => capacity + env.block <= env.maxUnits

-----------------------------------------------------------------------------
\* worker_RetrieveUnit: without a unit the datagram is read and dropped.
worker_RetrieveUnit ==
    \E ok \in Allocation :
        LET r == getNextAvailUnit(ok)
        IN /\ pc = "retrieve" /\ Bounded
           /\ taken' = r.flags /\ avail' = r.avail
           /\ incoming' = IF r.unit = NoUnit THEN <<>> ELSE <<r.unit>>
           /\ pc' = IF r.unit = NoUnit THEN "retrieve" ELSE "receive"
           /\ dry' = (dry \/ (r.unit = NoUnit /\ ok))
           /\ UNCHANGED <<env, numTaken, rebuild, kept, freeing>>

\* PacketFilter::receive, first part: a packet that passes is marked, uncounted, while
\* the filter asks for units for the packets it has rebuilt.
receive ==
    /\ pc = "receive" /\ pc' = "rebuild"
    /\ \E pass \in BOOLEAN, n \in 0 .. env.maxRebuilt :
          /\ ~env.filter => pass /\ n = 0
          /\ taken' = [taken EXCEPT ![incoming[1]] = env.filter /\ pass]
          /\ incoming' = IF pass THEN incoming ELSE <<>>
          /\ rebuild' = n
    /\ UNCHANGED <<env, numTaken, avail, kept, freeing, dry>>

\* One rebuilt packet; without a unit the others are given up too.
InsertRebuilt ==
    \E ok \in Allocation :
        LET r == getNextAvailUnit(ok)
        IN /\ pc = "rebuild" /\ rebuild > 0 /\ Bounded
           /\ avail' = r.avail
           /\ taken' = IF r.unit = NoUnit THEN r.flags ELSE [r.flags EXCEPT ![r.unit] = TRUE]
           /\ incoming' = IF r.unit = NoUnit THEN incoming ELSE Append(incoming, r.unit)
           /\ rebuild' = IF r.unit = NoUnit THEN 0 ELSE rebuild - 1
           /\ UNCHANGED <<env, numTaken, pc, kept, freeing, dry>>

\* Second part of receive: every unit is set free again, for the buffer to decide.
SetAllFree ==
    /\ pc = "rebuild" /\ rebuild = 0 /\ pc' = "insert"
    /\ taken' = [u \in 1 .. capacity |->
                    taken[u] /\ ~\E i \in 1 .. Len(incoming) : incoming[i] = u]
    /\ UNCHANGED <<env, numTaken, avail, incoming, rebuild, kept, freeing, dry>>

\* CRcvBuffer::insert keeps the unit (makeUnitTaken) or refuses it: belated, duplicate.
insert ==
    /\ pc = "insert"
    /\ \/ /\ incoming = <<>> /\ pc' = "retrieve"
          /\ UNCHANGED <<taken, numTaken, incoming, kept>>
       \/ /\ incoming # <<>> /\ incoming' = Tail(incoming)
          /\ \/ UNCHANGED <<taken, numTaken, kept>>
             \/ /\ numTaken' = numTaken + 1
                /\ taken' = [taken EXCEPT ![Head(incoming)] = TRUE]
                /\ kept' = kept \cup {Head(incoming)}
          /\ UNCHANGED pc
    /\ UNCHANGED <<env, avail, rebuild, freeing, dry>>

\* Faulty: the counter goes first.
BadmakeUnitFree ==
    \/ \E u \in kept \ freeing :
          /\ Cardinality(freeing) < env.readers
          /\ numTaken' = numTaken - 1
          /\ freeing' = freeing \cup {u}
          /\ UNCHANGED <<env, taken, avail, pc, incoming, rebuild, kept, dry>>
    \/ \E u \in freeing :
          /\ taken' = [taken EXCEPT ![u] = FALSE]
          /\ kept' = kept \ {u} /\ freeing' = freeing \ {u}
          /\ UNCHANGED <<env, numTaken, avail, pc, incoming, rebuild, dry>>

\* A thread that reads, drops or closes a buffer gives a unit back: flag, then counter.
makeUnitFree ==
    \/ \E u \in kept :
          /\ taken' = [taken EXCEPT ![u] = FALSE]
          /\ kept' = kept \ {u} /\ freeing' = freeing \cup {u}
          /\ Cardinality(freeing) < env.readers /\ u \notin freeing
          /\ UNCHANGED <<env, numTaken, avail, pc, incoming, rebuild, dry>>
    \/ \E u \in freeing :
          /\ numTaken' = numTaken - 1
          /\ freeing' = freeing \ {u}
          /\ UNCHANGED <<env, taken, avail, pc, incoming, rebuild, kept, dry>>

PoolInit ==
    /\ env \in Cases
    /\ taken = [u \in 1 .. env.block |-> FALSE] /\ numTaken = 0 /\ avail = 1
    /\ pc = "retrieve" /\ incoming = <<>> /\ rebuild = 0
    /\ kept = {} /\ freeing = {} /\ dry = FALSE

PoolNext ==
    worker_RetrieveUnit \/ receive \/ InsertRebuilt \/ SetAllFree \/ insert \/ makeUnitFree

PoolSpec == PoolInit /\ [][PoolNext]_poolVars

-----------------------------------------------------------------------------
\* A unit has one user: those on their way to the buffer are distinct and not in a
\* buffer, and those in a buffer are marked, though the filter marks and unmarks
\* units behind the counter's back (PacketFilter::receive, InsertRebuilt).
OneUserPerUnit ==
    /\ \A i, j \in 1 .. Len(incoming) : incoming[i] = incoming[j] => i = j
    /\ \A i \in 1 .. Len(incoming) : incoming[i] \notin kept
    /\ \A u \in kept : taken[u]

\* The counter never falls below the units in use while a unit is given back, so that
\* the worker finds a unit, or grows the pool, unless an allocation has just failed
\* (getNextAvailUnit, makeUnitFree).
DryOnlyOnFailure == ~dry

\* Both: the pool serves the worker, the filter, the buffers and the readers at once.
UnitsExact == OneUserPerUnit /\ DryOnlyOnFailure
=============================================================================
