------------------------------ MODULE SndUList ------------------------------
(* The schedule of the sending worker (CSndUList, queue.cpp): a binary heap of  *)
(* sockets by the time of their next packet, the timer and the condition the    *)
(* worker sleeps on, the threads that schedule and remove sockets, and stop().  *)
(* The worker's own steps are those between two accesses to shared state.       *)
EXTENDS Integers, Sequences, FiniteSets

CONSTANT Cases

NONE == -1
Never == 0                                   \* steady_clock::time_point()

\* heap[i + 1] is m_pHeap[i]; sched is m_tsSchedTime of the timer.
VARIABLES env, heap, loc, ts, now, sched, pc, nextTime, u, signalled, closing
vars == <<env, heap, loc, ts, now, sched, pc, nextTime, u, signalled, closing>>

Entry(h, i) == h[i + 1]
Swap(h, p, q) == [h EXCEPT ![p + 1] = h[q + 1], ![q + 1] = h[p + 1]]

\* The new node rises from q; the nodes it passes get their new location.
RECURSIVE Rise(_, _, _, _)
Rise(h, l, t, q) ==
    LET p == (q - 1) \div 2
    IN IF q = 0 \/ t[Entry(h, p)] <= t[Entry(h, q)]
       THEN [heap |-> h, loc |-> [l EXCEPT ![Entry(h, q)] = q]]
       ELSE Rise(Swap(h, p, q), [l EXCEPT ![Entry(h, p)] = q], t, p)

\* The node that took the place of a removed one sinks from q.
RECURSIVE Sink(_, _, _)
Sink(h, l, q) ==
    LET last == Len(h) - 1
        c == (2 * q) + 1
        p == IF c + 1 <= last /\ ts[Entry(h, c)] > ts[Entry(h, c + 1)] THEN c + 1 ELSE c
    IN IF c > last \/ ts[Entry(h, q)] <= ts[Entry(h, p)]
       THEN [heap |-> h, loc |-> l]
       ELSE Sink(Swap(h, p, q),
                 [l EXCEPT ![Entry(h, p)] = q, ![Entry(h, q)] = p], p)

insert_norealloc_(h, l, s, t) ==
    IF l[s] >= 0 THEN [heap |-> h, loc |-> l, ts |-> ts]
    ELSE LET times == [ts EXCEPT ![s] = t]
             up == Rise(Append(h, s), l, times, Len(h))
         IN [heap |-> up.heap, loc |-> up.loc, ts |-> times]

\* The last node takes the place, and only sinks: it may be earlier than its new parent.
remove_(s) ==
    LET q == loc[s]
        last == heap[Len(heap)]
        h == [i \in 1 .. Len(heap) - 1 |-> IF i = q + 1 THEN last ELSE heap[i]]
        moved == [loc EXCEPT ![last] = q]
        down == IF q < Len(h) THEN Sink(h, moved, q) ELSE [heap |-> h, loc |-> moved]
    IN IF q < 0 THEN [heap |-> heap, loc |-> loc]
       ELSE [down EXCEPT !.loc[s] = NONE]

-----------------------------------------------------------------------------
\* Inserted at the top: the timer is interrupted; as the only one: the worker is woken.
Insert(h, l, s, t) ==
    LET r == insert_norealloc_(h, l, s, t)
    IN /\ heap' = r.heap /\ loc' = r.loc /\ ts' = r.ts
       /\ sched' = IF r.loc[s] = 0 THEN now ELSE sched
       /\ signalled' = (signalled \/ (pc = "wait" /\ Len(r.heap) = 1))

\* A scheduled socket only ever moves to an earlier time, and only on request.
update(s, reschedule, t) ==
    IF loc[s] < 0 THEN Insert(heap, loc, s, t)
    ELSE IF ~reschedule \/ ts[s] <= t
    THEN UNCHANGED <<heap, loc, ts, sched, signalled>>
    ELSE IF loc[s] = 0
    THEN /\ ts' = [ts EXCEPT ![s] = t] /\ sched' = now
         /\ UNCHANGED <<heap, loc, signalled>>
    ELSE LET r == remove_(s) IN Insert(r.heap, r.loc, s, t)

\* New data, an acknowledgement, a loss report or a timer (DONT_RESCHEDULE), or a
\* connection that breaks (DO_RESCHEDULE): always for the present time.
Schedule ==
    \E s \in DOMAIN loc, reschedule \in BOOLEAN :
        /\ ~closing
        /\ update(s, reschedule, now)
        /\ UNCHANGED <<env, now, pc, nextTime, u, closing>>

\* closeInternal takes the socket off the list.
Remove ==
    \E s \in DOMAIN loc :
        LET r == remove_(s)
        IN /\ ~closing /\ loc[s] >= 0
           /\ heap' = r.heap /\ loc' = r.loc
           /\ sched' = IF Len(r.heap) = 1 THEN now ELSE sched
           /\ UNCHANGED <<env, ts, now, pc, nextTime, u, signalled, closing>>

Tick ==
    /\ now < env.maxTime /\ now' = now + 1
    /\ UNCHANGED <<env, heap, loc, ts, sched, pc, nextTime, u, signalled, closing>>

\* CSndQueue::stop, when the multiplexer has no socket left: m_bClosing, the timer,
\* and the condition; it then joins the worker.
stop ==
    /\ ~closing /\ heap = <<>>
    /\ closing' = TRUE /\ sched' = now
    /\ signalled' = (signalled \/ pc = "wait")
    /\ UNCHANGED <<env, heap, loc, ts, now, pc, nextTime, u>>

-----------------------------------------------------------------------------
\* The loop's condition and getNextProcTime.
getNextProcTime ==
    /\ pc = "top"
    /\ \/ /\ closing /\ pc' = "exit" /\ UNCHANGED nextTime
       \/ /\ ~closing
          /\ nextTime' = IF heap = <<>> THEN Never ELSE ts[heap[1]]
          /\ pc' = IF heap = <<>> THEN "idle" ELSE "timed"
    /\ UNCHANGED <<env, heap, loc, ts, now, sched, u, signalled, closing>>

\* No socket: m_bClosing is read again, before the lock of the list is taken.
CheckClosing ==
    /\ pc = "idle"
    /\ pc' = IF closing THEN "top" ELSE "waitNonEmpty"
    /\ UNCHANGED <<env, heap, loc, ts, now, sched, nextTime, u, signalled, closing>>

\* Faulty: the list is not looked at again under its lock.
BadwaitNonEmpty ==
    \/ /\ pc = "waitNonEmpty"
       /\ pc' = "wait" /\ signalled' = FALSE
       /\ UNCHANGED <<env, heap, loc, ts, now, sched, nextTime, u, closing>>
    \/ /\ pc = "wait" /\ signalled
       /\ pc' = "top" /\ signalled' = FALSE
       /\ UNCHANGED <<env, heap, loc, ts, now, sched, nextTime, u, closing>>

waitNonEmpty ==
    \/ /\ pc = "waitNonEmpty"
       /\ pc' = IF heap # <<>> THEN "top" ELSE "wait"
       /\ signalled' = FALSE
       /\ UNCHANGED <<env, heap, loc, ts, now, sched, nextTime, u, closing>>
    \/ /\ pc = "wait" /\ signalled
       /\ pc' = "top" /\ signalled' = FALSE
       /\ UNCHANGED <<env, heap, loc, ts, now, sched, nextTime, u, closing>>

\* sleep_until overwrites what an interrupt since getNextProcTime has set.
sleep_until ==
    \/ /\ pc = "timed"
       /\ \/ /\ now < nextTime /\ sched' = nextTime /\ pc' = "sleep"
          \/ /\ now >= nextTime /\ pc' = "pop" /\ UNCHANGED sched
       /\ UNCHANGED <<env, heap, loc, ts, now, nextTime, u, signalled, closing>>
    \/ /\ pc = "sleep" /\ now >= sched
       /\ pc' = "pop"
       /\ UNCHANGED <<env, heap, loc, ts, now, sched, nextTime, u, signalled, closing>>

Due == heap # <<>> /\ ts[heap[1]] <= now

pop ==
    /\ pc = "pop"
    /\ \/ /\ ~Due
          /\ pc' = "top"
          /\ UNCHANGED <<heap, loc, sched, u>>
       \/ /\ Due
          /\ u' = heap[1] /\ pc' = "pack"
          /\ LET r == remove_(heap[1])
             IN /\ heap' = r.heap /\ loc' = r.loc
                /\ sched' = IF Len(r.heap) = 1 THEN now ELSE sched
    /\ UNCHANGED <<env, ts, now, nextTime, signalled, closing>>

\* packData: nothing to send, or a packet and the time of the next one.
packData ==
    /\ pc = "pack" /\ pc' = "top" /\ u' = NONE
    /\ \/ UNCHANGED <<heap, loc, ts, sched, signalled>>
       \/ \E t \in now .. now + env.period : ~closing /\ t <= env.maxTime /\ update(u, TRUE, t)
    /\ UNCHANGED <<env, now, nextTime, closing>>

Worker ==
    getNextProcTime \/ CheckClosing \/ waitNonEmpty \/ sleep_until \/ pop \/ packData

Init ==
    /\ env \in Cases
    /\ heap = <<>>
    /\ loc = [s \in env.socks |-> NONE] /\ ts = [s \in env.socks |-> Never]
    /\ now = 1 /\ sched = Never
    /\ pc = "top" /\ nextTime = Never /\ u = NONE
    /\ signalled = FALSE /\ closing = FALSE

Next == Schedule \/ Remove \/ Tick \/ stop \/ Worker

Spec == Init /\ [][Next]_vars

\* The worker thread is scheduled, and time goes on.
FairSpec == Spec /\ WF_vars(Worker) /\ WF_vars(Tick)

-----------------------------------------------------------------------------
\* Every node knows its place in the heap, whatever rises, sinks or is removed, so
\* that no socket is scheduled twice or lost (insert_norealloc_, remove_); the worker
\* waits for a first socket, unsignalled, only while there is none (waitNonEmpty).
ScheduleExact ==
    /\ \A s \in DOMAIN loc : loc[s] >= 0 => loc[s] < Len(heap) /\ Entry(heap, loc[s]) = s
    /\ \A i \in 0 .. Len(heap) - 1 : loc[Entry(heap, i)] = i
    /\ pc = "wait" /\ ~signalled => heap = <<>>

\* queue.cpp:443 on signalInterrupt: "Unblock CSndQueue worker thread if it is
\* waiting."  Once stop has been called the worker ends, and stop can join it.
StopEnds == closing ~> pc = "exit"
=============================================================================
