----------------------------- MODULE SeqNoClock -----------------------------
(***************************************************************************)
(* Two holders of a sequence number in one connection (the sender's last   *)
(* acknowledged and last sent number, the receiver's buffer start and last *)
(* received number, ...) that move by incseq and decseq while the true     *)
(* distance between them stays within a window.  The ghost variable dist   *)
(* is that true distance: it never wraps.  The properties say that the     *)
(* circular comparisons of CSeqNo recover it from the wrapped numbers.     *)
(***************************************************************************)
EXTENDS SeqNo

CONSTANT Window       \* bound on the true distance between the two numbers

ASSUME WindowAssumption == Window \in Nat /\ Window <= SeqNoTH

VARIABLES first, second, dist

clockVars == <<first, second, dist>>

ClockInit == first \in SeqNos /\ second = first /\ dist = 0

\* One packet further, or one back (decseq is used to form the last number
\* before an acknowledgement).
StepForward == dist < Window /\ second' = incseq(second) /\ dist' = dist + 1 /\ UNCHANGED first
StepBack    == dist > -Window /\ second' = decseq(second) /\ dist' = dist - 1 /\ UNCHANGED first

\* Jumps by a count: dropped messages, skipped packets.
JumpForward(n) ==
    dist + n <= Window /\ second' = incseqBy(second, n) /\ dist' = dist + n /\ UNCHANGED first
JumpBack(n) ==
    dist - n >= -Window /\ second' = decseqBy(second, n) /\ dist' = dist - n /\ UNCHANGED first

\* The other holder catches up: an acknowledgement arrives.
CatchUp == dist > -Window /\ first' = incseq(first) /\ dist' = dist - 1 /\ UNCHANGED second

ClockNext ==
    \/ StepForward
    \/ StepBack
    \/ CatchUp
    \/ \E n \in 0 .. Window : JumpForward(n) \/ JumpBack(n)

ClockSpec == ClockInit /\ [][ClockNext]_clockVars
-----------------------------------------------------------------------------
\* The state: two sequence numbers and the distance the window allows.
ClockTypeOK == first \in SeqNos /\ second \in SeqNos /\ dist \in -Window .. Window

\* seqoff gives the true signed distance across the wrap (common.h:678).
SeqoffIsDistance == seqoff(first, second) = dist

\* The sign of seqcmp is the order of the two numbers in time, and maxseq
\* picks the later of them (common.h:649, 712).
SeqcmpIsOrder ==
    /\ (seqcmp(second, first) > 0) <=> (dist > 0)
    /\ (seqcmp(second, first) < 0) <=> (dist < 0)
    /\ maxseq(first, second) = IF dist > 0 THEN second ELSE first

\* seqlen counts the numbers from the earlier to the later, both included
\* (common.h:661).
SeqlenCountsRange == dist >= 0 => seqlen(first, second) = dist + 1

\* The circular arithmetic of CSeqNo recovers the true distance, order and count.
ArithmeticExact == SeqoffIsDistance /\ SeqcmpIsOrder /\ SeqlenCountsRange
=============================================================================
