------------------------------- MODULE LossSet -------------------------------
(***************************************************************************)
(* What a loss list promises: it is the set of the sequence numbers known  *)
(* to be lost, its length is the size of that set, and the operations      *)
(* return what the set says.  CSndLossList (module SndLossList) implements *)
(* this specification with ranges linked through an array.                 *)
(***************************************************************************)
EXTENDS SeqNo, FiniteSets

VARIABLES lost,     \* the lost sequence numbers
          length,   \* the length the list reports
          ret       \* the result of the last operation

\* s is not later than t.
NotAfter(s, t) == seqcmp(s, t) <= 0

Earliest(S) == CHOOSE s \in S : \A t \in S : NotAfter(s, t)

Init == lost = {} /\ length = 0 /\ ret = 0

\* Adds a range and returns how many of its numbers are new.
Insert(lo, hi) ==
    /\ lost' = lost \cup SeqRange(lo, hi)
    /\ ret' = Cardinality(lost') - Cardinality(lost)

\* Removes every number up to some point of the sequence.
Remove ==
    /\ lost' \subseteq lost
    /\ \A s \in lost \ lost', t \in lost' : NotAfter(s, t)
    /\ ret' = 0

\* Takes the earliest number out, or reports that there is none.
Pop ==
    /\ ret' = IF lost = {} THEN NONE ELSE Earliest(lost)
    /\ lost' = lost \ {ret'}

Next ==
    /\ \/ Remove
       \/ Pop
       \/ \E lo, hi \in lost' : Insert(lo, hi)
    /\ length' = Cardinality(lost')

Spec == Init /\ [][Next]_<<lost, length, ret>>
==============================================================================
