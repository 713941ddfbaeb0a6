------------------------------- MODULE SeqNo -------------------------------
(***************************************************************************)
(* CSeqNo (srtcore/common.h): the circular arithmetic on packet sequence   *)
(* numbers.  The source has m_iMaxSeqNo = 0x7FFFFFFF and m_iSeqNoTH =      *)
(* 0x3FFFFFFF; here both are constants tied by the same relation, so that  *)
(* small instances wrap around and the theorems hold for every size.       *)
(***************************************************************************)
EXTENDS Integers

CONSTANTS MaxSeqNo,   \* m_iMaxSeqNo, the largest sequence number
          SeqNoTH     \* m_iSeqNoTH, the comparison threshold

ASSUME SeqNoAssumption ==
    /\ MaxSeqNo \in Nat
    /\ SeqNoTH \in Nat
    /\ SeqNoTH > 1
    /\ MaxSeqNo = 2 * SeqNoTH + 1

SeqNos == 0 .. MaxSeqNo

\* SRT_SEQNO_NONE: the trap value, outside the range of sequence numbers.
NONE == -1

\* Faulty: numbers compared without a thought for the wrap.
BadSeqcmp(seq1, seq2) == seq1 - seq2

AbsDiff(seq1, seq2) == IF seq1 >= seq2 THEN seq1 - seq2 ELSE seq2 - seq1

\* Only the sign of the result is meaningful.
seqcmp(seq1, seq2) ==
    IF AbsDiff(seq1, seq2) < SeqNoTH THEN seq1 - seq2 ELSE seq2 - seq1

seqlen(seq1, seq2) ==
    IF seq1 <= seq2 THEN seq2 - seq1 + 1 ELSE seq2 - seq1 + MaxSeqNo + 2

seqoff(seq1, seq2) ==
    IF AbsDiff(seq1, seq2) < SeqNoTH THEN seq2 - seq1
    ELSE IF seq1 < seq2 THEN seq2 - seq1 - MaxSeqNo - 1
         ELSE seq2 - seq1 + MaxSeqNo + 1

incseq(seq) == IF seq = MaxSeqNo THEN 0 ELSE seq + 1

decseq(seq) == IF seq = 0 THEN MaxSeqNo ELSE seq - 1

incseqBy(seq, inc) ==
    IF MaxSeqNo - seq >= inc THEN seq + inc ELSE seq - MaxSeqNo + inc - 1

decseqBy(seq, dec) ==
    IF seq < dec THEN MaxSeqNo - (dec - seq) + 1 ELSE seq - dec

maxseq(seq1, seq2) == IF seqcmp(seq1, seq2) < 0 THEN seq2 ELSE seq1

\* The sequence numbers from lo to hi inclusive, in circular order.
SeqRange(lo, hi) == {incseqBy(lo, k) : k \in 0 .. seqlen(lo, hi) - 1}
=============================================================================
