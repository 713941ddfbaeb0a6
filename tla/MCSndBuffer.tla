---------------------------- MODULE MCSndBuffer ----------------------------
(* One message that expires: the loop of the retransmission.                   *)
EXTENDS SndBuffer

MCCases == {[unit |-> 2, sndBuf |-> 5, lens |-> {3}, ttls |-> {TRUE}, msgs |-> 1,
             fileLens |-> {}, shortFile |-> FALSE, window |-> 3, tlpktdrop |-> FALSE]}
=============================================================================
