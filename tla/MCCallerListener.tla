------------------------- MODULE MCCallerListener -------------------------
(* Small instance of CallerListener. *)
EXTENDS CallerListener

(* Options of a socket. *)
Plain == [secret |-> "", enforced |-> TRUE, tsbpd |-> TRUE, rcvLatency |-> 2, peerLatency |-> 1,
          tlpktdrop |-> TRUE, nakReport |-> TRUE, messageAPI |-> TRUE, congctl |-> "live",
          filter |-> NoFilter, filterDefaults |-> [rows |-> 1], version |-> 1, minVersion |-> 1,
          rendezvous |-> FALSE, hookRejects |-> FALSE]

Secret(pw, enf) == [Plain EXCEPT !.secret = pw, !.enforced = enf]

Later == [Plain EXCEPT !.rcvLatency = 1, !.peerLatency = 3, !.tlpktdrop = FALSE]
File  == [Plain EXCEPT !.tsbpd = FALSE, !.messageAPI = FALSE, !.congctl = "file"]
Fec   == [Plain EXCEPT !.filter = [cols |-> 2]]
Hook  == [Plain EXCEPT !.hookRejects = TRUE]
Mixed == [Later EXCEPT !.enforced = FALSE]

Case(c, l, s, b, m, r) ==
  [c |-> c, l |-> l, sync |-> s, busy |-> b, minutes |-> m, reordering |-> r]

MCCases ==
  {Case(p[1], p[2], p[3], FALSE, 1, FALSE) :
     p \in {<<Fec, Fec, TRUE>>, <<Plain, Hook, FALSE>>, <<Mixed, Secret("pw1", TRUE), TRUE>>,
            <<Mixed, Secret("pw1", FALSE), FALSE>>,
            <<Secret("pw1", FALSE), Secret("pw2", FALSE), TRUE>>}}
  \cup {Case(File, File, TRUE, TRUE, 1, FALSE),
        Case(Secret("pw1", TRUE), Secret("pw1", FALSE), FALSE, FALSE, 2, FALSE),
        Case(Plain, Later, TRUE, FALSE, 1, TRUE)}

===========================================================================
