--------------------------- MODULE MCRendezvous ---------------------------
(* Small instance of Rendezvous. *)
EXTENDS Rendezvous

(* Options of a socket. *)
Plain == [secret |-> "", enforced |-> TRUE, tsbpd |-> TRUE, rcvLatency |-> 2, peerLatency |-> 1,
          tlpktdrop |-> TRUE, nakReport |-> TRUE, messageAPI |-> TRUE, congctl |-> "live",
          filter |-> NoFilter, filterDefaults |-> [rows |-> 1], version |-> 1, minVersion |-> 1,
          rendezvous |-> TRUE]

Secret(pw, enf) == [Plain EXCEPT !.secret = pw, !.enforced = enf]

Later == [Plain EXCEPT !.rcvLatency = 1, !.peerLatency = 3, !.tlpktdrop = FALSE]
File  == [Plain EXCEPT !.tsbpd = FALSE, !.messageAPI = FALSE, !.congctl = "file"]
Fec   == [Plain EXCEPT !.filter = [cols |-> 2]]
Mixed == [Later EXCEPT !.enforced = FALSE]

Pair(x, y) == [A |-> x, B |-> y]

RvCase(c, d, k, r, t) ==
  [cfg |-> Pair(c, d), cookie |-> k, reordering |-> r, traffic |-> t]

(* 3-bit cookies: a difference of half the range, a plain one and a draw. *)
MCCases ==
  {RvCase(Plain, Later, k, FALSE, FALSE) : k \in {Pair(-4, -1), Pair(3, 3)}}
  \cup {RvCase(p[1], p[2], Pair(-1, 3), FALSE, FALSE) :
          p \in {<<File, Later>>, <<Later, Fec>>, <<Secret("pw1", TRUE), Mixed>>,
                 <<Secret("pw1", TRUE), Secret("pw1", FALSE)>>, <<Secret("pw1", FALSE), Mixed>>}}
  \cup {RvCase(Plain, Later, Pair(3, -1), TRUE, FALSE),
        RvCase(Plain, Later, Pair(3, -1), FALSE, TRUE)}

===========================================================================
