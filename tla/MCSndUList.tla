----------------------------- MODULE MCSndUList -----------------------------
(* Two sockets, for the end of the worker.                                     *)
EXTENDS SndUList

MCCases == {[socks |-> 1 .. 2, maxTime |-> 2, period |-> 1]}
=============================================================================
