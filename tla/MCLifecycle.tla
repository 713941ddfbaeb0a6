----------------------------- MODULE MCLifecycle ----------------------------
(* Up to two sockets of the application and two spawned by a listener: a   *)
(* listener and its queue, sockets that share or contend for a             *)
(* multiplexer, a sender that lingers, and the cleanup of the library.     *)
EXTENDS Lifecycle

MCAddr(any, ip) == [fam |-> 4, any |-> any, ip |-> ip, port |-> 1]
MCCase(socks, addrs, ops, linger, sync) ==
  [socks |-> socks, addrs |-> addrs, ops |-> ops, linger |-> linger, sync |-> sync,
   cfg |-> [v6only |-> -1, reuse |-> TRUE, chan |-> 0]]

MCBound == {"socket", "bind", "close"}

MCCases ==
  { MCCase({1, 3}, {MCAddr(TRUE, 0)}, MCBound \cup {"listen", "accept", "break"}, FALSE, TRUE),
    MCCase({1, 3, 4}, {MCAddr(TRUE, 0)}, {"socket", "bind", "listen", "accept", "break"},
           FALSE, TRUE),
    MCCase({1, 2, 3}, {MCAddr(TRUE, 0)}, MCBound \cup {"listen"}, FALSE, TRUE),
    MCCase({1, 2}, {MCAddr(TRUE, 0), MCAddr(FALSE, 1), MCAddr(FALSE, 2)},
           MCBound \cup {"connect"}, FALSE, TRUE),
    MCCase({1}, {}, {"socket", "connect", "close", "data", "break"}, TRUE, TRUE),
    MCCase({1}, {}, {"socket", "connect", "close", "data", "break"}, TRUE, FALSE),
    MCCase({1, 3}, {MCAddr(TRUE, 0)}, {"socket", "bind", "listen", "accept", "cleanup"},
           FALSE, TRUE) }
=============================================================================
