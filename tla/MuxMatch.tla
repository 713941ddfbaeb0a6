------------------------------ MODULE MuxMatch ------------------------------
(***************************************************************************)
(* The choice of a multiplexer for a socket that binds (updateMux in       *)
(* api.cpp): the requested address is held against every multiplexer on    *)
(* the same port, and the answer is to reuse it, to pass on to the next,   *)
(* or to refuse the binding.  An address is [fam, any, ip, port], a        *)
(* socket's setting [v6only, reuse, chan] where chan stands for the UDP    *)
(* settings that must be equal, and a multiplexer has both.                *)
(***************************************************************************)
EXTENDS Integers

(* Binding to the IPv6 wildcard needs the IPV6ONLY option to be explicit. *)
BindAllowed(req, cfg) == ~(cfg.v6only = -1 /\ req.fam = 6 /\ req.any)

isCompatWith(mcfg, cfg) ==
  /\ mcfg.chan = cfg.chan
  /\ mcfg.reuse = cfg.reuse
  /\ cfg.v6only = -1 \/ mcfg.v6only = cfg.v6only

channelSettingsMatch(mcfg, cfg) == mcfg.reuse /\ isCompatWith(mcfg, cfg)

inet6SettingsCompat(maddr, mcfg, req, cfg) ==
  \/ maddr.fam # 6
  \/ ~req.any
  \/ cfg.v6only = -1
  \/ cfg.v6only = mcfg.v6only

(* What the wildcard multiplexer m says of the request. *)
WildcardSays(m, req, cfg) ==
  IF m.addr.fam = 6
  THEN IF m.cfg.v6only = 1 /\ req.fam = 4 THEN "pass"
       ELSE IF req.fam = 6 /\ req.any /\ cfg.v6only = m.cfg.v6only THEN "match"
       ELSE "conflict"
  ELSE CASE req.fam = 4 /\ req.any -> "match"
         [] req.fam = 6 /\ (cfg.v6only = 1 \/ ~req.any) -> "pass"
         [] OTHER -> "conflict"

MuxSays(m, req, cfg) ==
  CASE m.addr.port # req.port -> "pass"
    [] m.addr.any -> WildcardSays(m, req, cfg)
    [] req.any /\ req.fam = m.addr.fam -> "conflict"
    [] m.addr.fam = req.fam /\ m.addr.ip = req.ip -> "match"
    [] OTHER -> "pass"

(* A match that the settings do not allow is a conflict as well. *)
Verdict(m, req, cfg) ==
  LET says == MuxSays(m, req, cfg) IN
  IF says # "match" THEN says
  ELSE IF /\ channelSettingsMatch(m.cfg, cfg)
          /\ inet6SettingsCompat(m.addr, m.cfg, req, cfg) THEN "reuse"
  ELSE "conflict"

(* The local addresses a binding receives on, for the addresses of IPs. *)
Cover(addr, cfg, IPs) ==
  IF ~addr.any THEN {<<addr.fam, addr.ip>>}
  ELSE ({addr.fam} \X IPs) \cup
       (IF addr.fam = 6 /\ cfg.v6only = 0 THEN {4} \X IPs ELSE {})
=============================================================================
