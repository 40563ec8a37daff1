------------------------------- MODULE Outbound -------------------------------
(***************************************************************************)
(* From a node to the configuration of the core (adapter/lib.rs) and of a  *)
(* testbed (egress.rs).  JSON objects are records; keys that repeat a value *)
(* in another spelling are left out.                                       *)
(***************************************************************************)
EXTENDS Nodes, Sequences, TLC

Mark == 1              \* settings.fwmark, the ruleset's mark too; 0 is no mark

\* Mutant of EmbedTransport: a WebSocket's Host header is forgotten.
EmbedTransportNoHost(t) ==
  IF t.type \in {"ws", "xhttp"} THEN [k \in DOMAIN t \ {"host"} |-> t[k]] ELSE t

\* Every key of a transport has its own in JSON, but for the host of XHTTP.
EmbedTransport(t) ==
  IF t.type = "xhttp" THEN [k \in DOMAIN t \ {"host"} |-> t[k]] ELSE t

\* Mutant of EmbedSecurity: REALITY is left to the nested object, which the tls
\* object needs to be enabled for.
EmbedSecurityPlainOnly(s) ==
  [enabled |-> s.type = "tls", reality |-> s.type = "reality", of |-> s]

\* The tls object: enabled for both, with the reality object nested in it.
EmbedSecurity(s) ==
  [enabled |-> s.type \in {"tls", "reality"}, reality |-> s.type = "reality", of |-> s]

\* Only these three carry transport, tls and multiplexing.
Layered == {"vless", "vmess", "trojan"}
NoLayer == [type |-> "absent"]

\* A node's protocol brings its own keys, all of them compiled.
compile_outbound(n) ==
  LET layer(l) == IF n.protocol.type \in Layered THEN l ELSE NoLayer IN
  [tag |-> n.label, server |-> n.endpoint.host, server_port |-> n.endpoint.port,
   protocol |-> n.protocol, transport |-> layer(EmbedTransport(n.transport)),
   tls |-> layer(EmbedSecurity(n.security))]

Direct == [tag |-> "direct", type |-> "direct"]

compile_routing(tag, mark, bind) ==
  [outbound |-> tag, default_mark |-> mark, auto_detect_interface |-> bind]

\* Mutant of compile_dns: the resolver of the tunnel is dialled directly.
compile_dns_direct(tag, localDns) == <<[tag |-> "tunnel-dns", detour |-> "direct"]>>

\* The resolver in the tunnel, and with a gateway the one on the LAN.
compile_dns(tag, localDns) ==
  <<[tag |-> "tunnel-dns", detour |-> tag]>> \o
  (IF localDns THEN <<[tag |-> "local-dns", detour |-> "direct"]>> ELSE <<>>)

\* Mutant of compile_full_config: auto_detect_interface is missing.
compile_full_config_unbound(n, localDns) ==
  LET o == compile_outbound(n) IN
  [outbounds |-> {Direct, o}, route |-> compile_routing(o.tag, Mark, FALSE),
   dns |-> compile_dns(o.tag, localDns)]

compile_full_config(n, localDns) ==
  LET o == compile_outbound(n) IN
  [outbounds |-> {Direct, o}, route |-> compile_routing(o.tag, Mark, TRUE),
   dns |-> compile_dns(o.tag, localDns)]

\* compile_testbed_config, and compile_direct_testbed_config.
compile_testbed_config(n) ==
  LET o == compile_outbound(n) IN
  [outbounds |-> {Direct, o}, route |-> compile_routing(o.tag, 0, FALSE), dns |-> <<>>]
compile_direct_testbed_config ==
  [outbounds |-> {Direct}, route |-> compile_routing("direct", 0, FALSE), dns |-> <<>>]
=============================================================================
