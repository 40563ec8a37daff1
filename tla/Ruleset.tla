------------------------------- MODULE Ruleset -------------------------------
(***************************************************************************)
(* What the nftables ruleset of render_ruleset, the policy rule of         *)
(* install_policy_routing and the socket options of the core's             *)
(* configuration together do to one packet at a time, from the socket or   *)
(* the LAN interface to the place where it ends, whichever node is in use. *)
(* The chains are first-match, as nft evaluates them.  The kernel's routing *)
(* decisions are external, and so is the core, which dials what its        *)
(* configuration names.                                                    *)
(***************************************************************************)
EXTENDS Outbound

CONSTANTS
  FromLan,   \* TRUE: packets forwarded from the LAN arrive as well
  Entries    \* entries a subscription may offer

\* What the deserialisers hand on: a host is a text of one of the kinds, and the
\* tls key of a Clash item a boolean.
ASSUME RulesetConstants ==
  \A e \in Entries :
    /\ \A key \in {"host", "server"} \cap DOMAIN e : e[key] \in [text: STRING, kind: Kind]
    /\ Has(e, "tls") => e.tls \in BOOLEAN
    /\ Has(e, "scheme") => Has(e, "host")

VARIABLES
  at,        \* where the packet is
  pkt,       \* the packet
  route,     \* "lo" or "net", the last routing decision
  settings,  \* core_uid: the ruleset has the skuid line; local_dns: there is a gateway
  entry,     \* the entry the node in use comes from
  node       \* the node in use

chosen == <<settings, entry, node>>
vars   == <<at, pkt, route, chosen>>

Bypass == {"lan", "loopback"}    \* @bypass_v4 and @bypass_v6 with their defaults
Dst    == Bypass \cup {"remote"}

\* owner: who sent it; a trial is the sing-box of a testbed.  via: the outbound a
\* sing-box dials for, the node's or direct.
Packet ==
  [owner: {"app", "core", "trial", "lan host"}, dst: Dst, dns: BOOLEAN, tcpudp: BOOLEAN,
   mark: BOOLEAN, bound: BOOLEAN, via: {"none", "node", "direct"}]

Unmarked(owner) ==
  {p \in Packet : p.owner = owner /\ ~p.mark /\ ~p.bound /\ p.via = "none"}
AppPacket == Unmarked("app")
LanPacket == {p \in Unmarked("lan host") : p.dst # "loopback"}

-----------------------------------------------------------------------------
(* What a sing-box dials.                                                  *)

Via(o) == IF o = Direct THEN "direct" ELSE "node"

\* The outbounds a tag names: two, if the node is labelled like the other one.
Named(config, tag) == {Via(o) : o \in {x \in config.outbounds : x.tag = tag}}

\* All its sockets have the mark and the binding of the route section.
Socket(config, owner, dst, dns, via) ==
  [owner |-> owner, dst |-> dst, dns |-> dns, tcpudp |-> TRUE,
   mark |-> config.route.default_mark = Mark, bound |-> config.route.auto_detect_interface,
   via |-> via]

\* Proxied connections, DNS over HTTPS, plain DNS on the LAN, and, without a dns
\* section, the system's resolver.
Dialled(config, owner) ==
  LET server(tag)        == {s \in {config.dns[i] : i \in DOMAIN config.dns} : s.tag = tag}
      to(dst, dns, tags) == {Socket(config, owner, dst, dns, via) : via \in UNION {Named(config, t) : t \in tags}}
  IN  to("remote", FALSE, {config.route.outbound} \cup {s.detour : s \in server("tunnel-dns")}) \cup
      to("lan", TRUE, {s.detour : s \in server("local-dns")}) \cup
      {Socket(config, owner, "lan", TRUE, "none") : x \in OkIf(config.dns = <<>>, TRUE)}

-----------------------------------------------------------------------------
\* The kernel's decision: marked packets use the table whose only route is
\* `local default dev lo`, except on a socket bound to another interface.
Lookup(p) ==
  IF (p.mark /\ ~p.bound) \/ p.dst = "loopback" THEN "lo" ELSE "net"

\* `meta skuid core_uid return`: testbeds run as the user the core runs as.
Exempt(p) == settings.core_uid /\ p.owner \in {"core", "trial"}

\* Mutant of OutputMark: the skuid line is missing.
OutputMarkNoUid(p) == p.mark \/ (p.tcpudp /\ (p.dns \/ p.dst \notin Bypass))

\* Mutant of OutputMark: the DNS line comes after the bypass lines.
OutputMarkDnsLate(p) == p.mark \/ (p.tcpudp /\ ~Exempt(p) /\ p.dst \notin Bypass)

\* Mutant of OutputMark: the bypass lines are missing.
OutputMarkNoBypass(p) == p.mark \/ (p.tcpudp /\ (p.dns \/ ~Exempt(p)))

\* chain output: does the packet carry the mark afterwards?  Marked ones are let
\* through, then port 53 is stamped, then the skuid line and the bypass lines
\* let the packet go, then everything else is stamped.
OutputMark(p) ==
  \/ p.mark
  \/ p.tcpudp /\ p.dns
  \/ p.tcpudp /\ ~Exempt(p) /\ p.dst \notin Bypass

\* chain prerouting: is the packet handed to the tproxy listener?  Bypassed and
\* marked ones return before.
Intercepts(p) == p.tcpudp /\ p.dst \notin Bypass /\ ~p.mark

Gone == {"sent", "local"}

Init ==
  /\ settings \in [core_uid: BOOLEAN, local_dns: BOOLEAN]
  /\ entry \in Entries /\ node \in Parsed(entry)
  /\ pkt \in AppPacket
  /\ at = "socket" /\ route = "net"

\* An application or a LAN host sends something new.
NewPacket ==
  /\ at \in Gone
  /\ \/ pkt' \in AppPacket /\ at' = "socket"
     \/ FromLan /\ pkt' \in LanPacket /\ at' = "prerouting"
  /\ route' = "net"
  /\ UNCHANGED chosen

Send ==
  /\ at = "socket"
  /\ at' = "output" /\ route' = Lookup(pkt)
  /\ UNCHANGED <<pkt, chosen>>

\* A `type route` chain: the packet is routed again when its mark changed.
Output ==
  /\ at = "output"
  /\ pkt' = [pkt EXCEPT !.mark = OutputMark(pkt)]
  /\ route' = IF pkt'.mark # pkt.mark THEN Lookup(pkt') ELSE route
  /\ at' = "leaving"
  /\ UNCHANGED chosen

Leave ==
  /\ at = "leaving"
  /\ at' = IF route = "lo" THEN "prerouting" ELSE "sent"
  /\ UNCHANGED <<pkt, route, chosen>>

\* Not intercepted, the packet goes where routing sends it: to this host when
\* it came over lo (or is for it), else out again.
Prerouting ==
  /\ at = "prerouting"
  /\ at' = IF Intercepts(pkt) THEN "core" ELSE IF route = "lo" THEN "local" ELSE "sent"
  /\ UNCHANGED <<pkt, route, chosen>>

\* The core takes an intercepted packet and dials out for it.
CoreDials ==
  /\ at = "core"
  /\ pkt' \in Dialled(compile_full_config(node, settings.local_dns), "core")
  /\ at' = "socket" /\ route' = "net"
  /\ UNCHANGED chosen

\* A testbed dials out, for a node or directly.
TrialDials ==
  /\ at \in Gone
  /\ \E config \in {compile_testbed_config(node), compile_direct_testbed_config} :
       pkt' \in Dialled(config, "trial")
  /\ at' = "socket" /\ route' = "net"
  /\ UNCHANGED chosen

Next == NewPacket \/ Send \/ Output \/ Leave \/ Prerouting \/ CoreDials \/ TrialDials
Spec == Init /\ [][Next]_vars

-----------------------------------------------------------------------------
\* Nothing the core sends comes back to this host, neither to its own tproxy
\* listener (the intercept loop) nor to a dead end over lo.
CoreTrafficEscapes == pkt.owner = "core" => at \notin {"core", "local", "prerouting"}

\* Traffic of this host or the LAN to a bypassed subnet leaves unmarked and is
\* never intercepted; only DNS is an exception.
BypassUntouched ==
  pkt.owner # "core" /\ pkt.dst = "lan" /\ ~(pkt.dns /\ pkt.tcpudp) =>
     ~pkt.mark /\ at \notin {"core", "local"}

\* No DNS query of an application leaves this host by itself, whichever
\* resolver it is addressed to (port 53 is matched before the bypass).  This is of
\* sockets that are bound to no interface (Unmarked): a bound one goes past the
\* policy rule, and its query leaves.
NoDnsInTheClear == pkt.owner = "app" /\ pkt.dns /\ pkt.tcpudp => at # "sent"

\* netfilter.rs on the mark scheme: packets leaving locally are stamped "so the
\* policy rule routes them into TPROXY": a stamped packet does not end at this
\* host's own stack.
StampedReachTproxy ==
  pkt.owner = "app" /\ pkt.dst = "remote" /\ pkt.mark => at # "local"

\* settings.core_uid: while the tunnel is up, what a testbed dials leaves as if
\* it were not, so a trial measures its own node and not one behind another.
TrialEscapes ==
  pkt.owner = "trial" /\ settings.core_uid /\ ~pkt.dns =>
     ~pkt.mark /\ at \notin {"prerouting", "core", "local"}

\* Neither the core's own traffic nor, with core_uid set, a trial's is taken back
\* into the tunnel.
NothingTakenBack == CoreTrafficEscapes /\ TrialEscapes

\* compile_testbed_config: "the point is an isolated, reproducible stack trial",
\* with core_uid or without.
TrialIsolated == pkt.owner = "trial" => at \notin {"prerouting", "core", "local"}

\* compile_routing and compile_dns: nothing the core dials off the LAN goes
\* beside the node, not even its own resolver.  (A node labelled like the direct
\* outbound is another matter.)
ThroughTheNode ==
  pkt.owner = "core" /\ pkt.dst = "remote" /\ node.label # "direct" => pkt.via = "node"

\* compile_routing: it "routes every connection to the single proxy outbound",
\* whatever the node is called.
SingleProxyOutbound == pkt.owner = "core" /\ pkt.dst = "remote" => pkt.via = "node"

-----------------------------------------------------------------------------
(* From the entry to the outbound.                                         *)

IsUri == Has(entry, "scheme")

\* The TLS an entry asks for, the name it gives the server, and REALITY's key.
AsksReality ==
  IF IsUri THEN Get(entry, "security", "") = "reality" /\ entry.scheme # "vmess"
  ELSE Has(entry, "reality-opts") /\ entry.type # "vmess"
AsksTls == IF IsUri THEN Get(entry, "security", "") = "tls" ELSE Get(entry, "tls", FALSE)
AskedName ==
  IF IsUri THEN Get(entry, "sni", "")
  ELSE Get(entry, "servername", IF entry.type = "vmess" THEN "" ELSE Get(entry, "sni", ""))

AskedKey == Get(entry, IF IsUri THEN "pbk" ELSE "public-key", "")

\* The transport it asks for, and whether the parser of its format knows it: a
\* VMess URI's transport that is not known is taken for TCP.
AskedTransport == IF IsUri THEN Get(entry, "type", "tcp") ELSE Get(entry, "network", "tcp")
KnownTransport == IsUri /\ entry.scheme = "vmess" => AskedTransport \in {"tcp", "ws", "grpc"}

\* Through parser, node and compiler, an entry that is not refused keeps the TLS
\* it asks for: the outbound of a protocol that has a tls object has it enabled,
\* for REALITY with the entry's key, and with the server name, when the entry has
\* one.  And it keeps the transport (KnownTransport).
NoDowngrade ==
  LET o == compile_outbound(node) IN
  node.protocol.type \in Layered =>
    /\ AsksTls \/ AsksReality =>
         /\ o.tls.enabled
         /\ AskedName # "" => o.tls.of.server_name = AskedName
         /\ AsksReality => o.tls.reality /\ o.tls.of.public_key = AskedKey
    /\ KnownTransport /\ AskedTransport # "" => o.transport.type = AskedTransport

\* Outbounds without their tag, and the identities of the nodes they are of.
Bare(n)  == [compile_outbound(n) EXCEPT !.tag = ""]
Offered  == UNION {Parsed(e) : e \in Entries}
Compiled == {<<Bare(n), Identity(n)>> : n \in Offered}

\* compile_outbound: two nodes the catalog tells apart are two to the core.  The
\* host of XHTTP is an exception: it is part of the identity and not compiled.
NothingLostOnTheWay ==
  node.transport.type # "xhttp" =>
    \A c \in Compiled : c[1] = Bare(node) => c[2] = Identity(node)

\* The keys of a Clash item that a URI has by another name, and that name.
Renamed ==
  {"cipher", "congestion-controller", "udp-relay-mode", "zero-rtt-handshake", "network", "ws-path", "ws-Host", "flow",
   "servername", "client-fingerprint", "allow-insecure", "public-key", "grpc-service-name", "plugin"}
UriKey(e, key) ==
  CASE key = "cipher"                -> IF e.scheme = "ss" THEN "method" ELSE "scy"
    [] key = "congestion-controller" -> "congestion_control"
    [] key = "udp-relay-mode"        -> "udp_relay_mode"
    [] key = "zero-rtt-handshake"    -> "zero_rtt_handshake"
    [] key = "network"               -> "type"
    [] key = "ws-path"               -> "path"
    [] key = "ws-Host"               -> "Host"
    [] key = "servername"            -> "sni"
    [] key = "client-fingerprint"    -> "fp"
    [] key = "allow-insecure"        -> "allowInsecure"
    [] key = "public-key"            -> "pbk"
    [] key = "grpc-service-name"     -> "serviceName"
    [] OTHER                         -> key

\* The password a URI means: Shadowsocks has it in base64, TUIC beside the user.
Secret(e) ==
  CASE e.scheme = "ss"   -> e.user
    [] e.scheme = "tuic" -> percent_decode_str(Get(e, "password", ""))
    [] OTHER             -> percent_decode_str(e.user)

\* The Clash item a provider publishes for the server of a URI.
AsClash(e) ==
  LET security == Get(e, "security", "")
      keys == {"type", "name", "port", "server", "uuid", "password"} \cup
              {k \in Renamed : Has(e, UriKey(e, k))} \cup
              OkIf(Has(e, "security"), "tls") \cup OkIf(security = "reality", "reality-opts")
  IN  [k \in keys |->
         CASE k = "type"                 -> IF e.scheme = "hy2" THEN "hysteria2" ELSE e.scheme
           [] k = "name"                 -> "x"
           [] k = "port"                 -> Get(e, "port", 443)
           [] k = "server"               -> IF e.host.kind = "bracketed" THEN [e.host EXCEPT !.kind = "v6"] ELSE e.host
           [] k = "uuid"                 -> e.user
           [] k = "password"             -> Secret(e)
           [] k = "tls"                  -> security \in {"tls", "reality"}
           [] k = "reality-opts"         -> TRUE
           [] OTHER                      -> e[UriKey(e, k)]]

\* Where the two formats, or the two parsers, differ: an IPv6 literal, early data,
\* the gRPC service, plugins, a server name without TLS, REALITY without a server
\* name, a Trojan that does not say what its security is, what VMess has no word
\* for, the transport a VMess URI does not know and takes for none, and a TUIC
\* password with an escape, which only the URI's parser fails to undo.
SaysTheSame(e) ==
  /\ e.host.kind # "bracketed"
  /\ {"ed", "serviceName", "mode", "plugin"} \cap DOMAIN e = {}
  /\ Has(e, "sni") => Get(e, "security", "") \in {"tls", "reality"}
  /\ Get(e, "security", "") = "reality" => Get(e, "sni", "") # "" /\ e.scheme # "vmess"
  /\ e.scheme = "trojan" => Has(e, "security")
  /\ e.scheme = "vmess" => ~Has(e, "allowInsecure") /\ Get(e, "type", "tcp") # "httpupgrade"
  /\ Get(e, "type", "tcp") = "grpc" /\ Has(e, "path") => e.scheme = "vmess"
  /\ e.scheme = "tuic" => percent_decode_str(Get(e, "password", "")) = Get(e, "password", "")

\* parse_entry and parse_proxy: a server offered by URI in one subscription and in
\* a Clash document in another is one node, so that it is stored once, where the
\* two say the same (SaysTheSame) and Clash has a word for it.
SameNodeEitherWay ==
  IsUri /\ SaysTheSame(entry) =>
    \A n \in parse_proxy(AsClash(entry)) : Identity(n) = Identity(node)

\* From the text of an entry to the core's outbound: TLS, REALITY and the transport
\* are kept (NoDowngrade), nodes that differ stay apart (NothingLostOnTheWay), and
\* the two formats of one server give one node where they say the same and neither
\* is refused (SameNodeEitherWay).
FaithfulOutbound == NoDowngrade /\ NothingLostOnTheWay /\ SameNodeEitherWay
=============================================================================
