---------------------------- MODULE RulesetProofs ----------------------------
(***************************************************************************)
(* No packet goes where it must not, for every set of entries, every node, *)
(* with a LAN or without: the invariant says, for each kind of packet, which *)
(* marks, routes and places it can have together.                          *)
(***************************************************************************)
EXTENDS Ruleset, TLAPS

Place == {"socket", "output", "leaving", "prerouting", "core", "sent", "local"}

Shape ==
  /\ settings \in [core_uid: BOOLEAN, local_dns: BOOLEAN]
  /\ pkt \in Packet
  /\ at \in Place
  /\ route \in {"lo", "net"}

OnItsWayOut == route = "net" /\ at \in {"socket", "output", "leaving", "sent"}

\* The core's sockets are marked and bound, and stay so.
CoreInv ==
  pkt.owner = "core" => pkt.mark /\ pkt.bound /\ pkt.dst # "loopback" /\ OnItsWayOut

\* Nothing stamps a bypassed packet, so routing never turns it to this host.
BypassInv ==
  pkt.owner # "core" /\ pkt.dst = "lan" /\ ~(pkt.dns /\ pkt.tcpudp) =>
     ~pkt.mark /\ route = "net" /\ at \notin {"core", "local"}

\* A query is unmarked up to the output chain, and over lo after it.
DnsInv ==
  pkt.owner = "app" /\ pkt.dns /\ pkt.tcpudp =>
    /\ at \in {"socket", "output"} => ~pkt.mark /\ ~pkt.bound
    /\ at \in {"leaving", "prerouting"} => route = "lo"
    /\ at # "sent"

TrialInv ==
  pkt.owner = "trial" /\ settings.core_uid /\ ~pkt.dns =>
     ~pkt.mark /\ pkt.dst = "remote" /\ OnItsWayOut

PlaceInv == Shape /\ CoreInv /\ BypassInv /\ DnsInv /\ TrialInv

-----------------------------------------------------------------------------
(* What a sing-box dials.                                                  *)

\* What a socket is for: plain DNS is only spoken to the LAN.
LEMMA SocketsOfAConfig ==
  ASSUME NEW config, NEW owner, NEW p \in Dialled(config, owner)
  PROVE  \/ \E via \in {"node", "direct"} : p = Socket(config, owner, "remote", FALSE, via)
         \/ \E via \in {"none", "node", "direct"} : p = Socket(config, owner, "lan", TRUE, via)
<1>1. \A tag : Named(config, tag) \subseteq {"node", "direct"}
  BY DEF Named, Via
<1> QED  BY <1>1 DEF Dialled

\* A node's label is the tag of its outbound.
LEMMA TagIsLabel ==
  ASSUME NEW n  PROVE compile_outbound(n).tag = n.label
BY DEF compile_outbound

\* The core's packets as they are dialled.
LEMMA CoreSockets ==
  ASSUME NEW n, NEW l, NEW p \in Dialled(compile_full_config(n, l), "core")
  PROVE  /\ p \in Packet /\ p.owner = "core" /\ p.mark = TRUE /\ p.bound = TRUE
         /\ p.dst # "loopback"
<1> DEFINE c == compile_full_config(n, l)
<1>1. c.route.default_mark = Mark /\ c.route.auto_detect_interface = TRUE
  BY DEF compile_full_config, compile_routing
<1> HIDE DEF c
<1>2. p \in Dialled(c, "core")  BY DEF c
<1>3. CASE \E via \in {"node", "direct"} : p = Socket(c, "core", "remote", FALSE, via)
  <2>1. PICK via \in {"node", "direct"} : p =
          [owner |-> "core", dst |-> "remote", dns |-> FALSE, tcpudp |-> TRUE,
           mark |-> TRUE, bound |-> TRUE, via |-> via]
    BY <1>1, <1>3 DEF Socket
  <2> QED  BY <2>1 DEF Packet, Dst, Bypass
<1>4. CASE \E via \in {"none", "node", "direct"} : p = Socket(c, "core", "lan", TRUE, via)
  <2>1. PICK via \in {"none", "node", "direct"} : p =
          [owner |-> "core", dst |-> "lan", dns |-> TRUE, tcpudp |-> TRUE,
           mark |-> TRUE, bound |-> TRUE, via |-> via]
    BY <1>1, <1>4 DEF Socket
  <2> QED  BY <2>1 DEF Packet, Dst, Bypass
<1> QED  BY <1>2, <1>3, <1>4, SocketsOfAConfig

\* A trial's packets as they are dialled.
LEMMA TrialSockets ==
  ASSUME NEW n, NEW c \in {compile_testbed_config(n), compile_direct_testbed_config},
         NEW p \in Dialled(c, "trial")
  PROVE  /\ p \in Packet /\ p.owner = "trial" /\ p.mark = FALSE /\ p.bound = FALSE
         /\ p.tcpudp = TRUE
         /\ (p.dst = "remote" /\ p.dns = FALSE) \/ (p.dst = "lan" /\ p.dns = TRUE)
<1>1. c.route.default_mark # Mark /\ c.route.auto_detect_interface = FALSE
  BY DEF compile_testbed_config, compile_direct_testbed_config, compile_routing, Mark
<1>2. CASE \E via \in {"node", "direct"} : p = Socket(c, "trial", "remote", FALSE, via)
  <2>1. PICK via \in {"node", "direct"} : p =
          [owner |-> "trial", dst |-> "remote", dns |-> FALSE, tcpudp |-> TRUE,
           mark |-> FALSE, bound |-> FALSE, via |-> via]
    BY <1>1, <1>2 DEF Socket
  <2> QED  BY <2>1 DEF Packet, Dst, Bypass
<1>3. CASE \E via \in {"none", "node", "direct"} : p = Socket(c, "trial", "lan", TRUE, via)
  <2>1. PICK via \in {"none", "node", "direct"} : p =
          [owner |-> "trial", dst |-> "lan", dns |-> TRUE, tcpudp |-> TRUE,
           mark |-> FALSE, bound |-> FALSE, via |-> via]
    BY <1>1, <1>3 DEF Socket
  <2> QED  BY <2>1 DEF Packet, Dst, Bypass
<1> QED  BY <1>2, <1>3, SocketsOfAConfig

\* Off the LAN the core dials for the node, unless that is called "direct".
LEMMA RemoteThroughNode ==
  ASSUME NEW n, NEW l, n.label # "direct",
         NEW p \in Dialled(compile_full_config(n, l), "core"), p.dst = "remote"
  PROVE  p.via = "node"
<1> DEFINE o == compile_outbound(n)
           c == compile_full_config(n, l)
<1>1. o.tag = n.label  BY TagIsLabel
<1>2. c.outbounds = {Direct, o} /\ c.route.outbound = o.tag /\ c.dns = compile_dns(o.tag, l)
  BY DEF compile_full_config, compile_routing
<1> HIDE DEF o, c
<1>3. Named(c, o.tag) = {"node"}
  BY <1>1, <1>2 DEF Named, Via, Direct
<1>4. \A i \in DOMAIN c.dns : c.dns[i].tag = "tunnel-dns" => c.dns[i].detour = o.tag
  <2>1. CASE l
    BY <2>1, <1>2 DEF compile_dns
  <2>2. CASE ~l
    BY <2>2, <1>2 DEF compile_dns
  <2> QED  BY <2>1, <2>2
<1>5. PICK via : via \in Named(c, o.tag) /\ p = Socket(c, "core", "remote", FALSE, via)
  <2>1. p \in Dialled(c, "core")  BY DEF c
  <2>2. \A dns, via : Socket(c, "core", "lan", dns, via).dst = "lan"  BY DEF Socket
  <2> QED  BY <2>1, <2>2, <1>2, <1>4, ZenonT(30) DEF Dialled
<1> QED  BY <1>3, <1>5 DEF Socket

-----------------------------------------------------------------------------
LEMMA PlaceInit == Init => PlaceInv
BY DEF Init, PlaceInv, Shape, Place, CoreInv, BypassInv, DnsInv, TrialInv, OnItsWayOut,
       AppPacket, Unmarked, Packet

\* A new packet is unmarked and unbound.
LEMMA NewSafe == ASSUME PlaceInv, NewPacket  PROVE PlaceInv'
BY DEF NewPacket, PlaceInv, Shape, Place, CoreInv, BypassInv, DnsInv, TrialInv, OnItsWayOut,
       AppPacket, LanPacket, Unmarked, Packet, chosen

LEMMA SendSafe == ASSUME PlaceInv, Send  PROVE PlaceInv'
<1> USE DEF Send, PlaceInv, Shape, chosen
<1>1. Shape'      BY DEF Place, Lookup
<1>2. CoreInv'    BY DEF CoreInv, OnItsWayOut, Lookup
<1>3. BypassInv'  BY DEF BypassInv, Lookup
<1>4. DnsInv'     BY DEF DnsInv
<1>5. TrialInv'   BY DEF TrialInv, OnItsWayOut, Lookup
<1> QED  BY <1>1, <1>2, <1>3, <1>4, <1>5

\* The output chain: what each kind of packet carries after it.
LEMMA OutputSafe == ASSUME PlaceInv, Output  PROVE PlaceInv'
<1> DEFINE m == OutputMark(pkt)
<1>1. /\ pkt \in Packet /\ at = "output" /\ at' = "leaving" /\ pkt' = [pkt EXCEPT !.mark = m]
      /\ route \in {"lo", "net"} /\ settings' = settings
      /\ settings \in [core_uid: BOOLEAN, local_dns: BOOLEAN]
  BY DEF Output, PlaceInv, Shape, chosen
<1>2. m \in BOOLEAN
  BY <1>1 DEF OutputMark, Exempt, Packet
<1>3. /\ pkt' \in Packet /\ pkt'.mark = m /\ pkt'.owner = pkt.owner /\ pkt'.dst = pkt.dst
      /\ pkt'.dns = pkt.dns /\ pkt'.tcpudp = pkt.tcpudp /\ pkt'.bound = pkt.bound
  BY <1>1, <1>2 DEF Packet
<1>4. route' = IF m # pkt.mark THEN Lookup(pkt') ELSE route
  BY <1>3 DEF Output
<1>5. Lookup(pkt') = IF (m /\ ~pkt.bound) \/ pkt.dst = "loopback" THEN "lo" ELSE "net"
  BY <1>3 DEF Lookup
<1>6. Shape'
  BY <1>1, <1>3, <1>4, <1>5 DEF Shape, Place
<1>7. CoreInv'
  <2>1. pkt.mark => m = TRUE  BY DEF OutputMark
  <2>2. pkt.mark \in BOOLEAN  BY <1>1 DEF Packet
  <2> QED  BY <2>1, <2>2, <1>1, <1>3, <1>4 DEF PlaceInv, CoreInv, OnItsWayOut
<1>8. BypassInv'
  BY <1>1, <1>3, <1>4 DEF PlaceInv, BypassInv, OutputMark, Exempt, Bypass, Packet
<1>9. DnsInv'
  <2>1. ASSUME pkt.owner = "app", pkt.dns, pkt.tcpudp  PROVE route' = "lo"
    <3>1. m = TRUE  BY <2>1 DEF OutputMark
    <3>2. ~pkt.mark /\ ~pkt.bound  BY <1>1, <2>1 DEF PlaceInv, DnsInv
    <3> QED  BY <3>1, <3>2, <1>2, <1>4, <1>5
  <2> QED  BY <2>1, <1>1, <1>3 DEF DnsInv
<1>10. TrialInv'
  BY <1>1, <1>3, <1>4 DEF PlaceInv, TrialInv, OnItsWayOut, OutputMark, Exempt, Packet
<1> QED  BY <1>6, <1>7, <1>8, <1>9, <1>10 DEF PlaceInv

LEMMA LeaveSafe == ASSUME PlaceInv, Leave  PROVE PlaceInv'
<1> USE DEF Leave, PlaceInv, Shape, chosen
<1>1. Shape'      BY DEF Place
<1>2. CoreInv'    BY DEF CoreInv, OnItsWayOut
<1>3. BypassInv'  BY DEF BypassInv
<1>4. DnsInv'     BY DEF DnsInv
<1>5. TrialInv'   BY DEF TrialInv, OnItsWayOut
<1> QED  BY <1>1, <1>2, <1>3, <1>4, <1>5

LEMMA PreroutingSafe == ASSUME PlaceInv, Prerouting  PROVE PlaceInv'
<1> USE DEF Prerouting, PlaceInv, Shape, chosen
<1>1. Shape'      BY DEF Place
<1>2. CoreInv'    BY DEF CoreInv, OnItsWayOut
<1>3. BypassInv'  BY DEF BypassInv, Intercepts, Bypass
<1>4. DnsInv'     BY DEF DnsInv
<1>5. TrialInv'   BY DEF TrialInv, OnItsWayOut
<1> QED  BY <1>1, <1>2, <1>3, <1>4, <1>5

LEMMA CoreDialsSafe == ASSUME PlaceInv, CoreDials  PROVE PlaceInv'
<1>1. pkt' \in Packet /\ pkt'.owner = "core" /\ pkt'.mark /\ pkt'.bound /\ pkt'.dst # "loopback"
  BY CoreSockets DEF CoreDials
<1>2. at' = "socket" /\ route' = "net" /\ settings' = settings
  BY DEF CoreDials, chosen
<1> QED  BY <1>1, <1>2 DEF PlaceInv, Shape, Place, CoreInv, BypassInv, DnsInv, TrialInv, OnItsWayOut

LEMMA TrialDialsSafe == ASSUME PlaceInv, TrialDials  PROVE PlaceInv'
<1>1. /\ pkt' \in Packet /\ pkt'.owner = "trial" /\ ~pkt'.mark /\ ~pkt'.bound
      /\ pkt'.tcpudp = TRUE
      /\ (pkt'.dst = "remote" /\ pkt'.dns = FALSE) \/ (pkt'.dst = "lan" /\ pkt'.dns = TRUE)
  BY TrialSockets DEF TrialDials
<1>2. at' = "socket" /\ route' = "net" /\ settings' = settings
  BY DEF TrialDials, chosen
<1> QED  BY <1>1, <1>2 DEF PlaceInv, Shape, Place, CoreInv, BypassInv, DnsInv, TrialInv, OnItsWayOut

LEMMA PlaceStep == PlaceInv /\ [Next]_vars => PlaceInv'
<1> SUFFICES ASSUME PlaceInv, [Next]_vars  PROVE PlaceInv'
  OBVIOUS
<1>1. CASE UNCHANGED vars
  BY <1>1 DEF vars, chosen, PlaceInv, Shape, CoreInv, BypassInv, DnsInv, TrialInv, OnItsWayOut
<1> QED
  BY <1>1, NewSafe, SendSafe, OutputSafe, LeaveSafe, PreroutingSafe, CoreDialsSafe, TrialDialsSafe
     DEF Next

THEOREM PlaceInvariant == Spec => []PlaceInv
BY PlaceInit, PlaceStep, PTL DEF Spec

-----------------------------------------------------------------------------
\* The intercept loop cannot form: with default_mark and auto_detect_interface
\* on every socket of the core, none of its packets comes back to this host,
\* with the skuid line of render_ruleset or without it.
THEOREM CoreEscapes == Spec => []CoreTrafficEscapes
<1>1. PlaceInv => CoreTrafficEscapes
  BY DEF PlaceInv, CoreInv, OnItsWayOut, CoreTrafficEscapes
<1> QED  BY <1>1, PlaceInvariant, PTL

\* render_ruleset's bypass lines: apart from DNS, traffic to a bypassed subnet
\* stays as it was.
THEOREM BypassIsUntouched == Spec => []BypassUntouched
<1>1. PlaceInv => BypassUntouched
  BY DEF PlaceInv, BypassInv, BypassUntouched
<1> QED  BY <1>1, PlaceInvariant, PTL

\* render_ruleset's DNS line stands before the bypass lines: no application's
\* query leaves this host by itself.
THEOREM DnsIsCaptured == Spec => []NoDnsInTheClear
<1>1. PlaceInv => NoDnsInTheClear
  BY DEF PlaceInv, DnsInv, NoDnsInTheClear
<1> QED  BY <1>1, PlaceInvariant, PTL

\* With core_uid set, a testbed's unmarked sockets reach the node it tries, not
\* the tunnel.
THEOREM TrialsEscape == Spec => []TrialEscapes
<1>1. PlaceInv => TrialEscapes
  BY DEF PlaceInv, TrialInv, OnItsWayOut, TrialEscapes
<1> QED  BY <1>1, PlaceInvariant, PTL

\* Both escapes together: no socket of a sing-box process of ours, the core's or
\* a testbed's, is taken back into the tunnel.
THEOREM NothingIsTakenBack == Spec => []NothingTakenBack
BY CoreEscapes, TrialsEscape, PTL DEF NothingTakenBack

\* compile_routing and compile_dns name the node's tag: nothing the core dials
\* off the LAN goes beside the node.
THEOREM AllThroughTheNode == Spec => []ThroughTheNode
<1>1. Init => ThroughTheNode
  BY DEF Init, AppPacket, Unmarked, ThroughTheNode
<1>2. ASSUME PlaceInv, ThroughTheNode, [Next]_vars  PROVE ThroughTheNode'
  <2>1. CASE NewPacket
    BY <2>1 DEF NewPacket, AppPacket, LanPacket, Unmarked, ThroughTheNode
  <2>2. CASE Send \/ Leave \/ Prerouting \/ UNCHANGED vars
    BY <1>2, <2>2 DEF Send, Leave, Prerouting, vars, chosen, ThroughTheNode
  <2>3. CASE Output
    BY <1>2, <2>3 DEF Output, chosen, ThroughTheNode, PlaceInv, Shape, Packet
  <2>4. CASE CoreDials
    BY <2>4, RemoteThroughNode DEF CoreDials, chosen, ThroughTheNode
  <2>5. CASE TrialDials
    BY <2>5, TrialSockets DEF TrialDials, ThroughTheNode
  <2> QED  BY <1>2, <2>1, <2>2, <2>3, <2>4, <2>5 DEF Next
<1> QED  BY <1>1, <1>2, PlaceInvariant, PTL DEF Spec
-----------------------------------------------------------------------------
(* From the entry to the outbound.                                         *)

\* What a parser puts together, part by part.
LEMMA NewNode ==
  ASSUME NEW label, NEW X, NEW P, NEW T, NEW S, NEW n \in try_new(label, X, P, T, S)
  PROVE  n.endpoint \in X /\ n.protocol \in P /\ n.transport \in T /\ n.security \in S
BY DEF try_new

\* The settings of TUIC in the two formats.
TuicOfUri(e) ==
  Tuic(parse_uuid(e.user), Get(e, "password", ""),
       TuicCongestion(Get(e, "congestion_control", "cubic")),
       TuicUdpRelay(Get(e, "udp_relay_mode", "native")),
       ZeroRtt(Get(e, "zero_rtt_handshake", "false")))
TuicOfItem(e) ==
  Tuic(parse_uuid(e.uuid), Get(e, "password", ""),
       TuicCongestion(Get(e, "congestion-controller", "cubic")),
       TuicUdpRelay(Get(e, "udp-relay-mode", "native")),
       ZeroRtt(Get(e, "zero-rtt-handshake", "false")))

\* The node of a URI: its endpoint, and the parts its scheme gives it.
UriParts(e, n) ==
  /\ n.endpoint \in endpoint_from_host(e.host, Get(e, "port", 443))
  /\ \/ /\ e.scheme = "vless" /\ n.protocol \in Vless(parse_uuid(e.user), Flow(e))
        /\ n.transport \in UriTransport(e) /\ n.security \in UriSecurity(e)
     \/ /\ e.scheme = "trojan" /\ n.protocol \in Plain("trojan", NonEmpty(percent_decode_str(e.user)))
        /\ n.transport \in UriTransport(e) /\ n.security \in UriSecurity(e)
     \/ /\ e.scheme = "vmess"
        /\ n.protocol \in Vmess(parse_uuid(e.user), VmessCipher(Lower(Get(e, "scy", "auto"))))
        /\ n.transport \in {VmessTransport(e)} /\ n.security \in {VmessSecurity(e)}
     \/ /\ e.scheme = "ss"
        /\ n.protocol \in Shadowsocks(parse_ss_method(Get(e, "method", "")), e.user, Get(e, "plugin", Absent))
        /\ n.transport \in {Tcp} /\ n.security \in {NoSecurity}
     \/ /\ e.scheme \in {"hysteria2", "hy2"}
        /\ n.protocol \in Plain("hysteria2", NonEmpty(percent_decode_str(e.user)))
        /\ n.transport \in {Tcp} /\ n.security \in {NoSecurity}
     \/ /\ e.scheme = "tuic" /\ n.protocol \in TuicOfUri(e)
        /\ n.transport \in {Tcp} /\ n.security \in {NoSecurity}

LEMMA UriNode ==
  ASSUME NEW e, NEW n \in parse_entry(e)
  PROVE  UriParts(e, n)
<1>1. UriEndpoint(e, 443) = endpoint_from_host(e.host, Get(e, "port", 443))
  BY DEF UriEndpoint, Has, Get
<1>2. \A x \in UriEndpoint(e, 0) : x \in endpoint_from_host(e.host, Get(e, "port", 443))
  BY DEF UriEndpoint, Has, Get
<1>3. CASE e.scheme = "vless"
  BY <1>1, <1>3, NewNode DEF parse_entry, UriVless, UriOf, UriParts
<1>4. CASE e.scheme = "trojan"
  BY <1>1, <1>4, NewNode DEF parse_entry, UriTrojan, UriOf, UriParts
<1>5. CASE e.scheme = "vmess"
  <2>1. n \in UriVmess(e)
    BY <1>5 DEF parse_entry
  <2>2. /\ Has(e, "port") /\ n.endpoint \in endpoint_from_host(e.host, e.port)
        /\ n.protocol \in Vmess(parse_uuid(e.user), VmessCipher(Lower(Get(e, "scy", "auto"))))
        /\ n.transport \in {VmessTransport(e)} /\ n.security \in {VmessSecurity(e)}
    BY <2>1, NewNode DEF UriVmess
  <2>3. Get(e, "port", 443) = e.port
    BY <2>2 DEF Has, Get
  <2> QED  BY <1>5, <2>2, <2>3, Zenon DEF UriParts
<1>6. CASE e.scheme = "ss"
  <2>1. n \in UriShadowsocks(e)
    BY <1>6 DEF parse_entry
  <2>2. /\ n.endpoint \in UriEndpoint(e, 0)
        /\ n.protocol \in Shadowsocks(parse_ss_method(Get(e, "method", "")), e.user, Get(e, "plugin", Absent))
        /\ n.transport \in {Tcp} /\ n.security \in {NoSecurity}
    BY <2>1, NewNode DEF UriShadowsocks
  <2> QED  BY <1>2, <1>6, <2>2, Zenon DEF UriParts
<1>7. CASE e.scheme \in {"hysteria2", "hy2"}
  <2>1. n \in UriHysteria2(e)
    BY <1>7 DEF parse_entry
  <2>2. /\ n.endpoint \in endpoint_from_host(e.host, Get(e, "port", 443))
        /\ n.protocol \in Plain("hysteria2", NonEmpty(percent_decode_str(e.user)))
        /\ n.transport \in {Tcp} /\ n.security \in {NoSecurity}
    BY <1>1, <2>1, NewNode DEF UriHysteria2, UriOf
  <2> QED  BY <1>7, <2>2, Zenon DEF UriParts
<1>8. CASE e.scheme = "tuic"
  <2>1. n \in UriTuic(e)
    BY <1>8 DEF parse_entry
  <2>2. n \in UriOf(e, TuicOfUri(e), {Tcp}, {NoSecurity})
    BY <2>1 DEF UriTuic, TuicOfUri
  <2>3. /\ n.endpoint \in endpoint_from_host(e.host, Get(e, "port", 443))
        /\ n.protocol \in TuicOfUri(e) /\ n.transport \in {Tcp} /\ n.security \in {NoSecurity}
    BY <1>1, <2>2, NewNode DEF UriOf
  <2> QED  BY <1>8, <2>3, Zenon DEF UriParts
<1> QED  BY <1>3, <1>4, <1>5, <1>6, <1>7, <1>8 DEF parse_entry

\* The node of a Clash item, likewise.
ClashParts(e, n) ==
  /\ Has(e, "server") /\ n.endpoint \in endpoint_from_host(e.server, e.port)
  /\ \/ /\ e.type = "vless" /\ n.protocol \in Vless(parse_uuid(e.uuid), Flow(e))
        /\ n.transport \in ClashTransport(e) /\ n.security \in ClashSecurity(e)
     \/ /\ e.type = "trojan" /\ n.protocol \in Plain("trojan", NonEmpty(e.password))
        /\ n.transport \in ClashTransport(e) /\ n.security \in ClashSecurity(e)
     \/ /\ e.type = "vmess"
        /\ n.protocol \in Vmess(parse_uuid(e.uuid), VmessCipher(Get(e, "cipher", "auto")))
        /\ n.transport \in ClashTransport(e) /\ n.security \in {ClashVmessSecurity(e)}
     \/ /\ e.type = "ss"
        /\ n.protocol \in Shadowsocks(parse_ss_method(Get(e, "cipher", "")), e.password, Absent)
        /\ n.transport \in {Tcp} /\ n.security \in {NoSecurity}
     \/ /\ e.type = "hysteria2" /\ n.protocol \in Plain("hysteria2", NonEmpty(e.password))
        /\ n.transport \in {Tcp} /\ n.security \in {NoSecurity}
     \/ /\ e.type = "tuic" /\ n.protocol \in TuicOfItem(e)
        /\ n.transport \in {Tcp} /\ n.security \in {NoSecurity}

LEMMA ClashItem ==
  ASSUME NEW e, NEW P, NEW T, NEW S, NEW n \in ClashOf(e, P, T, S)
  PROVE  /\ Has(e, "server") /\ n.endpoint \in endpoint_from_host(e.server, e.port)
         /\ n.protocol \in P /\ n.transport \in T /\ n.security \in S
<1>1. n \in try_new(e.name, ClashEndpoint(e), P, T, S)
  BY DEF ClashOf
<1>2. n.endpoint \in ClashEndpoint(e) /\ n.protocol \in P /\ n.transport \in T /\ n.security \in S
  BY <1>1, NewNode
<1> QED  BY <1>2 DEF ClashEndpoint

LEMMA ClashNode ==
  ASSUME NEW e, NEW n \in parse_proxy(e)
  PROVE  ClashParts(e, n)
<1>1. CASE e.type = "vless"
  BY <1>1, ClashItem DEF parse_proxy, ClashVless, ClashParts
<1>2. CASE e.type = "trojan"
  BY <1>2, ClashItem DEF parse_proxy, ClashTrojan, ClashParts
<1>3. CASE e.type = "vmess"
  <2>1. n \in ClashVmess(e)
    BY <1>3 DEF parse_proxy
  <2> QED  BY <1>3, <2>1, ClashItem DEF ClashVmess, ClashParts
<1>4. CASE e.type = "ss"
  <2>1. n \in ClashShadowsocks(e)
    BY <1>4 DEF parse_proxy
  <2>2. /\ Has(e, "server") /\ n.endpoint \in endpoint_from_host(e.server, e.port)
        /\ n.protocol \in Shadowsocks(parse_ss_method(Get(e, "cipher", "")), e.password, Absent)
        /\ n.transport \in {Tcp} /\ n.security \in {NoSecurity}
    BY <2>1, ClashItem DEF ClashShadowsocks
  <2> QED  BY <1>4, <2>2, Zenon DEF ClashParts
<1>5. CASE e.type = "hysteria2"
  BY <1>5, ClashItem DEF parse_proxy, ClashHysteria2, ClashParts
<1>6. CASE e.type = "tuic"
  <2>1. n \in ClashTuic(e)
    BY <1>6 DEF parse_proxy
  <2>2. n \in ClashOf(e, TuicOfItem(e), {Tcp}, {NoSecurity})
    BY <2>1 DEF ClashTuic, TuicOfItem
  <2>3. /\ Has(e, "server") /\ n.endpoint \in endpoint_from_host(e.server, e.port)
        /\ n.protocol \in TuicOfItem(e) /\ n.transport \in {Tcp} /\ n.security \in {NoSecurity}
    BY <2>2, ClashItem, Zenon
  <2> QED  BY <1>6, <2>3, Zenon DEF ClashParts
<1> QED  BY <1>1, <1>2, <1>3, <1>4, <1>5, <1>6 DEF parse_proxy

\* What the parsers make of an entry's wish for TLS or REALITY.
LEMMA UriTlsKept ==
  ASSUME NEW e, NEW s \in UriSecurity(e), Get(e, "security", "") = "tls"
  PROVE  s.type = "tls" /\ s.server_name = Get(e, "sni", "")
<1>1. Get(e, "security", "none") = "tls"
  BY DEF Get
<1>2. s = Tls(Get(e, "sni", ""), parse_fingerprint(Get(e, "fp", "")), Get(e, "allowInsecure", FALSE))
  BY <1>1 DEF UriSecurity
<1>3. PICK name, fp, insecure : s = Tls(name, fp, insecure) /\ name = Get(e, "sni", "")
  BY <1>2, Zenon
<1> QED  BY <1>3 DEF Tls

LEMMA UriRealityKept ==
  ASSUME NEW e, NEW s \in UriSecurity(e), Get(e, "security", "") = "reality"
  PROVE  s.type = "reality" /\ s.server_name = Get(e, "sni", "") /\ s.public_key = Get(e, "pbk", "")
<1>1. Get(e, "security", "none") = "reality"
  BY DEF Get
<1>2. s = Reality(Get(e, "sni", ""), Get(e, "pbk", ""), parse_fingerprint(Get(e, "fp", "")))
  BY <1>1 DEF UriSecurity, OkIf
<1> QED  BY <1>2 DEF Reality

LEMMA ClashTlsKept ==
  ASSUME NEW e, NEW s \in ClashSecurity(e), Has(e, "tls") => e.tls \in BOOLEAN,
         Get(e, "tls", FALSE), ~Has(e, "reality-opts")
  PROVE  s.type = "tls" /\ s.server_name = Get(e, "servername", Get(e, "sni", ""))
<1>1. Get(e, "tls", e.type = "trojan") = TRUE
  BY DEF Get, Has
<1>2. s = Tls(Get(e, "servername", Get(e, "sni", "")), parse_fingerprint(Get(e, "client-fingerprint", "")),
              Get(e, "allow-insecure", FALSE))
  BY <1>1 DEF ClashSecurity
<1>3. PICK name, fp, insecure : s = Tls(name, fp, insecure) /\ name = Get(e, "servername", Get(e, "sni", ""))
  BY <1>2, Zenon
<1> QED  BY <1>3 DEF Tls

LEMMA ClashRealityKept ==
  ASSUME NEW e, NEW s \in ClashSecurity(e), Has(e, "reality-opts")
  PROVE  /\ s.type = "reality" /\ s.public_key = Get(e, "public-key", "")
         /\ Get(e, "servername", Get(e, "sni", "")) # "" =>
              s.server_name = Get(e, "servername", Get(e, "sni", ""))
<1> DEFINE name == Get(e, "servername", Get(e, "sni", ""))
           host == IF name = "" THEN e.server.text ELSE name
<1>1. s = Reality(host, Get(e, "public-key", ""), parse_fingerprint(Get(e, "client-fingerprint", "")))
  BY DEF ClashSecurity, OkIf
<1>2. s.type = "reality" /\ s.public_key = Get(e, "public-key", "") /\ s.server_name = host
  BY <1>1 DEF Reality
<1> QED  BY <1>2

LEMMA TlsFields ==
  ASSUME NEW s, NEW name, \E fp, insecure : s = Tls(name, fp, insecure)
  PROVE  s.type = "tls" /\ s.server_name = name
BY DEF Tls

LEMMA VmessTlsKept ==
  ASSUME NEW e, NEW s, s = VmessSecurity(e), Get(e, "security", "") = "tls"
  PROVE  s.type = "tls" /\ s.server_name = Get(e, "sni", "")
<1>1. s = Tls(Get(e, "sni", ""), parse_fingerprint(Get(e, "fp", "")), FALSE)
  BY Zenon DEF VmessSecurity
<1>2. \E fp, insecure : s = Tls(Get(e, "sni", ""), fp, insecure)
  BY <1>1, Zenon
<1> QED  BY <1>2, TlsFields, Zenon

LEMMA ClashVmessTlsKept ==
  ASSUME NEW e, NEW s, s = ClashVmessSecurity(e), Get(e, "tls", FALSE)
  PROVE  s.type = "tls" /\ s.server_name = Get(e, "servername", "")
<1>1. s = Tls(Get(e, "servername", ""), parse_fingerprint(Get(e, "client-fingerprint", "")),
              Get(e, "allow-insecure", FALSE))
  BY Zenon DEF ClashVmessSecurity
<1>2. \E fp, insecure : s = Tls(Get(e, "servername", ""), fp, insecure)
  BY <1>1, Zenon
<1> QED  BY <1>2, TlsFields, Zenon

\* embed_security takes over what the parser found, for the protocols that have
\* a tls object.
LEMMA SecurityEmbedded ==
  ASSUME NEW n, n.protocol.type \in Layered
  PROVE  LET tls == compile_outbound(n).tls IN
         /\ tls.enabled = (n.security.type \in {"tls", "reality"})
         /\ tls.reality = (n.security.type = "reality")
         /\ tls.of = n.security
BY DEF compile_outbound, EmbedSecurity

\* The protocols without a tls object.
LEMMA ProtocolNames ==
  /\ \A U, F : \A p \in Vless(U, F) : p.type = "vless"
  /\ \A U, C : \A p \in Vmess(U, C) : p.type = "vmess"
  /\ \A t, C : \A p \in Plain(t, C) : p.type = t
  /\ \A M, c, x : \A p \in Shadowsocks(M, c, x) : p.type = "ss"
  /\ \A e : \A p \in TuicOfUri(e) \cup TuicOfItem(e) : p.type = "tuic"
BY DEF Vless, Vmess, Plain, Shadowsocks, Tuic, TuicOfUri, TuicOfItem

LEMMA TransportForm ==
  ASSUME NEW e
  PROVE  /\ \A t \in UriTransport(e) : "type" \in DOMAIN t
         /\ \A t \in ClashTransport(e) : "type" \in DOMAIN t
         /\ "type" \in DOMAIN VmessTransport(e)
         /\ "type" \in DOMAIN Tcp
<1>1. /\ "type" \in DOMAIN Tcp
      /\ \A path, host, early : "type" \in DOMAIN WebSocket(path, host, early)
      /\ \A service, multi : "type" \in DOMAIN Grpc(service, multi)
      /\ \A path, host : "type" \in DOMAIN HttpUpgrade(path, host)
      /\ \A mode, path, host : "type" \in DOMAIN XHttp(mode, path, host)
  BY DEF Tcp, WebSocket, Grpc, HttpUpgrade, XHttp
<1>2. \A t \in UriTransport(e) : "type" \in DOMAIN t
  BY <1>1, ZenonT(30) DEF UriTransport
<1>3. \A t \in ClashTransport(e) : "type" \in DOMAIN t
  BY <1>1, Zenon DEF ClashTransport
<1>4. "type" \in DOMAIN VmessTransport(e)
  BY <1>1, Zenon DEF VmessTransport
<1> QED  BY <1>1, <1>2, <1>3, <1>4

\* Entries with layers.
LEMMA LayeredEntries ==
  ASSUME NEW e, NEW n, n.protocol.type \in Layered
  PROVE  /\ UriParts(e, n) => e.scheme \in {"vless", "trojan", "vmess"}
         /\ ClashParts(e, n) => e.type \in {"vless", "trojan", "vmess"}
<1>2. ASSUME UriParts(e, n), e.scheme \notin {"vless", "trojan", "vmess"}  PROVE FALSE
  <2>1. n.protocol.type \in {"ss", "hysteria2", "tuic"}
    <3>1. CASE e.scheme = "ss"
      BY <1>2, <3>1, ProtocolNames, Zenon DEF UriParts
    <3>2. CASE e.scheme \in {"hysteria2", "hy2"}
      BY <1>2, <3>2, ProtocolNames, Zenon DEF UriParts
    <3>3. CASE e.scheme = "tuic"
      BY <1>2, <3>3, ProtocolNames, Zenon DEF UriParts
    <3> QED  BY <1>2, <3>1, <3>2, <3>3, Zenon DEF UriParts
  <2> QED  BY <2>1 DEF Layered
<1>3. ASSUME ClashParts(e, n), e.type \notin {"vless", "trojan", "vmess"}  PROVE FALSE
  <2>1. n.protocol.type \in {"ss", "hysteria2", "tuic"}
    BY <1>3, ProtocolNames, Zenon DEF ClashParts
  <2> QED  BY <2>1 DEF Layered
<1> QED  BY <1>2, <1>3

\* A transport that is not refused is the one asked for.
LEMMA TransportNames ==
  ASSUME NEW e
  PROVE  /\ \A t \in UriTransport(e) : t.type = Get(e, "type", "tcp")
         /\ Get(e, "type", "tcp") \in {"tcp", "ws", "grpc"} => VmessTransport(e).type = Get(e, "type", "tcp")
         /\ Get(e, "network", "tcp") # "" =>
              \A t \in ClashTransport(e) : t.type = Get(e, "network", "tcp")
<1>1. /\ Tcp.type = "tcp"
      /\ \A path, host, early : WebSocket(path, host, early).type = "ws"
      /\ \A service, multi : Grpc(service, multi).type = "grpc"
      /\ \A path, host : HttpUpgrade(path, host).type = "httpupgrade"
      /\ \A mode, path, host : XHttp(mode, path, host).type = "xhttp"
  BY DEF Tcp, WebSocket, Grpc, HttpUpgrade, XHttp
<1>2. \A t \in UriTransport(e) : t.type = Get(e, "type", "tcp")
  <2> DEFINE type == Get(e, "type", "tcp")
             path == Get(e, "path", "/")
             host == Get(e, "Host", Absent)
             ws == WebSocket(path, host, Get(e, "ed", 0))
             grpc == Grpc(Get(e, "serviceName", ""), Get(e, "mode", "") = "multi")
             xhttp == XHttp(parse_xhttp_mode(Get(e, "mode", "")), path, host)
  <2>1. UriTransport(e) = CASE type = "tcp"   -> {Tcp}
                            [] type = "ws"    -> {ws}
                            [] type = "grpc"  -> {grpc}
                            [] type = "xhttp" -> {xhttp}
                            [] OTHER          -> {}
    BY DEF UriTransport
  <2>2. ws.type = "ws" /\ grpc.type = "grpc" /\ xhttp.type = "xhttp"
    BY <1>1, Zenon
  <2> HIDE DEF type, ws, grpc, xhttp
  <2>3. \A t \in UriTransport(e) : t.type = type
    BY <1>1, <2>1, <2>2
  <2> QED  BY <2>3 DEF type
<1>3. Get(e, "type", "tcp") \in {"tcp", "ws", "grpc"} => VmessTransport(e).type = Get(e, "type", "tcp")
  BY <1>1, ZenonT(30) DEF VmessTransport
<1>4. Get(e, "network", "tcp") # "" =>
        \A t \in ClashTransport(e) : t.type = Get(e, "network", "tcp")
  BY <1>1, ZenonT(30) DEF ClashTransport
<1> QED  BY <1>2, <1>3, <1>4

\* The transport an entry of one of the layered protocols asks for.
LEMMA TransportKept ==
  ASSUME node \in Parsed(entry), node.protocol.type \in Layered, KnownTransport, AskedTransport # ""
  PROVE  node.transport.type = AskedTransport
<1>1. CASE IsUri
  <2>1. UriParts(entry, node)
    BY <1>1, UriNode DEF Parsed, IsUri
  <2>2. AskedTransport = Get(entry, "type", "tcp")
    BY <1>1 DEF AskedTransport
  <2>3. CASE entry.scheme \in {"vless", "trojan"}
    <3>1. node.transport \in UriTransport(entry)
      BY <2>1, <2>3 DEF UriParts
    <3> QED  BY <2>2, <3>1, TransportNames
  <2>4. CASE entry.scheme = "vmess"
    <3>1. node.transport = VmessTransport(entry)
      BY <2>1, <2>4 DEF UriParts
    <3>2. Get(entry, "type", "tcp") \in {"tcp", "ws", "grpc"}
      BY <1>1, <2>2, <2>4 DEF KnownTransport
    <3> QED  BY <2>2, <3>1, <3>2, TransportNames
  <2>5. CASE entry.scheme \notin {"vless", "trojan", "vmess"}
    BY <2>1, <2>5, LayeredEntries
  <2> QED  BY <2>3, <2>4, <2>5
<1>2. CASE ~IsUri
  <2>1. ClashParts(entry, node)
    BY <1>2, ClashNode DEF Parsed, IsUri
  <2>2. AskedTransport = Get(entry, "network", "tcp")
    BY <1>2 DEF AskedTransport
  <2>3. CASE entry.type \in {"vless", "trojan", "vmess"}
    <3>1. node.transport \in ClashTransport(entry)
      BY <2>1, <2>3 DEF ClashParts
    <3> QED  BY <2>2, <3>1, TransportNames
  <2>4. CASE entry.type \notin {"vless", "trojan", "vmess"}
    BY <2>1, <2>4, LayeredEntries
  <2> QED  BY <2>3, <2>4
<1> QED  BY <1>1, <1>2

LEMMA TransportEmbedded ==
  ASSUME NEW n, n.protocol.type \in Layered, "type" \in DOMAIN n.transport
  PROVE  compile_outbound(n).transport.type = n.transport.type
<1>1. compile_outbound(n).transport = EmbedTransport(n.transport)
  BY DEF compile_outbound
<1> QED  BY <1>1 DEF EmbedTransport

LEMMA SecurityKept ==
  ASSUME node \in Parsed(entry), Has(entry, "tls") => entry.tls \in BOOLEAN,
         node.protocol.type \in Layered, AsksTls \/ AsksReality
  PROVE  /\ node.security.type \in {"tls", "reality"}
         /\ AskedName # "" => node.security.server_name = AskedName
         /\ AsksReality => node.security.type = "reality" /\ node.security.public_key = AskedKey
<1>1. CASE IsUri
  <2>1. UriParts(entry, node)
    BY <1>1, UriNode DEF Parsed, IsUri
  <2>2. AskedName = Get(entry, "sni", "") /\ AskedKey = Get(entry, "pbk", "")
    BY <1>1 DEF AskedName, AskedKey
  <2>3. CASE entry.scheme \in {"vless", "trojan"}
    <3>1. node.security \in UriSecurity(entry)
      BY <2>1, <2>3 DEF UriParts
    <3>2. CASE Get(entry, "security", "") = "tls"
      <4>1. ~AsksReality
        BY <1>1, <3>2 DEF AsksReality
      <4>2. node.security.type = "tls" /\ node.security.server_name = Get(entry, "sni", "")
        BY <3>1, <3>2, UriTlsKept
      <4> QED  BY <2>2, <4>1, <4>2, Zenon
    <3>3. CASE Get(entry, "security", "") = "reality"
      <4>1. /\ node.security.type = "reality" /\ node.security.server_name = Get(entry, "sni", "")
            /\ node.security.public_key = Get(entry, "pbk", "")
        BY <3>1, <3>3, UriRealityKept
      <4> QED  BY <2>2, <4>1, Zenon
    <3> QED  BY <1>1, <3>2, <3>3 DEF AsksTls, AsksReality
  <2>4. CASE entry.scheme = "vmess"
    <3>1. node.security = VmessSecurity(entry)
      BY <2>1, <2>4 DEF UriParts
    <3>2. ~AsksReality /\ Get(entry, "security", "") = "tls"
      BY <1>1, <2>4 DEF AsksTls, AsksReality
    <3>4. node.security.type = "tls" /\ node.security.server_name = Get(entry, "sni", "")
      BY <3>1, <3>2, VmessTlsKept
    <3> QED  BY <2>2, <3>2, <3>4, Zenon
  <2>5. CASE entry.scheme \notin {"vless", "trojan", "vmess"}
    BY <2>1, <2>5, LayeredEntries
  <2> QED  BY <2>3, <2>4, <2>5
<1>2. CASE ~IsUri
  <2>1. ClashParts(entry, node)
    BY <1>2, ClashNode DEF Parsed, IsUri
  <2>2. AskedKey = Get(entry, "public-key", "")
    BY <1>2 DEF AskedKey
  <2>3. CASE entry.type \in {"vless", "trojan"}
    <3>1. node.security \in ClashSecurity(entry)
      BY <2>1, <2>3 DEF ClashParts
    <3>2. AskedName = Get(entry, "servername", Get(entry, "sni", ""))
      BY <1>2, <2>3 DEF AskedName
    <3>3. CASE Has(entry, "reality-opts")
      <4>1. /\ node.security.type = "reality" /\ node.security.public_key = Get(entry, "public-key", "")
            /\ Get(entry, "servername", Get(entry, "sni", "")) # "" =>
                 node.security.server_name = Get(entry, "servername", Get(entry, "sni", ""))
        BY <3>1, <3>3, ClashRealityKept
      <4> QED  BY <2>2, <3>2, <4>1, Zenon
    <3>4. CASE ~Has(entry, "reality-opts")
      <4>1. ~AsksReality /\ Get(entry, "tls", FALSE)
        BY <1>2, <3>4 DEF AsksTls, AsksReality
      <4>2. /\ node.security.type = "tls"
            /\ node.security.server_name = Get(entry, "servername", Get(entry, "sni", ""))
        BY <3>1, <3>4, <4>1, ClashTlsKept
      <4> QED  BY <3>2, <4>1, <4>2, Zenon
    <3> QED  BY <3>3, <3>4
  <2>4. CASE entry.type = "vmess"
    <3>1. node.security = ClashVmessSecurity(entry)
      BY <2>1, <2>4 DEF ClashParts
    <3>2. ~AsksReality /\ Get(entry, "tls", FALSE)
      BY <1>2, <2>4 DEF AsksTls, AsksReality
    <3>4. node.security.type = "tls" /\ node.security.server_name = Get(entry, "servername", "")
      BY <3>1, <3>2, ClashVmessTlsKept
    <3>5. AskedName = Get(entry, "servername", "")
      BY <1>2, <2>4 DEF AskedName
    <3> QED  BY <3>2, <3>4, <3>5, Zenon
  <2>5. CASE entry.type \notin {"vless", "trojan", "vmess"}
    BY <2>1, <2>5, LayeredEntries
  <2> QED  BY <2>3, <2>4, <2>5
<1> QED  BY <1>1, <1>2

LEMMA LayersKept ==
  ASSUME entry \in Entries, node \in Parsed(entry)
  PROVE  NoDowngrade
<1> SUFFICES ASSUME node.protocol.type \in Layered  PROVE NoDowngrade
  BY DEF NoDowngrade
<1>1. Has(entry, "tls") => entry.tls \in BOOLEAN
  BY RulesetConstants
<1>2. AsksTls \/ AsksReality =>
        /\ node.security.type \in {"tls", "reality"}
        /\ AskedName # "" => node.security.server_name = AskedName
        /\ AsksReality => node.security.type = "reality" /\ node.security.public_key = AskedKey
  BY <1>1, SecurityKept
<1>3. KnownTransport /\ AskedTransport # "" => compile_outbound(node).transport.type = AskedTransport
  <2>1. "type" \in DOMAIN node.transport
    <3>1. CASE Has(entry, "scheme")
      <4>1. UriParts(entry, node)
        BY <3>1, UriNode DEF Parsed
      <4> QED  BY <4>1, TransportForm DEF UriParts
    <3>2. CASE ~Has(entry, "scheme")
      <4>1. ClashParts(entry, node)
        BY <3>2, ClashNode DEF Parsed
      <4> QED  BY <4>1, TransportForm DEF ClashParts
    <3> QED  BY <3>1, <3>2
  <2> QED  BY <2>1, TransportKept, TransportEmbedded
<1> QED  BY <1>2, <1>3, SecurityEmbedded DEF NoDowngrade

-----------------------------------------------------------------------------
(* Nodes that differ stay apart.                                           *)

\* What is compiled of a node determines the rest: whether its host is an
\* address, and the layers of a protocol that has none.
Proper(n) ==
  /\ n.endpoint = [ip |-> n.endpoint.host.kind \in {"v4", "v6"}, port |-> n.endpoint.port,
                   host |-> n.endpoint.host]
  /\ "type" \in DOMAIN n.transport
  /\ n.protocol.type \notin Layered => n.transport = Tcp /\ n.security = NoSecurity

LEMMA EndpointForm ==
  ASSUME NEW h \in [text: STRING, kind: Kind], NEW p, NEW x \in endpoint_from_host(h, p)
  PROVE  x = [ip |-> x.host.kind \in {"v4", "v6"}, port |-> x.port, host |-> x.host]
<1> DEFINE host == IF h.kind = "other case" THEN [h EXCEPT !.kind = "name"] ELSE h
<1>1. x = [ip |-> h.kind \in {"v4", "v6"}, port |-> p, host |-> host]
  BY DEF endpoint_from_host, OkIf
<1>2. host.kind \in {"v4", "v6"} <=> h.kind \in {"v4", "v6"}
  OBVIOUS
<1> HIDE DEF host
<1> QED  BY <1>1, <1>2

\* A protocol without layers comes without transport and security.
LEMMA UnlayeredEntries ==
  ASSUME NEW e, NEW n, UriParts(e, n) \/ ClashParts(e, n), n.protocol.type \notin Layered
  PROVE  n.transport = Tcp /\ n.security = NoSecurity
<1>1. CASE UriParts(e, n)
  <2>1. ASSUME e.scheme \in {"vless", "trojan", "vmess"}  PROVE FALSE
    <3>1. n.protocol.type = e.scheme
      <4>1. CASE e.scheme = "vless"
        BY <1>1, <4>1, ProtocolNames, Zenon DEF UriParts
      <4>2. CASE e.scheme = "trojan"
        BY <1>1, <4>2, ProtocolNames, Zenon DEF UriParts
      <4>3. CASE e.scheme = "vmess"
        BY <1>1, <4>3, ProtocolNames, Zenon DEF UriParts
      <4> QED  BY <2>1, <4>1, <4>2, <4>3
    <3> QED  BY <2>1, <3>1 DEF Layered
  <2> QED  BY <1>1, <2>1, Zenon DEF UriParts
<1>2. CASE ClashParts(e, n)
  <2>1. ASSUME e.type \in {"vless", "trojan", "vmess"}  PROVE FALSE
    <3>1. n.protocol.type = e.type
      <4>1. CASE e.type = "vless"
        BY <1>2, <4>1, ProtocolNames, Zenon DEF ClashParts
      <4>2. CASE e.type = "trojan"
        BY <1>2, <4>2, ProtocolNames, Zenon DEF ClashParts
      <4>3. CASE e.type = "vmess"
        BY <1>2, <4>3, ProtocolNames, Zenon DEF ClashParts
      <4> QED  BY <2>1, <4>1, <4>2, <4>3
    <3> QED  BY <2>1, <3>1 DEF Layered
  <2> QED  BY <1>2, <2>1, Zenon DEF ClashParts
<1> QED  BY <1>1, <1>2

LEMMA NodeForm ==
  ASSUME NEW e \in Entries, NEW n \in Parsed(e)
  PROVE  Proper(n)
<1>1. CASE Has(e, "scheme")
  <2>1. UriParts(e, n)
    BY <1>1, UriNode DEF Parsed
  <2>2. e.host \in [text: STRING, kind: Kind]
    BY <1>1, RulesetConstants DEF Has
  <2>3. "type" \in DOMAIN n.transport
    BY <2>1, TransportForm DEF UriParts
  <2>4. n.protocol.type \notin Layered => n.transport = Tcp /\ n.security = NoSecurity
    BY <2>1, UnlayeredEntries
  <2> QED  BY <2>1, <2>2, <2>3, <2>4, EndpointForm DEF UriParts, Proper
<1>2. CASE ~Has(e, "scheme")
  <2>1. ClashParts(e, n)
    BY <1>2, ClashNode DEF Parsed
  <2>2. e.server \in [text: STRING, kind: Kind]
    BY <2>1, RulesetConstants DEF Has, ClashParts
  <2>3. "type" \in DOMAIN n.transport
    BY <2>1, TransportForm DEF ClashParts
  <2>4. n.protocol.type \notin Layered => n.transport = Tcp /\ n.security = NoSecurity
    BY <2>1, UnlayeredEntries
  <2> QED  BY <2>1, <2>2, <2>3, <2>4, EndpointForm DEF ClashParts, Proper
<1> QED  BY <1>1, <1>2

\* embed_transport forgets nothing but the host of XHTTP, and not that it was XHTTP.
LEMMA TransportApart ==
  ASSUME NEW s, NEW t, "type" \in DOMAIN t, s.type # "xhttp", EmbedTransport(s) = EmbedTransport(t)
  PROVE  s = t
<1>1. t.type = "xhttp" => EmbedTransport(t).type = "xhttp"
  BY DEF EmbedTransport
<1> QED  BY <1>1 DEF EmbedTransport

LEMMA Apart ==
  ASSUME NEW m, NEW n, Proper(m), Proper(n), m.transport.type # "xhttp", Bare(m) = Bare(n)
  PROVE  Identity(m) = Identity(n)
<1>1. /\ m.endpoint.host = n.endpoint.host /\ m.endpoint.port = n.endpoint.port
      /\ m.protocol = n.protocol
  BY DEF Bare, compile_outbound
<1>2. m.endpoint = n.endpoint
  BY <1>1, Zenon DEF Proper
<1>3. CASE m.protocol.type \notin Layered
  BY <1>1, <1>2, <1>3 DEF Proper, Identity
<1>4. CASE m.protocol.type \in Layered
  <2>1. EmbedTransport(m.transport) = EmbedTransport(n.transport)
    BY <1>1, <1>4 DEF Bare, compile_outbound
  <2>2. EmbedSecurity(m.security) = EmbedSecurity(n.security)
    BY <1>1, <1>4 DEF Bare, compile_outbound
  <2>3. m.security = n.security
    BY <2>2 DEF EmbedSecurity
  <2>4. m.transport = n.transport
    BY <2>1, TransportApart DEF Proper
  <2> QED  BY <1>1, <1>2, <2>3, <2>4 DEF Identity
<1> QED  BY <1>3, <1>4

LEMMA StayApart ==
  ASSUME entry \in Entries, node \in Parsed(entry)
  PROVE  NothingLostOnTheWay
<1> SUFFICES ASSUME node.transport.type # "xhttp", NEW e \in Entries, NEW n \in Parsed(e), Bare(n) = Bare(node)
             PROVE  Identity(n) = Identity(node)
  BY DEF NothingLostOnTheWay, Compiled, Offered
<1> QED  BY NodeForm, Apart

-----------------------------------------------------------------------------
(* The two formats of one server give one node.                            *)

\* The item has a renamed key when the URI has it, and with the same value.
LEMMA RenamedKeys ==
  ASSUME NEW e, NEW key \in Renamed, NEW default
  PROVE  Get(AsClash(e), key, default) = Get(e, UriKey(e, key), default)
<1> DEFINE c == AsClash(e)
<1>1. key \in DOMAIN c <=> UriKey(e, key) \in DOMAIN e
  BY DEF AsClash, Renamed, Has, OkIf
<1>2. key \in DOMAIN c => c[key] = e[UriKey(e, key)]
  <2>1. key \notin {"type", "name", "port", "server", "uuid", "password", "tls", "reality-opts"}
    BY DEF Renamed
  <2> QED  BY <2>1 DEF AsClash
<1> HIDE DEF c
<1>3. Get(c, key, default) = Get(e, UriKey(e, key), default)
  BY <1>1, <1>2 DEF Get
<1> QED  BY <1>3 DEF c

LEMMA RenamedOnes ==
  ASSUME NEW e, NEW default
  PROVE  /\ Get(AsClash(e), "congestion-controller", default) = Get(e, "congestion_control", default)
         /\ Get(AsClash(e), "udp-relay-mode", default) = Get(e, "udp_relay_mode", default)
         /\ Get(AsClash(e), "zero-rtt-handshake", default) = Get(e, "zero_rtt_handshake", default)
         /\ Get(AsClash(e), "network", default) = Get(e, "type", default)
         /\ Get(AsClash(e), "ws-path", default) = Get(e, "path", default)
         /\ Get(AsClash(e), "ws-Host", default) = Get(e, "Host", default)
         /\ Get(AsClash(e), "flow", default) = Get(e, "flow", default)
         /\ Get(AsClash(e), "servername", default) = Get(e, "sni", default)
         /\ Get(AsClash(e), "client-fingerprint", default) = Get(e, "fp", default)
         /\ Get(AsClash(e), "allow-insecure", default) = Get(e, "allowInsecure", default)
         /\ Get(AsClash(e), "public-key", default) = Get(e, "pbk", default)
         /\ e.scheme = "ss" => Get(AsClash(e), "cipher", default) = Get(e, "method", default)
         /\ e.scheme = "vmess" => Get(AsClash(e), "cipher", default) = Get(e, "scy", default)
BY RenamedKeys DEF Renamed, UriKey

\* The keys the item always has, the ones it has for the URI's security, and two
\* it never has.
LEMMA OtherKeys ==
  ASSUME NEW e, SaysTheSame(e)
  PROVE  LET c == AsClash(e) IN
         /\ c.type = IF e.scheme = "hy2" THEN "hysteria2" ELSE e.scheme
         /\ c.port = Get(e, "port", 443) /\ c.server = e.host
         /\ c.uuid = e.user /\ c.password = Secret(e) /\ Has(c, "password")
         /\ Has(c, "tls") <=> Has(e, "security")
         /\ Has(c, "tls") /\ Get(e, "security", "") \in {"tls", "reality"} => c.tls = TRUE
         /\ Has(c, "tls") /\ Get(e, "security", "") \notin {"tls", "reality"} => c.tls = FALSE
         /\ Has(c, "reality-opts") <=> Get(e, "security", "") = "reality"
         /\ ~Has(c, "sni") /\ ~Has(c, "ws-serviceName")
         /\ Has(c, "public-key") <=> Has(e, "pbk")
<1> USE DEF AsClash, Renamed, Has, OkIf
<1>1. AsClash(e).type = IF e.scheme = "hy2" THEN "hysteria2" ELSE e.scheme
  OBVIOUS
<1>2. AsClash(e).port = Get(e, "port", 443)
  OBVIOUS
<1>3. AsClash(e).server = e.host
  BY DEF SaysTheSame
<1>4. AsClash(e).uuid = e.user /\ AsClash(e).password = Secret(e) /\ Has(AsClash(e), "password")
  OBVIOUS
<1>5. Has(AsClash(e), "tls") <=> Has(e, "security")
  OBVIOUS
<1>6. /\ Has(AsClash(e), "tls") /\ Get(e, "security", "") \in {"tls", "reality"} => AsClash(e).tls = TRUE
      /\ Has(AsClash(e), "tls") /\ Get(e, "security", "") \notin {"tls", "reality"} => AsClash(e).tls = FALSE
  <2>1. Has(AsClash(e), "tls") => AsClash(e).tls = (Get(e, "security", "") \in {"tls", "reality"})
    OBVIOUS
  <2> HIDE DEF AsClash, Has
  <2>2. CASE Get(e, "security", "") \in {"tls", "reality"}
    <3>1. (Get(e, "security", "") \in {"tls", "reality"}) = TRUE
      BY <2>2
    <3> QED  BY <2>1, <2>2, <3>1, Zenon
  <2>3. CASE ~(Get(e, "security", "") \in {"tls", "reality"})
    <3>1. (Get(e, "security", "") \in {"tls", "reality"}) = FALSE
      <4> DEFINE security == Get(e, "security", "")
      <4>1. ~(security \in {"tls", "reality"})
        BY <2>3
      <4> HIDE DEF security
      <4>2. (security \in {"tls", "reality"}) = FALSE
        BY <4>1
      <4> QED  BY <4>2 DEF security
    <3> QED  BY <2>1, <2>3, <3>1, Zenon
  <2> QED  BY <2>2, <2>3
<1>7. Has(AsClash(e), "reality-opts") <=> Get(e, "security", "") = "reality"
  OBVIOUS
<1>8. ~Has(AsClash(e), "sni") /\ ~Has(AsClash(e), "ws-serviceName")
  OBVIOUS
<1>9. Has(AsClash(e), "public-key") <=> Has(e, "pbk")
  BY DEF UriKey
<1> QED  BY <1>1, <1>2, <1>3, <1>4, <1>5, <1>6, <1>7, <1>8, <1>9, Zenon

\* What the parsers return has one value at most.
LEMMA OneValue ==
  /\ \A h, p : \A x, y \in endpoint_from_host(h, p) : x = y
  /\ \A u : \A x, y \in parse_uuid(u) : x = y
  /\ \A u : \A x, y \in NonEmpty(u) : x = y
  /\ \A e : \A x, y \in Flow(e) : x = y
  /\ \A m : \A x, y \in parse_ss_method(m) : x = y
  /\ \A m : \A x, y \in TuicCongestion(m) : x = y
  /\ \A m : \A x, y \in TuicUdpRelay(m) : x = y
BY DEF endpoint_from_host, parse_uuid, NonEmpty, Flow, parse_ss_method, TuicCongestion, TuicUdpRelay, OkIf

LEMMA PathKey ==
  ASSUME NEW e, SaysTheSame(e), NEW default
  PROVE  Get(AsClash(e), "ws-path", Get(AsClash(e), "ws-serviceName", default)) = Get(e, "path", default)
<1>1. Get(AsClash(e), "ws-serviceName", default) = default
  BY OtherKeys DEF Get, Has
<1> QED  BY <1>1, RenamedOnes

\* The transport of VLESS and Trojan, and of VMess, which does not refuse any.
LEMMA SameTransport ==
  ASSUME NEW e, SaysTheSame(e), e.scheme # "vmess",
         NEW t \in UriTransport(e), NEW u \in ClashTransport(AsClash(e))
  PROVE  t = u
<1> DEFINE c == AsClash(e)
<1>1. Get(c, "network", "tcp") = Get(e, "type", "tcp")
  BY RenamedOnes
<1>2. Get(c, "ws-Host", Absent) = Get(e, "Host", Absent)
  BY RenamedOnes
<1>3. \A d : Get(c, "ws-path", Get(c, "ws-serviceName", d)) = Get(e, "path", d)
  BY PathKey
<1>4. Get(e, "ed", 0) = 0 /\ Get(e, "serviceName", "") = "" /\ Get(e, "mode", "") = ""
  BY DEF SaysTheSame, Get
<1>5. Get(e, "type", "tcp") = "grpc" => Get(e, "path", "") = ""
  BY DEF SaysTheSame, Get, Has
<1> HIDE DEF c
<1>6. u \in ClashTransport(c)
  BY DEF c
<1>7. CASE Get(e, "type", "tcp") = "tcp"
  BY <1>1, <1>6, <1>7 DEF UriTransport, ClashTransport
<1>8. CASE Get(e, "type", "tcp") = "ws"
  <2>1. t = WebSocket(Get(e, "path", "/"), Get(e, "Host", Absent), 0)
    BY <1>4, <1>8 DEF UriTransport
  <2>2. u = WebSocket(Get(c, "ws-path", Get(c, "ws-serviceName", "/")), Get(c, "ws-Host", Absent), 0)
    BY <1>1, <1>6, <1>8 DEF ClashTransport
  <2> QED  BY <1>2, <1>3, <2>1, <2>2
<1>9. CASE Get(e, "type", "tcp") = "grpc"
  <2>1. t = Grpc("", FALSE)
    BY <1>4, <1>9 DEF UriTransport
  <2>2. u = Grpc(Get(c, "ws-path", Get(c, "ws-serviceName", "")), FALSE)
    BY <1>1, <1>6, <1>9 DEF ClashTransport
  <2> QED  BY <1>3, <1>5, <1>9, <2>1, <2>2
<1> QED  BY <1>1, <1>6, <1>7, <1>8, <1>9 DEF UriTransport, ClashTransport

LEMMA SameVmessTransport ==
  ASSUME NEW e, SaysTheSame(e), e.scheme = "vmess", NEW u \in ClashTransport(AsClash(e))
  PROVE  VmessTransport(e) = u
<1> DEFINE c == AsClash(e)
<1>1. Get(c, "network", "tcp") = Get(e, "type", "tcp")
  BY RenamedOnes
<1>2. Get(c, "ws-Host", Absent) = Get(e, "Host", Absent)
  BY RenamedOnes
<1>3. \A d : Get(c, "ws-path", Get(c, "ws-serviceName", d)) = Get(e, "path", d)
  BY PathKey
<1>4. Get(e, "type", "tcp") # "httpupgrade"
  BY DEF SaysTheSame
<1> HIDE DEF c
<1>5. u \in ClashTransport(c)
  BY DEF c
<1>6. CASE Get(e, "type", "tcp") = "ws"
  <2>1. u = WebSocket(Get(c, "ws-path", Get(c, "ws-serviceName", "/")), Get(c, "ws-Host", Absent), 0)
    BY <1>1, <1>5, <1>6 DEF ClashTransport
  <2> QED  BY <1>2, <1>3, <1>6, <2>1 DEF VmessTransport
<1>7. CASE Get(e, "type", "tcp") = "grpc"
  <2>1. u = Grpc(Get(c, "ws-path", Get(c, "ws-serviceName", "")), FALSE)
    BY <1>1, <1>5, <1>7 DEF ClashTransport
  <2> QED  BY <1>3, <1>7, <2>1 DEF VmessTransport
<1>8. CASE Get(e, "type", "tcp") \notin {"ws", "grpc"}
  <2>1. u = Tcp
    BY <1>1, <1>4, <1>5, <1>8 DEF ClashTransport
  <2> QED  BY <1>8, <2>1 DEF VmessTransport
<1> QED  BY <1>6, <1>7, <1>8

\* The security, likewise.
LEMMA SameSecurity ==
  ASSUME NEW e, SaysTheSame(e), NEW s \in UriSecurity(e), NEW r \in ClashSecurity(AsClash(e))
  PROVE  s = r
<1> DEFINE c    == AsClash(e)
           fp   == parse_fingerprint(Get(e, "fp", ""))
           name == Get(e, "sni", "")
<1>1. parse_fingerprint(Get(c, "client-fingerprint", "")) = fp
  BY RenamedOnes
<1>2. Get(c, "servername", Get(c, "sni", "")) = name
  BY RenamedOnes, OtherKeys DEF Get, Has
<1>3. Get(c, "allow-insecure", FALSE) = Get(e, "allowInsecure", FALSE)
  BY RenamedOnes
<1>4. Get(c, "public-key", "") = Get(e, "pbk", "")
  BY RenamedOnes
<1>5. Has(c, "reality-opts") <=> Get(e, "security", "") = "reality"
  BY OtherKeys
<1>6. /\ Has(c, "tls") <=> Has(e, "security")
      /\ Has(c, "tls") /\ Get(e, "security", "") \in {"tls", "reality"} => c.tls = TRUE
      /\ Has(c, "tls") /\ Get(e, "security", "") \notin {"tls", "reality"} => c.tls = FALSE
  BY OtherKeys
<1>7. c.type = "trojan" => Has(e, "security")
  BY OtherKeys DEF SaysTheSame
<1> HIDE DEF c
<1>8. r \in ClashSecurity(c)
  BY DEF c
<1>9. CASE Get(e, "security", "") = "reality"
  <2>1. Get(e, "security", "none") = "reality"
    BY <1>9 DEF Get
  <2>2. s = Reality(name, Get(e, "pbk", ""), fp)
    BY <2>1 DEF UriSecurity, OkIf
  <2>3. name # ""
    BY <1>9 DEF SaysTheSame
  <2>4. r = Reality(name, Get(e, "pbk", ""), fp)
    BY <1>1, <1>2, <1>4, <1>5, <1>8, <1>9, <2>3 DEF ClashSecurity, OkIf
  <2> QED  BY <2>2, <2>4
<1>10. CASE Get(e, "security", "") = "tls"
  <2>1. Get(e, "security", "none") = "tls"
    BY <1>10 DEF Get
  <2>2. s = Tls(name, fp, Get(e, "allowInsecure", FALSE))
    BY <2>1 DEF UriSecurity
  <2>3. ~Has(c, "reality-opts") /\ Get(c, "tls", c.type = "trojan") = TRUE
    BY <1>5, <1>6, <1>10 DEF Get, Has
  <2>4. r = Tls(Get(c, "servername", Get(c, "sni", "")), parse_fingerprint(Get(c, "client-fingerprint", "")),
                Get(c, "allow-insecure", FALSE))
    BY <1>8, <2>3 DEF ClashSecurity
  <2> QED  BY <1>1, <1>2, <1>3, <2>2, <2>4, Zenon
<1>11. CASE Get(e, "security", "") \notin {"tls", "reality"}
  <2>1. s = NoSecurity
    BY <1>11 DEF UriSecurity, Get
  <2>2. name = ""
    BY <1>11 DEF SaysTheSame, Has, Get
  <2>3. ~Has(c, "reality-opts") /\ Get(c, "tls", c.type = "trojan") = FALSE
    <3>1. CASE Has(e, "security")
      <4>1. Has(c, "tls") /\ c.tls = FALSE
        BY <1>6, <1>11, <3>1
      <4> QED  BY <1>5, <1>11, <4>1 DEF Get, Has
    <3>2. CASE ~Has(e, "security")
      <4>1. (c.type = "trojan") = FALSE /\ ~Has(c, "tls")
        BY <1>6, <1>7, <3>2
      <4> QED  BY <1>5, <1>11, <4>1 DEF Get, Has
    <3> QED  BY <3>1, <3>2
  <2>4. r = NoSecurity
    BY <1>2, <1>8, <2>2, <2>3 DEF ClashSecurity
  <2> QED  BY <2>1, <2>4
<1> QED  BY <1>9, <1>10, <1>11

LEMMA SameVmessSecurity ==
  ASSUME NEW e, SaysTheSame(e), e.scheme = "vmess"
  PROVE  VmessSecurity(e) = ClashVmessSecurity(AsClash(e))
<1> DEFINE c    == AsClash(e)
           fp   == parse_fingerprint(Get(e, "fp", ""))
           name == Get(e, "sni", "")
<1>1. parse_fingerprint(Get(c, "client-fingerprint", "")) = fp
  BY RenamedOnes
<1>2. Get(c, "servername", "") = name
  BY RenamedOnes
<1>3. Get(c, "allow-insecure", FALSE) = FALSE
  BY RenamedOnes DEF SaysTheSame, Get, Has
<1>4. Get(c, "tls", FALSE) = IF Get(e, "security", "") = "tls" THEN TRUE ELSE FALSE
  <2>1. Get(e, "security", "") # "reality"
    BY DEF SaysTheSame
  <2>2. /\ Has(c, "tls") <=> Has(e, "security")
        /\ Has(c, "tls") /\ Get(e, "security", "") \in {"tls", "reality"} => c.tls = TRUE
        /\ Has(c, "tls") /\ Get(e, "security", "") \notin {"tls", "reality"} => c.tls = FALSE
    BY OtherKeys
  <2> HIDE DEF c
  <2> QED  BY <2>1, <2>2 DEF Get, Has
<1> HIDE DEF c
<1>5. CASE Get(e, "security", "") = "tls"
  <2>1. ClashVmessSecurity(c) = Tls(name, fp, FALSE)
    BY <1>1, <1>2, <1>3, <1>4, <1>5, Zenon DEF ClashVmessSecurity
  <2>2. VmessSecurity(e) = Tls(name, fp, FALSE)
    BY <1>5, Zenon DEF VmessSecurity
  <2> QED  BY <2>1, <2>2 DEF c
<1>6. CASE Get(e, "security", "") # "tls"
  BY <1>4, <1>6 DEF ClashVmessSecurity, VmessSecurity, c
<1> QED  BY <1>5, <1>6

\* The protocol, for each of the schemes.
LEMMA SameProtocol ==
  ASSUME NEW e, NEW m, NEW n, SaysTheSame(e), UriParts(e, m), ClashParts(AsClash(e), n)
  PROVE  m.protocol = n.protocol
<1> DEFINE c == AsClash(e)
<1>1. /\ c.type = IF e.scheme = "hy2" THEN "hysteria2" ELSE e.scheme
      /\ c.uuid = e.user /\ c.password = Secret(e) /\ Has(c, "password")
  BY OtherKeys, Zenon
<1>2. Flow(c) = Flow(e)
  BY RenamedOnes DEF Flow
<1>3. /\ Get(c, "congestion-controller", "cubic") = Get(e, "congestion_control", "cubic")
      /\ Get(c, "udp-relay-mode", "native") = Get(e, "udp_relay_mode", "native")
      /\ Get(c, "zero-rtt-handshake", "false") = Get(e, "zero_rtt_handshake", "false")
  BY RenamedOnes, Zenon
<1>0. /\ e.scheme = "ss" => Get(c, "cipher", "") = Get(e, "method", "")
      /\ e.scheme = "vmess" => Get(c, "cipher", "auto") = Get(e, "scy", "auto")
  BY RenamedOnes, Zenon
<1>4. Get(e, "plugin", Absent) = Absent
  BY DEF SaysTheSame, Get
<1>5. ClashParts(c, n)
  OBVIOUS
<1> HIDE DEF c
<1>6. CASE e.scheme = "vless"
  <2>1. m.protocol \in Vless(parse_uuid(e.user), Flow(e)) /\ n.protocol \in Vless(parse_uuid(e.user), Flow(e))
    BY <1>1, <1>2, <1>5, <1>6 DEF UriParts, ClashParts
  <2> QED  BY <2>1, OneValue DEF Vless
<1>7. CASE e.scheme = "trojan"
  <2>0. c.password = percent_decode_str(e.user)
    BY <1>1, <1>7 DEF Secret
  <2>1. /\ m.protocol \in Plain("trojan", NonEmpty(percent_decode_str(e.user)))
        /\ n.protocol \in Plain("trojan", NonEmpty(percent_decode_str(e.user)))
    BY <1>1, <1>5, <1>7, <2>0 DEF UriParts, ClashParts
  <2> QED  BY <2>1, OneValue DEF Plain
<1>8. CASE e.scheme = "vmess"
  <2> DEFINE scy == Get(e, "scy", "auto")
  <2>1. /\ m.protocol \in Vmess(parse_uuid(e.user), VmessCipher(Lower(scy)))
        /\ n.protocol \in Vmess(parse_uuid(e.user), VmessCipher(scy))
    BY <1>0, <1>1, <1>5, <1>8 DEF UriParts, ClashParts
  <2> HIDE DEF scy
  <2>2. \A x \in VmessCipher(Lower(scy)), y \in VmessCipher(scy) : x = y
    BY DEF VmessCipher, Lower, OkIf
  <2> QED  BY <2>1, <2>2, OneValue DEF Vmess
<1>9. CASE e.scheme = "ss"
  <2> DEFINE method == parse_ss_method(Get(e, "method", ""))
  <2>0. c.password = e.user
    BY <1>1, <1>9 DEF Secret
  <2>1. /\ m.protocol \in Shadowsocks(method, e.user, Absent)
        /\ n.protocol \in Shadowsocks(method, e.user, Absent)
    BY <1>0, <1>1, <1>4, <1>5, <1>9, <2>0 DEF UriParts, ClashParts
  <2>2. \A x, y \in method : x = y
    BY OneValue
  <2> HIDE DEF method
  <2> QED  BY <2>1, <2>2 DEF Shadowsocks
<1>10. CASE e.scheme \in {"hysteria2", "hy2"}
  <2>0. c.password = percent_decode_str(e.user)
    BY <1>1, <1>10 DEF Secret
  <2>1. /\ m.protocol \in Plain("hysteria2", NonEmpty(percent_decode_str(e.user)))
        /\ n.protocol \in Plain("hysteria2", NonEmpty(percent_decode_str(e.user)))
    BY <1>1, <1>5, <1>10, <2>0 DEF UriParts, ClashParts
  <2> QED  BY <2>1, OneValue DEF Plain
<1>11. CASE e.scheme = "tuic"
  <2> DEFINE W == Get(e, "password", "")
             C == TuicCongestion(Get(e, "congestion_control", "cubic"))
             R == TuicUdpRelay(Get(e, "udp_relay_mode", "native"))
             Z == ZeroRtt(Get(e, "zero_rtt_handshake", "false"))
  <2>0. Get(c, "password", "") = W
    BY <1>1, <1>11 DEF Secret, SaysTheSame, Get, Has
  <2>1. m.protocol \in Tuic(parse_uuid(e.user), W, C, R, Z) /\ n.protocol \in Tuic(parse_uuid(e.user), W, C, R, Z)
    <3>1. m.protocol \in TuicOfUri(e) /\ n.protocol \in TuicOfItem(c)
      BY <1>1, <1>5, <1>11 DEF UriParts, ClashParts
    <3> QED  BY <1>1, <1>3, <2>0, <3>1 DEF TuicOfUri, TuicOfItem
  <2>2. (\A x, y \in C : x = y) /\ (\A x, y \in R : x = y)
    BY OneValue
  <2> HIDE DEF W, C, R, Z
  <2> QED  BY <2>1, <2>2, OneValue DEF Tuic
<1> QED  BY <1>6, <1>7, <1>8, <1>9, <1>10, <1>11 DEF UriParts

LEMMA SameLayers ==
  ASSUME NEW e, NEW m, NEW n, SaysTheSame(e), UriParts(e, m), ClashParts(AsClash(e), n)
  PROVE  m.transport = n.transport /\ m.security = n.security
<1> DEFINE c == AsClash(e)
<1>1. c.type = IF e.scheme = "hy2" THEN "hysteria2" ELSE e.scheme
  BY OtherKeys
<1>2. ClashParts(c, n)
  OBVIOUS
<1>3. CASE e.scheme \in {"vless", "trojan"}
  <2> HIDE DEF c
  <2>1. m.transport \in UriTransport(e) /\ m.security \in UriSecurity(e)
    BY <1>3 DEF UriParts
  <2>2. n.transport \in ClashTransport(c) /\ n.security \in ClashSecurity(c)
    BY <1>1, <1>2, <1>3 DEF ClashParts
  <2> QED  BY <1>3, <2>1, <2>2, SameTransport, SameSecurity DEF c
<1>4. CASE e.scheme = "vmess"
  <2> HIDE DEF c
  <2>1. m.transport = VmessTransport(e) /\ m.security = VmessSecurity(e)
    BY <1>4 DEF UriParts
  <2>2. n.transport \in ClashTransport(c) /\ n.security = ClashVmessSecurity(c)
    BY <1>1, <1>2, <1>4 DEF ClashParts
  <2> QED  BY <1>4, <2>1, <2>2, SameVmessTransport, SameVmessSecurity DEF c
<1>5. CASE e.scheme \notin {"vless", "trojan", "vmess"}
  <2> HIDE DEF c
  <2>1. m.transport = Tcp /\ m.security = NoSecurity
    BY <1>5 DEF UriParts
  <2>2. n.transport = Tcp /\ n.security = NoSecurity
    BY <1>1, <1>2, <1>5 DEF ClashParts
  <2> QED  BY <2>1, <2>2
<1> QED  BY <1>3, <1>4, <1>5

LEMMA EitherWay ==
  ASSUME node \in Parsed(entry)
  PROVE  SameNodeEitherWay
<1> SUFFICES ASSUME IsUri, SaysTheSame(entry), NEW n \in parse_proxy(AsClash(entry))
             PROVE  Identity(n) = Identity(node)
  BY DEF SameNodeEitherWay
<1>1. UriParts(entry, node)
  BY UriNode DEF Parsed, IsUri
<1>2. ClashParts(AsClash(entry), n)
  BY ClashNode
<1>3. n.endpoint = node.endpoint
  <2>1. AsClash(entry).server = entry.host /\ AsClash(entry).port = Get(entry, "port", 443)
    BY OtherKeys
  <2>2. n.endpoint \in endpoint_from_host(entry.host, Get(entry, "port", 443))
    BY <1>2, <2>1, Zenon DEF ClashParts
  <2>3. node.endpoint \in endpoint_from_host(entry.host, Get(entry, "port", 443))
    BY <1>1 DEF UriParts
  <2> QED  BY <2>2, <2>3, OneValue
<1>4. n.protocol = node.protocol /\ n.transport = node.transport /\ n.security = node.security
  BY <1>1, <1>2, SameProtocol, SameLayers
<1> QED  BY <1>3, <1>4 DEF Identity

-----------------------------------------------------------------------------
\* The entry and the node are the ones of the start, whatever packets do.
LEMMA ChosenInvariant == Spec => [](entry \in Entries /\ node \in Parsed(entry))
<1>1. Init => entry \in Entries /\ node \in Parsed(entry)
  BY DEF Init
<1>2. [Next]_vars => entry' = entry /\ node' = node
  BY DEF Next, NewPacket, Send, Output, Leave, Prerouting, CoreDials, TrialDials, vars, chosen
<1>3. ASSUME entry \in Entries /\ node \in Parsed(entry), entry' = entry, node' = node
      PROVE  (entry \in Entries /\ node \in Parsed(entry))'
  BY <1>3
<1> QED  BY <1>1, <1>2, <1>3, PTL DEF Spec

\* parse_entry, parse_proxy and compile_outbound: for every entry that becomes a
\* node, the outbound keeps the TLS, the REALITY and the transport the entry asks
\* for (KnownTransport), tells apart what the catalog tells apart (XHTTP excepted),
\* and is that of the same node in either format where both say the same.
THEOREM OutboundIsFaithful == Spec => []FaithfulOutbound
<1>1. entry \in Entries /\ node \in Parsed(entry) => FaithfulOutbound
  <2> SUFFICES ASSUME entry \in Entries, node \in Parsed(entry)  PROVE FaithfulOutbound
    OBVIOUS
  <2> QED  BY LayersKept, StayApart, EitherWay DEF FaithfulOutbound
<1> QED  BY <1>1, ChosenInvariant, PTL
=============================================================================
