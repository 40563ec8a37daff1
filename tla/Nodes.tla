-------------------------------- MODULE Nodes --------------------------------
(***************************************************************************)
(* From one entry of a subscription to a node: the URI parser (uri.rs), the *)
(* Clash parser (clash.rs) and the node they build (CanonicalNode).        *)
(*                                                                         *)
(* An entry is a function from the keys it gives to their values; a key it  *)
(* does not give is outside its domain.  A host is [text, kind].  What a    *)
(* Rust function returns as a Result is here the set of its Ok value: empty *)
(* when it fails.  Left out are values that both parsers copy alike (alpn,  *)
(* short id, spider_x, obfuscation, bandwidths, alter id) and the country   *)
(* code.  Neither parser reads multiplexing settings.                      *)
(***************************************************************************)
EXTENDS Integers

Has(e, key) == key \in DOMAIN e
Get(e, key, default) == IF key \in DOMAIN e THEN e[key] ELSE default
Absent == "absent"                 \* None of an optional text

OkIf(condition, value) == IF condition THEN {value} ELSE {}

-----------------------------------------------------------------------------
(* What both parsers share.                                                *)

parse_uuid(text) == OkIf(text = "uuid", text)
NonEmpty(text)   == OkIf(text # "", text)

\* normalize_host: blanks, trailing dots and case are no part of a name.  An
\* IPv6 literal in brackets is no IpAddr, and passes for a name.
Kind == {"name", "other case", "v4", "v6", "bracketed", "malformed"}

endpoint_from_host(host, port) ==
  OkIf(port # 0 /\ host.kind # "malformed",
       [ip |-> host.kind \in {"v4", "v6"}, port |-> port,
        host |-> IF host.kind = "other case" THEN [host EXCEPT !.kind = "name"] ELSE host])

\* The whole parser fails when one of its parts does.
try_new(label, endpoints, protocols, transports, securities) ==
  [label: {label}, endpoint: endpoints, protocol: protocols, transport: transports,
   security: securities]

\* FunctionalIdentity, which is hashed: all of a node but its label.
Identity(n) == <<n.endpoint, n.protocol, n.transport, n.security>>

Tcp        == [type |-> "tcp"]
NoSecurity == [type |-> "none"]

WebSocket(path, host, early) == [type |-> "ws", path |-> path, host |-> host, early |-> early]
Grpc(service, multi)         == [type |-> "grpc", service |-> service, multi |-> multi]
HttpUpgrade(path, host)      == [type |-> "httpupgrade", path |-> path, host |-> host]
XHttp(mode, path, host)      == [type |-> "xhttp", mode |-> mode, path |-> path, host |-> host]
Tls(name, fp, insecure) ==
  [type |-> "tls", server_name |-> name, fingerprint |-> fp, insecure |-> insecure]
Reality(name, key, fp) ==
  [type |-> "reality", server_name |-> name, public_key |-> key, fingerprint |-> fp]

parse_fingerprint(text) == IF text \in {"chrome", "firefox"} THEN text ELSE "none"

\* The flow of VLESS, the same in both formats.
Flow(e) == LET f == Get(e, "flow", "") IN OkIf(f \in {"", "xtls-rprx-vision"}, f)

\* The protocols' settings; a credential or an option that is refused leaves none.
Vless(uuids, flows)  == [type: {"vless"}, cred: uuids, flow: flows]
Plain(type, creds)   == [type: {type}, cred: creds]
Vmess(uuids, ciphers) == [type: {"vmess"}, cred: uuids, cipher: ciphers]
Shadowsocks(methods, cred, plugin) == [type: {"ss"}, method: methods, cred: {cred}, plugin: {plugin}]
Tuic(uuids, password, congestions, relays, zeroRtt) ==
  [type: {"tuic"}, cred: uuids, password: {password}, congestion: congestions, relay: relays,
   zero_rtt: {zeroRtt}]

\* Texts in another case are told from the ones the code compares with.
Lower(text) == IF text = "AUTO" THEN "auto" ELSE text

parse_ss_method(text)  == OkIf(Lower(text) \in {"aes-128-gcm", "aes-256-gcm"}, Lower(text))
VmessCipher(text)      == OkIf(text \in {"auto", "aes-128-gcm", "chacha20-poly1305", "none"}, text)
TuicCongestion(text)   == OkIf(text \in {"bbr", "new_reno", "cubic"}, text)
TuicUdpRelay(text)     == OkIf(text \in {"native", "quic"}, text)
ZeroRtt(text)          == IF text = "true" THEN "on" ELSE "off"

-----------------------------------------------------------------------------
(* uri.rs: scheme, user, host, port, fragment and the query's keys.        *)

\* Texts with an escape are told from the ones it stands for.
percent_decode_str(text) == IF text = "p%40ss" THEN "p@ss" ELSE text

UriEndpoint(e, default) ==
  IF Has(e, "port") THEN endpoint_from_host(e.host, e.port)
  ELSE IF default # 0 THEN endpoint_from_host(e.host, default) ELSE {}

parse_xhttp_mode(text) == IF text \in {"packet-up", "stream-up"} THEN text ELSE "stream-one"

UriTransport(e) ==
  LET type == Get(e, "type", "tcp")
      path == Get(e, "path", "/")
      host == Get(e, "Host", Absent)
  IN  CASE type = "tcp"   -> {Tcp}
        [] type = "ws"    -> {WebSocket(path, host, Get(e, "ed", 0))}
        [] type = "grpc"  -> {Grpc(Get(e, "serviceName", ""), Get(e, "mode", "") = "multi")}
        [] type = "xhttp" -> {XHttp(parse_xhttp_mode(Get(e, "mode", "")), path, host)}
        [] OTHER          -> {}

UriSecurity(e) ==
  LET security == Get(e, "security", "none")
      name     == Get(e, "sni", "")
      fp       == parse_fingerprint(Get(e, "fp", ""))
  IN  CASE security \in {"none", ""} -> {NoSecurity}
        [] security = "tls"          -> {Tls(name, fp, Get(e, "allowInsecure", FALSE))}
        [] security = "reality"      -> OkIf(Has(e, "pbk"), Reality(name, Get(e, "pbk", ""), fp))
        [] OTHER                     -> {}

\* VMess: base64 of a JSON object in the place of the host, which a slash of
\* base64 cuts short.  A transport or security it does not know is none.
VmessTransport(e) ==
  LET net == Get(e, "type", "tcp")
  IN  CASE net = "ws"   -> WebSocket(Get(e, "path", "/"), Get(e, "Host", Absent), 0)
        [] net = "grpc" -> Grpc(Get(e, "path", ""), FALSE)
        [] OTHER        -> Tcp

VmessSecurity(e) ==
  IF Get(e, "security", "") = "tls"
  THEN Tls(Get(e, "sni", ""), parse_fingerprint(Get(e, "fp", "")), FALSE)
  ELSE NoSecurity

UriVmess(e) ==
  IF Has(e, "slash") \/ ~Has(e, "port") THEN {}
  ELSE try_new(Get(e, "fragment", "VMess Node"), endpoint_from_host(e.host, e.port),
               Vmess(parse_uuid(e.user), VmessCipher(Lower(Get(e, "scy", "auto")))),
               {VmessTransport(e)}, {VmessSecurity(e)})

\* ss: the user is method and password in base64, and there is no default port.
UriShadowsocks(e) ==
  try_new(Get(e, "fragment", "Shadowsocks Node"), UriEndpoint(e, 0),
          Shadowsocks(parse_ss_method(Get(e, "method", "")), e.user, Get(e, "plugin", Absent)),
          {Tcp}, {NoSecurity})

UriFallback == [vless |-> "VLESS Node", trojan |-> "Trojan Node",
                hysteria2 |-> "Hysteria2 Node", hy2 |-> "Hysteria2 Node", tuic |-> "TUIC Node"]

UriOf(e, protocols, transports, securities) ==
  try_new(Get(e, "fragment", UriFallback[e.scheme]), UriEndpoint(e, 443),
          protocols, transports, securities)

UriVless(e) ==
  UriOf(e, Vless(parse_uuid(e.user), Flow(e)), UriTransport(e), UriSecurity(e))

UriTrojan(e) ==
  UriOf(e, Plain("trojan", NonEmpty(percent_decode_str(e.user))), UriTransport(e), UriSecurity(e))

\* Hysteria2 and TUIC are nodes without transport and security.
UriHysteria2(e) ==
  UriOf(e, Plain("hysteria2", NonEmpty(percent_decode_str(e.user))), {Tcp}, {NoSecurity})

\* The password of a TUIC URI stays as it is escaped.
UriTuic(e) ==
  UriOf(e, Tuic(parse_uuid(e.user), Get(e, "password", ""),
                TuicCongestion(Get(e, "congestion_control", "cubic")),
                TuicUdpRelay(Get(e, "udp_relay_mode", "native")),
                ZeroRtt(Get(e, "zero_rtt_handshake", "false"))), {Tcp}, {NoSecurity})

parse_entry(e) ==
  CASE e.scheme = "vless"                 -> UriVless(e)
    [] e.scheme = "vmess"                 -> UriVmess(e)
    [] e.scheme = "trojan"                -> UriTrojan(e)
    [] e.scheme = "ss"                    -> UriShadowsocks(e)
    [] e.scheme \in {"hysteria2", "hy2"}  -> UriHysteria2(e)
    [] e.scheme = "tuic"                  -> UriTuic(e)
    [] OTHER                              -> {}

-----------------------------------------------------------------------------
(* clash.rs: an item of `proxies`.  Keys of ws-opts are ws-path,           *)
(* ws-serviceName and ws-Host; public-key is one of reality-opts.          *)

ClashEndpoint(e) ==
  IF Has(e, "server") /\ Has(e, "port") THEN endpoint_from_host(e.server, e.port) ELSE {}

\* Mutant of ClashTransport: a WebSocket without a path has an empty one.
ClashTransportNoDefault(e) ==
  CASE Get(e, "network", "tcp") = "ws" -> {WebSocket(Get(e, "ws-path", ""), Get(e, "ws-Host", Absent), 0)}
    [] OTHER -> {Tcp}

ClashTransport(e) ==
  LET network       == Get(e, "network", "tcp")
      path(default) == Get(e, "ws-path", Get(e, "ws-serviceName", default))
      host          == Get(e, "ws-Host", Absent)
  IN  CASE network \in {"tcp", ""}   -> {Tcp}
        [] network = "ws"            -> {WebSocket(path("/"), host, 0)}
        [] network = "grpc"          -> {Grpc(path(""), FALSE)}
        [] network = "httpupgrade"   -> {HttpUpgrade(path("/"), host)}
        [] OTHER                     -> {}

\* reality-opts win; a server name asks for TLS by itself, and Trojan is TLS
\* unless it says otherwise.
ClashSecurity(e) ==
  LET name == Get(e, "servername", Get(e, "sni", ""))
      fp   == parse_fingerprint(Get(e, "client-fingerprint", ""))
  IN  IF Has(e, "reality-opts")
      THEN OkIf(Has(e, "public-key"),
                Reality(IF name = "" THEN e.server.text ELSE name, Get(e, "public-key", ""), fp))
      ELSE IF Get(e, "tls", e.type = "trojan") \/ name # ""
           THEN {Tls(name, fp, Get(e, "allow-insecure", FALSE))}
           ELSE {NoSecurity}

\* VMess looks at the tls key alone, and at no other name than servername.
ClashVmessSecurity(e) ==
  IF Get(e, "tls", FALSE)
  THEN Tls(Get(e, "servername", ""), parse_fingerprint(Get(e, "client-fingerprint", "")),
           Get(e, "allow-insecure", FALSE))
  ELSE NoSecurity

\* An item without a name is refused.
ClashOf(e, protocols, transports, securities) ==
  IF Has(e, "name") THEN try_new(e.name, ClashEndpoint(e), protocols, transports, securities) ELSE {}

ClashShadowsocks(e) ==
  ClashOf(e, Shadowsocks(parse_ss_method(Get(e, "cipher", "")), e.password, Absent),
          {Tcp}, {NoSecurity})

ClashVmess(e) ==
  ClashOf(e, Vmess(parse_uuid(e.uuid), VmessCipher(Get(e, "cipher", "auto"))),
          ClashTransport(e), {ClashVmessSecurity(e)})

ClashTrojan(e) ==
  ClashOf(e, Plain("trojan", NonEmpty(e.password)), ClashTransport(e), ClashSecurity(e))

ClashVless(e) ==
  ClashOf(e, Vless(parse_uuid(e.uuid), Flow(e)), ClashTransport(e), ClashSecurity(e))

ClashHysteria2(e) ==
  ClashOf(e, Plain("hysteria2", NonEmpty(e.password)), {Tcp}, {NoSecurity})

ClashTuic(e) ==
  ClashOf(e, Tuic(parse_uuid(e.uuid), Get(e, "password", ""),
                  TuicCongestion(Get(e, "congestion-controller", "cubic")),
                  TuicUdpRelay(Get(e, "udp-relay-mode", "native")),
                  ZeroRtt(Get(e, "zero-rtt-handshake", "false"))), {Tcp}, {NoSecurity})

parse_proxy(e) ==
  CASE e.type = "ss"         -> ClashShadowsocks(e)
    [] e.type = "vmess"      -> ClashVmess(e)
    [] e.type = "trojan"     -> ClashTrojan(e)
    [] e.type = "vless"      -> ClashVless(e)
    [] e.type = "hysteria2"  -> ClashHysteria2(e)
    [] e.type = "tuic"       -> ClashTuic(e)
    [] OTHER                 -> {}

\* An entry of either format.
Parsed(e) == IF Has(e, "scheme") THEN parse_entry(e) ELSE parse_proxy(e)
=============================================================================
