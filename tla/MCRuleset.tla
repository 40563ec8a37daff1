------------------------------ MODULE MCRuleset ------------------------------
(* Entries for TLC: every layer of the protocols that have layers, and every  *)
(* kind of host, port and name for all of them.                              *)
EXTENDS Ruleset

Host(text, kind) == [text |-> text, kind |-> kind]
Edge == Host("edge", "name")

Layers == {"vless", "vmess", "trojan"}

UriSecurities ==
  { <<>>, [sni |-> "front"], [security |-> "tls"], [security |-> "tls", sni |-> "front", fp |-> "chrome"],
    [security |-> "tls", sni |-> "front", allowInsecure |-> TRUE], [security |-> "xtls"],
    [security |-> "reality", sni |-> "front", pbk |-> "key"], [security |-> "reality", pbk |-> "key"],
    [security |-> "reality", sni |-> "front"] }

UriTransports ==
  { <<>>, [type |-> "ws"], [type |-> "ws", path |-> "/p", Host |-> "cdn"],
    [type |-> "ws", path |-> "/p"], [type |-> "ws", ed |-> 2048],
    [type |-> "grpc", serviceName |-> "svc", mode |-> "multi"], [type |-> "grpc"],
    [type |-> "xhttp", Host |-> "cdn"], [type |-> "xhttp", mode |-> "packet-up"], [type |-> "kcp"] }

Uri(scheme) == [scheme |-> scheme, user |-> "uuid", host |-> Edge, port |-> 8443, fragment |-> "edge one"]

\* vless://, trojan:// with no fragment, no port, another host, a bad credential;
\* ss:// with a plugin; vmess:// with a slash in its base64.
Oddities ==
  { <<>>, [host |-> Host("edge", "other case")], [host |-> Host("::1", "bracketed")],
    [host |-> Host("192.0.2.1", "v4")], [host |-> Host("a b", "malformed")], [port |-> 0], [user |-> ""],
    [user |-> "p%40ss"], [password |-> "p%40ss"], [password |-> "uuid", zero_rtt_handshake |-> "true"],
    [fragment |-> "direct"], [flow |-> "xtls-rprx-vision"], [flow |-> "other"], [plugin |-> "obfs"],
    [slash |-> TRUE], [scy |-> "AUTO"], [scy |-> "none", congestion_control |-> "bbr", udp_relay_mode |-> "quic"],
    [scy |-> "other", method |-> "other", congestion_control |-> "other"] }

Without(e, key) == [k \in DOMAIN e \ {key} |-> e[k]]
Method == [method |-> "aes-128-gcm"]

Uris ==
  {s @@ t @@ Uri(scheme) : s \in UriSecurities, t \in UriTransports, scheme \in Layers} \cup
  {o @@ Method @@ Uri(scheme) : o \in Oddities, scheme \in Layers \cup {"ss", "hysteria2", "hy2", "tuic", "ssr"}} \cup
  {Without(Method @@ Uri(scheme), k) : k \in {"port", "fragment"}, scheme \in Layers \cup {"ss", "hysteria2", "tuic"}}

ClashSecurities ==
  { <<>>, [servername |-> "front"], [tls |-> FALSE], [tls |-> TRUE, sni |-> "front"],
    [tls |-> TRUE, servername |-> "front"] @@ ("client-fingerprint" :> "firefox"),
    ("reality-opts" :> TRUE) @@ ("public-key" :> "key") @@ [tls |-> TRUE], ("reality-opts" :> TRUE) @@ [tls |-> TRUE] }

ClashTransports ==
  { <<>>, [network |-> "ws"], [network |-> "ws"] @@ ("ws-path" :> "/p") @@ ("ws-Host" :> "cdn"),
    [network |-> "grpc"] @@ ("grpc-service-name" :> "svc"), [network |-> "grpc"] @@ ("ws-serviceName" :> "svc"),
    [network |-> "httpupgrade"], [network |-> "h2"] }

Item(type) ==
  [type |-> type, name |-> "edge one", server |-> Edge, port |-> 8443, uuid |-> "uuid", password |-> "uuid",
   cipher |-> "aes-128-gcm"]

ItemOddities ==
  { [server |-> Host("::1", "v6")], [server |-> Host("a b", "malformed")], [port |-> 0], [uuid |-> "?", password |-> ""],
    [name |-> "direct"], [password |-> "p@ss"] @@ ("zero-rtt-handshake" :> "true"), [cipher |-> "AUTO"] @@ ("congestion-controller" :> "AUTO") }

Items ==
  {s @@ t @@ Item(type) : s \in ClashSecurities, t \in ClashTransports, type \in Layers} \cup
  {o @@ Item(type) : o \in ItemOddities, type \in Layers \cup {"ss", "hysteria2", "tuic", "snell"}} \cup
  {Without(Item(type), k) : k \in {"name", "server", "port"}, type \in Layers \cup {"ss", "hysteria2", "tuic"}}

AllEntries == Uris \cup Items
=============================================================================
