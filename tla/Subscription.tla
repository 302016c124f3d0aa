---------------------------- MODULE Subscription ----------------------------
(***************************************************************************)
(* What an entry of a subscription becomes: one location of the window, or *)
(* nothing.  Entries are share links, single outbounds, whole Xray         *)
(* profiles and locations typed into the editor (subscription.rs,          *)
(* location-draft.ts).  Text, percent and base64 encodings are abstracted; *)
(* what is kept is every field a later step branches on.                   *)
(*                                                                         *)
(* An outbound is [proto, tag, peers, complete, names], where peers are    *)
(* the endpoints it dials, complete says that it has every field           *)
(* parse_outbound needs, and names is the local file key it carries:       *)
(* "nothing", a "...File" key, or a "...Path" key.                         *)
(***************************************************************************)
EXTENDS Lists, Sequences, SequencesExt

CONSTANTS None,      \* an absent option
          Entries    \* the entries the provider or the user may supply

\* What the JSON reader leaves of a provider's outbound, routing rule and balancer.
RawOutbounds ==
    [proto : STRING, tag : STRING, peers : Seq(STRING), complete : BOOLEAN,
     names : {"nothing", "file", "path"}, network : {None} \cup STRING, security : {None} \cup STRING]
RawRules == [on : STRING, vals : SUBSET STRING, to : [kind : STRING, tag : {None} \cup STRING]]
RawBalancers == [tag : {None} \cup STRING, selects : SUBSET STRING, fallback : {None} \cup STRING]

ASSUME EntriesAssumption ==
    \A e \in Entries :
        /\ e.kind \in {"link", "outbound", "profile", "edited"}
        /\ e.kind = "outbound" => e.outbound \in RawOutbounds
        /\ e.kind = "profile" => /\ e.profile # None
                                 /\ e.profile.outbounds \in Seq(RawOutbounds)
                                 /\ e.profile.rules \in Seq(RawRules)
                                 /\ e.profile.balancers \in Seq(RawBalancers)
ASSUME NoneAssumption == None \notin RawOutbounds /\ None # "tcp"

ProxyProtocols == {"http", "socks", "shadowsocks", "vmess", "vless", "trojan",
                   "hysteria", "wireguard"}

\* The one spelling with a capital letter that the instances use.
Lower(proto) == IF proto = "VLESS" THEN "vless" ELSE proto

\* An auto-select entry of a provider: a host that stands for no server.
IsBalancerSentinel(host) == host = "balancer.host"

\* xray.rs and subscription.rs each keep their own list of spellings.
NormalizeNetwork(network) ==
    CASE network = "raw"       -> "tcp"
      [] network = "splithttp" -> "xhttp"
      [] network = "h2"        -> "http"
      [] OTHER                 -> network

Default(option, value) == IF option = None THEN value ELSE option

Location(proto, transport, security, keys, host, raw, profile) ==
    [protocol |-> proto, transport |-> transport, security |-> security,
     keys |-> keys, host |-> host, rawOutbound |-> raw, rawProfile |-> profile]

\* The protocol is matched as written: "VLESS" is no outbound here.
Parses(ob) ==
    /\ ob.proto \in ProxyProtocols
    /\ ob.complete
    /\ ob.peers # <<>>
    /\ ~IsBalancerSentinel(ob.peers[1])

\* apply_stream: security is "none" unless the stream names one.
ParseOutbound(ob, raw, profile) ==
    Location(ob.proto,
             IF ob.proto = "wireguard" THEN "wireguard" ELSE NormalizeNetwork(ob.network),
             Default(ob.security, "none"), TRUE, ob.peers[1], raw, profile)

\* A share link lacks "nothing", or the one thing its parser refuses to miss:
\* "credentials", the "port", or, for xhttp, an "extra" that is an object.

ParseVless(link) ==
    IF link.lacks \in {"credentials", "port"} \/ (link.lacks = "extra" /\ link.transport = "xhttp")
    THEN None
    ELSE Location("vless", Default(link.transport, "tcp"), Default(link.security, "none"),
                  FALSE, link.host, None, None)

ParseTrojan(link) ==
    IF link.lacks \in {"credentials", "port"} THEN None
    ELSE Location("trojan", Default(link.transport, "tcp"), Default(link.security, "tls"),
                  FALSE, link.host, None, None)

\* Its query is dropped: no transport, no security.
ParseShadowsocks(link) ==
    IF link.lacks \in {"credentials", "port"} THEN None
    ELSE Location("shadowsocks", "tcp", "none", FALSE, link.host, None, None)

ParseVmess(link) ==
    IF link.lacks \in {"credentials", "port"} THEN None
    ELSE Location("vmess", Default(link.transport, "tcp"),
                  IF link.security \in {"tls", "reality"} THEN link.security ELSE "none",
                  FALSE, link.host, None, None)

ParseProxyUri(link) ==
    IF IsBalancerSentinel(link.host) THEN None
    ELSE CASE link.scheme = "vless"  -> ParseVless(link)
           [] link.scheme = "trojan" -> ParseTrojan(link)
           [] link.scheme = "ss"     -> ParseShadowsocks(link)
           [] link.scheme = "vmess"  -> ParseVmess(link)
           [] OTHER                  -> None

\* A whole profile is one location.  The endpoint it shows is that of the first
\* outbound that parses; the outbound it carries is the first one listed.
CollectProfile(profile) ==
    LET listed  == profile.outbounds
        proxies == Selection(listed, {i \in DOMAIN listed : listed[i].proto \in ProxyProtocols})
        parsed  == Selection(listed, {i \in DOMAIN listed : Parses(listed[i])})
    IN  IF parsed = <<>> THEN None
        ELSE ParseOutbound(parsed[1], proxies[1], profile)

\* The location that entry becomes, or None when the import skips it.
Import(entry) ==
    CASE entry.kind = "link"     -> ParseProxyUri(entry)
      [] entry.kind = "outbound" -> IF Parses(entry.outbound)
                                    THEN ParseOutbound(entry.outbound, entry.outbound, None)
                                    ELSE None
      [] entry.kind = "profile"  -> CollectProfile(entry.profile)
      [] entry.kind = "edited"   -> Location(entry.protocol, entry.transport, entry.security,
                                             entry.keys, entry.host, None, None)

\* Variant: only the endpoint the window shows.
ShownEndpoint(loc) == {loc.host}

\* What the provider gave for it: nothing for a link or an edited location.
Outbounds(loc) ==
    IF loc.rawProfile # None THEN ToSet(loc.rawProfile.outbounds)
    ELSE {loc.rawOutbound} \ {None}

\* Every endpoint the location may dial, as the host routes are told of them.
ServerEndpoints(loc) ==
    LET parsed == {ob \in Outbounds(loc) : Parses(ob)}
    IN  IF parsed = {} THEN {loc.host} ELSE {ob.peers[1] : ob \in parsed}
=============================================================================
