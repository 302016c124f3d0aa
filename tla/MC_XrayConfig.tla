--------------------------- MODULE MC_XrayConfig ---------------------------
(***************************************************************************)
(* Small sets of entries and settings: every feature of a profile that a   *)
(* branch tests, alone and with the ones it meets.                         *)
(***************************************************************************)
EXTENDS XrayConfigProps, TLC

Ob(proto, tag, peers) ==
    [proto |-> proto, tag |-> tag, peers |-> peers, complete |-> TRUE, names |-> "nothing",
     network |-> "raw", security |-> "tls"]

A == Ob("vless", "a", <<"h1">>)
B == Ob("trojan", "b", <<"h2">>)
W == Ob("wireguard", "b", <<"h2", "h3">>)
Free == Ob("freedom", "direct", <<>>)

OutboundLists ==
    {<<A>>, <<A, B>>, <<A, W>>, <<W>>, <<Free, A>>, <<Free, B, A>>, <<A, A>>, <<Free>>,
     <<[A EXCEPT !.tag = ""], B>>, <<[A EXCEPT !.complete = FALSE], W>>,
     <<[A EXCEPT !.tag = "block"]>>, <<A, [B EXCEPT !.names = "file"]>>,
     <<A, [B EXCEPT !.names = "path"]>>, <<A, Ob("VLESS", "b", <<"h2">>)>>,
     <<A, B, Ob("vless", "c", <<"h2">>)>>, <<A, Ob("vless", "c", <<"h3">>)>>, <<[A EXCEPT !.peers = <<"balancer.host">>], B>>}

Bal(tag, selects, fallback) == [tag |-> tag, selects |-> selects, fallback |-> fallback]

BalancerLists ==
    {<<>>, <<Bal("x", {"a"}, None)>>, <<Bal("x", {"a", "b"}, "direct")>>,
     <<Bal("x", {"a", "b", "direct", "block"}, "b")>>, <<Bal("x", {"z"}, None)>>,
     <<Bal("x", {"a"}, "b"), Bal("y", {"b"}, "a")>>,
     <<Bal("x", {"a"}, None), Bal("x", {"b"}, None)>>, <<Bal(None, {"a"}, None)>>,
     <<Bal("", {"a"}, None)>>, <<Bal("x", {"a"}, None), Bal("y", {"b"}, None)>>,
     <<Bal("x", {"a"}, None), Bal("y", {"b"}, None), Bal("z", {"a"}, None)>>}

R(on, vals, to) == [on |-> on, vals |-> vals, to |-> to]

RuleLists ==
    {<<>>, <<R("ip", {"public"}, To("direct"))>>, <<R("ip", {Lan}, To("direct"))>>,
     <<R("ip", {Assets}, To("direct"))>>, <<R("domain", {"c.com"}, To("direct"))>>,
     <<R("port", {"443"}, To("block")), R("network", {}, Balanced("x"))>>,
     <<R("network", {}, Balanced("y")), R("ip", {"world"}, To("b"))>>}

NoHosts == [n \in {} |-> {}]
DnsLists ==
    {<<{}, NoHosts>>, <<{"known"}, NoHosts>>, <<{"private"}, NoHosts>>,
     <<{"public", "named"}, [n \in {"named"} |-> {"custom", Lan}]>>}

Profile(outs, bals, rules, dns) ==
    [kind |-> "profile",
     profile |-> [outbounds |-> outs, balancers |-> bals, observed |-> FALSE, rules |-> rules,
                  dns |-> dns[1], hosts |-> dns[2]]]

Plain == <<{}, NoHosts>>

MCEntries ==
    {Profile(o, b, <<>>, Plain) : o \in OutboundLists, b \in BalancerLists}
    \cup {Profile(o, b, r, Plain) : o \in {<<A>>, <<A, B>>}, r \in RuleLists,
            b \in {<<>>, <<Bal("x", {"a"}, "b"), Bal("y", {"b"}, "a")>>}}
    \cup {Profile(<<A>>, <<>>, r, d) : r \in RuleLists, d \in DnsLists}
    \cup {Profile(<<A, [W EXCEPT !.complete = FALSE]>>, <<>>, <<>>, Plain)}
    \cup {[Profile(<<A>>, <<>>, r, Plain) EXCEPT !.profile.observed = TRUE] : r \in RuleLists}
    \cup {[kind |-> "outbound", outbound |-> o] :
            o \in {A, W, [A EXCEPT !.names = "file"], [A EXCEPT !.names = "path"],
                   [A EXCEPT !.complete = FALSE]}}
    \cup {[kind |-> "link", scheme |-> p, lacks |-> l, host |-> "h1", transport |-> t,
           security |-> s] :
            p \in {"vless", "trojan", "ss", "vmess", "hysteria2"},
            l \in {"nothing", "credentials", "extra"},
            t \in {None, "splithttp", "xhttp", "quic"}, s \in {None, "tls"}}
    \cup {[kind |-> "link", scheme |-> "vless", lacks |-> "nothing", host |-> "balancer.host",
           transport |-> None, security |-> None]}
    \cup {[kind |-> "edited", protocol |-> p, transport |-> t, security |-> s, keys |-> k,
           host |-> "h1"] :
            p \in {"hysteria", "wireguard"}, t \in {"hysteria", "wireguard"},
            s \in {"tls", "none"}, k \in BOOLEAN}

MCSplits ==
    [mode : {"tun", "proxy"}, lan : BOOLEAN, appsMode : {"selective", "general"},
     sitesMode : {"selective", "general"}, apps : {{""}, {"browser"}},
     sites : {{}, {"=a.ru"}, {"a.ru", "dns.google"}}]

\* h1 is an address, h2 a name that may answer twice differently or not at all, and
\* h3 has more addresses than fit beside that of another endpoint.
MCResolves == [h2 |-> {{"p1"}, {"p1", "p2"}, {}}, h3 |-> {{"q1", "q2"}}]
=============================================================================
