----------------------------- MODULE XrayConfig -----------------------------
(***************************************************************************)
(* From a location and the user's split to the two documents a connect     *)
(* request carries: the configuration Xray runs (xray.rs) and the one the  *)
(* daemon probes the location with first; then the daemon's checks of both *)
(* (system.rs) and the probe itself.  One behaviour follows one location   *)
(* through the window, the daemon and Xray.                                *)
(*                                                                         *)
(* A route target is [kind, tag]: an outbound or a balancer.  A rule is    *)
(* [on, vals, to, via]: the kind of selector, the values it matches and    *)
(* where it sends a match.  A balancer is [tag, selects, fallback], selects *)
(* being the tags its prefixes match.                                      *)
(***************************************************************************)
EXTENDS Subscription

CONSTANTS Splits,       \* the split settings, modes and LAN choices offered
          MaxServerIps, \* protocol.rs MAX_SERVER_IPS, 64 in the code
          Resolves      \* a host name -> the answers the system's resolver may
                        \* give: sets of addresses, {} standing for an error

ASSUME MaxServerIpsAssumption == MaxServerIps \in Nat \ {0}

VARIABLES stage,     \* how far the location got
          location,  \* the location, or None before it is imported
          request,   \* the ConnectRequest, or None
          tries,     \* egress probes run for this request
          measured   \* the outbound that answered the probe, or None

vars == <<stage, location, request, tries, measured>>

SystemTags == {"direct", "dns-out", "block"}
Probes == 4            \* run_validation_egress_probe
Lan == "lan"           \* stands for an address in PRIVATE_CIDRS
Assets == "geoip"      \* a selector that needs a data file Varmlen does not ship

To(tag) == [kind |-> "outbound", tag |-> tag]
Balanced(tag) == [kind |-> "balancer", tag |-> tag]

\* An outbound of a finished document.  WireGuard has no stream, so no dial mark.
Dial(ob, tag) ==
    [proto |-> ob.proto, tag |-> tag, peers |-> ob.peers, names |-> ob.names,
     network |-> IF Lower(ob.proto) = "wireguard" THEN None ELSE ob.network,
     marked |-> Lower(ob.proto) # "wireguard"]

Tags(outs) == {ob.tag : ob \in ToSet(outs)}
Duplicates(seq) == \E i, j \in DOMAIN seq : i # j /\ seq[i].tag = seq[j].tag

-----------------------------------------------------------------------------
(* The outbound plan.                                                      *)

\* sanitize_raw_outbound: a local file is refused, "...Path" is not noticed.
Sanitizes(ob) == ob.names # "file" /\ Lower(ob.proto) \in ProxyProtocols

ProviderTag(ob, i) ==
    IF ob.tag # "" THEN ob.tag ELSE IF i = 1 THEN "proxy" ELSE "proxy-" \o ToString(i)

ProviderProxies(profile) ==
    LET outs == profile.outbounds
    IN  Selection([i \in DOMAIN outs |-> Dial(outs[i], ProviderTag(outs[i], i))],
                  {i \in DOMAIN outs : Lower(outs[i].proto) \in ProxyProtocols})

ProviderProxiesOk(profile) ==
    LET proxies == ProviderProxies(profile)
    IN  /\ proxies # <<>>
        /\ \A ob \in ToSet(proxies) : Sanitizes(ob) /\ ob.tag \notin SystemTags
        /\ ~Duplicates(proxies)

BalancerTags(balancers) == {b.tag : b \in ToSet(balancers)} \ {None}

\* Site, process and catch-all rules belong to the user's split; a rule that
\* needs a data file, names no known target or opens the LAN is dropped.
SafeProviderRules(profile, proxies, balancers) ==
    LET Safe(r) == /\ r.on \in {"ip", "port", "protocol"}
                   /\ Assets \notin r.vals
                   /\ \/ r.to.kind = "outbound" /\ r.to.tag \in {"direct", "block"} \cup Tags(proxies)
                      \/ r.to.kind = "balancer" /\ r.to.tag \in BalancerTags(balancers)
                   /\ ~(r.to = To("direct") /\ r.on = "ip" /\ Lan \in r.vals)
    IN  Selection(profile.rules, {i \in DOMAIN profile.rules : Safe(profile.rules[i])})

Composite(profile) ==
    Len(ProviderProxies(profile)) > 1 \/ profile.balancers # <<>> \/ profile.observed

\* Variant: a balancer that selects nothing passes.
TaggedOk(profile) == \A b \in ToSet(profile.balancers) : b.tag # None

BalancersOk(profile) ==
    \A b \in ToSet(profile.balancers) :
        b.tag # None /\ b.selects \cap Tags(ProviderProxies(profile)) # {}

\* The last rule with a known target decides, then any balancer, then the first
\* proxy.  "Any" is the first of a hash set: every call may pick another one.
Targets(profile) ==
    LET proxies == ProviderProxies(profile)
        Known(r) == \/ r.to.kind = "balancer" /\ r.to.tag \in BalancerTags(profile.balancers)
                    \/ r.to.kind = "outbound" /\ r.to.tag \in Tags(proxies)
        known == {i \in DOMAIN profile.rules : Known(profile.rules[i])}
    IN  IF known # {}
        THEN {profile.rules[CHOOSE i \in known : \A j \in known : j <= i].to}
        ELSE IF BalancerTags(profile.balancers) # {}
             THEN {Balanced(t) : t \in BalancerTags(profile.balancers)}
             ELSE {To(proxies[1].tag)}

\* The transports validate_server knows, and what xray_network makes of one.
Transports ==
    {"", "raw", "tcp", "xhttp", "splithttp", "ws", "websocket", "grpc", "gun", "http", "h2",
     "h3", "kcp", "mkcp", "httpupgrade", "hysteria"}

XrayNetwork(t) ==
    CASE t \in {"xhttp", "splithttp"}      -> "xhttp"
      [] t \in {"ws", "websocket"}         -> "ws"
      [] t \in {"grpc", "gun"}             -> "grpc"
      [] t \in {"http", "h2", "h3"}        -> "http"
      [] t \in {"kcp", "mkcp"}             -> "kcp"
      [] t \in {"httpupgrade", "hysteria"} -> t
      [] OTHER                             -> "tcp"

\* build_proxy_outbound of a location of its own fields.
FieldOutbound(loc) ==
    [proto |-> loc.protocol, peers |-> <<loc.host>>, names |-> "nothing",
     network |-> XrayNetwork(loc.transport)]

\* The raw outbound is expected to have been validated before.
SingleOutboundBuilds(loc) == loc.rawOutbound # None => Sanitizes(loc.rawOutbound)

SingleOutbound(loc) ==
    Dial(IF loc.rawOutbound # None THEN loc.rawOutbound ELSE FieldOutbound(loc), "proxy")

IsComposite(loc) == loc.rawProfile # None /\ Composite(loc.rawProfile)

PlanFails(loc) ==
    /\ loc.rawProfile # None
    /\ \/ ~ProviderProxiesOk(loc.rawProfile)
       \/ IsComposite(loc) /\ ~BalancersOk(loc.rawProfile)

\* outbound_plan: every plan one call may return.
OutboundPlans(loc) ==
    IF IsComposite(loc)
    THEN LET p == loc.rawProfile
         IN  {[proxies |-> ProviderProxies(p), target |-> t, balancers |-> p.balancers,
               rules |-> SafeProviderRules(p, ProviderProxies(p), p.balancers)] :
                 t \in Targets(p)}
    ELSE {[proxies |-> <<SingleOutbound(loc)>>, target |-> To("proxy"), balancers |-> <<>>,
           rules |-> IF loc.rawProfile = None THEN <<>>
                     ELSE SafeProviderRules(loc.rawProfile, <<SingleOutbound(loc)>>, <<>>)]}

-----------------------------------------------------------------------------
(* What the window refuses.                                                *)

ValidServer(loc) ==
    IF loc.rawProfile # None THEN ~PlanFails(loc)
    ELSE IF loc.rawOutbound # None THEN Lower(loc.rawOutbound.proto) \in ProxyProtocols
    ELSE /\ loc.protocol \in ProxyProtocols
         /\ IF loc.protocol = "wireguard" THEN loc.keys
            ELSE /\ loc.transport \in Transports
                 /\ loc.protocol = "hysteria" =>
                       loc.transport = "hysteria" /\ loc.security = "tls"

-----------------------------------------------------------------------------
(* Resolvers.  A server entry is "known" (a public resolver whose operator *)
(* has a DoH name), "public" (another public address), "private" (a local  *)
(* address or scheme) or "named" (a DoH host name, which dns.hosts maps to *)
(* addresses).                                                             *)

HostIps(loc, name) ==
    IF loc.rawProfile = None \/ name \notin DOMAIN loc.rawProfile.hosts
    THEN {} ELSE loc.rawProfile.hosts[name]

\* A name is kept when dns.hosts gives it an address outside the LAN.
SafeDnsServers(loc) ==
    IF loc.rawProfile = None THEN {}
    ELSE {s \in loc.rawProfile.dns :
            s \in {"known", "public"} \/ (s = "named" /\ HostIps(loc, s) \ {Lan} # {})}

\* The addresses build_dns_plan knows the resolvers by.  A known resolver is
\* asked over its operator's DoH first, then as it was written; without a
\* usable server the defaults are two operators' DoH.
UpstreamIps(loc) ==
    LET servers == SafeDnsServers(loc)
    IN  IF servers = {} THEN {"doh"}
        ELSE UNION {CASE s = "known"  -> {"doh", "known"}
                      [] s = "public" -> {"public"}
                      [] s = "named"  -> HostIps(loc, s) \ {Lan} : s \in servers}

NamedHost == "x.a.ru"          \* the host of a "named" server
OperatorHost == "dns.google"   \* the DoH host of an operator

\* A connection of Xray's own resolver has no process and no inbound, and either
\* the address or the host of the server it asks: Xray does not look the host up
\* before it routes the connection, whatever dns.hosts says of it.
Lookup(domain, ip) ==
    [user |-> FALSE, process |-> None, port |-> "443", domain |-> domain, ip |-> ip]

\* The connections of the resolver build_dns_plan sets up.
Lookups(loc) ==
    LET servers == SafeDnsServers(loc)
        ByHost(host) == Lookup(host, None)
        ByAddress(ip) == Lookup(None, ip)
    IN  IF servers = {} THEN {ByHost(OperatorHost)}
        ELSE UNION {CASE s = "known"  -> {ByHost(OperatorHost), ByAddress("known")}
                      [] s = "public" -> {ByAddress("public")}
                      [] s = "named"  -> {ByHost(NamedHost)} : s \in servers}

-----------------------------------------------------------------------------
(* The documents.  A split is [mode, lan, appsMode, sitesMode, apps,       *)
(* sites]; the domains are those of one zone and some outside it.          *)

AppsSelective(s) == s.appsMode = "selective"
SitesSelective(s) == s.sitesMode = "selective"
EnabledApps(s) == s.apps \ {""}

\* site_domain_rule: "=host" is that host alone, ".zone" the whole zone, a
\* bare name (or the old "*.name") the host and everything under it.
SiteDomains(site) ==
    CASE site = "=a.ru"               -> {"a.ru"}
      [] site \in {"a.ru", "*.a.ru"}  -> {"a.ru", "x.a.ru"}
      [] site = ".ru"                 -> {"a.ru", "x.a.ru", "b.ru"}
      [] site = OperatorHost          -> {OperatorHost}

ListedDomains(s) == UNION {SiteDomains(site) : site \in s.sites \ {""}}

\* None stands for a packet without a process or a domain: no list names it.
ASSUME SplitsAssumption == \A s \in Splits : None \notin s.apps \cup ListedDomains(s)

\* Variant: a list in general mode outweighs a selective one.
GeneralListWins(s) ==
    IF s.mode = "tun" THEN ~(AppsSelective(s) /\ SitesSelective(s)) ELSE ~SitesSelective(s)

\* In proxy mode the process is unknown and the sites alone own the default.
DefaultUsesProxy(s) ==
    ~SitesSelective(s) /\ (s.mode = "tun" => ~AppsSelective(s))

Rule(on, vals, to) == <<[on |-> on, vals |-> vals, to |-> to]>>

\* Variant: no rule of its own for the resolver.
RulesWithoutResolver(loc, s, plan) ==
    LET Proxied(yes) == IF yes THEN plan.target ELSE To("direct")
    IN  Rule("dns", {}, To("dns-out"))
        \o (IF s.lan THEN Rule("ip", {Lan}, To("direct")) ELSE <<>>)
        \o (IF s.mode = "tun" THEN Rule("process", EnabledApps(s), Proxied(AppsSelective(s)))
                              ELSE <<>>)
        \o Rule("domain", ListedDomains(s), Proxied(SitesSelective(s)))
        \o plan.rules
        \o Rule("network", {}, Proxied(DefaultUsesProxy(s)))

RouteRules(loc, s, plan) ==
    LET Proxied(yes) == IF yes THEN plan.target ELSE To("direct")
    IN  Rule("dns", {}, To("dns-out"))
        \o (IF s.lan THEN Rule("ip", {Lan}, To("direct")) ELSE <<>>)
        \o (IF s.mode = "tun" THEN Rule("process", EnabledApps(s), Proxied(AppsSelective(s)))
                              ELSE <<>>)
        \o Rule("domain", ListedDomains(s), Proxied(SitesSelective(s)))
        \o plan.rules
        \o Rule("ip", UpstreamIps(loc), plan.target)
        \o Rule("network", {}, Proxied(DefaultUsesProxy(s)))

System(tag, proto) ==
    [proto |-> proto, tag |-> tag, peers |-> <<>>, names |-> "nothing", network |-> None,
     marked |-> tag = "direct"]

BuildXrayConfig(loc, s, plan) ==
    [inbounds  |-> <<IF s.mode = "tun" THEN "tun-in" ELSE "socks-in">>,
     outbounds |-> plan.proxies \o <<System("direct", "freedom"), System("dns-out", "dns"),
                                     System("block", "blackhole")>>,
     balancers |-> plan.balancers,
     rules     |-> RouteRules(loc, s, plan)]

\* Variant: the probe asks the first proxy.
ProbeFirstProxy(plan) ==
    [inbounds  |-> <<"socks-in-0">>,
     outbounds |-> Append(plan.proxies, System("direct", "freedom")),
     balancers |-> plan.balancers,
     rules     |-> Rule("inbound", {"socks-in-0"}, To(plan.proxies[1].tag))]

\* One loopback inbound that follows the plan's target.
BuildConnectionProbeConfig(plan) ==
    [inbounds  |-> <<"socks-in-0">>,
     outbounds |-> Append(plan.proxies, System("direct", "freedom")),
     balancers |-> plan.balancers,
     rules     |-> Rule("inbound", {"socks-in-0"}, plan.target)]

\* One loopback inbound per proxy, without the balancers.
BuildPingConfig(plan) ==
    LET n == Len(plan.proxies)
        Inbound(i) == "socks-in-" \o ToString(i - 1)
    IN  [inbounds  |-> [i \in 1..n |-> Inbound(i)],
         outbounds |-> Append(plan.proxies, System("direct", "freedom")),
         balancers |-> <<>>,
         rules     |-> [i \in 1..n |-> Rule("inbound", {Inbound(i)}, To(plan.proxies[i].tag))[1]]]

FirstTagged(balancers, tag) ==
    balancers[CHOOSE i \in DOMAIN balancers :
                  balancers[i].tag = tag /\ \A j \in 1..(i - 1) : balancers[j].tag # tag]

\* The one path an older daemon can measure.
PingOutboundTags(plan) ==
    IF plan.target.kind = "outbound" THEN {plan.target.tag}
    ELSE LET b == FirstTagged(plan.balancers, plan.target.tag)
         IN  IF b.fallback \in Tags(plan.proxies) THEN {b.fallback}
             ELSE b.selects \cap Tags(plan.proxies)

-----------------------------------------------------------------------------
(* What the daemon accepts.                                                *)

NamesNoFile(outs) == \A ob \in ToSet(outs) : ob.names = "nothing"

ValidateXrayDocument(doc, mode) ==
    LET proxies == {i \in DOMAIN doc.outbounds : doc.outbounds[i].proto \in ProxyProtocols}
    IN  /\ doc.inbounds = <<IF mode = "tun" THEN "tun-in" ELSE "socks-in">>
        /\ ~Duplicates(doc.outbounds)
        /\ Cardinality(proxies) \in 1..MaxServerIps
        /\ Len(doc.outbounds) = Cardinality(proxies) + 3
        /\ \A own \in {<<"direct", "freedom">>, <<"dns-out", "dns">>, <<"block", "blackhole">>} :
              \E ob \in ToSet(doc.outbounds) : ob.tag = own[1] /\ ob.proto = own[2]
        /\ NamesNoFile(doc.outbounds)

\* The probe and the ping documents.
ValidatePingDocument(doc) ==
    LET proxies == {doc.outbounds[i] : i \in 1..(Len(doc.outbounds) - 1)}
        tags    == {ob.tag : ob \in proxies}
    IN  /\ Len(doc.inbounds) \in 1..MaxServerIps
        /\ Len(doc.outbounds) \in 2..MaxServerIps + 1
        /\ doc.outbounds[Len(doc.outbounds)].proto = "freedom"
        /\ ~Duplicates(doc.outbounds)
        /\ \A ob \in proxies :
              ob.proto \in ProxyProtocols /\ (ob.marked \/ ob.proto = "wireguard")
        /\ Len(doc.balancers) <= MaxServerIps /\ ~Duplicates(doc.balancers)
        /\ \A b \in ToSet(doc.balancers) :
              b.tag \notin {None, ""} /\ b.selects \cap tags # {}
        /\ Len(doc.rules) = Len(doc.inbounds)
        /\ \A r \in ToSet(doc.rules) :
              \/ r.to.kind = "outbound" /\ r.to.tag \in tags
              \/ r.to.kind = "balancer" /\ r.to.tag \in BalancerTags(doc.balancers)
        /\ NamesNoFile(doc.outbounds)

-----------------------------------------------------------------------------
(* Xray, as the documents use it: the first rule that matches decides, and *)
(* a balancer picks among the outbounds that are up, or falls back.        *)

Carriers(doc, to, up) ==
    IF to.kind = "outbound" THEN {to.tag}
    ELSE LET b == FirstTagged(doc.balancers, to.tag)
             chosen == b.selects \cap Tags(doc.outbounds)
         IN  IF chosen \cap up # {} THEN chosen \cap up
             ELSE IF b.fallback # None THEN {b.fallback} ELSE chosen

Matches(r, packet) ==
    \/ r.on = "dns" /\ packet.user /\ packet.port = "53"
    \/ r.on = "ip" /\ packet.ip \in r.vals
    \/ r.on = "port" /\ packet.port \in r.vals
    \/ r.on = "process" /\ packet.process \in r.vals
    \/ r.on = "domain" /\ packet.domain \in r.vals
    \/ r.on = "network"

Decides(doc, packet) ==
    doc.rules[CHOOSE i \in DOMAIN doc.rules :
                  Matches(doc.rules[i], packet) /\ \A j \in 1..(i - 1) : ~Matches(doc.rules[j], packet)]

-----------------------------------------------------------------------------
(* The addresses of the endpoints.                                         *)

\* What the resolver of the system may answer for host; a literal address is
\* its own answer.
Answers(host) == IF host \in DOMAIN Resolves THEN Resolves[host] ELSE {{host}}

\* resolve_server_ips: the addresses of every endpoint together, or None, the
\* error, when one of them has none or there are more than the daemon takes.
ResolveServerIps(loc) ==
    LET hosts == ServerEndpoints(loc)
        All(answer) == UNION {answer[h] : h \in hosts}
    IN  {IF \E h \in hosts : answer[h] = {} THEN None
         ELSE IF Cardinality(All(answer)) > MaxServerIps THEN None
         ELSE All(answer) :
             answer \in {f \in [hosts -> UNION {Answers(h) : h \in hosts}] :
                            \A h \in hosts : f[h] \in Answers(h)}}

-----------------------------------------------------------------------------
(* The actions.                                                            *)

Init ==
    /\ stage = "start" /\ location = None /\ request = None
    /\ tries = 0 /\ measured = None

AddEntry(entry) ==
    /\ stage = "start"
    /\ location' = Import(entry)
    /\ stage' = IF location' = None THEN "skipped" ELSE "listed"
    /\ UNCHANGED <<request, tries, measured>>

\* validate_server, then build_proxy_outbound's expectation.
Refused ==
    /\ stage = "listed"
    /\ ~ValidServer(location)
    /\ stage' = "refused"
    /\ UNCHANGED <<location, request, tries, measured>>

Builds == ValidServer(location) /\ (location.rawProfile = None => SingleOutboundBuilds(location))

Panics ==
    /\ stage = "listed"
    /\ ValidServer(location) /\ ~Builds
    /\ stage' = "panicked"
    /\ UNCHANGED <<location, request, tries, measured>>

\* vpn_connect: the two documents come of two calls of outbound_plan, and the
\* addresses of the endpoints of the resolver of the system.
VpnConnect(s) ==
    /\ stage = "listed" /\ Builds
    /\ \E plan, probed \in OutboundPlans(location), ips \in ResolveServerIps(location) \ {None} :
          request' = [config    |-> BuildXrayConfig(location, s, plan),
                      probe     |-> BuildConnectionProbeConfig(probed),
                      serverIps |-> ips,
                      excluded  |-> IF s.mode = "tun" /\ ~AppsSelective(s)
                                    THEN EnabledApps(s) ELSE {},
                      target    |-> plan.target,
                      split     |-> s]
    /\ stage' = "requested"
    /\ UNCHANGED <<location, tries, measured>>

\* vpn_connect returns the error of resolve_server_ips, the documents unused.
Unresolved ==
    /\ stage = "listed" /\ Builds
    /\ None \in ResolveServerIps(location)
    /\ stage' = "unresolved"
    /\ UNCHANGED <<location, request, tries, measured>>

\* validate: the documents are checked before Xray sees either.
DaemonRejects ==
    /\ stage = "requested"
    /\ \/ ~ValidateXrayDocument(request.config, request.split.mode)
       \/ ~ValidatePingDocument(request.probe)
    /\ stage' = "rejected"
    /\ UNCHANGED <<location, request, tries, measured>>

DaemonAccepts ==
    /\ stage = "requested"
    /\ ValidateXrayDocument(request.config, request.split.mode)
    /\ ValidatePingDocument(request.probe)
    /\ stage' = "probing"
    /\ UNCHANGED <<location, request, tries, measured>>

\* One round of run_validation_egress_probe; up is what answers meanwhile.
Probe ==
    /\ stage = "probing" /\ tries < Probes
    /\ \E up \in SUBSET Tags(request.probe.outbounds) :
       \E tag \in Carriers(request.probe, request.probe.rules[1].to, up) :
          IF tag \in up
          THEN stage' = "connected" /\ measured' = tag /\ UNCHANGED tries
          ELSE tries' = tries + 1 /\ UNCHANGED <<stage, measured>>
    /\ UNCHANGED <<location, request>>

GiveUp ==
    /\ stage = "probing" /\ tries = Probes
    /\ stage' = "unreached"
    /\ UNCHANGED <<location, request, tries, measured>>

\* proxy_get_ping: every path at once; an older daemon is asked for one.
Ping ==
    /\ stage = "listed" /\ Builds
    /\ \E plan \in OutboundPlans(location) :
          LET doc   == BuildPingConfig(plan)
              paths == {r.to.tag : r \in ToSet(doc.rules)}
          IN  IF ~ValidatePingDocument(doc)
              THEN stage' = "unmeasurable" /\ UNCHANGED measured
              ELSE \E up \in SUBSET Tags(doc.outbounds),
                      asked \in {paths} \cup {{t} : t \in PingOutboundTags(plan)} :
                     IF asked \cap up = {}
                     THEN stage' = "unmeasured" /\ UNCHANGED measured
                     ELSE stage' = "pinged" /\ measured' \in asked \cap up
    /\ UNCHANGED <<location, request, tries>>

\* The next attempt starts from the list of locations.
Again ==
    /\ stage \notin {"start", "listed", "requested", "probing"}
    /\ stage' = "start" /\ location' = None /\ request' = None
    /\ tries' = 0 /\ measured' = None

Next ==
    \/ \E entry \in Entries : AddEntry(entry)
    \/ Refused \/ Panics
    \/ \E s \in Splits : VpnConnect(s)
    \/ Unresolved
    \/ DaemonRejects \/ DaemonAccepts
    \/ Probe \/ GiveUp
    \/ Ping
    \/ Again

Spec == Init /\ [][Next]_vars
=============================================================================
