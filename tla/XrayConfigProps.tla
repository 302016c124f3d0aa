--------------------------- MODULE XrayConfigProps ---------------------------
(***************************************************************************)
(* What the window, the daemon and Xray must agree on about one location.  *)
(***************************************************************************)
EXTENDS XrayConfig

Connected == stage = "connected"

\* A packet of an application: where it comes from and where it goes.
Packets ==
    [user : {TRUE}, process : {"browser", "game"}, port : {"443"},
     domain : {"a.ru", "x.a.ru", "b.ru", "c.com", None},
     ip : {"world", "public", Lan}]

\* The kept rule of the provider that decides packet, if it gets that far.
ProviderDecides(packet) ==
    LET r == Decides(request.config, packet)
    IN  r \in ToSet(location.rawProfile.rules)

FromProvider(packet) == location.rawProfile # None /\ ProviderDecides(packet)

-----------------------------------------------------------------------------

\* split.rs and xray.rs:1512-1516: an application that is listed follows its list
\* wherever it goes (TUN mode only), then a listed site does, and what neither
\* list names uses the VPN unless one of them is selective.  The LAN choice comes
\* before all of it.
Wanted(s, packet) ==
    IF s.lan /\ packet.ip = Lan THEN FALSE
    ELSE IF s.mode = "tun" /\ packet.process \in s.apps THEN s.appsMode = "selective"
    ELSE IF packet.domain \in ListedDomains(s) THEN s.sitesMode = "selective"
    ELSE s.sitesMode # "selective" /\ (s.mode = "tun" => s.appsMode # "selective")

Listed(s, packet) ==
    \/ s.lan /\ packet.ip = Lan
    \/ s.mode = "tun" /\ packet.process \in s.apps
    \/ packet.domain \in ListedDomains(s)

\* A running configuration treats every packet as the split asks; only what no
\* list names may be decided by a rule of the provider or, when it goes to the
\* address of a resolver, share the resolver's way.  And the daemon takes out of
\* the tunnel only applications Xray would send direct as well.
SplitIsHonoured ==
    Connected =>
        LET s == request.split IN
        /\ \A p \in Packets :
              \/ ~Listed(s, p) /\ (FromProvider(p) \/ p.ip \in UpstreamIps(location))
              \/ Decides(request.config, p).to =
                    IF Wanted(s, p) THEN request.target ELSE To("direct")
        /\ \A app \in request.excluded, p \in Packets :
              p.process = app => Decides(request.config, p).to = To("direct")

\* Whatever the split, what Xray's own resolver asks by address leaves through the
\* proxy the traffic uses.  What it asks by host name is, to the routing, traffic to
\* that name, and goes direct only where the split sends that name direct: its zone
\* is listed so, or it is not listed and a list is selective.  A kept routing rule
\* of the provider may decide both.
ResolverStaysInside ==
    Connected =>
        \A p \in Lookups(location) :
            \/ Decides(request.config, p).to = request.target
            \/ FromProvider(p)
            \/ p.ip = None /\ ~Wanted(request.split, p)

\* What the window lets through and the daemon does not: a protocol written with
\* capitals, a "...Path" key, more proxies or balancers than the daemon takes, and
\* balancers that share a tag or have an empty one.
DaemonIsStricter(loc) ==
    \/ \E ob \in Outbounds(loc) : /\ Lower(ob.proto) \in ProxyProtocols
                                  /\ ob.names = "path" \/ ob.proto # Lower(ob.proto)
    \/ /\ loc.rawProfile # None
       /\ \/ Len(ProviderProxies(loc.rawProfile)) > MaxServerIps
          \/ Len(loc.rawProfile.balancers) > MaxServerIps
          \/ Duplicates(loc.rawProfile.balancers)
          \/ "" \in BalancerTags(loc.rawProfile.balancers)

\* A location validate_server accepts is built and then accepted by the daemon,
\* so the user is told at once or connects (xray.rs:692-694, 1023).  A single
\* outbound that names a local file is accepted and then not built.  And what is
\* accepted is not reinterpreted: a transport the builder does not know would be
\* dialled as plain TCP.
AcceptedIsConnectable ==
    /\ stage = "panicked" =>
          location.rawProfile = None /\ location.rawOutbound.names = "file"
    /\ stage \in {"rejected", "unmeasurable"} => DaemonIsStricter(location)
    /\ Connected /\ Outbounds(location) = {} /\ request.config.outbounds[1].network = "tcp" =>
          location.transport \in {"", "raw", "tcp"}

\* A balancer that may leave the proxies: by its fallback, or by a selector that
\* also matches one of the client's own outbounds.
LeavesProxies(loc) ==
    /\ loc.rawProfile # None
    /\ \E b \in ToSet(loc.rawProfile.balancers) :
          b.fallback \in SystemTags \/ b.selects \cap SystemTags # {}

\* Several balancers and no rule that names a target: which one is used differs
\* from call to call (xray.rs:600-604).
AnyBalancer(loc) == loc.rawProfile # None /\ \E t, u \in Targets(loc.rawProfile) : t # u

\* xray.rs:1777-1782: the location is connected after its effective route
\* answered, that is, through one of its proxies, and through one that the running
\* configuration sends the proxied traffic to; a ping measures one of them too.
ProbeFollowsRoute ==
    /\ Connected /\ ~LeavesProxies(location) =>
          measured \in Tags(request.config.outbounds) \ SystemTags
    /\ Connected /\ ~LeavesProxies(location) /\ ~AnyBalancer(location) =>
          \E up \in SUBSET Tags(request.config.outbounds) :
              measured \in Carriers(request.config, request.target, up)
    /\ stage = "pinged" => measured \notin SystemTags

\* subscription.rs:580-582: "Linux must pin all of them outside the TUN".  What a
\* proxy dials carries the mark that bypasses the TUN, or every address its endpoint
\* had when the request was made is pinned.  (Xray looks the name of an unmarked
\* endpoint up again: an answer that has changed since is not pinned.)  A WireGuard
\* outbound carries no mark and is pinned by its first peer only, and not at all if
\* parse_outbound does not understand it.
NotPinned(ob, i) ==
    /\ ob.proto = "wireguard"
    /\ i > 1 \/ \E raw \in Outbounds(location) : raw.peers = ob.peers /\ ~Parses(raw)

Pinned(host) == \E answer \in Answers(host) \ {{}} : answer \subseteq request.serverIps

EveryDialEscapesTun ==
    Connected =>
        \A ob \in ToSet(request.config.outbounds) :
            \A i \in DOMAIN ob.peers :
                ob.marked \/ Pinned(ob.peers[i]) \/ NotPinned(ob, i)
=============================================================================
