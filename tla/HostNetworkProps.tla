--------------------------- MODULE HostNetworkProps ---------------------------
(* What must hold of HostNetwork.                                            *)
EXTENDS HostNetwork

\* The values of the variables.
TypeOK ==
    /\ host \in [laid : SUBSET Items, tun : {"none", "xray", "kept"}, xray : BOOLEAN, rp : {"orig", "loose"},
                 rpFile : {"none", "orig", "loose"}, pinned : SUBSET (Pins4 \cup Pins6), own : SUBSET Makings, left : BOOLEAN]
    /\ phase \in Phases /\ after \in Phases /\ was \in BOOLEAN
    /\ asked \in [ks : BOOLEAN, lan : BOOLEAN, split : Nat] /\ req \in [ks : BOOLEAN, lan : BOOLEAN, split : Nat]
    /\ saved \in BOOLEAN /\ crashes \in 0..MaxCrashes /\ refusals \in 0..MaxRefusals

\* The daemon that laid the host is there.
Attended == phase \notin {"dead", "recovering", "stuck"}

\* The packets in question: dials of Xray to its server, what is for the local network, and
\* an ordinary application's for the Internet and for a resolver.
Dials == {p \in Packets : p.from \in {"dial", "unmarked_dial"} /\ p.to = "server" /\ p.port = "other"}
ToLan == {p \in Packets : p.to = "lan"}
Ordinary == {p \in Packets : p.from = "app" /\ p.to = "public"}
Lookups == {p \in Packets : p.from = "app" /\ p.port \in {"dns", "dot"}}

\* What Xray sends to its server, marked or not, never enters the tunnel that Xray
\* itself reads: not while the routes are laid, not while they are rolled back or
\* taken down (main.rs:1279, "anti-loop FIRST", and the two dial rules).
DialsEscapeTun == Attended => \A p \in Dials : Routed(host.laid, p) # "tun"

\* What is marked for the bypass leaves beside the tunnel at every step of connect,
\* reconnect, edit and disconnect: when route-down has taken the rule of the split with
\* its own, the helper's new one stands in until the split is refreshed (routing.rs:98,
\* main.rs:1255).
BypassStaysOut ==
    Attended => \A p \in Packets : MarkOf(host.laid, p) = "bypass" => Routed(host.laid, p) # "tun"

\* A rule towards a physical table is in force only while the table throws the local
\* networks back: no dial or bypassed packet for the LAN is sent to the gateway
\* (main.rs:1238, routing.rs LOCAL_THROWS).
LanIsNotSentToGateway == \A p \in ToLan : Routed(host.laid, p) # "gateway"

\* While connected every packet of an ordinary application for the Internet enters the
\* tunnel or, in IPv6, is dropped, and no DNS of it leaves beside the tunnel, whether or
\* not Xray is alive.
ConnectedCarriesAll ==
    phase = "up" =>
        /\ host.xray => \A p \in Ordinary : Path(p) = (IF p.v = 4 THEN "tun" ELSE "drop")
        /\ \A p \in Lookups : Path(p) # "phys"

\* With the kill switch in force, and during every reconnect, no packet of an ordinary
\* application for the Internet leaves beside the tunnel: not when Xray dies, not while
\* the old routes are taken down and the new ones laid, not after a failed reconnect
\* (lifecycle.rs reconnect_verifies_block_before_stopping_old_data_plane,
\* unexpected_xray_exit_keeps_user_killswitch_blocking).
OldTunnelGone == \E k \in DOMAIN calls : calls[k] = "start"
Guarded ==
    \/ phase = "blocked" \/ (phase = "stopping" /\ after = "blocked")
    \/ phase \in {"up", "editing"} /\ req.ks
    \/ phase = "working" /\ was /\ (host.xray \/ "nft.ks" \in host.laid \/ (req.ks /\ OldTunnelGone))
NothingFlashesPast ==
    Guarded => \A p \in Ordinary : Path(p) # "phys"

\* Disconnected means an untouched host: after a disconnect, a failed connect that was
\* rolled back or a recovery that found nothing left, every packet takes the way it
\* takes on a host the program never ran on, and, unless the daemon was killed,
\* rp_filter has its value back (main.rs:1162, recovery.rs CleanupReport::phase).  Where
\* the last recovery has left something behind nothing is promised.
DownIsUntouched ==
    phase = "down" /\ ~host.left =>
        /\ \A p \in Packets : Path(p) = CleanPath(p)
        /\ crashes = 0 => host.rp = "orig"

\* Laying and removing the split's routing on a live tunnel changes the way of no packet
\* that is not bypassed, Xray's own direct dials among them (routing.rs:98-106).
SplitOwnsItsTable ==
    [][phase = "editing" /\ host.tun = host'.tun =>
          \A p \in Packets : p.from # "bypassed" => Path(p)' = Path(p)]_vars
==============================================================================
