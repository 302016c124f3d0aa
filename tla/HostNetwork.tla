----------------------------- MODULE HostNetwork -----------------------------
(***************************************************************************)
(* The routes, policy rules and nft tables of the host, one `ip` or `nft`  *)
(* command at a time.  A request makes the daemon issue calls (the hold    *)
(* block, Xray, route-up, the routing of the split, the DNS guard); a call *)
(* is the sequence of commands its code runs; a command that must succeed  *)
(* and does not ends the call and starts its rollback.  The daemon and the *)
(* helper may be killed between any two commands; the next daemon inspects *)
(* the host and removes what it finds.  Path(h, p) is the way a packet     *)
(* takes through what is laid at that moment.                              *)
(***************************************************************************)
EXTENDS Naturals, SequencesExt

CONSTANTS
    Servers4, Servers6, \* addresses of the selected location, by family
    HostHasV6,          \* the host has a physical IPv6 default route
    Requests,           \* connect requests; split 0 excludes no application
    Faults,             \* which commands may fail: "setup", "verify", "recovery"
    MaxCrashes,         \* bound: how often the daemon is killed
    MaxRefusals         \* bound: how many removals of a recovery fail

ASSUME HostAssumption ==
    /\ Servers4 \cup Servers6 \subseteq STRING /\ Servers4 \cap Servers6 = {}
    /\ HostHasV6 \in BOOLEAN
    /\ Requests \subseteq [ks : BOOLEAN, lan : BOOLEAN, split : Nat]
    /\ Faults \subseteq {"setup", "verify", "recovery"}
    /\ MaxCrashes \in Nat /\ MaxRefusals \in Nat

VARIABLES
    host,     \* what the commands have done to the host
    phase,    \* what the daemon is doing, or the phase it reported last
    was,      \* the tunnel was up when the command began
    after,    \* the phase a stop ends in
    asked,    \* the request being worked on
    req,      \* the request in force
    calls,    \* calls the daemon has still to make
    cmds,     \* commands the current call has still to run
    saved,    \* the state file names the running Xray
    crashes,  \* how often the daemon was killed
    refusals  \* removals that failed in recoveries

request == <<was, after, asked, req>>
vars == <<host, phase, request, calls, cmds, saved, crashes, refusals>>

\* "refused" is Disconnected too, reported of a connect that was refused while Blocking or
\* while recovery was required ("stuck").
Phases == {"down", "refused", "working", "editing", "stopping", "up", "blocked",
           "dead", "recovering", "stuck"}

-----------------------------------------------------------------------------
(* What can be laid.                                                       *)

\* A pin is the host route of a server's address.
Pins4 == Servers4
Pins6 == Servers6
ThroughTun == {"low", "high", "dns.route"}     \* removed by the kernel with the device
Blackholes == {"black.low", "black.high"}
Rules4 == {"rule4.dial", "rule4.bypass"}
Rules6 == {"rule6.dial", "rule6.bypass"}
Table100 == {"phys.default", "phys.throw", "phys6.default", "phys6.throw"}
Table102 == {"split.default", "split.throw"}
NftTables == {"nft.dns", "nft.ks", "nft.split"}
Fixed == ThroughTun \cup Blackholes \cup Rules4 \cup Rules6 \cup Table100 \cup Table102
           \cup NftTables \cup {"dns.rule", "split.rule", "split.bpf", "ks.lan"}
Items == Fixed \cup Pins4 \cup Pins6

ASSUME PinsAssumption == IsFiniteSet(Pins4 \cup Pins6) /\ (Pins4 \cup Pins6) \cap Fixed = {}

\* laid: the items; tun: varmlen0 is made by Xray or kept (ip tuntap); xray: it runs;
\* rp, rpFile: all.rp_filter and the value kept of it; pinned: the recorded pins;
\* own: what the daemon knows it has made (its mode, its Xray, dns_active, its split and
\* the split's routing_active); left: the last recovery has left something behind.
CleanHost == [laid |-> {}, tun |-> "none", xray |-> FALSE, rp |-> "orig", rpFile |-> "none", pinned |-> {},
              own |-> {}, left |-> FALSE]
Makings == {"mode", "xray", "nft.dns", "split.bpf", "routing"}

\* After such a recovery the daemon does not touch what it has not made itself; otherwise
\* what it has not made is not there, and removing it changes nothing.
Stranger(i) == host.left /\ i \notin host.own

\* A command: what it does, to what, and whether its failure ends the call.
Lay(i) == [do |-> "lay", what |-> i, must |-> TRUE]
Drop(i) == [do |-> "drop", what |-> i, must |-> FALSE]
Run(name) == [do |-> name, what |-> "", must |-> FALSE]
Must(name) == [do |-> name, what |-> "", must |-> TRUE]
LayAll(S) == [k \in DOMAIN SetToSeq(S) |-> Lay(SetToSeq(S)[k])]

InstallDnsPolicyRoute == <<Lay("dns.route"), Drop("dns.rule"), Lay("dns.rule")>>
AddRuleFwmark(i) == <<Drop(i), Lay(i)>>
V6Physical ==
    IF ~HostHasV6 THEN <<>>
    ELSE <<Lay("phys6.default"), Lay("phys6.throw")>> \o AddRuleFwmark("rule6.dial") \o AddRuleFwmark("rule6.bypass")
DialsAlone == <<Lay("phys.default"), Lay("phys.throw")>> \o AddRuleFwmark("rule4.dial") \o V6Physical
DialsEscape ==
    <<Lay("phys.default"), Lay("phys.throw")>> \o AddRuleFwmark("rule4.dial") \o AddRuleFwmark("rule4.bypass")
      \o V6Physical
ServerPins == LayAll(Pins4) \o <<Run("record4")>>
TunDefault == <<Lay("low"), Lay("high")>>
V6LeftOpen == (IF HostHasV6 THEN LayAll(Pins6) ELSE <<>>) \o <<Run("record6")>>
V6FailsClosed ==
    (IF HostHasV6 THEN LayAll(Pins6) ELSE <<>>) \o <<Run("record6"), Lay("black.low"), Lay("black.high")>>
RouteUpPinsLast ==
    <<Run("tuntap"), Must("link_up")>> \o InstallDnsPolicyRoute \o <<Must("loosen")>>
      \o DialsEscape \o TunDefault \o ServerPins \o V6FailsClosed
RouteUp ==
    <<Run("tuntap"), Must("link_up")>> \o InstallDnsPolicyRoute \o <<Must("loosen")>>
      \o DialsEscape \o ServerPins \o TunDefault \o V6FailsClosed

RemovePolicyRules ==
    <<Drop("rule4.dial"), Drop("rule6.dial"), Run("drop_bypass_rules"), Drop("rule6.bypass")>>
RouteDownHalfOpen ==
    <<Drop("low"), Drop("high"), Drop("dns.rule"), Drop("dns.route"), Drop("black.low"), Run("unpin6")>>
      \o RemovePolicyRules \o <<Run("flush100"), Run("unpin4"), Run("restore")>>
RouteDown ==
    <<Drop("low"), Drop("high"), Drop("dns.rule"), Drop("dns.route"), Drop("black.low"), Drop("black.high"),
      Run("unpin6")>> \o RemovePolicyRules \o <<Run("flush100"), Run("unpin4"), Run("restore")>>

SharedTeardown == <<Drop("split.rule"), Run("flush100")>>
SplitTeardown == <<Drop("split.rule"), Run("flush102")>>
SplitRuleFirst == <<Lay("split.default"), Lay("split.rule"), Lay("split.throw")>>
SplitSetup == <<Lay("split.default"), Lay("split.throw"), Lay("split.rule")>>
InstallRouting == SplitTeardown \o SplitSetup \o <<Lay("nft.split")>>
RemoveRouting == SplitTeardown \o <<Drop("nft.split")>>
HelperCleanup == <<Drop("nft.ks")>> \o RouteDown \o <<Run("delete_tun")>>

-----------------------------------------------------------------------------
(* The calls of the daemon.                                                *)

Commands(call, r) ==
    CASE call = "killswitch-up" -> <<[do |-> "block", what |-> IF r.lan THEN "ks.lan" ELSE "", must |-> TRUE], Must("verify")>>
      [] call = "killswitch-down" -> <<Drop("nft.ks")>>
      [] call = "start" -> <<Must("start")>>
      [] call = "terminate" -> IF Stranger("xray") THEN <<>> ELSE <<Run("kill")>>
      [] call = "route-up" -> RouteUp
      [] call = "route-down" -> IF Stranger("mode") THEN <<>> ELSE RouteDown
      [] call = "split-up" -> <<Lay("split.bpf")>> \o InstallRouting \o <<Run("routed")>>
      [] call = "split-refresh" -> InstallRouting
      [] call = "split-down" -> (IF "routing" \in host.own THEN RemoveRouting ELSE <<>>) \o <<Drop("split.bpf"), Run("unrouted")>>
      [] call = "dns-up" -> <<Lay("nft.dns"), Must("probe")>>
      [] call = "dns-down" -> IF Stranger("nft.dns") THEN <<>> ELSE <<Drop("nft.dns")>>

Only(call, b) == IF b THEN <<call>> ELSE <<>>
HasSplit == "split.bpf" \in host.laid /\ ~Stranger("split.bpf")
StopCalls(keepSplit) ==
    Only("split-down", HasSplit /\ ~keepSplit) \o <<"dns-down", "route-down", "terminate">>
SplitCalls(r) ==
    Only("split-down", HasSplit /\ r.split # req.split)
      \o Only("split-up", r.split # 0 /\ ~(HasSplit /\ r.split = req.split))
      \o Only("split-refresh", HasSplit /\ r.split = req.split)
BlockAfterStop(r) ==
    (IF phase = "up" THEN StopCalls(TRUE) ELSE <<>>) \o <<"killswitch-up">>
      \o <<"start", "route-up">> \o SplitCalls(r) \o <<"dns-up">> \o Only("killswitch-down", ~r.ks)
ConnectCalls(r) ==
    <<"killswitch-up">> \o (IF phase = "up" THEN StopCalls(TRUE) ELSE <<>>)
      \o <<"start", "route-up">> \o SplitCalls(r) \o <<"dns-up">> \o Only("killswitch-down", ~r.ks)

-----------------------------------------------------------------------------
(* The way of a packet.                                                    *)

\* A socket that was opened in the bypass keeps its mark ("marked_socket").
Packets == [from : {"app", "bypassed", "marked_socket", "dial", "unmarked_dial"}, v : {4, 6},
            to : {"server", "lan", "public", "resolver"}, port : {"dns", "dot", "other"}]

\* The DNS table marks what is neither a dial of Xray's nor bypassed.
MarkOf(L, p) ==
    IF p.from = "dial" THEN "dial"
    ELSE IF p.from = "marked_socket" \/ (p.from = "bypassed" /\ L \cap {"nft.split", "split.bpf"} # {}) THEN "bypass"
    ELSE IF "nft.dns" \in L /\ p.port = "dns" THEN "dns" ELSE "none"

\* The servers lie in the upper half of the addresses, the rest in the lower.
Half(p, low, high) == IF p.to = "server" THEN high ELSE low
MainTable4(L, p) ==
    IF p.to = "lan" \/ (p.to = "server" /\ Pins4 \subseteq L) \/ Half(p, "low", "high") \notin L
    THEN "phys" ELSE "tun"
MainTable6(L, p) ==
    IF ~HostHasV6 /\ p.to # "lan" THEN "drop"
    ELSE IF p.to = "lan" \/ (p.to = "server" /\ Pins6 \subseteq L) \/ Half(p, "black.low", "black.high") \notin L
    THEN "phys" ELSE "drop"
MainTable(L, p) == IF p.v = 4 THEN MainTable4(L, p) ELSE MainTable6(L, p)

\* A rule with its table: throw sends local networks back, a default sends them to the gateway.
Table(L, p, rule, default, throw) ==
    IF {rule, default} \ L # {} \/ (p.to = "lan" /\ throw \in L) THEN "none"
    ELSE IF p.to = "lan" THEN "gateway" ELSE "phys"
OrElse(way, next) == IF way # "none" THEN way ELSE next

\* The rules for the packet's mark by priority, and then the main table.
Routed(L, p) ==
    LET mark == MarkOf(L, p)
        main == MainTable(L, p)
    IN  CASE mark = "dns" /\ p.v = 4 -> IF {"dns.rule", "dns.route"} \subseteq L THEN "tun" ELSE main
          [] mark = "bypass" /\ p.v = 4 ->
               OrElse(Table(L, p, "split.rule", "split.default", "split.throw"),
                      OrElse(Table(L, p, "rule4.bypass", "phys.default", "phys.throw"), main))
          [] mark = "dial" /\ p.v = 4 -> OrElse(Table(L, p, "rule4.dial", "phys.default", "phys.throw"), main)
          [] mark = "bypass" /\ p.v = 6 -> OrElse(Table(L, p, "rule6.bypass", "phys6.default", "phys6.throw"), main)
          [] mark = "dial" /\ p.v = 6 -> OrElse(Table(L, p, "rule6.dial", "phys6.default", "phys6.throw"), main)
          [] OTHER -> main

\* varmlen_dns, chain guard_output.
GuardAccepts(L, p, out) ==
    \/ p.port = "other" \/ MarkOf(L, p) = "bypass"
    \/ out = "tun" /\ (p.port = "dot" \/ MarkOf(L, p) = "dns")

\* varmlen_ks, chain out.
KillSwitchAccepts(L, p, out) ==
    \/ out = "tun" \/ MarkOf(L, p) # "none"
    \/ p.to = "resolver" /\ p.v = 4 /\ p.port # "dot"
    \/ p.to = "server"
    \/ "ks.lan" \in L /\ p.to = "lan" /\ p.port # "dns"

PathIn(L, p) ==
    LET out == Routed(L, p) IN
    IF \/ "nft.dns" \in L /\ ~GuardAccepts(L, p, out)
       \/ "nft.ks" \in L /\ ~KillSwitchAccepts(L, p, out)
    THEN "drop" ELSE out

Path(p) == PathIn(host.laid, p)
CleanPath(p) == PathIn({}, p)

-----------------------------------------------------------------------------
(* What a command does.                                                    *)

WithoutDevice(h) == [h EXCEPT !.tun = "none", !.laid = @ \ ThroughTun]
WithoutXray(h) == [(IF h.tun = "xray" THEN WithoutDevice(h) ELSE h) EXCEPT !.xray = FALSE]
Without(h, S) == [h EXCEPT !.laid = @ \ S]

\* The device of a running Xray takes no second one: that one exits.
Start(h) ==
    IF h.xray /\ h.tun # "none" THEN [h EXCEPT !.own = @ \cup {"mode"}]
    ELSE [h EXCEPT !.xray = TRUE, !.tun = IF @ = "none" THEN "xray" ELSE @, !.own = @ \cup {"mode", "xray"}]

\* What all.rp_filter was is kept for the restore.
LoosenUnread(h) == [h EXCEPT !.rpFile = "", !.rp = "loose"]
Loosen(h) == [h EXCEPT !.rpFile = h.rp, !.rp = "loose"]
Restore(h) == [h EXCEPT !.rp = IF h.rpFile = "none" THEN @ ELSE h.rpFile, !.rpFile = "none"]
\* The table is replaced as a whole.
Block(h, lan) == [h EXCEPT !.laid = (@ \ {"ks.lan"}) \cup {"nft.ks"} \cup ({lan} \ {""})]
Unpin(h, pins) == [Without(h, h.pinned \cap pins) EXCEPT !.pinned = @ \ pins]

After(c, h) ==
    CASE c.do = "lay" -> [h EXCEPT !.laid = @ \cup {c.what}, !.own = @ \cup (Makings \cap {c.what})]
      [] c.do = "block" -> Block(h, c.what)
      [] c.do = "drop" -> Without(h, {c.what} \cup (IF c.what = "nft.ks" THEN {"ks.lan"} ELSE {}))
      [] c.do = "tuntap" -> [h EXCEPT !.tun = IF @ = "none" THEN "kept" ELSE @]
      [] c.do \in {"link_up", "probe", "verify"} -> h
      [] c.do = "loosen" -> Loosen(h)
      [] c.do = "restore" -> Restore(h)
      [] c.do = "record4" -> [h EXCEPT !.pinned = @ \cup Pins4]
      [] c.do = "record6" -> [h EXCEPT !.pinned = @ \cup (IF HostHasV6 THEN Pins6 ELSE {})]
      [] c.do = "unpin4" -> Unpin(h, Pins4)
      [] c.do = "unpin6" -> Unpin(h, Pins6)
      [] c.do = "drop_bypass_rules" -> Without(h, {"rule4.bypass", "split.rule"})  \* all on 0x2025
      [] c.do = "routed" -> [h EXCEPT !.own = @ \cup {"routing"}]
      [] c.do = "unrouted" -> [h EXCEPT !.own = @ \ {"split.bpf", "routing"}]
      [] c.do = "flush100" -> Without(h, Table100)
      [] c.do = "flush102" -> Without(h, Table102)
      [] c.do = "delete_tun" -> WithoutDevice(h)
      [] c.do = "start" -> Start(h)
      [] c.do = "kill" -> [WithoutXray(h) EXCEPT !.own = @ \ {"mode", "xray"}]

\* What needs the device fails without it.
Possible(c) == c.what \in ThroughTun \/ c.do = "link_up" => host.tun # "none" \/ c.do = "drop"

-----------------------------------------------------------------------------
NoRequest == [ks |-> FALSE, lan |-> FALSE, split |-> 0]
Init ==
    /\ host = CleanHost
    /\ phase = "down" /\ was = FALSE /\ after = "down" /\ asked = NoRequest /\ req = NoRequest
    /\ calls = <<>> /\ cmds = <<>> /\ saved = FALSE /\ crashes = 0 /\ refusals = 0

Idle == calls = <<>> /\ cmds = <<>>

Resting == {"down", "refused", "up", "blocked", "stuck"}

\* connect: the block first, then the old data plane, then the new one.
Connect(r) ==
    /\ phase \in Resting
    /\ phase' = "working" /\ was' = (phase = "up") /\ asked' = r /\ calls' = ConnectCalls(r)
    /\ after' = IF phase \in {"blocked", "refused", "stuck"} THEN "refused" ELSE phase
    /\ UNCHANGED <<host, req, cmds, saved, crashes, refusals>>

\* update_split of a live connection; a running split only changes what it watches.
EditSplit(n) ==
    /\ phase = "up" /\ n # req.split
    /\ phase' = "editing" /\ asked' = [req EXCEPT !.split = n]
    /\ calls' = Only("split-down", n = 0 /\ HasSplit) \o Only("split-up", n # 0 /\ ~HasSplit)
    /\ UNCHANGED <<host, was, after, req, cmds, saved, crashes, refusals>>

Stop(end) ==
    /\ phase' = "stopping" /\ after' = end
    /\ calls' = (IF phase = "up" THEN StopCalls(FALSE) ELSE <<>>) \o Only("killswitch-down", end = "down")
    /\ UNCHANGED <<host, was, asked, req, cmds, saved, crashes, refusals>>

Disconnect == phase \in Resting /\ Stop("down")

\* The monitor finds Xray gone.
ReconcileHealth ==
    /\ phase = "up" /\ (~host.xray \/ Stranger("xray"))
    /\ phase' = "stopping" /\ after' = (IF req.ks THEN "blocked" ELSE "down")
    /\ calls' = StopCalls(FALSE)
    /\ UNCHANGED <<host, was, asked, req, cmds, saved, crashes, refusals>>

AtWork == phase \in {"working", "editing", "stopping"}

NextCall ==
    /\ AtWork /\ calls # <<>> /\ cmds = <<>>
    /\ cmds' = Commands(Head(calls), asked) /\ calls' = Tail(calls)
    /\ UNCHANGED <<host, phase, request, saved, crashes, refusals>>

\* The command is answered and the state file written.
EndCommand ==
    /\ AtWork /\ Idle
    /\ phase' = IF phase = "stopping" THEN after ELSE "up"
    /\ req' = (IF phase # "stopping" THEN asked ELSE IF after = "down" THEN NoRequest ELSE req)
    /\ asked' = req' /\ was' = FALSE /\ after' = "down"
    /\ saved' = (host.xray /\ ~Stranger("xray"))
    /\ UNCHANGED <<host, calls, cmds, crashes, refusals>>

Step ==
    /\ cmds # <<>> /\ Possible(Head(cmds))
    /\ host' = After(Head(cmds), host) /\ cmds' = Tail(cmds)
    /\ UNCHANGED <<phase, request, calls, saved, crashes, refusals>>

\* A command that must succeed does not.
Fails ==
    /\ cmds # <<>> /\ Head(cmds).must
    /\ (IF Head(cmds).do = "verify" THEN "verify" ELSE "setup") \in Faults \/ ~Possible(Head(cmds))

\* The hold block is not laid, or not as it should be: the connection is as before.
BlockFails ==
    /\ phase = "working" /\ Fails /\ Head(cmds).do \in {"block", "verify"}
    /\ phase' = "stopping" /\ calls' = <<>>
    /\ cmds' = IF Head(cmds).do = "verify" THEN <<Drop("nft.ks")>> ELSE <<>>
    /\ UNCHANGED <<host, was, after, asked, req, saved, crashes, refusals>>

\* route-up and the DNS guard undo themselves, and the data plane is stopped.
DataPlaneFails ==
    /\ phase = "working" /\ Fails /\ Head(cmds).do \notin {"block", "verify"}
    /\ cmds' = IF Last(cmds) = Last(RouteUp) THEN RouteDown
               ELSE IF Head(cmds).do = "probe" THEN <<Drop("nft.dns")>> ELSE <<>>
    /\ phase' = "stopping" /\ after' = (IF was \/ asked.ks THEN "blocked" ELSE "down")
    /\ calls' = StopCalls(FALSE) \o Only("killswitch-down", ~was /\ ~asked.ks)
    /\ UNCHANGED <<host, was, asked, req, saved, crashes, refusals>>

\* The new split is rolled back and the connection goes on without one.
EditFails ==
    /\ phase = "editing" /\ Fails
    /\ cmds' = <<>> /\ calls' = Only("split-down", HasSplit) /\ asked' = [asked EXCEPT !.split = 0]
    /\ UNCHANGED <<host, phase, was, after, req, saved, crashes, refusals>>

XrayDies ==
    /\ host.xray /\ phase \in {"working", "editing", "up"}
    /\ host' = WithoutXray(host)
    /\ UNCHANGED <<phase, request, calls, cmds, saved, crashes, refusals>>

-----------------------------------------------------------------------------
(* The daemon and its helper are killed; the next daemon cleans up.        *)

Crash(xrayToo) ==
    /\ phase # "dead" /\ crashes < MaxCrashes
    /\ crashes' = crashes + 1 /\ phase' = "dead" /\ calls' = <<>> /\ cmds' = <<>>
    /\ host' = [(IF xrayToo THEN WithoutXray(host) ELSE host) EXCEPT !.own = {}]
    /\ was' = FALSE /\ after' = "down" /\ asked' = NoRequest /\ req' = NoRequest
    /\ UNCHANGED <<saved, refusals>>

\* RecoveryManager looks at `ip rule show` (IPv4), both main tables, the nft tables, the
\* device, the cgroup and the process the state file names.
Inspect(h) ==
    LET L == h.laid IN
    (IF h.xray /\ saved THEN {"process"} ELSE {}) \cup (IF h.tun # "none" THEN {"tun"} ELSE {})
      \cup (IF "dns.rule" \in L THEN {"table101"} ELSE {})
      \cup (IF "split.rule" \in L THEN {"table102"} ELSE {})
      \cup (IF L \cap (Rules4 \cup {"low", "high"} \cup Blackholes) # {} THEN {"table100"} ELSE {})
      \cup (L \cap (NftTables \cup {"split.bpf"}))

Removal(r) ==
    CASE r = "process" -> <<Run("kill")>>
      [] r = "tun" -> <<Run("delete_tun")>>
      [] r = "table100" -> HelperCleanup \o RemovePolicyRules \o <<Run("flush100")>>
      [] r = "table101" -> <<Drop("dns.rule"), Drop("dns.route")>>
      [] r = "table102" -> SplitTeardown
      [] OTHER -> <<Drop(r)>>

\* In the order of the resources (BTreeSet).
RemovalCommands(found) ==
    LET Found(r) == IF r \in found THEN Removal(r) ELSE <<>>
    IN  Found("process") \o Found("tun") \o Found("table100") \o Found("table101") \o Found("table102")
          \o Found("nft.dns") \o Found("nft.ks") \o Found("nft.split") \o Found("split.bpf")

\* The daemon that comes to stuck does not try again, the next one does.
Recover ==
    /\ phase \in {"dead", "stuck"}
    /\ phase' = "recovering" /\ cmds' = RemovalCommands(Inspect(host))
    /\ UNCHANGED <<host, request, calls, saved, crashes, refusals>>

\* A removal may fail; its result is not looked at.
RemovalFails ==
    /\ phase = "recovering" /\ "recovery" \in Faults /\ refusals < MaxRefusals
    /\ cmds # <<>> /\ Head(cmds).do \in {"drop", "delete_tun", "drop_bypass_rules", "kill"}
    /\ cmds' = Tail(cmds) /\ refusals' = refusals + 1
    /\ UNCHANGED <<host, phase, request, calls, saved, crashes>>

\* The state file is removed too: the second inspection knows no process.
EndRecovery ==
    /\ phase = "recovering" /\ cmds = <<>>
    /\ saved' = FALSE
    /\ phase' = IF Inspect(host) \ {"process"} = {} THEN "down" ELSE "stuck"
    /\ host' = [host EXCEPT !.left = (phase' = "stuck")]
    /\ UNCHANGED <<request, calls, cmds, crashes, refusals>>

Next ==
    \/ \E r \in Requests : Connect(r)
    \/ \E n \in {r.split : r \in Requests} : EditSplit(n)
    \/ Disconnect \/ ReconcileHealth \/ NextCall \/ EndCommand \/ Step
    \/ BlockFails \/ DataPlaneFails \/ EditFails \/ XrayDies
    \/ \E b \in BOOLEAN : Crash(b)
    \/ Recover \/ RemovalFails \/ EndRecovery

Spec == Init /\ [][Next]_vars
==============================================================================
