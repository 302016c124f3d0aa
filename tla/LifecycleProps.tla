-------------------------- MODULE LifecycleProps --------------------------
(* What must hold of Lifecycle, and the promise it implements.              *)
EXTENDS Lifecycle

ControlTypeOK ==
    /\ up \in BOOLEAN /\ pc \in Steps /\ req \in Requests
    /\ was_connected \in BOOLEAN /\ stopFor \in StopReasons /\ failed \in BOOLEAN
    /\ result \in {"ok", "error"}

StateTypeOK ==
    /\ phase \in Phases /\ split_active \in BOOLEAN /\ dns_protected \in BOOLEAN
    /\ block_on_failure \in BOOLEAN /\ armed \in BOOLEAN

BackendTypeOK ==
    /\ xray \in Procs \cup {None} /\ xray_identity \in Procs \cup {None}
    /\ mode \in Modes \cup {"none"} /\ dns_active \in BOOLEAN
    /\ split \in BOOLEAN /\ split_apps \in SUBSET Apps

HostTypeOK ==
    /\ proc \in [Procs -> Modes \cup {"gone"}]
    /\ hold \in BOOLEAN /\ routes \in BOOLEAN /\ dns \in BOOLEAN
    /\ split_table \in BOOLEAN /\ split_rule \in BOOLEAN /\ watching \in BOOLEAN
    /\ file \in [phase : Phases, xray : Procs \cup {None}]

\* The values every variable of the daemon, of the host and of the history takes.
TypeOK == ControlTypeOK /\ StateTypeOK /\ BackendTypeOK /\ HostTypeOK

-----------------------------------------------------------------------------
(* The kill switch and the handover.                                        *)

\* Between the verification of the hold block and the end of the attempt the
\* old data plane is taken down and the new one built.
Swapping ==
    /\ up /\ guarded
    /\ \/ pc \in {"start", "ready", "route_up", "split_up", "dns_up", "check"}
       \/ /\ pc \in {"stop_split", "stop_dns", "stop_route", "stop_xray"}
          /\ stopFor \in {"reconnect", "rollback"}

\* Where an unmarked packet of an ordinary application goes.  The routes lead
\* nowhere without varmlen0, and the hold block lets varmlen0 pass.
TrafficPath ==
    IF routes /\ \E p \in Procs : Tunnelled(p) THEN "tunnel"
    ELSE IF hold THEN "blocked" ELSE "direct"

\* A kill switch that is on keeps its nftables table in place, through failed
\* reconnects, the death of Xray and the death of the daemon (lifecycle.rs
\* connect and reconcile_health).
KillSwitchHolds == armed => hold

\* The daemon never says Blocking without a block (lifecycle.rs connect,
\* reconcile_health).
BlockingIsBlocked == phase = "Blocking" => hold

\* A tunnel is only ever replaced behind the hold block, user's kill switch or
\* not: no moment of stop, start, roll back or verify runs without it
\* (lifecycle.rs connect, the order of install, verify, stop and start).
HandoverIsGuarded == Swapping => hold

\* Connected means that a child is held and, for a tunnel, that its routes and
\* its DNS table are in place, also after a reconnect that failed before it
\* touched the old tunnel (lifecycle.rs connect, was_connected).
ConnectedHasDataPlane ==
    up /\ pc = "idle" /\ phase = "Connected" =>
        /\ xray # None /\ mode # "none"
        /\ mode = "Tun" => routes /\ dns /\ dns_active
        /\ dns_protected => mode = "Tun"

\* The promise of KillSwitch, kept by every step of the machinery.
Promise == INSTANCE KillSwitch WITH
    path <- TrafficPath, wish <- armed, swapping <- Swapping, running <- up

KeepsPromise == Promise!Spec

-----------------------------------------------------------------------------
(* What is left behind.                                                     *)

\* Whatever the daemon has put on the host it still knows how to remove: the
\* flags stop_data_plane looks at cover the DNS table, the routes, the split and
\* every live Xray, at every step (system.rs, "Arm lifecycle cleanup before
\* installation").
HostStateIsOwned ==
    up => /\ dns => dns_active
          /\ routes => mode = "Tun"
          /\ split_table => split
          /\ split_rule => split \/ mode = "Tun"
          /\ \A p \in Procs : Alive(p) => p = xray

TornDown ==
    /\ ~routes /\ ~dns /\ ~split_table /\ ~split_rule
    /\ \A p \in Procs : ~Alive(p)

\* When the daemon says Disconnected nothing of a data plane is left.
DisconnectedIsTornDown == up /\ pc = "idle" /\ phase = "Disconnected" => TornDown

\* When the daemon says that an exception list is in force, its rules are laid
\* and its watcher runs, also after edits and reconnects that kept the split.
SplitIsInForce ==
    up /\ pc = "idle" /\ split_active =>
        split /\ watching /\ (mode = "Tun" => split_table /\ split_rule)

\* A daemon killed between two commands leaves nothing that its successor does
\* not find: the state file names the only Xray there is (controller.rs persist).
RestTracesXray ==
    up /\ pc = "idle" => \A p \in Procs : Alive(p) => file.xray = p

\* Whatever the state it was killed in, a successor that reports Disconnected
\* has left nothing running (main.rs, recovery.rs cleanup).
RestartLeavesNothing ==
    [][~up /\ up' /\ phase' = "Disconnected" => TornDown' /\ ~hold']_vars

\* A disconnect that is answered with success has emptied the host.
DisconnectOkMeansEmpty ==
    [][At("release_all") /\ result' = "ok" => TornDown' /\ ~hold']_vars

\* A kill switch that was on when the daemon died is still on after recovery.
KillSwitchSurvivesRestart == [][armed /\ ~up /\ up' => hold']_vars

-----------------------------------------------------------------------------
(* Liveness.                                                                *)

\* A command that has begun is carried on: every backend call returns (the
\* helper, nft and ip are short programs, waits on Xray are bounded).  The
\* monitor wakes every second and the manager's mutex is fair, so it gets its
\* turn however many commands queue.
FairSpec == Spec /\ WF_vars(CommandSteps) /\ SF_vars(DetectDeadXray)

ChildIsDead == xray # None /\ ~Alive(xray)

\* The death of Xray does not stay unnoticed under Connected (main.rs monitor,
\* lifecycle.rs reconcile_health).
DeadTunnelIsNoticed ==
    (up /\ phase = "Connected" /\ ChildIsDead)
        ~> (~up \/ phase # "Connected" \/ ~ChildIsDead)
=============================================================================
