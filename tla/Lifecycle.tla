----------------------------- MODULE Lifecycle -----------------------------
(***************************************************************************)
(* The connection state machine of the root daemon: LifecycleManager        *)
(* (daemon/src/lifecycle.rs), the controller that runs one command at a     *)
(* time under a mutex and persists the outcome (controller.rs), the system  *)
(* backend whose calls change the host (system.rs) and the start-up         *)
(* recovery (main.rs, recovery.rs).                                         *)
(*                                                                         *)
(* A command is a sequence of backend calls.  Each call is one action, so   *)
(* that between two of them Xray may die and the daemon may be killed.      *)
(* What the host keeps when the daemon is gone (processes, nftables tables, *)
(* policy routes, the state file) is kept apart from the daemon's memory.   *)
(***************************************************************************)
EXTENDS Naturals, FiniteSets

CONSTANTS
    Procs,      \* identities (pid and start time) an Xray process may get
    Apps,       \* applications that can be put on the exception list
    Faults,     \* the failures the host may produce in this instance
    None        \* no process

FaultKinds ==
    {"validate",    \* binary, document, xray -test or egress probe is refused
     "install",     \* the helper cannot install the hold block
     "verify",      \* the hold block is lost or cannot be listed after install
     "release",     \* the helper cannot be run to remove the hold block
     "start",       \* xray cannot be spawned or never becomes ready
     "identity",    \* /proc does not yield the identity of the new process
     "route_up",    \* the helper fails to lay the routes
     "split_up",    \* per-app split cannot be applied or refreshed
     "split_lay",   \* laying the routing of a new split fails half-way
     "replan",      \* a live split cannot take the new list
     "dns_up",      \* the DNS table cannot be installed or does not verify
     "dns_guard",   \* the guard cannot remove the table it failed to verify
     "check",       \* the final verification of the connection fails
     "split_down",  \* rollback of the split fails
     "dns_down",    \* the DNS table cannot be deleted
     "route_down",  \* the helper cannot be run to take the routes down
     "silent",      \* the helper exits 0 and has not done what it was told
     "kill",        \* SIGKILL to xray is refused
     "persist",     \* the state file cannot be written
     "recover",     \* recovery cannot remove something it found
     "midcrash"}    \* the daemon is killed while a command runs

ASSUME FaultsAssumption == Faults \subseteq FaultKinds
ASSUME NoneAssumption == None \notin Procs

Modes == {"Tun", "Proxy"}

\* A connect request, as far as the lifecycle reads it.  validate_connect_request
\* refuses an exception list in proxy mode before the lifecycle sees it.
Requests ==
    {r \in [mode : Modes, killswitch : BOOLEAN, apps : SUBSET Apps] :
        r.mode = "Proxy" => r.apps = {}}

Phases == {"Disconnected", "Preparing", "Connected", "Blocking",
           "Reconnecting", "RecoveryRequired"}

Steps == {"idle", "validate", "install", "verify_hold", "unhold",
          "stop_split", "stop_dns", "stop_route", "stop_xray",
          "start", "ready", "route_up", "split_up", "dns_up", "check",
          "release", "give_up", "release_all", "persist"}

\* Why the data plane is being stopped: the code after stop_data_plane differs.
StopReasons == {"reconnect", "rollback", "disconnect", "health"}

VARIABLES
    \* ---- memory of the daemon, lost when it is killed
    up,             \* the daemon runs
    pc,             \* next call of the command that holds the manager's mutex
    req,            \* the connect request of that command
    was_connected,  \* local of connect()
    stopFor,        \* why stop_data_plane was called
    failed,         \* stop_data_plane's first_error is set
    result,         \* the answer the command gets: "ok" or "error"
    phase, split_active, dns_protected,    \* DaemonState
    block_on_failure,
    xray,           \* the child the backend holds
    xray_identity,  \* the identity it would persist
    mode,           \* mode of the running data plane
    dns_active,     \* the DNS table has to be removed on stop
    split,          \* the backend holds a SplitManager
    split_apps,     \* the list that manager was given
    \* ---- the host, which outlives the daemon
    proc,           \* state of every Xray process
    hold,           \* table varmlen_ks drops everything unmarked
    routes,         \* the tunnel's routes and policy rules are laid
    dns,            \* table varmlen_dns is present
    split_table,    \* table varmlen_split marks the sockets of excluded apps
    split_rule,     \* the policy rule that routes the split's mark is laid
    watching,       \* the split's permission watcher runs
    file,           \* the state file
    \* ---- history
    armed           \* the user's kill switch is on and was not given up

locals == <<req, was_connected, stopFor, failed>>
state == <<phase, split_active, dns_protected>>
memory == <<up, pc, locals, result, state, block_on_failure>>
backend == <<xray, xray_identity, mode, dns_active, split, split_apps>>
network == <<hold, routes, dns, split_table, split_rule, watching>>
vars == <<memory, backend, network, proc, file, armed>>

May(fault) == fault \in Faults

\* A process owns varmlen0 ("Tun"), runs without it ("Proxy"), or is gone.
Tunnelled(p) == proc[p] = "Tun"
Alive(p) == proc[p] # "gone"

\* An identity is unique for ever; one that nothing refers to any more stands
\* for a new one.
Fresh == {p \in Procs : ~Alive(p) /\ p \notin {xray, xray_identity, file.xray}}

guarded == req.mode = "Tun"

NoRequest == [mode |-> "Proxy", killswitch |-> FALSE, apps |-> {}]

-----------------------------------------------------------------------------
(* Initial state: first start on a clean host (main.rs).                    *)

Init ==
    /\ up = TRUE /\ pc = "idle" /\ req = NoRequest /\ was_connected = FALSE
    /\ stopFor = "disconnect" /\ failed = FALSE /\ result = "ok"
    /\ phase = "Disconnected" /\ split_active = FALSE /\ dns_protected = FALSE
    /\ block_on_failure = FALSE
    /\ xray = None /\ xray_identity = None /\ mode = "none"
    /\ dns_active = FALSE /\ split = FALSE /\ split_apps = {} /\ watching = FALSE
    /\ proc = [p \in Procs |-> "gone"]
    /\ hold = FALSE /\ routes = FALSE /\ dns = FALSE
    /\ split_table = FALSE /\ split_rule = FALSE
    /\ file = [phase |-> "Disconnected", xray |-> None]
    /\ armed = FALSE

-----------------------------------------------------------------------------
(* Control helpers.                                                         *)

At(step) == up /\ pc = step

\* The command is over and its locals are gone.
BecomeIdle ==
    /\ pc' = "idle" /\ req' = NoRequest /\ was_connected' = FALSE
    /\ stopFor' = "disconnect" /\ failed' = FALSE

\* The phase connect() falls back to before anything has been torn down.
Fallback == IF was_connected THEN "Connected" ELSE "Disconnected"

\* A command ends: the controller persists what is there, then answers.
Finish(answer) == pc' = "persist" /\ result' = answer

StopDataPlane(reason) ==
    /\ pc' = IF reason = "reconnect" THEN "stop_dns" ELSE "stop_split"
    /\ stopFor' = reason
    /\ failed' = FALSE

\* run_net_helper([...-down]): an error means the helper did not run; success
\* is its exit code, which is 0 whatever it achieved.
HelperTakesDown(before, after, fault, error) ==
    \/ ~error /\ after = FALSE
    \/ ~error /\ May("silent") /\ after = before
    \/ error /\ May(fault) /\ after = before

-----------------------------------------------------------------------------
(* connect()                                                                *)

BeginConnect(r) ==
    /\ At("idle") /\ Fresh # {}
    /\ req' = r
    /\ was_connected' = (phase = "Connected")
    /\ phase' = IF phase = "Connected" THEN "Reconnecting" ELSE "Preparing"
    /\ split_active' = FALSE /\ dns_protected' = FALSE
    /\ pc' = "validate"
    /\ armed' = (armed /\ (phase = "Connected" \/ r.mode = "Proxy" \/ r.killswitch))
    /\ UNCHANGED <<up, stopFor, failed, result, block_on_failure, backend,
                   network, proc, file>>

\* The old data plane goes, if there is one, and the new one is started.
Replace ==
    IF was_connected THEN StopDataPlane("reconnect")
    ELSE pc' = "start" /\ UNCHANGED <<stopFor, failed>>

\* Mutant of AfterValidation: only a user's kill switch is worth a block.
BlockOnRequestOnly ==
    IF guarded /\ req.killswitch THEN pc' = "install" /\ UNCHANGED <<stopFor, failed>>
    ELSE Replace

\* Every tunnel connects behind a hold block.
AfterValidation ==
    IF guarded THEN pc' = "install" /\ UNCHANGED <<stopFor, failed>>
    ELSE Replace

Validate ==
    /\ At("validate")
    /\ \/ /\ AfterValidation
          /\ UNCHANGED <<phase, result>>
       \/ /\ May("validate")
          /\ phase' = Fallback /\ Finish("error")
          /\ UNCHANGED <<stopFor, failed>>
    /\ UNCHANGED <<up, req, was_connected, split_active, dns_protected,
                   block_on_failure, backend, network, proc, file, armed>>

InstallHoldBlock ==
    /\ At("install")
    /\ \/ /\ hold' = TRUE \/ (May("verify") /\ hold' = FALSE)
          /\ pc' = "verify_hold" /\ UNCHANGED <<phase, result>>
       \/ /\ May("install")
          /\ phase' = Fallback /\ Finish("error") /\ UNCHANGED hold
    /\ UNCHANGED <<up, req, was_connected, stopFor, failed, split_active,
                   dns_protected, block_on_failure, backend, routes, dns,
                   split_table, split_rule, watching, proc, file, armed>>

VerifyHoldBlock ==
    /\ At("verify_hold")
    /\ \/ hold /\ phase' = "Blocking" /\ Replace
       \/ /\ ~hold \/ May("verify")
          /\ pc' = "unhold" /\ UNCHANGED <<phase, stopFor, failed>>
    /\ UNCHANGED <<up, req, was_connected, result, split_active, dns_protected,
                   block_on_failure, backend, network, proc, file, armed>>

\* The verification failed: remove_hold_block decides the phase.
UnholdAfterFailedVerify ==
    /\ At("unhold")
    /\ \E error \in BOOLEAN :
          /\ HelperTakesDown(hold, hold', "release", error)
          /\ phase' = IF error THEN "RecoveryRequired" ELSE Fallback
    /\ Finish("error")
    /\ UNCHANGED <<up, req, was_connected, stopFor, failed, split_active,
                   dns_protected, block_on_failure, backend, routes, dns,
                   split_table, split_rule, watching, proc, file, armed>>

-----------------------------------------------------------------------------
(* stop_data_plane(): four removals, each attempted whatever the others did. *)

\* remove_split(): the manager is forgotten whether or not it rolled back.
RemoveSplit(error) ==
    /\ split' = FALSE /\ split_apps' = {}
    /\ \/ ~split /\ ~error /\ UNCHANGED <<split_table, split_rule, watching>>
       \/ split /\ ~error /\ split_table' = FALSE /\ split_rule' = FALSE /\ watching' = FALSE
       \/ /\ split /\ error /\ May("split_down")
          /\ split_table' \in {FALSE, split_table} /\ split_rule' = FALSE
          /\ watching' = FALSE

StopSplit ==
    /\ At("stop_split")
    /\ \E error \in BOOLEAN : RemoveSplit(error) /\ failed' = error
    /\ pc' = "stop_dns"
    /\ UNCHANGED <<up, req, was_connected, stopFor, result, state,
                   block_on_failure, xray, xray_identity, mode, dns_active,
                   hold, routes, dns, proc, file, armed>>

StopDns ==
    /\ At("stop_dns")
    /\ \/ ~dns_active /\ UNCHANGED <<dns, dns_active, failed>>
       \/ dns_active /\ dns' = FALSE /\ dns_active' = FALSE /\ UNCHANGED failed
       \/ /\ dns_active /\ May("dns_down") /\ failed' = TRUE
          /\ UNCHANGED <<dns, dns_active>>
    /\ pc' = "stop_route"
    /\ UNCHANGED <<up, req, was_connected, stopFor, result, state,
                   block_on_failure, xray, xray_identity, mode, split,
                   split_apps, hold, routes, split_table, split_rule, watching,
                   proc, file, armed>>

\* Mutant of HasRoutes: asks the request, which a disconnect does not have.
RequestHasRoutes == guarded

HasRoutes == mode = "Tun"

\* route-down deletes every policy rule on the split's mark, the split's own too.
StopRoute ==
    /\ At("stop_route")
    /\ \/ ~HasRoutes /\ UNCHANGED <<routes, split_rule, failed>>
       \/ /\ HasRoutes
          /\ \E error \in BOOLEAN :
                /\ HelperTakesDown(routes, routes', "route_down", error)
                /\ HelperTakesDown(split_rule, split_rule', "route_down", error)
                /\ failed' = (failed \/ error)
    /\ pc' = "stop_xray"
    /\ UNCHANGED <<up, req, was_connected, stopFor, result, state,
                   block_on_failure, backend, hold, dns, split_table, watching,
                   proc, file, armed>>

\* terminate_xray(); the child is given up even when it cannot be killed.
TerminateXray(error) ==
    /\ xray' = None
    /\ \/ /\ ~error /\ xray_identity' = None
          /\ proc' = IF xray = None THEN proc ELSE [proc EXCEPT ![xray] = "gone"]
       \/ /\ error /\ May("kill") /\ xray # None /\ Alive(xray)
          /\ UNCHANGED <<xray_identity, proc>>

\* What follows stop_data_plane() in its caller.

\* Mutant of AfterReconnectStop: falls back to the old tunnel, which is gone.
AfterReconnectStopFallsBack(error) ==
    /\ stopFor = "reconnect"
    /\ IF error THEN phase' = Fallback /\ Finish("error")
       ELSE pc' = "start" /\ UNCHANGED <<phase, result>>
    /\ UNCHANGED <<split_active, dns_protected>>

AfterReconnectStop(error) ==
    /\ stopFor = "reconnect"
    /\ IF error
       THEN /\ phase' = IF guarded THEN "Blocking" ELSE "RecoveryRequired"
            /\ Finish("error")
       ELSE pc' = "start" /\ UNCHANGED <<phase, result>>
    /\ UNCHANGED <<split_active, dns_protected>>

\* Mutant of KeepsBlock: a first connect never keeps its block.
KeepsBlockOnReconnectOnly == was_connected

\* A failed attempt leaves the host blocked.
KeepsBlock == was_connected \/ req.killswitch

AfterRollbackStop(error) ==
    /\ stopFor = "rollback"
    /\ \/ error /\ phase' = "RecoveryRequired" /\ Finish("error")
       \/ ~error /\ guarded /\ KeepsBlock /\ phase' = "Blocking" /\ Finish("error")
       \/ /\ ~error /\ guarded /\ ~KeepsBlock
          /\ pc' = "give_up" /\ UNCHANGED <<phase, result>>
       \/ ~error /\ ~guarded /\ phase' = "Disconnected" /\ Finish("error")
    /\ UNCHANGED <<split_active, dns_protected>>

AfterDisconnectStop ==
    /\ stopFor = "disconnect"
    /\ pc' = "release_all"
    /\ UNCHANGED <<phase, result, split_active, dns_protected>>

AfterHealthStop(error) ==
    /\ stopFor = "health"
    /\ split_active' = FALSE /\ dns_protected' = FALSE
    /\ IF error THEN phase' = "RecoveryRequired" /\ Finish("error")
       ELSE /\ phase' = IF block_on_failure THEN "Blocking" ELSE "Disconnected"
            /\ Finish("ok")

StopXray ==
    /\ At("stop_xray")
    /\ \E error \in BOOLEAN :
          /\ TerminateXray(error)
          /\ failed' = (failed \/ error)
          /\ \/ AfterReconnectStop(failed')
             \/ AfterRollbackStop(failed')
             \/ AfterDisconnectStop
             \/ AfterHealthStop(failed')
    /\ mode' = "none"
    /\ UNCHANGED <<up, req, was_connected, stopFor, block_on_failure,
                   dns_active, split, split_apps, network, file, armed>>

-----------------------------------------------------------------------------
(* start_data_plane(), activate_network(), verify_connection()              *)

\* The connection cannot be brought up: take down what there is of it.
RollBack == StopDataPlane("rollback")

\* spawn() replaces the child the backend held; a replaced child keeps running.
StartDataPlane ==
    /\ At("start")
    /\ \/ /\ \E p \in Fresh :
                /\ proc' = [proc EXCEPT ![p] = req.mode]
                /\ xray' = p
                /\ xray_identity' \in {p} \cup (IF May("identity") THEN {None} ELSE {})
          /\ mode' = req.mode
          /\ pc' = "ready" /\ UNCHANGED <<stopFor, failed>>
       \/ /\ May("start") /\ RollBack
          /\ UNCHANGED <<proc, xray, xray_identity, mode>>
    /\ UNCHANGED <<up, req, was_connected, result, state, block_on_failure,
                   dns_active, split, split_apps, network, file, armed>>

\* wait_until_ready(); activate_network() does nothing for a proxy.
WaitUntilReady ==
    /\ At("ready")
    /\ \/ /\ Alive(xray) /\ pc' = (IF guarded THEN "route_up" ELSE "check")
          /\ UNCHANGED <<stopFor, failed>>
       \/ (~Alive(xray) \/ May("start")) /\ RollBack
    /\ UNCHANGED <<up, req, was_connected, result, state, block_on_failure,
                   backend, network, proc, file, armed>>

\* The helper rolls its own work back on an error, as well as it can.
RouteUp ==
    /\ At("route_up")
    /\ \/ /\ routes' = TRUE /\ pc' = "split_up"
          /\ UNCHANGED <<stopFor, failed, split_rule>>
       \/ /\ May("route_up") /\ RollBack
          /\ routes' \in {FALSE, May("silent")}
          /\ split_rule' \in {FALSE, May("silent") /\ split_rule}
    /\ UNCHANGED <<up, req, was_connected, result, state, block_on_failure,
                   backend, hold, dns, split_table, watching,
                   proc, file, armed>>

\* SplitManager::apply() on a host with the given routing; a failed one is
\* rolled back and forgotten.  Its own rollback takes the routing down only when
\* all of it had been laid.
ApplySplit(apps, table, rule, error) ==
    \/ /\ ~error /\ split' = TRUE /\ split_apps' = apps
       /\ split_table' = TRUE /\ split_rule' = TRUE /\ watching' = TRUE
    \/ /\ error /\ split' = FALSE /\ split_apps' = {} /\ watching' = FALSE
       /\ \/ May("split_up") /\ split_table' = table /\ split_rule' = rule
          \/ May("split_up") /\ split_table' = FALSE /\ split_rule' = FALSE
          \/ /\ May("split_up") /\ May("split_down")
             /\ split_table' = TRUE /\ split_rule' = FALSE
          \/ May("split_lay") /\ split_table' = table /\ split_rule' \in BOOLEAN

\* Mutant of RefreshRouting: the kept split is taken to be complete.
KeepRouting(error) == ~error /\ UNCHANGED <<split_table, split_rule>>

\* SplitManager::refresh_routing(): route-down has cut the kept split.
RefreshRouting(error) ==
    \/ ~error /\ split_table' = TRUE /\ split_rule' = TRUE
    \/ error /\ May("split_up") /\ split_rule' \in BOOLEAN /\ UNCHANGED split_table

\* The split part of activate_network(): a kept split serves the same list, one
\* with another list is removed first, then the requested one is applied.
ActivateSplit ==
    /\ At("split_up")
    /\ \E error \in BOOLEAN :
          /\ \/ /\ split /\ req.apps = split_apps /\ RefreshRouting(error)
                /\ UNCHANGED <<split, split_apps, watching>>
             \/ /\ split /\ req.apps # split_apps /\ (error \/ req.apps = {})
                /\ RemoveSplit(error)
             \/ /\ split /\ req.apps # split_apps /\ req.apps # {}
                /\ ApplySplit(req.apps, FALSE, FALSE, error)
             \/ /\ ~split /\ req.apps # {}
                /\ ApplySplit(req.apps, split_table, split_rule, error)
             \/ /\ ~split /\ req.apps = {} /\ ~error
                /\ UNCHANGED <<split, split_apps, split_table, split_rule, watching>>
          /\ IF error THEN RollBack ELSE pc' = "dns_up" /\ UNCHANGED <<stopFor, failed>>
    /\ UNCHANGED <<up, req, was_connected, result, state, block_on_failure,
                   xray, xray_identity, mode, dns_active, hold, routes, dns,
                   proc, file, armed>>

\* Mutant of InstallDns: armed once the table has been verified.
InstallDnsThenArm ==
    /\ At("dns_up")
    /\ \/ /\ dns' = TRUE /\ dns_active' = TRUE
          /\ pc' = "check" /\ UNCHANGED <<stopFor, failed>>
       \/ /\ May("dns_up") /\ RollBack /\ UNCHANGED dns_active
          /\ dns' \in {FALSE, May("dns_guard")}
    /\ UNCHANGED <<up, req, was_connected, result, state, block_on_failure,
                   xray, xray_identity, mode, split, split_apps, hold, routes,
                   split_table, split_rule, watching, proc, file, armed>>

\* DnsGuard::install(), armed for cleanup before it is tried.  It removes the
\* table itself when the probe does not confirm it.
InstallDns ==
    /\ At("dns_up")
    /\ dns_active' = TRUE
    /\ \/ dns' = TRUE /\ pc' = "check" /\ UNCHANGED <<stopFor, failed>>
       \/ /\ May("dns_up") /\ RollBack
          /\ dns' \in {FALSE, May("dns_guard")}
    /\ UNCHANGED <<up, req, was_connected, result, state, block_on_failure,
                   xray, xray_identity, mode, split, split_apps, hold, routes,
                   split_table, split_rule, watching, proc, file, armed>>

\* Mutant of BlocksOnFailure: forgets that a proxy installs no block.
BlocksOnFailureInAnyMode == req.killswitch

BlocksOnFailure == guarded /\ req.killswitch

\* Mutant of CommitConnected: publishes the mode where the phase belongs.
CommitConnectedAsMode ==
    /\ phase' = req.mode
    /\ split_active' = (req.apps # {}) /\ dns_protected' = guarded
    /\ block_on_failure' = BlocksOnFailure
    /\ Finish("ok")

\* connect() has succeeded.
CommitConnected ==
    /\ phase' = "Connected"
    /\ split_active' = (req.apps # {}) /\ dns_protected' = guarded
    /\ block_on_failure' = BlocksOnFailure
    /\ Finish("ok")

\* Looked at for a tunnel only, and only when there is a split.
SplitHealthy == (guarded /\ split) => watching

VerifyConnection ==
    /\ At("check")
    /\ \/ /\ Alive(xray) /\ SplitHealthy
          /\ IF guarded /\ ~req.killswitch
             THEN pc' = "release" /\ UNCHANGED <<state, block_on_failure, result>>
             ELSE CommitConnected
          /\ armed' = (guarded /\ req.killswitch)
          /\ UNCHANGED <<stopFor, failed>>
       \/ /\ ~Alive(xray) \/ ~SplitHealthy \/ May("check")
          /\ RollBack
          /\ UNCHANGED <<state, block_on_failure, armed, result>>
    /\ UNCHANGED <<up, req, was_connected, backend, network, proc, file>>

\* Without a kill switch the block is lifted once the tunnel carries traffic.
ReleaseHoldBlock ==
    /\ At("release")
    /\ \/ HelperTakesDown(hold, hold', "release", FALSE) /\ CommitConnected
       \/ /\ HelperTakesDown(hold, hold', "release", TRUE)
          /\ phase' = "RecoveryRequired" /\ Finish("error")
          /\ UNCHANGED <<split_active, dns_protected, block_on_failure>>
    /\ UNCHANGED <<up, req, was_connected, stopFor, failed, backend, routes,
                   dns, split_table, split_rule, watching, proc, file, armed>>

\* A failed first connect without kill switch restores the direct network; the
\* result of the removal is dropped.
GiveUp ==
    /\ At("give_up")
    /\ \E error \in BOOLEAN : HelperTakesDown(hold, hold', "release", error)
    /\ phase' = "Disconnected" /\ Finish("error")
    /\ UNCHANGED <<up, req, was_connected, stopFor, failed, split_active,
                   dns_protected, block_on_failure, backend, routes, dns,
                   split_table, split_rule, watching, proc, file, armed>>

-----------------------------------------------------------------------------
(* disconnect(), update_split(), reconcile_health()                         *)

BeginDisconnect ==
    /\ At("idle")
    /\ StopDataPlane("disconnect")
    /\ armed' = FALSE
    /\ UNCHANGED <<up, req, was_connected, result, state, block_on_failure,
                   backend, network, proc, file>>

FinishDisconnect ==
    /\ At("release_all")
    /\ \E error \in BOOLEAN :
          /\ HelperTakesDown(hold, hold', "release", error)
          /\ IF failed \/ error
             THEN /\ phase' = "RecoveryRequired" /\ Finish("error")
                  /\ UNCHANGED <<split_active, dns_protected, block_on_failure>>
             ELSE /\ phase' = "Disconnected" /\ Finish("ok")
                  /\ split_active' = FALSE /\ dns_protected' = FALSE
                  /\ block_on_failure' = FALSE
    /\ UNCHANGED <<up, req, was_connected, stopFor, failed, backend, routes,
                   dns, split_table, split_rule, watching, proc, file, armed>>

\* The backend's update_split(): its outcome is the new split_active.
EditSplit(apps, error) ==
    \/ apps = {} /\ RemoveSplit(error)
    \/ apps # {} /\ ~split /\ ApplySplit(apps, split_table, split_rule, error)
    \/ /\ apps # {} /\ split
       /\ UNCHANGED <<split, split_table, split_rule>>
       /\ \/ ~error /\ split_apps' = apps /\ watching' = TRUE
          \/ error /\ May("replan") /\ watching' \in BOOLEAN /\ UNCHANGED split_apps

UpdateSplit(apps) ==
    /\ At("idle")
    /\ \/ /\ phase = "Connected"
          /\ \E error \in BOOLEAN :
                /\ EditSplit(apps, error)
                /\ split_active' = IF error THEN split_active ELSE apps # {}
                /\ Finish(IF error THEN "error" ELSE "ok")
       \/ /\ phase # "Connected" /\ Finish("error")
          /\ UNCHANGED <<split, split_apps, split_table, split_rule, watching,
                         split_active>>
    /\ UNCHANGED <<up, req, was_connected, stopFor, failed, phase,
                   dns_protected, block_on_failure, xray, xray_identity, mode,
                   dns_active, hold, routes, dns, proc, file, armed>>

\* Mutant of XrayIsDead: looks at the handle and never reaps the child.
XrayHandleIsGone == xray = None

XrayIsDead == xray = None \/ ~Alive(xray)

\* reconcile_health(), called every second by the monitor and by Status.
DetectDeadXray ==
    /\ At("idle") /\ phase = "Connected" /\ XrayIsDead
    /\ StopDataPlane("health")
    /\ UNCHANGED <<up, req, was_connected, result, state, block_on_failure,
                   backend, network, proc, file, armed>>

\* A Status with nothing to reconcile still persists; a poll does not.
Status ==
    /\ At("idle") /\ ~(phase = "Connected" /\ XrayIsDead)
    /\ Finish("ok")
    /\ UNCHANGED <<up, req, was_connected, stopFor, failed, state,
                   block_on_failure, backend, network, proc, file, armed>>

-----------------------------------------------------------------------------
(* The controller: persist(), then answer and let the next command in.       *)

\* Mutant of Persisted: PersistedState::new without the identity set after it.
PersistedPhase == [phase |-> phase, xray |-> None]

Persisted == [phase |-> phase, xray |-> xray_identity]

Persist ==
    /\ At("persist") /\ BecomeIdle
    /\ \/ /\ file' = Persisted
          /\ UNCHANGED <<state, result>>
       \/ /\ May("persist") /\ UNCHANGED file
          /\ phase' = "RecoveryRequired" /\ result' = "error"
          /\ split_active' = FALSE /\ dns_protected' = FALSE
    /\ UNCHANGED <<up, block_on_failure, backend, network, proc, armed>>

-----------------------------------------------------------------------------
(* The environment: Xray dies, the daemon is killed and started again.       *)

XrayExits(p) ==
    /\ Alive(p)
    /\ proc' = [proc EXCEPT ![p] = "gone"]
    /\ UNCHANGED <<memory, backend, network, file, armed>>

\* The daemon's memory is as the next LifecycleManager::new and
\* SystemLifecycleBackend::new will find it; its threads (the split's watcher and
\* reconciler) go with it.
DaemonCrash ==
    /\ up /\ (pc # "idle" => May("midcrash"))
    /\ up' = FALSE /\ BecomeIdle /\ result' = "ok"
    /\ phase' = "Disconnected" /\ split_active' = FALSE /\ dns_protected' = FALSE
    /\ block_on_failure' = FALSE
    /\ xray' = None /\ xray_identity' = None /\ mode' = "none"
    /\ dns_active' = FALSE /\ split' = FALSE /\ split_apps' = {} /\ watching' = FALSE
    /\ UNCHANGED <<hold, routes, dns, split_table, split_rule, proc, file, armed>>

\* What the inspection after the cleanup finds; nft_table_exists takes a table
\* that cannot be listed to be absent.
TableResidue == hold \/ dns \/ split_table

PathResidue == routes \/ split_rule \/ \E p \in Procs : Tunnelled(p)

\* recovery.cleanup(): what was found is removed, and found again when it could
\* not be.  The saved process is no longer looked for once the state file, itself
\* one of the resources, is gone.  Deleting varmlen0 leaves its owner running.
Recover(left, killed) ==
    /\ left # {} \/ ~killed => May("recover")
    /\ hold' = (hold /\ "hold" \in left)
    /\ routes' = (routes /\ "routes" \in left)
    /\ dns' = (dns /\ "dns" \in left)
    /\ split_table' = (split_table /\ "split_table" \in left)
    /\ split_rule' = (split_rule /\ "split_rule" \in left)
    /\ proc' = [p \in Procs |->
                CASE killed /\ p = file.xray            -> "gone"
                  [] ~(killed /\ p = file.xray) /\ Tunnelled(p) /\ "tun" \notin left
                                                       -> "Proxy"
                  [] OTHER                             -> proc[p]]
    /\ \/ (TableResidue' \/ PathResidue') /\ phase' = "RecoveryRequired"
       \/ ~TableResidue' /\ ~PathResidue' /\ phase' = "Disconnected"
       \/ May("recover") /\ phase' = "RecoveryRequired"
       \/ May("recover") /\ ~PathResidue' /\ phase' = "Disconnected"

Resources == {"hold", "routes", "dns", "split_table", "split_rule", "tun"}

\* Start-up: recovery, a fresh state file, a fresh manager.  A state file that
\* cannot be written ends the process again.
Restart ==
    /\ ~up
    /\ \E left \in SUBSET Resources, killed \in BOOLEAN : Recover(left, killed)
    /\ \/ up' = TRUE /\ file' = [phase |-> phase', xray |-> None]
       \/ May("persist") /\ up' = FALSE /\ file' = [file EXCEPT !.xray = None]
    /\ armed' = FALSE
    /\ UNCHANGED <<pc, locals, result, split_active, dns_protected,
                   block_on_failure, backend, watching>>

-----------------------------------------------------------------------------
ConnectSteps ==
    \/ Validate \/ InstallHoldBlock \/ VerifyHoldBlock \/ UnholdAfterFailedVerify
    \/ StartDataPlane \/ WaitUntilReady \/ RouteUp \/ ActivateSplit
    \/ InstallDns \/ VerifyConnection \/ ReleaseHoldBlock \/ GiveUp

StopSteps == StopSplit \/ StopDns \/ StopRoute \/ StopXray

CommandSteps == ConnectSteps \/ StopSteps \/ FinishDisconnect \/ Persist

Next ==
    \/ \E r \in Requests : BeginConnect(r)
    \/ BeginDisconnect
    \/ \E apps \in SUBSET Apps : UpdateSplit(apps)
    \/ DetectDeadXray
    \/ Status
    \/ CommandSteps
    \/ \E p \in Procs : XrayExits(p)
    \/ DaemonCrash
    \/ Restart

Spec == Init /\ [][Next]_vars
=============================================================================
