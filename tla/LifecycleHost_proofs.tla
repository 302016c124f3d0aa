------------------------ MODULE LifecycleHost_proofs ------------------------
(***************************************************************************)
(* Proofs about what Lifecycle leaves on the host, for any number of        *)
(* processes and applications: Connected is backed by a data plane under     *)
(* every fault, and, as long as the teardown works, whatever is on the host  *)
(* is known to the daemon that put it there or to the one that comes after   *)
(* it, and nothing of a data plane outlives its connection.                  *)
(***************************************************************************)
EXTENDS Lifecycle_proofs

-----------------------------------------------------------------------------
(* Connected has a data plane, under any fault.                             *)
(*                                                                         *)
(* A connect that fails before it has touched the old tunnel reports          *)
(* Connected again, so the invariant follows the old data plane into the      *)
(* attempt, and the new one from its start to the commit.                    *)

\* The calls of connect() before the old data plane is taken down.
Before == {"validate", "install", "verify_hold", "unhold"}

\* No command, or one that has only its outcome to persist.
AtRest == pc \in {"idle", "persist"}

Standing ==
    /\ xray # None /\ mode # "none"
    /\ mode = "Tun" => routes /\ dns /\ dns_active

ReportIsBacked ==
    /\ ~up => pc = "idle" /\ phase # "Connected"
    /\ AtRest /\ phase = "Connected" => Standing /\ (dns_protected => mode = "Tun")

OldPlaneStands ==
    /\ pc \in Before /\ was_connected => Standing
    /\ pc \in Before => ~dns_protected

NewPlaneGrows ==
    /\ pc \in {"ready", "route_up", "split_up", "dns_up", "check", "release"}
         => xray # None /\ mode = req.mode
    /\ pc \in {"route_up", "split_up", "dns_up", "release"} => guarded
    /\ pc \in {"split_up", "dns_up"} => routes
    /\ pc \in {"check", "release"} /\ guarded => routes /\ dns /\ dns_active

PlaneInv == ReportIsBacked /\ OldPlaneStands /\ NewPlaneGrows

\* Every step keeps the invariant, whatever fails.
LEMMA StepPlaneInv ==
    ASSUME TypeOK, PlaneInv, [Next]_vars
    PROVE  PlaneInv'
<1> USE NoneAssumption, RequestFields
    DEF TypeOK, ControlTypeOK, StateTypeOK, BackendTypeOK, Steps, StopReasons, Phases, Modes,
        At, memory, backend, network, locals, state, guarded, PlaneInv, ReportIsBacked,
        OldPlaneStands, NewPlaneGrows, Before, AtRest, Standing
<1>1. CASE \E r \in Requests : BeginConnect(r)
  <2>1. PICK r \in Requests : BeginConnect(r)
    BY <1>1
  <2>2. /\ up' = up /\ up /\ pc' = "validate" /\ phase' # "Connected" /\ ~dns_protected'
        /\ was_connected' <=> phase = "Connected"
        /\ xray' = xray /\ mode' = mode /\ routes' = routes /\ dns' = dns /\ dns_active' = dns_active
    BY <2>1 DEF BeginConnect, network
  <2> QED
    BY <2>1, <2>2 DEF BeginConnect
<1>2. CASE BeginDisconnect
  BY <1>2 DEF BeginDisconnect, StopDataPlane
<1>3. CASE \E apps \in SUBSET Apps : UpdateSplit(apps)
  BY <1>3 DEF UpdateSplit, Finish
<1>4. CASE DetectDeadXray
  BY <1>4 DEF DetectDeadXray, StopDataPlane
<1>5. CASE Status
  BY <1>5 DEF Status, Finish
<1>6. CASE Validate
  BY <1>6 DEF Validate, AfterValidation, Replace, StopDataPlane, Finish, Fallback
<1>7. CASE InstallHoldBlock
  BY <1>7 DEF InstallHoldBlock, Finish, Fallback
<1>8. CASE VerifyHoldBlock
  BY <1>8 DEF VerifyHoldBlock, Replace, StopDataPlane
<1>9. CASE UnholdAfterFailedVerify
  BY <1>9 DEF UnholdAfterFailedVerify, Finish, Fallback
<1>10. CASE StopSplit
  BY <1>10 DEF StopSplit
<1>11. CASE StopDns
  BY <1>11 DEF StopDns
<1>12. CASE StopRoute
  BY <1>12 DEF StopRoute
<1>13. CASE StopXray
  BY <1>13 DEF StopXray, AfterReconnectStop, AfterRollbackStop, AfterDisconnectStop,
         AfterHealthStop, Finish
<1>14. CASE StartDataPlane
  BY <1>14 DEF StartDataPlane, RollBack, StopDataPlane, Fresh
<1>15. CASE WaitUntilReady
  BY <1>15 DEF WaitUntilReady, RollBack, StopDataPlane
<1>16. CASE RouteUp
  BY <1>16 DEF RouteUp, RollBack, StopDataPlane
<1>17. CASE ActivateSplit
  BY <1>17 DEF ActivateSplit, RollBack, StopDataPlane
<1>18. CASE InstallDns
  BY <1>18 DEF InstallDns, RollBack, StopDataPlane
<1>19. CASE VerifyConnection
  BY <1>19 DEF VerifyConnection, CommitConnected, Finish, RollBack, StopDataPlane
<1>20. CASE ReleaseHoldBlock
  BY <1>20 DEF ReleaseHoldBlock, CommitConnected, Finish
<1>21. CASE GiveUp
  BY <1>21 DEF GiveUp, Finish
<1>22. CASE FinishDisconnect
  BY <1>22 DEF FinishDisconnect, Finish
<1>23. CASE Persist
  BY <1>23 DEF Persist, BecomeIdle
<1>24. CASE \E p \in Procs : XrayExits(p)
  BY <1>24 DEF XrayExits
<1>25. CASE DaemonCrash
  BY <1>25 DEF DaemonCrash, BecomeIdle
<1>26. CASE Restart
  BY <1>26 DEF Restart, Recover
<1>27. CASE UNCHANGED vars
  BY <1>27 DEF vars
<1> HIDE DEF PlaneInv
<1> QED
  BY <1>1, <1>2, <1>3, <1>4, <1>5, <1>6, <1>7, <1>8, <1>9, <1>10, <1>11, <1>12,
     <1>13, <1>14, <1>15, <1>16, <1>17, <1>18, <1>19, <1>20, <1>21, <1>22,
     <1>23, <1>24, <1>25, <1>26, <1>27
  DEF Next, CommandSteps, ConnectSteps, StopSteps

\* A daemon that says Connected holds a child and, for a tunnel, has its routes and
\* its DNS table in place, whatever has failed on the way, a reconnect that never
\* got to the old tunnel included (lifecycle.rs connect, was_connected).
THEOREM ConnectedIsBacked == Spec => []ConnectedHasDataPlane
<1>1. Init => PlaneInv
  BY DEF Init, PlaneInv, ReportIsBacked, OldPlaneStands, NewPlaneGrows, Before, AtRest
<1>2. TypeOK /\ PlaneInv /\ [Next]_vars => PlaneInv'
  BY StepPlaneInv
<1>3. PlaneInv => ConnectedHasDataPlane
  BY DEF PlaneInv, ReportIsBacked, AtRest, Standing, ConnectedHasDataPlane
<1> QED
  BY <1>1, <1>2, <1>3, TypeCorrect, PTL DEF Spec

-----------------------------------------------------------------------------
(* What is left on the host, when the teardown works.                       *)
(*                                                                         *)
(* The invariant follows the host's state through a command: what each call   *)
(* of stop_data_plane() has removed, what each call of the attempt has laid,   *)
(* and that between two commands the state file names the child.             *)

\* Requests and connects may fail; what is told to go goes, identities are read and
\* the state file is written.
TeardownWorks ==
    Faults \cap {"release", "identity", "split_lay", "replan", "split_down", "dns_down",
                 "route_down", "silent", "kill", "persist", "recover", "midcrash"} = {}

Building == {"start", "ready", "route_up", "split_up", "dns_up", "check", "release"}

NoPlane == ~routes /\ ~dns /\ ~dns_active /\ xray = None /\ mode = "none"
NoSplit == ~split /\ ~split_table /\ ~split_rule

\* The child is the only Xray there is, and its identity is known; a daemon that is
\* gone has left it in the state file.
ChildIsKnown ==
    /\ up => xray_identity = xray /\ \A p \in Procs : Alive(p) => p = xray
    /\ up /\ pc = "idle" => file.xray = xray
    /\ ~up => \A p \in Procs : Alive(p) => p = file.xray

\* A daemon that is not there remembers nothing.
DeadIsBlank ==
    ~up => /\ pc = "idle" /\ phase # "Connected" /\ ~split_active
           /\ xray = None /\ xray_identity = None /\ mode = "none" /\ ~dns_active /\ ~split

LaidIsArmed ==
    up => /\ dns => dns_active
          /\ routes => mode = "Tun"
          /\ split_table => split
          /\ split_rule => split \/ mode = "Tun"

\* How far a teardown has come.
StopAdvances ==
    /\ pc \in TearingDown \cup {"release_all"} => ~failed
    /\ pc \in {"stop_route", "stop_xray"} => ~dns /\ ~dns_active
    /\ pc = "stop_xray" => ~routes /\ (split_rule => split)
    /\ pc \in TearingDown \ {"stop_split"} /\ stopFor # "reconnect" => ~split

\* Where no data plane stands, none has left anything.
RestIsBare ==
    /\ up /\ AtRest /\ phase # "Connected" => NoPlane /\ NoSplit
    /\ pc \in Before /\ ~was_connected => NoPlane /\ NoSplit
    /\ pc \in {"give_up", "release_all"} => NoPlane /\ NoSplit
    /\ pc = "start" => NoPlane

\* How far the new data plane has come.
PlaneIsAsked ==
    /\ pc \in Building \ {"start"} => mode = req.mode
    /\ pc \in {"route_up", "split_up", "dns_up", "release"} => guarded

\* A kept or new split of a tunnel is whole wherever it is not being taken down or
\* built, and what is reported of it is so.
SplitIsWhole ==
    /\ pc \in {"idle", "persist", "dns_up", "check", "release"} \cup Before /\ mode = "Tun" /\ split
         => split_table /\ split_rule
    /\ pc \in {"dns_up", "check", "release"} /\ req.apps # {} => split
    /\ pc = "release" /\ split => watching

SplitIsReported ==
    /\ AtRest /\ split_active => split /\ watching
    /\ up /\ AtRest /\ phase # "Connected" => ~split_active
    /\ pc \in Building \cup Before \cup {"give_up"} => ~split_active
    /\ pc \in TearingDown /\ stopFor \in {"reconnect", "rollback"} => ~split_active

HostInv ==
    /\ ChildIsKnown /\ DeadIsBlank /\ LaidIsArmed /\ StopAdvances
    /\ RestIsBare /\ PlaneIsAsked /\ SplitIsWhole /\ SplitIsReported

\* What cannot happen then.
LEMMA NoTrouble ==
    ASSUME TeardownWorks
    PROVE  \A fault \in {"release", "identity", "split_lay", "replan", "split_down", "dns_down",
                        "route_down", "silent", "kill", "persist", "recover", "midcrash"} : ~May(fault)
BY DEF TeardownWorks, May

\* A split that is removed is gone.
LEMMA SplitRemoved ==
    ASSUME TeardownWorks, split \in BOOLEAN, NEW error \in BOOLEAN, RemoveSplit(error)
    PROVE  /\ ~error /\ ~split'
           /\ split_table' => split_table /\ ~split
           /\ split_rule' => split_rule /\ ~split
<1>1. ~May("split_down")
  BY NoTrouble
<1>2. ~error /\ split' = FALSE
  BY <1>1 DEF RemoveSplit
<1>3. CASE split
  BY <1>1, <1>2, <1>3 DEF RemoveSplit
<1>4. CASE ~split
  <2>1. split_table' = split_table /\ split_rule' = split_rule
    BY <1>1, <1>2, <1>4 DEF RemoveSplit
  <2> QED
    BY <1>2, <1>4, <2>1
<1> QED
  BY <1>3, <1>4

\* A split that cannot be applied is gone but for what had been there.
LEMMA SplitApplied ==
    ASSUME TeardownWorks, NEW apps, NEW table, NEW rule, NEW error \in BOOLEAN,
           ApplySplit(apps, table, rule, error)
    PROVE  /\ ~error => split' /\ split_table' /\ split_rule' /\ watching'
           /\ error => ~split' /\ (split_table' => table) /\ (split_rule' => rule)
<1>1. ~May("split_down") /\ ~May("split_lay")
  BY NoTrouble
<1> QED
  BY <1>1 DEF ApplySplit

\* A request that excludes an application is one for a tunnel.
LEMMA ProxyHasNoApps == ASSUME NEW r \in Requests PROVE r.mode = "Tun" \/ r.apps = {}
BY DEF Requests, Modes

\* A host on which no program of the project has left anything.
NoResidue ==
    /\ ~hold /\ ~routes /\ ~dns /\ ~split_table /\ ~split_rule
    /\ \A p \in Procs : proc[p] = "gone"

\* A recovery that removes what it finds finds everything.
LEMMA RecoverCleans ==
    ASSUME TeardownWorks, TypeOK, HostInv, ~up, Restart
    PROVE  NoResidue' /\ phase' # "Connected" /\ file'.xray = None
<1>1. PICK left \in SUBSET Resources, killed \in BOOLEAN : Recover(left, killed)
  BY DEF Restart
<1>2. left = {} /\ killed = TRUE
  BY <1>1, NoTrouble DEF Recover
<1>3. ~hold' /\ ~routes' /\ ~dns' /\ ~split_table' /\ ~split_rule'
  BY <1>1, <1>2 DEF Recover
<1>4. ASSUME NEW p \in Procs PROVE proc'[p] = "gone"
  <2>1. proc'[p] = CASE killed /\ p = file.xray            -> "gone"
                     [] ~(killed /\ p = file.xray) /\ Tunnelled(p) /\ "tun" \notin left
                                                          -> "Proxy"
                     [] OTHER                             -> proc[p]
    BY <1>1 DEF Recover
  <2>2. p # file.xray => proc[p] = "gone"
    BY DEF HostInv, ChildIsKnown, Alive
  <2>3. CASE p = file.xray
    BY <1>2, <2>1, <2>3
  <2>4. CASE p # file.xray
    BY <1>2, <2>1, <2>2, <2>4 DEF Tunnelled
  <2> QED
    BY <2>3, <2>4
<1>5. phase' # "Connected"
  BY <1>1 DEF Recover
<1>6. file'.xray = None
  BY DEF Restart, TypeOK, HostTypeOK
<1> QED
  BY <1>3, <1>4, <1>5, <1>6 DEF NoResidue

\* Every step keeps the invariant.
LEMMA StepHostInv ==
    ASSUME TeardownWorks, TypeOK, HostInv, [Next]_vars
    PROVE  HostInv'
<1> USE NoneAssumption, RequestFields, NoTrouble
    DEF TypeOK, ControlTypeOK, StateTypeOK, BackendTypeOK, HostTypeOK, Steps, StopReasons, Phases,
        Modes, At, memory, backend, network, locals, state, guarded, HostInv, ChildIsKnown,
        DeadIsBlank, LaidIsArmed, StopAdvances, RestIsBare, PlaneIsAsked, SplitIsWhole,
        SplitIsReported, Before, AtRest, Building, TearingDown, NoPlane, NoSplit, Alive
<1>1. CASE \E r \in Requests : BeginConnect(r)
  <2>1. PICK r \in Requests : BeginConnect(r)
    BY <1>1
  <2> QED
    BY <2>1 DEF BeginConnect
<1>2. CASE BeginDisconnect
  BY <1>2 DEF BeginDisconnect, StopDataPlane
<1>3. CASE \E apps \in SUBSET Apps : UpdateSplit(apps)
  <2>1. PICK apps \in SUBSET Apps : UpdateSplit(apps)
    BY <1>3
  <2>2. /\ up /\ up' /\ pc = "idle" /\ pc' = "persist" /\ phase' = phase /\ mode' = mode
        /\ xray' = xray /\ xray_identity' = xray_identity /\ proc' = proc /\ routes' = routes
        /\ dns' = dns /\ dns_active' = dns_active
    BY <2>1 DEF UpdateSplit, Finish
  <2>3. CASE phase # "Connected"
    BY <2>1, <2>2, <2>3 DEF UpdateSplit
  <2>4. CASE phase = "Connected"
    <3>1. PICK error \in BOOLEAN : /\ EditSplit(apps, error)
                                  /\ split_active' = IF error THEN split_active ELSE apps # {}
      BY <2>1, <2>4 DEF UpdateSplit
    <3>2. /\ split_table' => split'
          /\ split_rule' => split' \/ mode = "Tun"
          /\ mode = "Tun" /\ split' => split_table' /\ split_rule'
          /\ split_active' => split' /\ watching'
      <4>1. CASE apps = {}
        <5>1. RemoveSplit(error) /\ split \in BOOLEAN
          BY <3>1, <4>1 DEF EditSplit
        <5>2. ~error /\ ~split' /\ (split_table' => split_table /\ ~split) /\ (split_rule' => split_rule /\ ~split)
          BY <5>1, SplitRemoved
        <5> QED
          BY <5>2, <4>1, <3>1, <2>2
      <4>2. CASE apps # {} /\ ~split
        <5>1. ApplySplit(apps, split_table, split_rule, error)
          BY <3>1, <4>2 DEF EditSplit
        <5>2. /\ ~error => split' /\ split_table' /\ split_rule' /\ watching'
              /\ error => ~split' /\ (split_table' => split_table) /\ (split_rule' => split_rule)
          BY <5>1, SplitApplied
        <5> QED
          BY <5>2, <4>2, <3>1, <2>2, <2>4
      <4>3. CASE apps # {} /\ split
        BY <3>1, <4>3, <2>2 DEF EditSplit
      <4> QED
        BY <4>1, <4>2, <4>3
    <3> QED
      BY <2>2, <2>4, <3>2
  <2> QED
    BY <2>3, <2>4
<1>4. CASE DetectDeadXray
  BY <1>4 DEF DetectDeadXray, StopDataPlane
<1>5. CASE Status
  BY <1>5 DEF Status, Finish
<1>6. CASE Validate
  BY <1>6 DEF Validate, AfterValidation, Replace, StopDataPlane, Finish, Fallback
<1>7. CASE InstallHoldBlock
  BY <1>7 DEF InstallHoldBlock, Finish, Fallback
<1>8. CASE VerifyHoldBlock
  BY <1>8 DEF VerifyHoldBlock, Replace, StopDataPlane
<1>9. CASE UnholdAfterFailedVerify
  <2>1. phase' = Fallback
    <3>1. PICK error \in BOOLEAN : /\ HelperTakesDown(hold, hold', "release", error)
                                  /\ phase' = IF error THEN "RecoveryRequired" ELSE Fallback
      BY <1>9 DEF UnholdAfterFailedVerify
    <3>2. ~May("release")
      BY NoTrouble
    <3>3. ~error
      BY <3>1, <3>2 DEF HelperTakesDown
    <3> QED
      BY <3>1, <3>3
  <2> QED
    BY <1>9, <2>1 DEF UnholdAfterFailedVerify, Finish, Fallback
<1>10. CASE StopSplit
  <2>1. PICK error \in BOOLEAN : RemoveSplit(error) /\ failed' = error
    BY <1>10 DEF StopSplit
  <2>2. ~error /\ ~split' /\ (split_table' => split_table /\ ~split) /\ (split_rule' => split_rule /\ ~split)
    BY <2>1, SplitRemoved
  <2> QED
    BY <1>10, <2>1, <2>2 DEF StopSplit
<1>11. CASE StopDns
  BY <1>11 DEF StopDns
<1>12. CASE StopRoute
  <2>1. CASE ~HasRoutes
    BY <1>12, <2>1 DEF StopRoute, HasRoutes
  <2>2. CASE HasRoutes
    <3>1. PICK error \in BOOLEAN : /\ HelperTakesDown(routes, routes', "route_down", error)
                                  /\ HelperTakesDown(split_rule, split_rule', "route_down", error)
                                  /\ failed' = (failed \/ error)
      BY <1>12, <2>2 DEF StopRoute
    <3>2. ~May("route_down") /\ ~May("silent")
      BY NoTrouble
    <3>3. ~error /\ routes' = FALSE /\ split_rule' = FALSE
      BY <3>1, <3>2 DEF HelperTakesDown
    <3> QED
      BY <1>12, <3>1, <3>3 DEF StopRoute
  <2> QED
    BY <2>1, <2>2
<1>13. CASE StopXray
  <2>1. PICK error \in BOOLEAN : /\ TerminateXray(error)
                                /\ failed' = (failed \/ error)
                                /\ \/ AfterReconnectStop(failed')
                                   \/ AfterRollbackStop(failed')
                                   \/ AfterDisconnectStop
                                   \/ AfterHealthStop(failed')
    BY <1>13 DEF StopXray
  <2>2. ~error /\ ~failed' /\ xray' = None /\ xray_identity' = None
    BY <1>13, <2>1 DEF TerminateXray, StopXray
  <2>3. \A p \in Procs : proc'[p] = "gone"
    BY <1>13, <2>1, <2>2 DEF TerminateXray, StopXray
  <2>4. /\ up /\ up' /\ pc = "stop_xray" /\ mode' = "none" /\ dns' = dns /\ dns_active' = dns_active
        /\ routes' = routes /\ split' = split /\ split_table' = split_table /\ split_rule' = split_rule
        /\ was_connected' = was_connected /\ req' = req /\ stopFor' = stopFor
    BY <1>13 DEF StopXray
  <2>5. NoPlane'
    BY <2>2, <2>4
  <2>6. stopFor # "reconnect" => NoSplit'
    BY <2>4
  <2>7. CASE AfterReconnectStop(failed')
    BY <2>2, <2>3, <2>4, <2>5, <2>7 DEF AfterReconnectStop
  <2>8. CASE AfterRollbackStop(failed')
    BY <2>2, <2>3, <2>4, <2>5, <2>6, <2>8 DEF AfterRollbackStop, Finish
  <2>9. CASE AfterDisconnectStop
    BY <2>2, <2>3, <2>4, <2>5, <2>6, <2>9 DEF AfterDisconnectStop
  <2>10. CASE AfterHealthStop(failed')
    BY <2>2, <2>3, <2>4, <2>5, <2>6, <2>10 DEF AfterHealthStop, Finish
  <2> QED
    BY <2>1, <2>7, <2>8, <2>9, <2>10
<1>14. CASE StartDataPlane
  BY <1>14 DEF StartDataPlane, RollBack, StopDataPlane, Fresh
<1>15. CASE WaitUntilReady
  BY <1>15, ProxyHasNoApps DEF WaitUntilReady, RollBack, StopDataPlane
<1>16. CASE RouteUp
  BY <1>16 DEF RouteUp, RollBack, StopDataPlane
<1>17. CASE ActivateSplit
  <2>1. PICK error \in BOOLEAN :
          /\ \/ split /\ RefreshRouting(error) /\ UNCHANGED <<split, watching>>
             \/ split /\ (error \/ req.apps = {}) /\ RemoveSplit(error)
             \/ split /\ ApplySplit(req.apps, FALSE, FALSE, error)
             \/ ~split /\ ApplySplit(req.apps, split_table, split_rule, error)
             \/ ~split /\ req.apps = {} /\ UNCHANGED <<split, split_table, split_rule>>
          /\ IF error THEN RollBack ELSE pc' = "dns_up" /\ UNCHANGED <<stopFor, failed>>
    BY <1>17 DEF ActivateSplit
  <2>2. /\ up /\ up' /\ pc = "split_up" /\ mode' = mode /\ mode = "Tun" /\ req' = req
        /\ was_connected' = was_connected
        /\ xray' = xray /\ xray_identity' = xray_identity /\ proc' = proc /\ routes' = routes
        /\ dns' = dns /\ dns_active' = dns_active /\ split_active' = split_active
    BY <1>17 DEF ActivateSplit
  <2>3. /\ split_table' => split'
        /\ ~error => (split' => split_table' /\ split_rule') /\ (req.apps # {} => split')
    <3>1. CASE split /\ RefreshRouting(error) /\ UNCHANGED <<split, watching>>
      BY <3>1, <2>2 DEF RefreshRouting
    <3>2. CASE split /\ (error \/ req.apps = {}) /\ RemoveSplit(error)
      <4>1. ~error /\ ~split' /\ (split_table' => split_table /\ ~split)
        BY <3>2, SplitRemoved
      <4> QED
        BY <4>1, <3>2
    <3>3. CASE split /\ ApplySplit(req.apps, FALSE, FALSE, error)
      <4>1. /\ ~error => split' /\ split_table' /\ split_rule'
            /\ error => ~split' /\ (split_table' => FALSE)
        <5>1. ~May("split_down") /\ ~May("split_lay")
          BY NoTrouble
        <5> QED
          BY <3>3, <5>1 DEF ApplySplit
      <4> QED
        BY <4>1
    <3>4. CASE ~split /\ ApplySplit(req.apps, split_table, split_rule, error)
      <4>1. /\ ~error => split' /\ split_table' /\ split_rule'
            /\ error => ~split' /\ (split_table' => split_table)
        BY <3>4, SplitApplied
      <4> QED
        BY <4>1, <3>4, <2>2
    <3>5. CASE ~split /\ req.apps = {} /\ UNCHANGED <<split, split_table, split_rule>>
      BY <3>5, <2>2
    <3> QED
      BY <2>1, <3>1, <3>2, <3>3, <3>4, <3>5
  <2>4. CASE error
    BY <2>1, <2>2, <2>3, <2>4 DEF RollBack, StopDataPlane
  <2>5. CASE ~error
    BY <2>1, <2>2, <2>3, <2>5
  <2> QED
    BY <2>4, <2>5
<1>18. CASE InstallDns
  BY <1>18 DEF InstallDns, RollBack, StopDataPlane
<1>19. CASE VerifyConnection
  BY <1>19, ProxyHasNoApps DEF VerifyConnection, CommitConnected, Finish, RollBack, StopDataPlane, SplitHealthy
<1>20. CASE ReleaseHoldBlock
  <2>1. ~May("release")
    BY NoTrouble
  <2>2. ~HelperTakesDown(hold, hold', "release", TRUE)
    BY <2>1 DEF HelperTakesDown
  <2>3. CommitConnected
    BY <1>20, <2>2 DEF ReleaseHoldBlock
  <2> QED
    BY <1>20, <2>3 DEF ReleaseHoldBlock, CommitConnected, Finish
<1>21. CASE GiveUp
  BY <1>21 DEF GiveUp, Finish
<1>22. CASE FinishDisconnect
  <2>1. PICK error \in BOOLEAN : /\ HelperTakesDown(hold, hold', "release", error)
                                /\ IF failed \/ error THEN phase' = "RecoveryRequired"
                                   ELSE split_active' = FALSE
    BY <1>22 DEF FinishDisconnect
  <2>2. ~error
    <3>1. ~May("release")
      BY NoTrouble
    <3> QED
      BY <2>1, <3>1 DEF HelperTakesDown
  <2>3. split_active' = FALSE
    BY <1>22, <2>1, <2>2 DEF FinishDisconnect
  <2> QED
    BY <1>22, <2>3 DEF FinishDisconnect, Finish
<1>23. CASE Persist
  BY <1>23 DEF Persist, BecomeIdle, Persisted
<1>24. CASE \E p \in Procs : XrayExits(p)
  BY <1>24 DEF XrayExits
<1>25. CASE DaemonCrash
  BY <1>25 DEF DaemonCrash, BecomeIdle
<1>26. CASE Restart
  <2>1. /\ NoResidue' /\ up' \in BOOLEAN /\ phase' # "Connected" /\ file'.xray = None /\ ~up
        /\ UNCHANGED <<pc, locals, split_active, backend>>
    BY <1>26, RecoverCleans DEF Restart
  <2> QED
    BY <2>1 DEF NoResidue
<1>27. CASE UNCHANGED vars
  BY <1>27 DEF vars
<1> HIDE DEF HostInv
<1> QED
  BY <1>1, <1>2, <1>3, <1>4, <1>5, <1>6, <1>7, <1>8, <1>9, <1>10, <1>11, <1>12,
     <1>13, <1>14, <1>15, <1>16, <1>17, <1>18, <1>19, <1>20, <1>21, <1>22,
     <1>23, <1>24, <1>25, <1>26, <1>27
  DEF Next, CommandSteps, ConnectSteps, StopSteps

\* A teardown that works is enough for the invariant.
LEMMA HostInvHolds ==
    ASSUME TeardownWorks
    PROVE  Spec => [](TypeOK /\ HostInv)
<1>1. Init => HostInv
  BY DEF Init, HostInv, ChildIsKnown, DeadIsBlank, LaidIsArmed, StopAdvances, RestIsBare, PlaneIsAsked,
         SplitIsWhole, SplitIsReported, AtRest, Before, Building, TearingDown, NoPlane, NoSplit, Alive
<1>2. TypeOK /\ HostInv /\ [Next]_vars => HostInv'
  BY StepHostInv
<1> QED
  BY <1>1, <1>2, TypeCorrect, PTL DEF Spec

\* Whatever is on the host at any step of any command, the flags stop_data_plane()
\* looks at name it (system.rs, "Arm lifecycle cleanup before installation").
THEOREM HostIsOwned ==
    ASSUME TeardownWorks
    PROVE  Spec => []HostStateIsOwned
<1>1. HostInv => HostStateIsOwned
  BY DEF HostInv, ChildIsKnown, LaidIsArmed, HostStateIsOwned
<1> QED
  BY <1>1, HostInvHolds, PTL

\* A daemon that says Disconnected has left nothing of a data plane, whether a
\* disconnect, a failed connect or the death of Xray brought it there (lifecycle.rs
\* stop_data_plane and its callers).
THEOREM DisconnectedIsBare ==
    ASSUME TeardownWorks
    PROVE  Spec => []DisconnectedIsTornDown
<1>1. TypeOK /\ HostInv => DisconnectedIsTornDown
  BY NoneAssumption DEF TypeOK, HostInv, ChildIsKnown, RestIsBare, AtRest, NoPlane, NoSplit,
     DisconnectedIsTornDown, TornDown
<1> QED
  BY <1>1, HostInvHolds, PTL

\* A split that is reported to be in force is, also after edits, failed edits and
\* reconnects that kept it (system.rs activate_network, update_split).
THEOREM SplitStaysInForce ==
    ASSUME TeardownWorks
    PROVE  Spec => []SplitIsInForce
<1>1. HostInv => SplitIsInForce
  BY DEF HostInv, SplitIsWhole, SplitIsReported, AtRest, SplitIsInForce
<1> QED
  BY <1>1, HostInvHolds, PTL

\* Between two commands the state file names the only Xray there is (controller.rs
\* persist).
THEOREM RestIsTraced ==
    ASSUME TeardownWorks
    PROVE  Spec => []RestTracesXray
<1>1. HostInv => RestTracesXray
  BY DEF HostInv, ChildIsKnown, RestTracesXray
<1> QED
  BY <1>1, HostInvHolds, PTL

\* A successor that reports Disconnected has left nothing running of a daemon that was
\* killed between two commands (main.rs, recovery.rs cleanup).
THEOREM RestartCleans ==
    ASSUME TeardownWorks
    PROVE  Spec => RestartLeavesNothing
<1> DEFINE Cleans == ~up /\ up' /\ phase' = "Disconnected" => TornDown' /\ ~hold'
<1>1. ASSUME TypeOK, HostInv, [Next]_vars PROVE Cleans
  <2> SUFFICES ASSUME ~up, up' PROVE TornDown' /\ ~hold'
    OBVIOUS
  <2>1. Restart
    BY <1>1 DEF Next, CommandSteps, ConnectSteps, StopSteps, BeginConnect, BeginDisconnect, UpdateSplit,
       DetectDeadXray, Status, Validate, InstallHoldBlock, VerifyHoldBlock, UnholdAfterFailedVerify,
       StartDataPlane, WaitUntilReady, RouteUp, ActivateSplit, InstallDns, VerifyConnection,
       ReleaseHoldBlock, GiveUp, StopSplit, StopDns, StopRoute, StopXray, FinishDisconnect, Persist,
       XrayExits, DaemonCrash, At, vars, memory
  <2> QED
    BY <1>1, <2>1, RecoverCleans DEF NoResidue, TornDown, Alive
<1>2. TypeOK /\ HostInv /\ [Next]_vars => [Cleans]_vars
  BY <1>1
<1> QED
  BY <1>2, HostInvHolds, PTL DEF Spec, RestartLeavesNothing

\* A disconnect that is answered with success has emptied the host (lifecycle.rs
\* disconnect).
THEOREM DisconnectEmpties ==
    ASSUME TeardownWorks
    PROVE  Spec => DisconnectOkMeansEmpty
<1> DEFINE Empties == At("release_all") /\ result' = "ok" => TornDown' /\ ~hold'
<1>1. ASSUME TypeOK, HostInv, Next PROVE Empties
  <2> SUFFICES ASSUME At("release_all") PROVE TornDown' /\ ~hold'
    OBVIOUS
  <2>1. NoPlane /\ NoSplit /\ \A p \in Procs : ~Alive(p)
    BY <1>1, NoneAssumption DEF At, HostInv, ChildIsKnown, RestIsBare, NoPlane
  <2>2. FinishDisconnect
    BY <1>1, <2>1, NoTrouble DEF Next, CommandSteps, ConnectSteps, StopSteps, BeginConnect,
       BeginDisconnect, UpdateSplit, DetectDeadXray, Status, Validate, InstallHoldBlock,
       VerifyHoldBlock, UnholdAfterFailedVerify, StartDataPlane, WaitUntilReady, RouteUp,
       ActivateSplit, InstallDns, VerifyConnection, ReleaseHoldBlock, GiveUp, StopSplit, StopDns,
       StopRoute, StopXray, Persist, XrayExits, DaemonCrash, Restart, At
  <2>3. PICK error \in BOOLEAN : HelperTakesDown(hold, hold', "release", error)
    BY <2>2 DEF FinishDisconnect
  <2>4. ~hold'
    <3>1. ~May("release") /\ ~May("silent")
      BY NoTrouble
    <3> QED
      BY <2>3, <3>1 DEF HelperTakesDown
  <2>5. TornDown'
    BY <2>1, <2>2 DEF FinishDisconnect, NoPlane, NoSplit, TornDown, Alive
  <2> QED
    BY <2>4, <2>5
<1>2. TypeOK /\ HostInv /\ [Next]_vars => [Empties]_vars
  BY <1>1
<1> QED
  BY <1>2, HostInvHolds, PTL DEF Spec, DisconnectOkMeansEmpty
=============================================================================
