-------------------------- MODULE Lifecycle_proofs --------------------------
(***************************************************************************)
(* Proofs about Lifecycle, for any number of processes and applications and  *)
(* any set of faults: every variable keeps its type, and, as long as an      *)
(* installed hold block is never lost, the kill switch and every handover    *)
(* from one data plane to the next are covered by the block, which makes     *)
(* the machinery an implementation of KillSwitch.                            *)
(***************************************************************************)
EXTENDS LifecycleProps, TLAPS

-----------------------------------------------------------------------------
(* Type correctness.                                                        *)

\* What membership in Requests says of a request's fields.
LEMMA RequestFields ==
    ASSUME NEW r \in Requests
    PROVE  r.mode \in Modes /\ r.killswitch \in BOOLEAN /\ r.apps \in SUBSET Apps
BY DEF Requests

\* The daemon idles on a request that is one.
LEMMA NoRequestIsRequest == NoRequest \in Requests
BY DEF NoRequest, Requests, Modes

\* What a faulty removal may leave is a truth value.
LEMMA PossibleLeft == \A fault : {FALSE, May(fault)} \subseteq BOOLEAN
<1> TAKE fault
<1>1. (fault \in Faults) \in BOOLEAN
  OBVIOUS
<1>2. \A b \in BOOLEAN : {FALSE, b} \subseteq BOOLEAN
  OBVIOUS
<1> QED
  BY <1>1, <1>2, Zenon DEF May

\* The first start on a clean host is well typed.
LEMMA InitTypeOK == Init => TypeOK
<1> SUFFICES ASSUME Init PROVE TypeOK
  OBVIOUS
<1>1. ControlTypeOK
  BY NoRequestIsRequest DEF Init, ControlTypeOK, Steps, StopReasons
<1>2. StateTypeOK
  BY DEF Init, StateTypeOK, Phases
<1>3. BackendTypeOK
  BY DEF Init, BackendTypeOK
<1>4. HostTypeOK
  BY DEF Init, HostTypeOK, Phases
<1> QED
  BY <1>1, <1>2, <1>3, <1>4 DEF TypeOK

\* Steps that begin a command keep every type.
LEMMA BeginTypeOK ==
    ASSUME TypeOK,
           \/ \E r \in Requests : BeginConnect(r)
           \/ BeginDisconnect
           \/ \E apps \in SUBSET Apps : UpdateSplit(apps)
           \/ DetectDeadXray
           \/ Status
    PROVE  TypeOK'
<1> USE RequestFields, NoRequestIsRequest
    DEF TypeOK, ControlTypeOK, StateTypeOK, BackendTypeOK, HostTypeOK, Phases, Steps,
        StopReasons, Modes, memory, backend, network, locals, state, guarded
<1>1. CASE \E r \in Requests : BeginConnect(r)
  <2> USE <1>1 DEF BeginConnect
  <2>1. ControlTypeOK'
    OBVIOUS
  <2>2. StateTypeOK'
    OBVIOUS
  <2>3. BackendTypeOK'
    OBVIOUS
  <2>4. HostTypeOK'
    OBVIOUS
  <2> QED
    BY <2>1, <2>2, <2>3, <2>4
<1>2. CASE BeginDisconnect
  <2> USE <1>2 DEF BeginDisconnect, StopDataPlane
  <2>1. ControlTypeOK'
    OBVIOUS
  <2>2. StateTypeOK'
    OBVIOUS
  <2>3. BackendTypeOK'
    OBVIOUS
  <2>4. HostTypeOK'
    OBVIOUS
  <2> QED
    BY <2>1, <2>2, <2>3, <2>4
<1>3. CASE \E apps \in SUBSET Apps : UpdateSplit(apps)
  <2> USE <1>3 DEF UpdateSplit, EditSplit, RemoveSplit, ApplySplit, Finish
  <2>1. ControlTypeOK'
    OBVIOUS
  <2>2. StateTypeOK'
    OBVIOUS
  <2>3. BackendTypeOK'
    OBVIOUS
  <2>4. HostTypeOK'
    OBVIOUS
  <2> QED
    BY <2>1, <2>2, <2>3, <2>4
<1>4. CASE DetectDeadXray
  <2> USE <1>4 DEF DetectDeadXray, StopDataPlane
  <2>1. ControlTypeOK'
    OBVIOUS
  <2>2. StateTypeOK'
    OBVIOUS
  <2>3. BackendTypeOK'
    OBVIOUS
  <2>4. HostTypeOK'
    OBVIOUS
  <2> QED
    BY <2>1, <2>2, <2>3, <2>4
<1>5. CASE Status
  <2> USE <1>5 DEF Status, Finish
  <2>1. ControlTypeOK'
    OBVIOUS
  <2>2. StateTypeOK'
    OBVIOUS
  <2>3. BackendTypeOK'
    OBVIOUS
  <2>4. HostTypeOK'
    OBVIOUS
  <2> QED
    BY <2>1, <2>2, <2>3, <2>4
<1> QED
  BY <1>1, <1>2, <1>3, <1>4, <1>5

\* Steps of a connect up to the stop of the old data plane keep every type.
LEMMA AttemptTypeOK ==
    ASSUME TypeOK,
           \/ Validate
           \/ InstallHoldBlock
           \/ VerifyHoldBlock
           \/ UnholdAfterFailedVerify
    PROVE  TypeOK'
<1> USE RequestFields, NoRequestIsRequest
    DEF TypeOK, ControlTypeOK, StateTypeOK, BackendTypeOK, HostTypeOK, Phases, Steps,
        StopReasons, Modes, memory, backend, network, locals, state, guarded
<1>1. CASE Validate
  <2> USE <1>1 DEF Validate, AfterValidation, Replace, StopDataPlane, Finish, Fallback
  <2>1. ControlTypeOK'
    OBVIOUS
  <2>2. StateTypeOK'
    OBVIOUS
  <2>3. BackendTypeOK'
    OBVIOUS
  <2>4. HostTypeOK'
    OBVIOUS
  <2> QED
    BY <2>1, <2>2, <2>3, <2>4
<1>2. CASE InstallHoldBlock
  <2> USE <1>2 DEF InstallHoldBlock, Finish, Fallback
  <2>1. ControlTypeOK'
    OBVIOUS
  <2>2. StateTypeOK'
    OBVIOUS
  <2>3. BackendTypeOK'
    OBVIOUS
  <2>4. HostTypeOK'
    OBVIOUS
  <2> QED
    BY <2>1, <2>2, <2>3, <2>4
<1>3. CASE VerifyHoldBlock
  <2> USE <1>3 DEF VerifyHoldBlock, Replace, StopDataPlane
  <2>1. ControlTypeOK'
    OBVIOUS
  <2>2. StateTypeOK'
    OBVIOUS
  <2>3. BackendTypeOK'
    OBVIOUS
  <2>4. HostTypeOK'
    OBVIOUS
  <2> QED
    BY <2>1, <2>2, <2>3, <2>4
<1>4. CASE UnholdAfterFailedVerify
  <2> USE <1>4 DEF UnholdAfterFailedVerify, HelperTakesDown, Finish, Fallback
  <2>1. ControlTypeOK'
    OBVIOUS
  <2>2. StateTypeOK'
    OBVIOUS
  <2>3. BackendTypeOK'
    OBVIOUS
  <2>4. HostTypeOK'
    OBVIOUS
  <2> QED
    BY <2>1, <2>2, <2>3, <2>4
<1> QED
  BY <1>1, <1>2, <1>3, <1>4

\* Steps of stop_data_plane keep every type.
LEMMA StopTypeOK ==
    ASSUME TypeOK,
           \/ StopSplit
           \/ StopDns
           \/ StopRoute
           \/ StopXray
    PROVE  TypeOK'
<1> USE RequestFields, NoRequestIsRequest
    DEF TypeOK, ControlTypeOK, StateTypeOK, BackendTypeOK, HostTypeOK, Phases, Steps,
        StopReasons, Modes, memory, backend, network, locals, state, guarded
<1>1. CASE StopSplit
  <2> USE <1>1 DEF StopSplit, RemoveSplit
  <2>1. ControlTypeOK'
    OBVIOUS
  <2>2. StateTypeOK'
    OBVIOUS
  <2>3. BackendTypeOK'
    OBVIOUS
  <2>4. HostTypeOK'
    OBVIOUS
  <2> QED
    BY <2>1, <2>2, <2>3, <2>4
<1>2. CASE StopDns
  <2> USE <1>2 DEF StopDns
  <2>1. ControlTypeOK'
    OBVIOUS
  <2>2. StateTypeOK'
    OBVIOUS
  <2>3. BackendTypeOK'
    OBVIOUS
  <2>4. HostTypeOK'
    OBVIOUS
  <2> QED
    BY <2>1, <2>2, <2>3, <2>4
<1>3. CASE StopRoute
  <2> USE <1>3 DEF StopRoute, HelperTakesDown
  <2>1. ControlTypeOK'
    OBVIOUS
  <2>2. StateTypeOK'
    OBVIOUS
  <2>3. BackendTypeOK'
    OBVIOUS
  <2>4. HostTypeOK'
    OBVIOUS
  <2> QED
    BY <2>1, <2>2, <2>3, <2>4
<1>4. CASE StopXray
  <2> USE <1>4 DEF StopXray, TerminateXray, AfterReconnectStop, AfterRollbackStop,
          AfterDisconnectStop, AfterHealthStop, Finish
  <2>1. ControlTypeOK'
    OBVIOUS
  <2>2. StateTypeOK'
    OBVIOUS
  <2>3. BackendTypeOK'
    OBVIOUS
  <2>4. HostTypeOK'
    OBVIOUS
  <2> QED
    BY <2>1, <2>2, <2>3, <2>4
<1> QED
  BY <1>1, <1>2, <1>3, <1>4

\* Steps that build the new data plane keep every type.
LEMMA StartTypeOK ==
    ASSUME TypeOK,
           \/ StartDataPlane
           \/ WaitUntilReady
           \/ RouteUp
           \/ ActivateSplit
           \/ InstallDns
           \/ VerifyConnection
    PROVE  TypeOK'
<1> USE RequestFields, NoRequestIsRequest
    DEF TypeOK, ControlTypeOK, StateTypeOK, BackendTypeOK, HostTypeOK, Phases, Steps,
        StopReasons, Modes, memory, backend, network, locals, state, guarded
<1>1. CASE StartDataPlane
  <2> USE <1>1 DEF StartDataPlane, RollBack, StopDataPlane, Fresh
  <2>1. ControlTypeOK'
    OBVIOUS
  <2>2. StateTypeOK'
    OBVIOUS
  <2>3. BackendTypeOK'
    OBVIOUS
  <2>4. HostTypeOK'
    OBVIOUS
  <2> QED
    BY <2>1, <2>2, <2>3, <2>4
<1>2. CASE WaitUntilReady
  <2> USE <1>2 DEF WaitUntilReady, RollBack, StopDataPlane
  <2>1. ControlTypeOK'
    OBVIOUS
  <2>2. StateTypeOK'
    OBVIOUS
  <2>3. BackendTypeOK'
    OBVIOUS
  <2>4. HostTypeOK'
    OBVIOUS
  <2> QED
    BY <2>1, <2>2, <2>3, <2>4
<1>3. CASE RouteUp
  <2> USE <1>3 DEF RouteUp, RollBack, StopDataPlane
  <2>1. ControlTypeOK'
    OBVIOUS
  <2>2. StateTypeOK'
    OBVIOUS
  <2>3. BackendTypeOK'
    OBVIOUS
  <2>a. {FALSE, May("silent")} \subseteq BOOLEAN
    BY PossibleLeft
  <2>4. HostTypeOK'
    BY <2>a
  <2> QED
    BY <2>1, <2>2, <2>3, <2>4
<1>4. CASE ActivateSplit
  <2> USE <1>4 DEF ActivateSplit, RefreshRouting, RemoveSplit, ApplySplit, RollBack,
          StopDataPlane
  <2>1. ControlTypeOK'
    OBVIOUS
  <2>2. StateTypeOK'
    OBVIOUS
  <2>3. BackendTypeOK'
    OBVIOUS
  <2>4. HostTypeOK'
    OBVIOUS
  <2> QED
    BY <2>1, <2>2, <2>3, <2>4
<1>5. CASE InstallDns
  <2> USE <1>5 DEF InstallDns, RollBack, StopDataPlane
  <2>1. ControlTypeOK'
    OBVIOUS
  <2>2. StateTypeOK'
    OBVIOUS
  <2>3. BackendTypeOK'
    OBVIOUS
  <2>a. {FALSE, May("dns_guard")} \subseteq BOOLEAN
    BY PossibleLeft
  <2>4. HostTypeOK'
    BY <2>a
  <2> QED
    BY <2>1, <2>2, <2>3, <2>4
<1>6. CASE VerifyConnection
  <2> USE <1>6 DEF VerifyConnection, CommitConnected, BlocksOnFailure, Finish, RollBack,
          StopDataPlane
  <2>1. ControlTypeOK'
    OBVIOUS
  <2>2. StateTypeOK'
    OBVIOUS
  <2>3. BackendTypeOK'
    OBVIOUS
  <2>4. HostTypeOK'
    OBVIOUS
  <2> QED
    BY <2>1, <2>2, <2>3, <2>4
<1> QED
  BY <1>1, <1>2, <1>3, <1>4, <1>5, <1>6

\* Steps that end a command keep every type.
LEMMA EndTypeOK ==
    ASSUME TypeOK,
           \/ ReleaseHoldBlock
           \/ GiveUp
           \/ FinishDisconnect
           \/ Persist
    PROVE  TypeOK'
<1> USE RequestFields, NoRequestIsRequest
    DEF TypeOK, ControlTypeOK, StateTypeOK, BackendTypeOK, HostTypeOK, Phases, Steps,
        StopReasons, Modes, memory, backend, network, locals, state, guarded
<1>1. CASE ReleaseHoldBlock
  <2> USE <1>1 DEF ReleaseHoldBlock, HelperTakesDown, CommitConnected, BlocksOnFailure,
          Finish
  <2>1. ControlTypeOK'
    OBVIOUS
  <2>2. StateTypeOK'
    OBVIOUS
  <2>3. BackendTypeOK'
    OBVIOUS
  <2>4. HostTypeOK'
    OBVIOUS
  <2> QED
    BY <2>1, <2>2, <2>3, <2>4
<1>2. CASE GiveUp
  <2> USE <1>2 DEF GiveUp, HelperTakesDown, Finish
  <2>1. ControlTypeOK'
    OBVIOUS
  <2>2. StateTypeOK'
    OBVIOUS
  <2>3. BackendTypeOK'
    OBVIOUS
  <2>4. HostTypeOK'
    OBVIOUS
  <2> QED
    BY <2>1, <2>2, <2>3, <2>4
<1>3. CASE FinishDisconnect
  <2> USE <1>3 DEF FinishDisconnect, HelperTakesDown, Finish
  <2>1. ControlTypeOK'
    OBVIOUS
  <2>2. StateTypeOK'
    OBVIOUS
  <2>3. BackendTypeOK'
    OBVIOUS
  <2>4. HostTypeOK'
    OBVIOUS
  <2> QED
    BY <2>1, <2>2, <2>3, <2>4
<1>4. CASE Persist
  <2> USE <1>4 DEF Persist, BecomeIdle, Persisted
  <2>1. ControlTypeOK'
    OBVIOUS
  <2>2. StateTypeOK'
    OBVIOUS
  <2>3. BackendTypeOK'
    OBVIOUS
  <2>4. HostTypeOK'
    OBVIOUS
  <2> QED
    BY <2>1, <2>2, <2>3, <2>4
<1> QED
  BY <1>1, <1>2, <1>3, <1>4

\* Steps of the environment, and the restart keep every type.
LEMMA EnvironmentTypeOK ==
    ASSUME TypeOK,
           \/ \E p \in Procs : XrayExits(p)
           \/ DaemonCrash
           \/ Restart
    PROVE  TypeOK'
<1> USE RequestFields, NoRequestIsRequest
    DEF TypeOK, ControlTypeOK, StateTypeOK, BackendTypeOK, HostTypeOK, Phases, Steps,
        StopReasons, Modes, memory, backend, network, locals, state, guarded
<1>1. CASE \E p \in Procs : XrayExits(p)
  <2> USE <1>1 DEF XrayExits
  <2>1. ControlTypeOK'
    OBVIOUS
  <2>2. StateTypeOK'
    OBVIOUS
  <2>3. BackendTypeOK'
    OBVIOUS
  <2>4. HostTypeOK'
    OBVIOUS
  <2> QED
    BY <2>1, <2>2, <2>3, <2>4
<1>2. CASE DaemonCrash
  <2> USE <1>2 DEF DaemonCrash, BecomeIdle
  <2>1. ControlTypeOK'
    OBVIOUS
  <2>2. StateTypeOK'
    OBVIOUS
  <2>3. BackendTypeOK'
    OBVIOUS
  <2>4. HostTypeOK'
    OBVIOUS
  <2> QED
    BY <2>1, <2>2, <2>3, <2>4
<1>3. CASE Restart
  <2> USE <1>3 DEF Restart, Recover
  <2>1. ControlTypeOK'
    OBVIOUS
  <2>2. StateTypeOK'
    OBVIOUS
  <2>3. BackendTypeOK'
    OBVIOUS
  <2>4. HostTypeOK'
    OBVIOUS
  <2> QED
    BY <2>1, <2>2, <2>3, <2>4
<1> QED
  BY <1>1, <1>2, <1>3

\* Every step, the stuttering one included, keeps every type.
LEMMA StepTypeOK == TypeOK /\ [Next]_vars => TypeOK'
<1> SUFFICES ASSUME TypeOK, [Next]_vars PROVE TypeOK'
  OBVIOUS
<1>1. CASE Next
  BY <1>1, BeginTypeOK, AttemptTypeOK, StopTypeOK, StartTypeOK, EndTypeOK, EnvironmentTypeOK
  DEF Next, CommandSteps, ConnectSteps, StopSteps
<1>2. CASE UNCHANGED vars
  BY <1>2 DEF vars, memory, backend, network, locals, state, TypeOK, ControlTypeOK,
              StateTypeOK, BackendTypeOK, HostTypeOK
<1> QED
  BY <1>1, <1>2

\* Every variable of the daemon and of the host keeps its type for ever, with
\* any processes, applications and faults (lifecycle.rs, controller.rs, system.rs).
THEOREM TypeCorrect == Spec => []TypeOK
<1>1. Init => TypeOK
  BY InitTypeOK
<1>2. TypeOK /\ [Next]_vars => TypeOK'
  BY StepTypeOK
<1> QED
  BY <1>1, <1>2, PTL DEF Spec

-----------------------------------------------------------------------------
(* The kill switch.                                                         *)
(*                                                                         *)
(* KillSwitchHolds is not inductive: whether a step may remove the block      *)
(* depends on where the command stands and on what connect() has found.       *)

\* The calls connect() makes between finding the block in place and lifting it.
Behind == {"verify_hold", "start", "ready", "route_up", "split_up", "dns_up",
           "check", "release", "give_up"}

TearingDown == {"stop_split", "stop_dns", "stop_route", "stop_xray"}

Exchanging == pc \in TearingDown /\ stopFor \in {"reconnect", "rollback"}

\* A tunnel's attempt, once it has its block, runs behind it.
AttemptIsBehindHold ==
    /\ guarded /\ (pc \in Behind \/ Exchanging) => hold
    /\ pc = "verify_hold" => hold

\* An attempt that may end by lifting the block is one without kill switch.
AttemptKeepsWish ==
    /\ armed /\ (pc \in {"validate", "install"} \cup Behind \/ Exchanging)
         => was_connected \/ ~guarded \/ req.killswitch
    /\ pc \in {"release", "give_up", "release_all"} => ~armed
    /\ pc = "release" => ~req.killswitch
    /\ pc \in TearingDown /\ stopFor = "disconnect" => ~armed

\* A tunnel that will turn into a block when it dies has its block already.
BlockOnFailureIsReady ==
    block_on_failure /\ phase \in {"Connected", "Reconnecting"} => hold

\* Where connect() and reconcile_health() stand in the phases.
PhaseFollowsCommand ==
    /\ was_connected /\ pc \in {"validate", "install", "verify_hold"}
         => phase = "Reconnecting"
    /\ pc \in TearingDown /\ stopFor = "health" => phase = "Connected"
    /\ pc # "unhold"
    /\ ~up => pc = "idle"

GuardInv ==
    /\ KillSwitchHolds /\ BlockingIsBlocked
    /\ AttemptIsBehindHold /\ AttemptKeepsWish
    /\ BlockOnFailureIsReady /\ PhaseFollowsCommand

\* An idle daemon's request asks for no block.
LEMMA NoRequestIsGuardless == NoRequest.mode # "Tun"
BY DEF NoRequest

\* Every step keeps the inductive invariant, if the block stays once installed.
LEMMA StepGuardInv ==
    ASSUME "verify" \notin Faults, TypeOK, GuardInv, [Next]_vars
    PROVE  GuardInv'
<1> USE DEF TypeOK, ControlTypeOK, StateTypeOK, Steps, StopReasons, Phases, At, memory, backend, network,
        locals, state, guarded, GuardInv, KillSwitchHolds, BlockingIsBlocked,
        AttemptIsBehindHold, AttemptKeepsWish, BlockOnFailureIsReady, PhaseFollowsCommand,
        Behind, TearingDown, Exchanging
<1>1. CASE \E r \in Requests : BeginConnect(r)
  <2>1. PICK r \in Requests : BeginConnect(r)
    BY <1>1
  <2>2. was_connected' <=> phase = "Connected"
    BY <2>1 DEF BeginConnect
  <2>3. armed' => armed /\ (phase = "Connected" \/ r.mode = "Proxy" \/ r.killswitch)
    BY <2>1 DEF BeginConnect
  <2>4. KillSwitchHolds' /\ BlockingIsBlocked' /\ AttemptIsBehindHold'
        /\ BlockOnFailureIsReady' /\ PhaseFollowsCommand'
    BY <2>1, <2>2, <2>3 DEF BeginConnect
  <2>5. AttemptKeepsWish'
    BY <2>1, <2>2, <2>3 DEF BeginConnect
  <2> QED
    BY <2>4, <2>5
<1>2. CASE BeginDisconnect
  BY <1>2 DEF BeginDisconnect, StopDataPlane
<1>3. CASE \E apps \in SUBSET Apps : UpdateSplit(apps)
  BY <1>3 DEF UpdateSplit, Finish
<1>4. CASE DetectDeadXray
  BY <1>4 DEF DetectDeadXray, StopDataPlane
<1>5. CASE Status
  BY <1>5 DEF Status, Finish
<1>6. CASE Validate
  BY <1>6 DEF Validate, AfterValidation, Replace, StopDataPlane, Finish, Fallback
<1>7. CASE InstallHoldBlock
  BY <1>7 DEF InstallHoldBlock, Finish, Fallback, May
<1>8. CASE VerifyHoldBlock
  BY <1>8, RequestFields DEF VerifyHoldBlock, Replace, StopDataPlane, May
<1>9. CASE UnholdAfterFailedVerify
  BY <1>9 DEF UnholdAfterFailedVerify
<1>10. CASE StopSplit
  BY <1>10 DEF StopSplit
<1>11. CASE StopDns
  BY <1>11 DEF StopDns
<1>12. CASE StopRoute
  BY <1>12 DEF StopRoute
<1>13. CASE StopXray
  BY <1>13 DEF StopXray, AfterReconnectStop, AfterRollbackStop, AfterDisconnectStop,
         AfterHealthStop, KeepsBlock, Finish
<1>14. CASE StartDataPlane
  BY <1>14 DEF StartDataPlane, RollBack, StopDataPlane
<1>15. CASE WaitUntilReady
  BY <1>15 DEF WaitUntilReady, RollBack, StopDataPlane
<1>16. CASE RouteUp
  BY <1>16 DEF RouteUp, RollBack, StopDataPlane
<1>17. CASE ActivateSplit
  BY <1>17 DEF ActivateSplit, RollBack, StopDataPlane
<1>18. CASE InstallDns
  BY <1>18 DEF InstallDns, RollBack, StopDataPlane
<1>19. CASE VerifyConnection
  BY <1>19, RequestFields DEF VerifyConnection, CommitConnected, BlocksOnFailure, Finish, RollBack,
         StopDataPlane
<1>20. CASE ReleaseHoldBlock
  BY <1>20 DEF ReleaseHoldBlock, HelperTakesDown, CommitConnected, BlocksOnFailure,
         Finish
<1>21. CASE GiveUp
  BY <1>21 DEF GiveUp, Finish
<1>22. CASE FinishDisconnect
  BY <1>22 DEF FinishDisconnect, Finish
<1>23. CASE Persist
  BY <1>23, NoRequestIsGuardless DEF Persist, BecomeIdle
<1>24. CASE \E p \in Procs : XrayExits(p)
  BY <1>24 DEF XrayExits
<1>25. CASE DaemonCrash
  BY <1>25, NoRequestIsGuardless DEF DaemonCrash, BecomeIdle
<1>26. CASE Restart
  BY <1>26 DEF Restart, Recover
<1>27. CASE UNCHANGED vars
  BY <1>27 DEF vars
<1> HIDE DEF GuardInv
<1> QED
  BY <1>1, <1>2, <1>3, <1>4, <1>5, <1>6, <1>7, <1>8, <1>9, <1>10, <1>11, <1>12,
     <1>13, <1>14, <1>15, <1>16, <1>17, <1>18, <1>19, <1>20, <1>21, <1>22,
     <1>23, <1>24, <1>25, <1>26, <1>27
  DEF Next, CommandSteps, ConnectSteps, StopSteps

\* The invariant covers every moment in which the data plane is exchanged.
LEMMA GuardInvCoversHandover == TypeOK /\ GuardInv => HandoverIsGuarded
BY DEF GuardInv, AttemptIsBehindHold, HandoverIsGuarded, Swapping, Behind, Exchanging,
       TearingDown, TypeOK, ControlTypeOK, Steps, StopReasons

\* A block that is not lost once installed is enough for the invariant.
LEMMA GuardInvHolds ==
    ASSUME "verify" \notin Faults
    PROVE  Spec => [](TypeOK /\ GuardInv)
<1>1. Init => GuardInv
  BY NoRequestIsGuardless
  DEF Init, GuardInv, KillSwitchHolds, BlockingIsBlocked, AttemptIsBehindHold,
      AttemptKeepsWish, BlockOnFailureIsReady, PhaseFollowsCommand, Behind, TearingDown,
      Exchanging, guarded
<1>2. TypeOK /\ GuardInv /\ [Next]_vars => GuardInv'
  BY StepGuardInv
<1> QED
  BY <1>1, <1>2, TypeCorrect, PTL DEF Spec

\* A kill switch that is on has its table in place at every step of every
\* command, through the death of Xray and of the daemon, under every fault but
\* the loss of the block itself (lifecycle.rs connect, reconcile_health).
THEOREM KillSwitchIsKept ==
    ASSUME "verify" \notin Faults
    PROVE  Spec => []KillSwitchHolds
<1>1. GuardInv => KillSwitchHolds
  BY DEF GuardInv
<1> QED
  BY <1>1, GuardInvHolds, PTL

\* The phase Blocking is never a lie (lifecycle.rs connect, reconcile_health).
THEOREM BlockingIsTrue ==
    ASSUME "verify" \notin Faults
    PROVE  Spec => []BlockingIsBlocked
<1>1. GuardInv => BlockingIsBlocked
  BY DEF GuardInv
<1> QED
  BY <1>1, GuardInvHolds, PTL

\* No tunnel is replaced in the open (lifecycle.rs connect).
THEOREM HandoverIsCovered ==
    ASSUME "verify" \notin Faults
    PROVE  Spec => []HandoverIsGuarded
<1> QED
  BY GuardInvCoversHandover, GuardInvHolds, PTL

-----------------------------------------------------------------------------
(* The machinery implements the promise of KillSwitch.                      *)

\* The path of a packet is one of three, and a block rules one of them out.
LEMMA PathUnderHold ==
    /\ TrafficPath \in {"direct", "tunnel", "blocked"}
    /\ hold => TrafficPath # "direct"
BY DEF TrafficPath

\* The same of the next state.
LEMMA NextPathUnderHold ==
    /\ TrafficPath' \in {"direct", "tunnel", "blocked"}
    /\ hold' => TrafficPath' # "direct"
BY DEF TrafficPath

\* Init is the initial state of the promise.
LEMMA PromiseInit == Init => Promise!Init
<1> SUFFICES ASSUME Init PROVE Promise!Init
  OBVIOUS
<1>1. TrafficPath = "direct"
  BY DEF Init, TrafficPath
<1>2. Swapping = FALSE
  BY NoRequestIsGuardless DEF Init, Swapping, guarded
<1> QED
  BY <1>1, <1>2 DEF Init, Promise!Init

\* Without its block a state is not protected.
LEMMA OpenIsUnprotected == TypeOK /\ GuardInv /\ ~hold => ~armed /\ ~Swapping
BY GuardInvCoversHandover DEF GuardInv, KillSwitchHolds, HandoverIsGuarded

\* The same of the next state.
LEMMA NextOpenIsUnprotected == TypeOK' /\ GuardInv' /\ ~hold' => ~armed' /\ ~Swapping'
BY OpenIsUnprotected, PTL

\* A running daemon lifts the block at three calls only.
LEMMA WhoLifts ==
    ASSUME "verify" \notin Faults, GuardInv, Next, up, hold, ~hold'
    PROVE  pc \in {"release", "give_up", "release_all"}
<1> SUFFICES ASSUME pc \notin {"release", "give_up", "release_all"} PROVE hold'
  OBVIOUS
<1> USE DEF At, network, memory, backend
<1>1. CASE \/ \E r \in Requests : BeginConnect(r)
           \/ BeginDisconnect
           \/ \E apps \in SUBSET Apps : UpdateSplit(apps)
           \/ DetectDeadXray
           \/ Status
           \/ \E p \in Procs : XrayExits(p)
           \/ DaemonCrash
           \/ Restart
  BY <1>1 DEF BeginConnect, BeginDisconnect, UpdateSplit, DetectDeadXray, Status, XrayExits,
              DaemonCrash, Restart
<1>2. CASE StopSteps \/ FinishDisconnect \/ Persist
  BY <1>2 DEF StopSteps, StopSplit, StopDns, StopRoute, StopXray, FinishDisconnect, Persist
<1>3. CASE ConnectSteps
  <2>1. CASE Validate \/ VerifyHoldBlock \/ UnholdAfterFailedVerify \/ ReleaseHoldBlock \/ GiveUp
    BY <2>1 DEF Validate, VerifyHoldBlock, UnholdAfterFailedVerify, ReleaseHoldBlock, GiveUp,
                GuardInv, PhaseFollowsCommand
  <2>2. CASE InstallHoldBlock
    BY <2>2 DEF InstallHoldBlock, May
  <2>3. CASE StartDataPlane \/ WaitUntilReady \/ RouteUp \/ ActivateSplit \/ InstallDns
             \/ VerifyConnection
    BY <2>3 DEF StartDataPlane, WaitUntilReady, RouteUp, ActivateSplit, InstallDns,
                VerifyConnection
  <2> QED
    BY <1>3, <2>1, <2>2, <2>3 DEF ConnectSteps
<1> QED
  BY <1>1, <1>2, <1>3 DEF Next, CommandSteps

\* While the daemon runs, a step lifts the block only where neither side of it
\* is protected.
LEMMA LiftedInTheOpen ==
    ASSUME "verify" \notin Faults, TypeOK, GuardInv, TypeOK', GuardInv', Next, up, ~hold'
    PROVE  ~armed /\ ~Swapping /\ ~armed' /\ ~Swapping'
<1>1. ~armed' /\ ~Swapping'
  BY NextOpenIsUnprotected
<1>2. CASE ~hold
  BY <1>1, <1>2, OpenIsUnprotected
<1>3. CASE hold
  <2>1. pc \in {"release", "give_up", "release_all"}
    BY <1>3, WhoLifts
  <2> QED
    BY <1>1, <2>1 DEF GuardInv, AttemptKeepsWish, Swapping
<1> QED
  BY <1>2, <1>3

\* Every step of the machinery is a step of the promise or leaves it alone.
LEMMA PromiseStep ==
    ASSUME "verify" \notin Faults, TypeOK, GuardInv, TypeOK', GuardInv', [Next]_vars
    PROVE  [Promise!Next]_(Promise!vars)
<1> DEFINE Paths == {"direct", "tunnel", "blocked"}
<1>0. TrafficPath' \in Paths /\ (hold' => TrafficPath' # "direct")
  BY NextPathUnderHold
<1>a. armed' \in BOOLEAN /\ Swapping' \in BOOLEAN /\ up' \in BOOLEAN /\ up \in BOOLEAN
  BY DEF TypeOK, StateTypeOK, ControlTypeOK, Swapping
<1>1. CASE UNCHANGED vars
  BY <1>1 DEF Promise!vars, vars, memory, backend, network, locals, state, TrafficPath, Swapping,
              guarded, Tunnelled
<1>2. CASE Next /\ up /\ up'
  <2>1. armed \/ Swapping \/ armed' \/ Swapping' => hold'
    BY <1>2, LiftedInTheOpen
  <2>2. Promise!Move
    BY <1>2, <1>0, <1>a, <2>1 DEF Promise!Move, Promise!Paths, Promise!Protected
  <2> QED
    BY <2>2 DEF Promise!Next
<1>3. CASE Next /\ up /\ ~up'
  <2>1. DaemonCrash
    BY <1>3 DEF Next, CommandSteps, ConnectSteps, StopSteps, BeginConnect, BeginDisconnect, UpdateSplit,
           DetectDeadXray, Status, Validate, InstallHoldBlock, VerifyHoldBlock,
           UnholdAfterFailedVerify, StartDataPlane, WaitUntilReady, RouteUp, ActivateSplit,
           InstallDns, VerifyConnection, ReleaseHoldBlock, GiveUp, StopSplit, StopDns, StopRoute,
           StopXray, FinishDisconnect, Persist, XrayExits, Restart, memory
  <2>2. ~Swapping' /\ armed' = armed /\ TrafficPath' = TrafficPath
    BY <2>1, <1>3 DEF DaemonCrash, Swapping, TrafficPath, Tunnelled
  <2> QED
    BY <1>3, <1>a, <2>2 DEF Promise!Die, Promise!Next
<1>4. CASE Next /\ ~up
  <2>1. CASE Restart
    <3>1. ~armed' /\ ~Swapping'
      BY <2>1, <1>4 DEF Restart, Swapping, GuardInv, PhaseFollowsCommand
    <3> QED
      BY <1>4, <1>0, <1>a, <3>1 DEF Promise!Restart, Promise!Paths, Promise!Next
  <2>2. CASE \E p \in Procs : XrayExits(p)
    <3>1. up' = up /\ armed' = armed /\ Swapping' = Swapping /\ hold' = hold
      BY <2>2 DEF XrayExits, memory, locals, network, Swapping, guarded
    <3>2. ~Swapping /\ (armed => hold')
      BY <1>4, <3>1 DEF Swapping, GuardInv, KillSwitchHolds
    <3> QED
      BY <1>4, <1>0, <3>1, <3>2 DEF Promise!Drift, Promise!Paths, Promise!Protected, Promise!Next
  <2> QED
    BY <1>4, <2>1, <2>2 DEF Next, CommandSteps, ConnectSteps, StopSteps, BeginConnect,
       BeginDisconnect, UpdateSplit, DetectDeadXray, Status, Validate, InstallHoldBlock,
       VerifyHoldBlock, UnholdAfterFailedVerify, StartDataPlane, WaitUntilReady, RouteUp,
       ActivateSplit, InstallDns, VerifyConnection, ReleaseHoldBlock, GiveUp, StopSplit, StopDns,
       StopRoute, StopXray, FinishDisconnect, Persist, DaemonCrash, At
<1> QED
  BY <1>1, <1>2, <1>3, <1>4, <1>a

\* Whatever else fails, the daemon, its backend, its monitor and its restarts
\* implement the promise of the kill switch (lifecycle.rs connect, disconnect,
\* reconcile_health; main.rs).
THEOREM ImplementsPromise ==
    ASSUME "verify" \notin Faults
    PROVE  Spec => KeepsPromise
<1>1. TypeOK /\ GuardInv /\ TypeOK' /\ GuardInv' /\ [Next]_vars => [Promise!Next]_(Promise!vars)
  BY PromiseStep
<1> QED
  BY <1>1, PromiseInit, GuardInvHolds, PTL DEF Spec, KeepsPromise, Promise!Spec
=============================================================================
