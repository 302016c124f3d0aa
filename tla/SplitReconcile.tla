-------------------------- MODULE SplitReconcile --------------------------
(***************************************************************************)
(* Which of the user's processes go past the tunnel: the live part of       *)
(* daemon/src/split.  Three activities share the bypass cgroup.             *)
(*   - A command (apply, update_plan, rollback), one at a time under the    *)
(*     lifecycle's mutex.                                                   *)
(*   - The permission watcher, a thread that moves a process when it asks   *)
(*     to execute a listed program.                                         *)
(*   - The reconciler, a thread that walks /proc once a second, moves what  *)
(*     the watcher could not see and takes back what is no longer listed.   *)
(* Meanwhile processes fork, execute, enter a sandbox and exit.  A walk is  *)
(* many steps, and all of this happens between any two of them.             *)
(***************************************************************************)
EXTENDS Naturals, FiniteSets

CONSTANTS
    Pids,       \* pids the user's processes may get
    Names,      \* rules that name a program (ExactPath, ProcessName)
    Ids,        \* rules that name a sandbox application (is_application_id)
    None,
    MaxOwned,   \* MAX_OWNED_PIDS
    Deaths,     \* bound: exits in a behaviour
    Commands,   \* bound: commands in a behaviour
    Faults      \* what the host may do to a command or a thread

FaultKinds == {"setup",     \* cgroup, BPF program, routing or direct DNS
               "plan",      \* a listed path no longer exists
               "watch",     \* fanotify cannot be set up
               "thread",    \* the reconciler's thread or its cgroup handle
               "deny",      \* the watcher cannot move the process it stopped
               "sick",      \* the watcher's thread ends on a bad event
               "out"}       \* a process cannot be moved out of the bypass

ASSUME RulesAssumption == Names \cap Ids = {} /\ None \notin Names \cup Ids \cup Pids
ASSUME BoundsAssumption ==
    MaxOwned \in Nat /\ Deaths \in Nat /\ Commands \in Nat
ASSUME SplitFaultsAssumption == Faults \subseteq FaultKinds

Rules == Names \cup Ids
Plans == (SUBSET Rules) \ {{}}

\* The cgroup of a process: the bypass, the leaf move_out() uses, or elsewhere.
Groups == {"elsewhere", "bypass", "tunneled"}

VARIABLES
    \* ---- processes of the user
    live,       \* pids in use
    image,      \* program a process runs: a name some rule lists, or None
    scope,      \* sandbox application its original cgroup is named after
    group,      \* cgroup it is in
    parent,     \* parent process, None when it is not one of the user's
    \* ---- SystemSplitBackend, and the SplitManager around it
    status,     \* "none" (no manager), "Active"
    command,    \* step of the command that runs
    op,         \* that command
    plan,       \* its application list
    answer,     \* what the last command was answered with
    selectors,
    watcher,    \* [state, rules] of the permission watcher
    reconciler, \* [state, rules] of the reconciler's thread
    stop,       \* reconcile_stop
    owned,      \* pid to the rule that moved it
    routing,    \* mark and route rules of the bypass are laid
    walk,       \* the walk over /proc that holds the lock on `owned`
    \* ---- history
    cause,      \* rule whose move a process in the bypass is there for
    retracted,  \* an application was taken off the list of the live split
    deaths, commands

processes == <<live, image, scope, group, parent>>
backend == <<status, command, op, plan, answer, selectors>>
threads == <<watcher, reconciler, stop>>
counters == <<deaths, commands>>
vars == <<processes, backend, threads, owned, routing, walk, cause, retracted,
          counters>>

May(fault) == fault \in Faults

NoOne == [p \in Pids |-> None]
NoWalk == [by |-> "nobody", at |-> "sweep", rules |-> {}, todo |-> {},
           members |-> {}, eject |-> {}]
NoThread == [state |-> "none", rules |-> {}]

-----------------------------------------------------------------------------
(* Initial state: the session runs one process, no split has been applied.   *)

Init ==
    /\ \E p \in Pids : live = {p}
    /\ image = NoOne /\ scope = NoOne /\ parent = NoOne
    /\ group = [p \in Pids |-> "elsewhere"]
    /\ status = "none" /\ command = "idle" /\ op = "none" /\ plan = {} /\ answer = "ok"
    /\ selectors = {} /\ watcher = NoThread /\ reconciler = NoThread
    /\ stop = FALSE /\ owned = NoOne /\ routing = FALSE /\ walk = NoWalk
    /\ cause = NoOne /\ retracted = FALSE
    /\ deaths = 0 /\ commands = 0

-----------------------------------------------------------------------------
(* What a rule says of a process (process.rs).                               *)

\* AppSelector::matches.
MatchesImage(rule, p) == rule = image[p]

\* AppSelector::matched_application_id: the scope is what the cgroup is named
\* after, so it is lost with the first move.
MatchesScope(rule, p) ==
    rule \in Ids /\ group[p] = "elsewhere" /\ rule = scope[p]

Listed(p, rules) == {r \in rules : MatchesImage(r, p) \/ MatchesScope(r, p)}

\* A process and everything below it.
Subtree(root) ==
    {p \in Pids : \A S \in SUBSET Pids :
        (root \in S /\ \A q \in live : parent[q] \in S => q \in S) => p \in S}

-----------------------------------------------------------------------------
(* The user's processes.                                                     *)

\* A child is born into its parent's cgroup and runs its parent's program.  A
\* walk may or may not come across it.
Fork(p, child) ==
    /\ p \in live /\ child \notin live
    /\ live' = live \cup {child}
    /\ image' = [image EXCEPT ![child] = image[p]]
    /\ scope' = [scope EXCEPT ![child] = scope[p]]
    /\ group' = [group EXCEPT ![child] = group[p]]
    /\ parent' = [parent EXCEPT ![child] = p]
    /\ cause' = [cause EXCEPT ![child] = cause[p]]
    /\ \/ UNCHANGED walk
       \/ walk.by # "nobody" /\ walk.at = "sweep" /\ walk' = [walk EXCEPT !.todo = @ \cup {child}]
    /\ UNCHANGED <<backend, threads, owned, routing, retracted, deaths, commands>>

\* The session manager gives an application somebody launched a scope of its own.
EnterScope(p, id) ==
    /\ p \in live /\ scope[p] = None /\ parent[p] # None
    /\ scope' = [scope EXCEPT ![p] = id]
    /\ group' = [group EXCEPT ![p] = "elsewhere"]
    /\ cause' = [cause EXCEPT ![p] = None]
    /\ UNCHANGED <<live, image, parent, backend, threads, owned, routing, walk,
                   retracted, counters>>

Forget(f, p) == [f EXCEPT ![p] = None]

\* A process ends; its children are not the user's to walk to any more.
Gone(p) ==
    /\ deaths < Deaths /\ deaths' = deaths + 1
    /\ live' = live \ {p}
    /\ image' = Forget(image, p) /\ scope' = Forget(scope, p)
    /\ cause' = Forget(cause, p)
    /\ group' = [group EXCEPT ![p] = "elsewhere"]
    /\ parent' = [q \in Pids |-> IF q = p \/ parent[q] = p THEN None ELSE parent[q]]

Exit(p) ==
    /\ p \in live /\ Gone(p)
    /\ UNCHANGED <<backend, threads, owned, routing, walk, retracted, commands>>

\* Mutant of EnterBypass: moves the process to a cgroup named after the rule.
EnterRuleCgroup(p, rule) ==
    /\ group' = [group EXCEPT ![p] = rule]
    /\ cause' = [cause EXCEPT ![p] = rule]

\* A process enters the bypass on account of a rule, if it is not there yet.
EnterBypass(p, rule) ==
    /\ group' = [group EXCEPT ![p] = "bypass"]
    /\ cause' = IF group[p] = "bypass" THEN cause ELSE [cause EXCEPT ![p] = rule]

\* run_permission_loop: the exec of a listed program, or by a listed program, is
\* held until the process is in the bypass, or refused.
WatchedExec(p, program) ==
    \E rule \in {program, image[p]} \cap watcher.rules :
        \/ /\ EnterBypass(p, rule)
           /\ image' = [image EXCEPT ![p] = program]
           /\ UNCHANGED watcher
        \/ /\ May("deny")
           /\ watcher' = [watcher EXCEPT !.state = "sick"]
           /\ UNCHANGED <<group, cause, image>>

\* Or the exec happens where the watcher has no mark: in the mount namespace of
\* a sandbox, or on a file system mounted later.
Exec(p, program) ==
    /\ p \in live /\ program # image[p]
    /\ \/ watcher.state \in {"running", "sick"} /\ WatchedExec(p, program)
       \/ /\ image' = [image EXCEPT ![p] = program]
          /\ UNCHANGED <<group, cause, watcher>>
    /\ UNCHANGED <<live, scope, parent, backend, reconciler, stop, owned,
                   routing, walk, retracted, counters>>

\* The watcher's thread gives up: a bad event, a response that cannot be written.
WatcherDies ==
    /\ May("sick") /\ watcher.state \in {"running", "sick"}
    /\ watcher' = [watcher EXCEPT !.state = "dead"]
    /\ UNCHANGED <<processes, backend, reconciler, stop, owned, routing, walk,
                   cause, retracted, counters>>

-----------------------------------------------------------------------------
(* The walk over /proc: reconcile_with().  The lock on `owned` is held from   *)
(* its first step to its last.                                               *)

BeginWalk(by) ==
    /\ walk.by = "nobody"
    /\ walk' = [NoWalk EXCEPT !.by = by, !.todo = live,
                             !.rules = IF by = "command" THEN selectors
                                       ELSE reconciler.rules]

Wanted(p) == p \in live /\ group[p] # "bypass" /\ Listed(p, walk.rules) # {}

Recorded(owners) == Cardinality({p \in Pids : owners[p] # None})

\* Mutant of HasRoom: one more than the record may hold.
HasRoomForOneMore == Recorded(owned) <= MaxOwned

HasRoom == Recorded(owned) < MaxOwned

SweepOne(p) ==
    /\ walk.at = "sweep" /\ p \in walk.todo
    /\ walk' = [walk EXCEPT !.todo = @ \ {p}]
    /\ \/ /\ Wanted(p)
          /\ \E rule \in Listed(p, walk.rules) :
                /\ EnterBypass(p, rule)
                /\ owned' = IF HasRoom THEN [owned EXCEPT ![p] = rule] ELSE owned
       \/ ~Wanted(p) /\ UNCHANGED <<group, cause, owned>>
    /\ UNCHANGED <<live, image, scope, parent, backend, threads, routing,
                   retracted, counters>>

\* Mutant of WalkIsOver: a failed walk ends the reconciler's thread.
WalkIsOverForGood(outcome) ==
    /\ walk' = NoWalk
    /\ IF walk.by = "command"
       THEN command' = outcome /\ UNCHANGED reconciler
       ELSE /\ reconciler' = [reconciler EXCEPT
                   !.state = IF stop \/ outcome = "walk_failed" THEN "ended" ELSE "sleeping"]
            /\ UNCHANGED command

\* The walk is over, for the one who started it.
WalkIsOver(outcome) ==
    /\ walk' = NoWalk
    /\ IF walk.by = "command"
       THEN command' = outcome /\ UNCHANGED reconciler
       ELSE /\ reconciler' = [reconciler EXCEPT
                                !.state = IF stop THEN "ended" ELSE "sleeping"]
            /\ UNCHANGED command

\* move_pid()? : a process that exits as it is moved ends the walk.
SweepLoses(p) ==
    /\ walk.at = "sweep" /\ p \in walk.todo /\ Wanted(p)
    /\ Gone(p)
    /\ WalkIsOver("walk_failed")
    /\ UNCHANGED <<status, op, plan, answer, selectors, watcher, stop, owned,
                   routing, retracted, commands>>

\* The members of the bypass: who is gone is dropped from the record, who is
\* listed by name and not on record is entered.
Survey ==
    /\ walk.by # "nobody" /\ walk.at = "sweep" /\ walk.todo = {}
    /\ LET members == {p \in live : group[p] = "bypass"}
           kept == [p \in Pids |-> IF p \in members THEN owned[p] ELSE None]
           unattributed == {p \in members : kept[p] = None /\ image[p] \in walk.rules}
       IN  \E entered \in SUBSET unattributed :
             /\ \/ entered = unattributed
                \/ Recorded(kept) + Cardinality(entered) >= MaxOwned
             /\ entered = {} \/ Recorded(kept) + Cardinality(entered) <= MaxOwned
             /\ owned' = [p \in Pids |-> IF p \in entered THEN image[p] ELSE kept[p]]
             /\ walk' = [walk EXCEPT !.at = "tree", !.members = members]
    /\ UNCHANGED <<processes, backend, threads, routing, cause, retracted,
                   counters>>

\* Mutant of Stale: judges a member by what it looks like now.
StaleByLooks == {p \in walk.members : Listed(p, walk.rules) = {}}

Stale == {p \in Pids : owned[p] # None /\ owned[p] \notin walk.rules}

ReadTree ==
    /\ walk.at = "tree"
    /\ walk' = [walk EXCEPT !.at = "eject", !.eject = UNION {Subtree(p) : p \in Stale}]
    /\ UNCHANGED <<processes, backend, threads, owned, routing, cause, retracted,
                   counters>>

\* A failed move_out() is ignored, the record goes either way.
EjectOne(p) ==
    /\ walk.at = "eject" /\ p \in walk.eject
    /\ walk' = [walk EXCEPT !.eject = @ \ {p}]
    /\ owned' = [owned EXCEPT ![p] = None]
    /\ \/ /\ p \in walk.members \cap live
          /\ group' = [group EXCEPT ![p] = "tunneled"]
          /\ cause' = [cause EXCEPT ![p] = None]
       \/ /\ p \notin walk.members \cap live \/ May("out")
          /\ UNCHANGED <<group, cause>>
    /\ UNCHANGED <<live, image, scope, parent, backend, threads, routing,
                   retracted, counters>>

FinishWalk ==
    /\ walk.at = "eject" /\ walk.eject = {}
    /\ WalkIsOver("walked")
    /\ UNCHANGED <<processes, status, op, plan, answer, selectors, watcher, stop,
                   owned, routing, cause, retracted, counters>>

\* The reconciler sleeps first and looks at reconcile_stop after its walk: told
\* to stop in its sleep, it walks once more.
ReconcilerWakes ==
    /\ reconciler.state = "sleeping"
    /\ BeginWalk("reconciler")
    /\ reconciler' = [reconciler EXCEPT !.state = "walking"]
    /\ UNCHANGED <<processes, backend, watcher, stop, owned, routing, cause,
                   retracted, counters>>

-----------------------------------------------------------------------------
(* The commands, one at a time under the mutex of the lifecycle.             *)

NewCommand ==
    command = "idle" /\ commands < Commands /\ commands' = commands + 1

Called(name, apps) == op' = name /\ plan' = apps /\ UNCHANGED answer

Answered(word) ==
    /\ command' = "idle" /\ answer' = word
    /\ op' = "none" /\ plan' = {}

\* SplitManager::apply() on a new manager, up to install_route_rules().
Apply(apps) ==
    /\ status = "none" /\ NewCommand
    /\ \/ routing' = TRUE /\ command' = "watch" /\ Called("apply", apps)
       \/ May("setup") /\ Answered("error") /\ UNCHANGED routing
    /\ retracted' = FALSE
    /\ UNCHANGED <<processes, status, selectors, threads, owned, walk, cause, deaths>>

\* Mutant of StopReconciler: waits for a thread that was not told to stop.
JoinOnly == UNCHANGED stop /\ command' = "join"

\* Whatever replaces or ends a live split first stops the reconciler.
StopReconciler == stop' = TRUE /\ command' = "join"

\* update_plan(); an empty list is a rollback (system.rs update_split).
UpdatePlan(apps) ==
    /\ status = "Active" /\ NewCommand
    /\ \/ StopReconciler /\ Called("update", apps)
       \/ May("plan") /\ Answered("error") /\ UNCHANGED stop
    /\ UNCHANGED <<processes, status, selectors, watcher, reconciler, owned,
                   routing, walk, cause, retracted, deaths>>

\* remove_split(): rollback(), and the manager is dropped.
Remove ==
    /\ status = "Active" /\ NewCommand
    /\ StopReconciler /\ Called("remove", {})
    /\ UNCHANGED <<processes, status, selectors, watcher, reconciler, owned,
                   routing, walk, cause, retracted, deaths>>

\* Mutant of Joined: does not wait for the thread.
JoinedAtOnce == TRUE

Joined == reconciler.state \in {"none", "ended"}

\* The threads are gone: update_plan() turns to the new list, a rollback takes
\* the routing down and leaves the members of the bypass where they are.
Join ==
    /\ command = "join" /\ Joined
    /\ stop' = FALSE /\ watcher' = NoThread /\ reconciler' = NoThread
    /\ IF op = "update"
       THEN /\ selectors' = plan /\ command' = "watch"
            /\ retracted' = (retracted \/ selectors \ plan # {})
            /\ UNCHANGED <<status, op, plan, answer, owned, routing>>
       ELSE /\ selectors' = {} /\ routing' = FALSE /\ owned' = NoOne
            /\ status' = "none"
            /\ Answered(IF op = "apply" THEN "error" ELSE "ok")
            /\ UNCHANGED retracted
    /\ UNCHANGED <<processes, walk, cause, counters>>

\* A step of apply() or update_plan() failed: only apply() rolls back.
CommandFails ==
    IF op = "apply" THEN StopReconciler /\ UNCHANGED <<op, plan, answer>>
    ELSE Answered("error") /\ UNCHANGED stop

StartWatcher ==
    /\ command = "watch"
    /\ \/ /\ watcher' = [state |-> "running", rules |-> plan]
          /\ selectors' = plan /\ command' = "walk"
          /\ UNCHANGED <<op, plan, answer, stop>>
       \/ /\ May("watch") \/ (op = "apply" /\ May("plan"))
          /\ CommandFails /\ UNCHANGED <<watcher, selectors>>
    /\ UNCHANGED <<processes, status, reconciler, owned, routing, walk, cause,
                   retracted, counters>>

CommandWalks ==
    /\ command = "walk" /\ BeginWalk("command") /\ command' = "walking"
    /\ UNCHANGED <<processes, status, op, plan, answer, selectors, threads, owned,
                   routing, cause, retracted, counters>>

CommandWalkFailed ==
    /\ command = "walk_failed" /\ CommandFails
    /\ UNCHANGED <<processes, status, selectors, watcher, reconciler, owned,
                   routing, walk, cause, retracted, counters>>

\* start_reconciler() reports nothing; apply() looks at the watcher once more.
StartReconciler ==
    /\ command = "walked"
    /\ \/ reconciler' = [state |-> "sleeping", rules |-> selectors]
       \/ May("thread") /\ UNCHANGED reconciler
    /\ IF op = "apply" /\ watcher.state # "running"
       THEN CommandFails /\ UNCHANGED status
       ELSE status' = "Active" /\ Answered("ok") /\ UNCHANGED stop
    /\ UNCHANGED <<processes, selectors, watcher, owned, routing, walk, cause,
                   retracted, counters>>

-----------------------------------------------------------------------------
WalkSteps ==
    \/ \E p \in Pids : SweepOne(p) \/ EjectOne(p)
    \/ Survey \/ ReadTree \/ FinishWalk

CommandSteps ==
    \/ Join \/ StartWatcher \/ CommandWalks \/ CommandWalkFailed \/ StartReconciler

Next ==
    \/ \E p, child \in Pids : Fork(p, child)
    \/ \E p \in Pids, id \in Ids : EnterScope(p, id)
    \/ \E p \in Pids, program \in Names \cup {None} : Exec(p, program)
    \/ \E p \in Pids : Exit(p) \/ SweepLoses(p)
    \/ WatcherDies
    \/ WalkSteps \/ ReconcilerWakes
    \/ \E apps \in Plans : Apply(apps) \/ UpdatePlan(apps)
    \/ Remove
    \/ CommandSteps

Spec == Init /\ [][Next]_vars
=============================================================================
