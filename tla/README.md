# Varmlen for Linux: verification project

TLA+ models of the Varmlen client, the configurations that check them with TLC,
and theorems about them checked with TLAPS.  Paths are relative to `src/`.

1. [The system](#1-the-system)
2. [What is modelled](#2-what-is-modelled)
3. [Runs](#3-runs)
4. [Fairness](#4-fairness)
5. [Proofs](#5-proofs)
6. [Findings](#6-findings)
7. [Not modelled](#7-not-modelled)
8. [Plan](#8-plan)

## 1. The system

A window (Svelte in a Tauri web view) runs as the user.  It talks to a root
daemon over a Unix socket.  The daemon starts Xray, and a privileged helper
(`varmlen-net`) lays routes, policy rules and nftables tables.  The daemon tracks
the processes that are to go past the tunnel.

```
 window (conn, subs, split, settings stores)
    |  Tauri commands            src-tauri/src/vpn.rs
 desktop backend  --------------- daemon_client.rs
    |  framed JSON on a Unix socket, one command per connection
 server.rs -> controller.rs (mutex) -> lifecycle.rs -> system.rs
                 ^ monitor, 1 s                         |  |  |
                 |                                 xray  helper  split/ (2 threads)
              main.rs: recovery.rs before the first client
```

### Inventory

| component | state it keeps | operations | interacts with | hard about it |
|---|---|---|---|---|
| lifecycle (`daemon/src/lifecycle.rs`) | phase, split_active, dns_protected, block_on_failure | connect, disconnect, update_split, reconcile_health | calls the backend, is called under the controller's mutex | reconnect replaces one data plane by another without letting traffic out; every call may fail |
| system backend (`system.rs`, `dns.rs`, `nft.rs`) | child, xray_identity, mode, dns_active, split, split_apps | validate, hold block up / verify / down, stop, start, activate, verify, update_split | spawns Xray and the helper, installs the DNS table, owns the split | partial failure: its flags must cover what is on the host |
| controller and monitor (`controller.rs`, `main.rs`) | manager behind a mutex, state file | handle, poll_health, persist | server above, lifecycle below | health poll against commands; daemon killed before persist |
| start-up recovery (`recovery.rs`) | none | inspect, remove, inspect | state file, host | removal of what another daemon left, pid reuse |
| helper (`helper/src/main.rs`) | files under /run/varmlen | route-up, route-down, killswitch-up/-down, bypass-* | ip, nft | its own rollback; success whatever teardown achieved |
| split backend (`split/system.rs`, `split/mod.rs`, `split/routing.rs`) | status, selectors, owned, routing_active | apply, update_plan, refresh_routing, rollback, one walk | watcher, reconciler, cgroup, routing, DNS proxy | walk of many steps against a moving process tree; edit against running threads |
| process tracking (`split/process.rs`, `cgroup.rs`, `watcher.rs`, `bpf.rs`) | membership of the bypass cgroup | matches, move_pid, move_out, permission loop | kernel, session manager | identity lost by the move; exec the watcher does not see |
| socket server (`server.rs`, `protocol.rs`) | sixteen client slots | accept, read frame, run command, answer | desktop backend, controller | command outlives its one-minute timeout |
| log store (`log_store.rs`) | log file, rotated file, size | append, tail, clear | Xray's output, window | rotation against readers |
| direct DNS (`direct_dns.rs`) | two listeners | start, stop, forward | split | life span only |
| desktop backend (`src-tauri/src/vpn.rs`, `daemon_client.rs`, `lib.rs`) | last settings | connect, disconnect, status, update split | stores above, socket below | errors and timeouts of the socket |
| connection store (`src/lib/conn.svelte.ts`, `connection-operation.ts`) | state, generation, phase timestamps | connect, disconnect, refresh, config change | desktop backend | answers out of order |
| subscriptions (`src/lib/subs.svelte.ts` and its helpers) | subscriptions, locations, selection, pings | refresh, select, ping, remove | connection store | selection replaced across an await |
| subscription parser, config builder, core manager (`src-tauri/src/subscription.rs`, `xray.rs`, `core.rs`) | files | parse, build, download | desktop backend | sequential |
| application list, tray, storage, web view recovery, user interface, leak check | - | presentation and desktop integration | - | - |

### What makes each part correct

*Lifecycle.*  A kill switch that is on is on until the user ends it.  A tunnel is
replaced behind a block.  The phase the window shows claims nothing the host does
not have.  What is on the host is known to the daemon, or, when it was killed, to
its successor.  A dead tunnel is noticed.

*Split.*  The processes that go direct are those on the list, and all of them.
Replaced rules act no more once their replacement has taken over.  A walk does not
take out of the bypass what the move itself has made unrecognisable.  Commands and
threads do not wait on each other for ever.

*Recovery and helper.*  At no command between two states of the host does a packet
take a way it has in neither: Xray's dials stay out of the tunnel, applications'
packets in it, local networks local.  A host that is reported down is as it was.

*Client and server.*  The window ends up showing what the daemon is in; an answer
of an operation the user has left behind changes nothing; commands are carried out in
the order in which they come to the backend, and a disconnect is final.

*Locations.*  What the window lets through can be connected.  The document Xray runs
sends every packet where the user's lists say, its resolver's lookups where they should
go, and dials nothing that the routes do not keep out of the tunnel.

*Subscriptions.*  Over refreshes, edits, removals and reloads the selection stays on
its location or waits for it, and no card is forgotten by the automatic refresh.

The hazards behind these, each with its line, are listed in `PROJECT.json`.

## 2. What is modelled

### Lifecycle

`Lifecycle.tla` is the daemon's connection state machine: one action per backend
call, so that Xray can die and the daemon can be killed between any two of them.
`pc` names the next call of the command that holds the manager's mutex; `stopFor`
tells which of the four callers of `stop_data_plane` continues after it.

| TLA+ | code |
|---|---|
| `phase`, `split_active`, `dns_protected`, `block_on_failure` | `LifecycleManager` |
| `xray`, `xray_identity`, `mode`, `dns_active`, `split`, `split_apps` | `SystemLifecycleBackend` |
| `proc`, `hold`, `routes`, `dns`, `split_table`, `split_rule`, `watching` | the host |
| `file` | `/var/lib/varmlen/state-<uid>.json` |
| `BeginConnect` ... `CommitConnected`, `GiveUp` | `connect` |
| `StopSplit`, `StopDns`, `StopRoute`, `StopXray`, `After...Stop` | `stop_data_plane` and what follows it in each caller |
| `BeginDisconnect`, `FinishDisconnect` | `disconnect` |
| `UpdateSplit` | `update_split` |
| `DetectDeadXray`, `Status` | `reconcile_health`, from the monitor or a Status command |
| `Persist` | `SystemController::persist`, the last thing under the mutex |
| `DaemonCrash`, `Restart`, `Recover` | death of the daemon, `main` and `RecoveryManager::cleanup` |

Data is abstracted to what the properties tell apart.  A process is a pid with its
start time; an nftables table is there or not; the routes of `route-up` are one
flag; a refusal inside `validate` is one outcome.  The constant `Faults` says which
calls of the host may fail in an instance, and how: an error, an error after the
fact, or success without the effect (`"silent"`: `killswitch-down` and
`route-down` exit 0 whatever nft and ip answered).

`armed` is the one history variable: the user's kill switch is on.  It is set when a
connect with the kill switch has been verified, and ends with a disconnect, with a
connect without it that begins or succeeds, or with a new daemon.

`KillSwitch.tla` is the promise without the machinery: where an ordinary packet
goes (`path`), whether it may go directly (`wish`, `swapping`), and that only a
running daemon or the start of a new one ends the protection.  `LifecycleProps.tla`
states the properties and the refinement mapping: `path` is computed from the
routes, varmlen0 and the block.

### Split

`SplitReconcile.tla` is the live part of `daemon/src/split`: the command that runs
(apply, update_plan, rollback), the permission watcher's thread, the reconciler's
thread, and the user's processes, which fork, execute, enter a sandbox's scope and
exit.  A walk over `/proc` is a step per process, then the survey of the members,
the reading of the process tree, and a step per process taken back.

| TLA+ | code |
|---|---|
| `live`, `image`, `scope`, `group`, `parent` | /proc: executable, cgroup, parent of each process |
| `status`, `selectors`, `owned`, `routing`, `stop` | `SplitManager`, `SystemSplitBackend` |
| `watcher`, `reconciler` | the two threads, each with the rules it was given |
| `walk` | locals of `reconcile_with`; whoever walks holds the lock on `owned` |
| `SweepOne`, `SweepLoses`, `Survey`, `ReadTree`, `EjectOne`, `FinishWalk` | `reconcile_with` |
| `Apply`, `StartWatcher`, `CommandWalks`, `StartReconciler` | `SplitManager::apply`, and the second half of `update_plan` |
| `UpdatePlan`, `Remove`, `Join` | `update_plan`, `rollback` |
| `Exec`, `WatchedExec`, `WatcherDies` | `run_permission_loop`, and the execs it does not see |

A rule is a name (`ExactPath` or a program's `ProcessName`) or a sandbox
application's identifier.  The second kind matches on the scope a process was born
in, so it matches no longer once the process has been moved.  Three history
variables serve the properties: `cause`, the rule a process entered the bypass for
(a child inherits it with the cgroup); `retracted`, a rule was taken off the list of
the live split; and the bounds' counters.

`Lifecycle` sees the same split as a whole (list, table, rule, watcher): the two
modules meet in `apply`, `update_plan` and `rollback`, which are single steps of
`Lifecycle` and many of `SplitReconcile`.

### Host network

`HostNetwork.tla` takes apart what is one step of `Lifecycle`: each call of the
daemon is the sequence of `ip` and `nft` commands its code runs, and each command is
a step.  `Commands` and `ConnectCalls` are those sequences, in the source's order.
A command that must succeed and does not ends the call and starts the rollback the
code starts; the daemon may be killed between any two, and the next one inspects the
host and removes what it finds, in the order of its resources.

A recovery that has left something behind ends in `"stuck"` (RecoveryRequired), and as in
the code nothing is refused there: a connect, a disconnect or the death of that daemon
goes on from the host as it is.  `own` is what the daemon knows it has made: the mode, its
Xray, the DNS table, the split and its routing.  After such a recovery (`left`) it stops
nothing else (`Stranger`), so that a disconnect skips what it has not made.  On any other
host what the daemon has not made is not there, so that `own` decides nothing.

| TLA+ | code |
|---|---|
| `RouteUp`, `RouteDown`, `Loosen`, `Restore`, `HelperCleanup` | helper/src/main.rs `route_up`, `route_down`, `set_rp_filter_loose`, cleanup |
| `InstallRouting`, `RemoveRouting`, `SplitSetup`, `SplitTeardown` | split/routing.rs |
| `Block`, `KillSwitchAccepts`, `GuardAccepts`, `MarkOf` | the rulesets of system.rs, dns.rs, nft.rs and the BPF program's mark |
| `ConnectCalls`, `StopCalls`, `SplitCalls`, `EndCommand` | lifecycle.rs over system.rs |
| `own`, `Makings`, `Stranger` | `mode`, `xray`, `dns_active`, `split` of system.rs, `routing_active` of split/system.rs |
| `Inspect`, `Removal`, `RemovalCommands`, `EndRecovery` | recovery.rs |

A host is the set of things that are laid (routes, rules, tables, pins), the device,
Xray, and rp_filter with the copy of its value.  `Path` gives the way of a packet
through what is laid: policy rules by priority, the main table by longest prefix,
then the two nft chains.  Packets differ in who sends them (an application, one in
the bypass, a socket with the bypass's mark, Xray with and without its mark), the
family, the destination and the port: everything a rule or a chain tests.  The way
the kernel decides is external to the repository and modelled as far as these
commands use it.

### Client

`Client.tla` is the connection store of the window (`conn.svelte.ts` with the gate of
`connection-operation.ts`), the desktop backend (`vpn.rs`, `daemon_client.rs`) and the
daemon's queue at the controller's mutex.  A call is a record that goes through the
places where the code awaits: `select` (the location is parsed), `dial` (the lock,
the socket), `start` (polkit), `probe` and `send` and `wait` (the two requests on one
socket), `answered`.  What a command does is reduced to the phase it ends in and its
answer; `Lifecycle` says the rest.

| TLA+ | code |
|---|---|
| `gen`, `timer`, `grace` | the gate's generation, the scheduled reconnect (one above the generation it belongs to, 0 for none), `lastConnectedAt` |
| `lock` | `vpn_op_lock`, a fair tokio mutex: its holder and those who wait |
| `Press`, `Edit`, `TimerFires`, `Tick`, `ToFront`, `Reload` | toggle, configChanged and pushApps, the gate's timer, the status polls, a web view made anew |
| `Dial`, `StartDaemon`, `Send`, `GiveUp` | `DaemonClient` with its probe and time limits |
| `Handle`, `Polled`, `ApplyBackendState` | what the store makes of an answer |
| `Serve`, `TunnelDies`, `DaemonDies` | the controller, the monitor, the end of the daemon |

`wish` is a history variable: what the user pressed last, and `"lapsed"` where the
code itself goes back on an "off" (section 6).  One assumption on the platform: calls
reach the backend in the order in which the window makes them.

`ClientOrder.tla` is `Client` with a record beside it (`before`): of the calls that are at
the backend's lock or have a command at the daemon, which came before which.  It changes
nothing of what `Client` does.  The order of the presses is another one: a connect
whose location is parsed first comes to the lock when that is done (conn.svelte.ts:174),
maybe after a later press.

### Locations

`Subscription.tla` says what an entry of a subscription becomes, `XrayConfig.tla` what
becomes of the location: the window's validation, the outbound plan, the routing
rules in their order, the resolvers, the documents of a connect, its probe and a
ping, the resolution of the endpoints that are pinned, the daemon's checks, the probe.  One behaviour follows one location;
`Decides` and `Carriers` are Xray's first matching rule and its balancers, external
and as far as the documents use them.  `Resolves` says what the system's resolver may
answer for a name: several sets of addresses, or an error; an address answers with itself.
A connect fails on an error or on more than `MaxServerIps` addresses (`Unresolved`).
`Lookups` are the connections of Xray's own resolver.  A DoH server is dialled by its host
name, and such a connection has a domain and no address: it is assumed that Xray routes
it without looking the name up (it would have to ask the resolver that makes it), so that
a rule on addresses does not match it, whatever dns.hosts says.  Protocols, transports and tags are names; text
and encodings are left out, except where spelling decides (`Lower`,
`NormalizeNetwork`, `SiteDomains`).

### Subscriptions

`SubsStore.tla` is the store of the subscriptions, the fetch behind it (redirects, the
refusal of hosts that are not public, the interval in a header or a comment), its copy
in localStorage and the timer of the automatic refresh.  A fetch is a slot; its answer
meets whatever the cards have become.  A row's random id is represented by its card
and place, since only the selection refers to one and a parse makes it void.  The
rerun of the layout's effect by every change of the list is external (Svelte) and part
of the actions (`Reschedule`).

## 3. Runs

| run | question | properties |
|---|---|---|
| `lifecycle_fail_closed` | does traffic stay off the direct path under every failure but the loss of the block? | `TypeOK`, `KillSwitchHolds`, `BlockingIsBlocked`, `HandoverIsGuarded`, `ConnectedHasDataPlane`, `KeepsPromise` |
| `lifecycle_cleanup` | is everything on the host owned, and a dead tunnel noticed, when connecting may fail anywhere? | `HostStateIsOwned`, `DisconnectedIsTornDown`, `SplitIsInForce`, `RestTracesXray`, `RestartLeavesNothing`, `DeadTunnelIsNoticed` |
| `split_processes` | do commands, threads and processes interleave without harm? | `TypeOK`, `RecordIsCurrent`, `StaleRulesMoveNobody`, `SandboxIsNotCut`, `CommandEnds`, `ListedIsBypassed` |
| `host_network` | which way do packets take between any two commands? | `TypeOK`, `DialsEscapeTun`, `BypassStaysOut`, `LanIsNotSentToGateway`, `ConnectedCarriesAll`, `NothingFlashesPast`, `DownIsUntouched`, `SplitOwnsItsTable` |
| `client` | are overlapping operations carried out in their order, do they end in what the user pressed last, and does the window come to say so? | `TypeOK`, `DisconnectIsFinal`, `CommandsInOrder`, `StaleNeverShown`, `ConnectingEnds`, `FalseConnectedEnds` |
| `xray_config` | do the parser, the window, the daemon and Xray mean the same by one location? | `SplitIsHonoured`, `ResolverStaysInside`, `AcceptedIsConnectable`, `ProbeFollowsRoute`, `EveryDialEscapesTun` |
| `subs_store` | where is the selection after late answers, edits and reloads, and is every card refreshed? | `SelectionStays`, `SelectionSurvivesReload`, `EveryCardIsPolled` |
| `hold_lost`, `disconnect_retry`, `orphan`, `restart`, `split_unlisted` | [findings](#6-findings) | one each |

### Bounds, and why they are enough

*Lifecycle.*  Nothing is counted, so behaviours are of any length.  Two process
identities: a reconnect needs the old and the new one, and an identity nothing
refers to stands for a new one.  One application where the list only has to be
empty or not, two where it has to change from one list to another.  The runs differ
in the faults: `lifecycle_fail_closed` has all but `"verify"` (see `hold_lost`);
`lifecycle_cleanup` has those of a connect and works on teardown, since nothing is
promised about the host after a teardown that failed.  It also leaves out
`"split_lay"` and `"replan"`, with which an edited list leaves a rule or a dead
watcher behind (hazards at `split/mod.rs:104` and `split/system.rs:361`).

*Split.*  Two pids give parent and child, listed and unlisted, and, with one exit, a
pid that is used again while a walk still has it on its list.  One name and one
sandbox identifier give both ways to match and lists with either, both or one
replaced by the other; two commands give an edit, or a removal, of a live split.
`MaxOwned = 1` makes the record overflow with two members.  All faults are on but
the loss of the reconciler's thread, which the code reports to nobody and under
which no process would be found late.  `split_unlisted` needs a third command.

*Host network.*  Commands of the user and failures of a connect are not counted, so
that a connection is made, replaced, edited, lost and taken down in any order; one
crash (a second only repeats a recovery, which starts anew by itself from `"stuck"`)
and one removal that is refused.  The last bound hides something: with more refusals
`LanIsNotSentToGateway` fails (section 6), which is why its theorem is about recoveries
whose removals work.  One server of
each family: its pin is there or it is not, at each command; the proofs are for any
number of them.  A request without anything and one with the kill switch, the
LAN and a split differ in everything a command depends on.  `"verify"` is left out for
the reason given for the lifecycle.

*Client.*  Two presses or live edits overlap, with one poll, which is used again when
it has been answered; a third press would meet the same guards.  One event: a request given up, the end of the daemon, a window made anew or brought to the front.  A window
that is made anew needs a free poll for its first status.  All faults are on.  The
location of the first connect is parsed again, that of the second is at hand: so a
parse lasts beyond every later press.

*Locations.*  The entries are every feature of a profile that a branch tests, alone
and with those it meets: several proxies and balancers (one that may leave the
proxies, one that selects nothing, two of one tag), provider rules of every kind,
resolvers of every kind, links that lack what their parser needs.  A behaviour has one
location, so that each is followed through everything.  `MaxServerIps` is 2 in place
of 64, with profiles of three proxies and of three balancers.  Of the endpoints one is an
address, one a name that may answer in two ways or not at all, and one a name with as many
addresses as a request may have, so that another endpoint beside it is one too many.

*Subscriptions.*  Two cards are the least in which a location can be looked for in the
wrong one; two slots let the timer's fetch overlap one of the user's.  Two redirects
exceed `MaxRedirects = 1` (5 in the code).  The provider moves its location to another
endpoint, renames it, redirects to an address that is not public, and fails.  An
import begins while at most one row is shown.

`CHECK_DEADLOCK FALSE` in the split's and the client's configurations: commands, calls
and exits are bounded, and every process may have ended, so that the system may really
stop.  The other runs check for deadlock.

## 4. Fairness

*Lifecycle* (`FairSpec`): weak fairness of `CommandSteps`, since every backend call
returns (the helper, nft and ip are short programs, the waits on Xray have limits),
and strong fairness of `DetectDeadXray`, which stands for the monitor: it wakes
every second and queues for the manager's mutex, and tokio's mutex is fair, so it
gets its turn however many commands come.  Starts of commands, deaths and restarts
are not fair.

*Split* (`FairSpec`): weak fairness of the steps of a walk, of the steps of a
command, and of the reconciler's wake-up from its one-second sleep.  Nothing is
asked of the user's processes.  `ListedIsBypassed` therefore says that a listed
process is found even when the watcher never sees it.

*Client*: weak fairness of the steps of a call, since the runtimes poll what is ready
and every wait has a limit; of the polls' interval and of the two timers, which fire;
and of `Serve`, since every command of the daemon ends (`CommandEnds`, and the bounded
waits of `Lifecycle`) and its mutex is fair.  Presses, edits, deaths, clients that give
up and new windows are not fair.

*Subscriptions*: a timer that is set and due fires, and every fetch is answered, since
the HTTP client limits it to 15 seconds.  The two conditions are written with what
keeps the step possible in place of ENABLED, which for these steps is the same and
much cheaper to evaluate.  `EveryCardIsPolled` assumes further that the page is not
lost again and again.

The properties of the host network and of the locations are safety properties and
assume no fairness.

## 5. Proofs

`Lifecycle_proofs.tla`, for every set of processes, applications and failures:

| theorem | statement |
|---|---|
| `TypeCorrect` | `Spec => []TypeOK` |
| `KillSwitchIsKept` | `Spec => []KillSwitchHolds` |
| `BlockingIsTrue` | `Spec => []BlockingIsBlocked` |
| `HandoverIsCovered` | `Spec => []HandoverIsGuarded` |
| `ImplementsPromise` | `Spec => KeepsPromise`: the detailed lifecycle implements `KillSwitch` |

All but the first assume `"verify" \notin Faults`: a hold block that has been
installed stays, and listing it shows it.  The assumption is needed, `hold_lost`
shows what happens without it.

`KillSwitchHolds` is not inductive: whether a step may remove the block, or may end
in `Blocking`, depends on how the command got there.  The strengthening `GuardInv`
adds four facts.  `AttemptIsBehindHold`: a tunnel's attempt, from the verification
of its block to the step that lifts it, runs with the block installed.
`AttemptKeepsWish`: an attempt that may end by lifting the block is one without the
user's kill switch, or a reconnect, which keeps its block when it fails.
`BlockOnFailureIsReady`: a tunnel that will turn into a block when it dies has it
already.  `PhaseFollowsCommand`: where a command stands in the phases.
`StepGuardInv` has a case per action.  The refinement follows: `hold` keeps
`TrafficPath` off `"direct"` (`PathUnderHold`), and each kind of step maps to one of
the four actions of `KillSwitch` or stutters.

`LifecycleHost_proofs.tla`, for every set of processes and applications:

| theorem | statement |
|---|---|
| `ConnectedIsBacked` | `Spec => []ConnectedHasDataPlane`, whatever fails |
| `HostIsOwned` | `Spec => []HostStateIsOwned` |
| `DisconnectedIsBare` | `Spec => []DisconnectedIsTornDown` |
| `SplitStaysInForce` | `Spec => []SplitIsInForce` |
| `RestIsTraced` | `Spec => []RestTracesXray` |
| `RestartCleans` | `Spec => RestartLeavesNothing` |
| `DisconnectEmpties` | `Spec => DisconnectOkMeansEmpty` |

The first needs no assumption and rests on `PlaneInv`: a connect that fails before it
has touched the old tunnel reports Connected again, so the old data plane is followed
into the attempt (`OldPlaneStands`) and the new one from its start to the commit
(`NewPlaneGrows`).

The others assume `TeardownWorks`: requests, connects and edits may fail in every way,
but what is told to go goes, an identity can be read, the state file is written, and
the daemon is killed between two commands only.  Without it the statements are false,
as `orphan` and `disconnect_retry` show, and a failed teardown is meant to end in
`RecoveryRequired` with the host as it is.  Of a host left by a daemon that was killed,
nothing in the daemon's memory tells; hence `HostInv`.  `ChildIsKnown`: the child is the
only Xray that lives, its identity is known, and when the daemon is gone the state file
has it.  `LaidIsArmed`: what has been laid is in the flags `stop_data_plane` goes by.
`StopAdvances`, `PlaneIsAsked`: how far a teardown and an attempt have come.
`RestIsBare`: where no data plane stands, none has left anything.  `SplitIsWhole`,
`SplitIsReported`: a tunnel's split is whole except between the calls that lay or take
it, and is only reported when it is.  `RecoverCleans` then shows that a recovery finds
everything that is on the host.

`SplitReconcile_proofs.tla`, for every set of processes and rules, every limit and
every choice of faults:

| theorem | statement |
|---|---|
| `TypeCorrect` | `Spec => []TypeOK` |
| `ReplacedRulesAreDead` | `Spec => StaleRulesMoveNobody` |
| `SandboxesStayWhole` | `Spec => SandboxIsNotCut` |
| `RecordStaysCurrent` | `IsFiniteSet(Pids)`: `Spec => []RecordIsCurrent` |

Both action properties rest on `SplitInv`.  `ThreadsAgree`: the watcher, the
reconciler and the walk go by the backend's list.  `CommandAlone`: a command that
lays or changes a list runs without a reconciler, since it has joined it.
`RecordHonest`: while nothing has been taken off the list, the record names listed
rules only and nobody is about to be thrown out.  `WhoChangesGroup` lists the only
steps that change the cgroup of a living process; each of them is then shown to act
for a listed rule, or after a retraction.

`RecordStaysCurrent` needs finitely many pids: the limit needs counting: a step either shrinks the record, or
adds no more processes than there is room for (`RecordCounts`, `RecordGrows`;
`WhoWritesRecord` lists the writers).  That the record names listed rules
only after a successful command rests on `RecordInv`: while the walk of a retraction
throws processes out, whoever is on record for a rule off the list is still among
those to go.

`Client_proofs.tla`, for every number of calls, polls and events and every choice of
faults:

| theorem | statement |
|---|---|
| `ClientTypeOK` | `Spec => []TypeOK` |
| `CommandsAreInOrder` | `OrderSpec => []CommandsInOrder` |
| `StaleAnswersAreNotShown` | `Spec => StaleNeverShown` |
| `DisconnectStaysFinal` | `Spec => []DisconnectIsFinal` |

`CommandsInOrder` alone is not inductive: a command enters the queue when its probe
has been answered, long after its call took its place at the lock, and it stays there when
its client has given it up and the next call has the lock.  `OrderInv`
(ClientProps) says why that is in time, and `TurnInv` (ClientOrder) on top of it says what
the record does not hold: that somebody at the lock came before one ahead of it
(`LockInTurn`), or before a command at the daemon (`CommandInTurn`).  Only a call that
comes to the lock adds to the record, and it is new there.  `Fresh`: a number nobody has used is idle and
above every generation.  `LockHasCalls`, `OneHolder`: whoever is at the lock is in the
backend with a command, and only its head has got past dialling.  `OneRequest`: nobody
has two requests in the queue, and behind a probe there are only Status requests.
`OneCommand`: there is never more than one command
in the queue, and none while somebody may send one; a command that was given up is
before the next caller's probe and so has been worked off when that is answered.  The
proof has lemmas for the lock (`LockIsReleased`, `LockGrows`, `LockStands`), for the
queue (`QueueStands`, `QueueAppend`, `QueueTail`, `QueueServed`) and one per action.
`StaleNeverShown` then holds by cases: of all steps that count no event only `Handle`
shows an outcome.  The only assumption is `ClientAssumption`: polls are numbered above
the presses, and the connects that wait for a parse are presses.

`DisconnectIsFinal` speaks of a moment when nothing is under way, and says nothing of
how it is reached.  `FinalInv` (ClientProps) follows a disconnect there: first it is at
the lock and no connect is behind it (`DisconnectComes`); then no connect is at the
lock, and the last command in the queue is the disconnect, or the daemon has no
connection and no connect is coming (`ConnectionEnds`).  Two more facts close the ways
round: who waits has its request in the queue, only connects start a daemon, and a
daemon that is not there has no connection (`WaitsForAnswer`); whatever still parses a
location is of an earlier generation, and no reconnect is scheduled (`Overtaken`).
The three exceptions of the property are the three steps that set `wish` to
`"lapsed"`; everywhere else the invariant is carried, by one lemma per action.

`HostNetwork_proofs.tla`, for every set of servers,
requests and faults, with and without IPv6, any number of crashes and refusals:

| theorem | statement |
|---|---|
| `HostTypeOK` | `Spec => []TypeOK` |
| `NoDialLoop` | `Spec => [](~host.left => DialsEscapeTun)` |
| `BypassIsKept` | `Spec => [](~host.left => BypassStaysOut)` |
| `ConnectedHostCarriesAll` | `Spec => []ConnectedCarriesAll` |
| `HandoverIsCovered` | `"verify" \notin Faults`: `Spec => []NothingFlashesPast` |
| `LanStaysLocal` | `Spec => [](refusals = 0 => LanIsNotSentToGateway)` |
| `DisconnectedHostIsClean` | `Spec => [](refusals = 0 => DownIsUntouched)` |
| `EditIsInvisible` | `Spec /\ [](refusals = 0) => SplitOwnsItsTable` |

Whether a state between two commands is safe depends on what the call has already
run, and whether it will be put right on what is still to come.  The inductive
invariant `IInv` therefore relates the commands that are left of
the call (`cmds`) and the calls that are left of the request (`calls`) to what is laid:
an item is there, or its `lay` is ahead; it is gone, or its `drop` is ahead, or the call
that brings it.  Its parts: `Shape`, which calls can be left in which phase, and
`Ordered`, the order in which the commands of a call stand (a pin before the route it
protects, a table before the rule that leads to it); `RouteInv`, what a tunnel's routes
rest on; `PlaneInv`, what a live connection has; `BlockInv` and `UnblockInv`, whether the
block is there while a tunnel is replaced, and gone at the end; `BareInv` and `RpInv`,
what a teardown leaves; `LanInv`, no rule leads to a table without its `throw`; `V6Inv`.

The first lemmas say once which commands each call runs and in which
order (`RouteUpCommands`, `RouteDownCommands`, `SplitUpCommands`, `SplitDownCommands`,
`CallCommands`), which items a call brings whole (`CallBrings`), and which calls a
request makes (`ConnectCallsShape`, `StopCallsShape`); they are concatenations of short
sequences with known elements, so that no induction is needed.  The rest are one
lemma for each part of `IInv` under `Step` and `NextCall` (`StepRouteInv`,
`NextCallRouteInv`, ...) and one for each other action.  The theorems then compute the
way of a packet from the parts (`Routed4`, `Routed6`, `PlaneCarries`, `BareRoutes`).

Three hypotheses are made.  A block that was laid and cannot be listed is taken away
again in the middle of a reconnect (`hold_lost`).  A removal that is refused may
leave an item on a host that is then reported clean, where a later command meets it:
two of them break `LanIsNotSentToGateway` (section 6).  The run has one, with which TLC
finds no packet that goes wrong.  And a daemon whose recovery has left something behind
(`host.left`) is held to less: while connected it carries everything and behind its block
nothing flashes past, but that a packet of Xray's or of the bypass never enters the tunnel
is proved for a host that was found clean only (the run finds no such packet on the
other hosts either), and of what is reported down there nothing is promised (section 6).

`XrayConfig_proofs.tla`, for every set of entries and of splits:

| theorem | statement |
|---|---|
| `SplitDecides` | `Spec => []SplitIsHonoured` |
| `ResolverIsProxied` | `Spec => []ResolverStaysInside` |
| `DialsAreKeptOut` | `Spec => []EveryDialEscapesTun` |
| `ProbeIsTheRoute` | `Spec => []ProbeFollowsRoute` |
| `AcceptedConnects` | `Spec => []AcceptedIsConnectable` |

The inductive invariant is `ConnectInv`: whatever has been requested was made from an
entry, a split and a plan of its location, its probe from another plan of it, what is
connected answered that probe, and what was rejected failed a check.  What is left is to
say where such a document sends a packet, with provider's rules and outbounds in any
number.  `Decides` is stated as the first rule that matches, and a filter as `Selection`,
the elements at given places in their order (`Lists.tla`).  Neither then needs an
induction (`Lists_proofs.tla`): a minimum of a set of numbers exists by the library's
`WFMin`, so that every place has a rank (`Ranked`, `SelectionElements`), and the first match of a concatenation is that of its first part that has one (`FirstOfBoth`).
`RoutesDecide` goes through the seven parts of `RouteRules` with it, for the packets of
applications and for the lookups of the resolver: the LAN choice, the
applications, the sites, the provider's rules, the resolver, the rest.
`PlanKeepsRules` and `PlanComesFrom` say that a plan's rules and the endpoints of its
outbounds are the profile's, `ImportedShape` that the outbound a location carries is one
of its profile's.

For the probe, `PlanIsSound` says that a plan the window lets through has proxies with
tags of their own and a target among them or their balancers (`SoundPlan`), and
`PlansAgree` that two calls of `outbound_plan` differ in the target alone, and in that
only when the profile leaves several.  A balancer's answer then carries over from the
probe's document to the running one (`AnswersCarry`).  For the daemon's verdict,
`PlanIsPlain` says that a plan of a location without one of the cases of
`DaemonIsStricter` has nothing the daemon objects to (`PlainPlan`), and
`ConfigIsAccepted` and `MeasuringIsAccepted` go through its checks of the three
documents.  The proof showed a case no one had listed: more balancers than
`MaxServerIps`, which the window does not count and the check of a probe does.

The assumptions say what an entry is (`EntriesAssumption`: an outbound, a rule and a
balancer have their fields, in a sequence), that `None` is none of the outbounds nor "tcp"
(`NoneAssumption`), and none of the names a list holds (`SplitsAssumption`).

`SubsStore_proofs.tla`, for every provider, pasted text and draft and every number of
cards, rows and fetches in flight:

| theorem | statement |
|---|---|
| `StoreIsSettled` | `Spec => []Inv` |
| `ChoiceStays` | `Spec => SelectionStays` |
| `ReloadShowsTheSame` | `Spec => SelectionSurvivesReload` |

Both properties compare the choice before and after a step, and hold only because of
where it can be before one.  `Inv` says it.  `Tidy`: cards are typed and have ids of their
own.  `SelOK`: there is no location and nothing is chosen, or the choice waits for its
location, or it stands on a row of its endpoint; a choice without a row is never silently
held.  `DiskOK`: what is stored is as tidy, and its choice is the one shown, on the same
endpoint, although later rows may be in memory only.  `CallsOK`: what the fetches in
flight have noted.

Every list that changes goes through one lemma, `Resettled`: a choice looked for in a
tidy list follows `Follows` and is settled, if what is looked for is what was chosen
(`SameChoice`) and the row it stands on is its endpoint (`Keeps`).  It rests on
`ResolveCases`, the six ways of resolveSelection, and `TopIsOne`, that the first of some
rows exists and is one of them.  `Reconciled` adds the copy on the disk: when nothing is
written, the choice is what it was (`ChoiceIsSame`).  What is left for each action is that
its list stays tidy: a new card's id is none in use, because one more number is looked
at than there are ids (`IdIsNew`, over finite sets of ids: `UsedAreFinite`); a merge of
the pasted cards keeps one of them (`MergeIsTidy`); a deleted row moves those below it up
by one, and the choice with them (`Removed`, `DeleteLocationKeeps`).  `FetchIsTyped` says
that an answer is a body whatever the hosts of a route do.  For `FlattenSeq`, which is
recursive, `Flattened` states the little that the merge needs.

`SourcesAssumption` says what providers and texts may give: routes of hops, bodies of
lines, and locations with an endpoint.  That a location's key is never empty is
serverKey's: the fields are joined by separators, and an id is random.

Only model-checked:
- liveness (`DeadTunnelIsNoticed`, `CommandEnds`, `ListedIsBypassed`, `ConnectingEnds`,
  `FalseConnectedEnds`, `EveryCardIsPolled`), which is beyond the prover.

## 6. Findings

Each has a run in which TLC finds the behaviour; `PROJECT.json` quotes the lines
that disagree.

- `hold_lost`: the hold block of a reconnect and the user's kill switch are one
  table.  When its verification fails, `connect` removes it and returns to
  Connected (lifecycle.rs:91): the kill switch is gone and nothing says so.
- `disconnect_retry`: a disconnect whose `route-down` could not run forgets the mode
  all the same (system.rs:1024); repeated, it skips the routes and succeeds.
- `orphan`: the identity of a new Xray is persisted when its command ends
  (controller.rs:117); a daemon killed before that leaves an Xray its successor does
  not find.
- `restart`: start-up recovery removes the kill switch's table with the others
  (recovery.rs:337).
- `split_unlisted`: `rollback` leaves the members in the bypass and forgets why they
  are there (split/system.rs:373); a later split with another list does not take
  them out.

### Divergences without a run of their own

Met while modelling; each is in a model as a premise of a property, as a step, or named
here because it is outside.

Client:
- An edit of the configuration while a disconnect is pending and the window still
  shows the connection schedules a reconnect, which runs after the disconnect
  (conn.svelte.ts:149; connection-operation.test.ts:10 tests the timer that was there
  before).  A connect that waits for an edited location is not stopped by a disconnect
  (conn.svelte.ts:174).  A daemon too busy for the probe is taken for none, and the
  disconnect is answered "disconnected" without having asked (vpn.rs:213).  These are
  the three exceptions of `DisconnectIsFinal` (`wish = "lapsed"`).
- When the status after a failed operation fails too, the outcome is shown without
  asking whether it is still wanted (conn.svelte.ts:216, 236; CHANGELOG.md:766): the
  exception of `StaleNeverShown` (`CheckFailed`).
- A connect without a location leaves "connecting" standing (conn.svelte.ts:180): the
  exception of `ConnectingEnds`.
- refresh() leaves the window as it is when the daemon cannot be reached, but
  `vpn_status` answers "disconnected" then, so that it never learns of it.

Host network:
- A daemon whose recovery left something behind accepts a connect and a disconnect
  (lifecycle.rs:62, 176).  It has made none of what was left, so a disconnect takes down
  nothing of it and answers Disconnected over it, while the plan says "Never report
  `Disconnected` while resources remain"
  (docs/superpowers/plans/2026-07-26-linux-daemon-split-dns.md:395-396).  The premise
  `~host.left` of `DownIsUntouched`.
- The recovery inspects the policy rules of IPv4 only (recovery.rs, `ip rule show`).  A
  rule for Xray's IPv6 packets is removed by the helper's cleanup and again with the
  IPv4 rules; when both removals are refused it stays, with its table emptied, and the
  second inspection reports the host clean.  The next `route-up` lays the table's default
  route before its `throw`, and for the time between the two commands a packet of Xray
  to the local network goes to the gateway.

Locations:
- The comment of `build_route_rules` gives the default in TUN mode to the mode of the
  applications (xray.rs:1519), and split.rs:4 says that one mode applies to both lists.
  The code has two modes, and either of them makes the default direct (xray.rs:1534):
  with the applications in general and the sites in selective mode, what neither list
  names goes direct.  The comment at xray.rs:1537-1541 gives the reason, and
  `SplitIsHonoured` is stated as the code does it.
- "Force the DNS module's encrypted upstreams through the tunnel - anti-leak even in
  selective/direct-default mode" (xray.rs:1591-1592): the rule names their addresses
  (xray.rs:1596), and those that are DoH are dialled by host name (xray.rs:42-51, 1336).
  Under a selective split, or a general list of sites with the host's zone on it, such a
  lookup goes direct.  The second exception of `ResolverStaysInside` below.
- A single outbound that names a "...File" key passes `validate_server`, which looks at
  the protocol only (xray.rs:702-713), and ends in the `expect` at xray.rs:1023.
- With several balancers and no rule that names one, the choice is the first of a hash
  set (xray.rs:600-604): the two calls of one connect may differ, so that one is
  probed and another connected.
- A kept provider rule comes before the resolver's (xray.rs:1589-1598) and may decide its
  lookups.  What is asked by host name follows the split as any traffic to that name.  The
  two exceptions of `ResolverStaysInside`.
- A WireGuard outbound carries no mark, and only its first peer is pinned
  (subscription.rs:531, 580); one that parse_outbound does not understand, because its
  first peer has no endpoint, is in the document all the same and not pinned at all.  The
  exceptions of `EveryDialEscapesTun` (`NotPinned`).  What is pinned is what the endpoint's
  name answered when the request was made (vpn.rs:82); Xray resolves an unmarked name
  again, and an address that is new by then is not pinned.
- A provider's balancer may fall back to, or select, `direct` (system.rs:1719).
- The daemon refuses what the window lets through: capitals in a protocol's name,
  "...Path" keys, more than 64 proxies or balancers, balancers that share a tag or have
  an empty one.

Subscriptions:
- The store is written when the selection changed or is lost (subs.svelte.ts:319), so
  that the new rows of a card that does not hold the selection are in memory only until
  a later save, while webview_recovery.rs:10 says that the page owns no state that a
  reload loses.
- The layout's effect (+layout.svelte:278) reads the list, so that the mark a refresh
  sets on its card arms the timer again for the same card: more fetches of it start
  until one is answered.
- "Opening the application never triggers a subscription request" (+layout.svelte:275),
  but what became due meanwhile is caught up at once (subscription-refresh.ts:51).
- A draft that changes the endpoint of the selected row updates the selection's key but
  not its label, and does not look for a selection that was lost.  The answer of a
  refresh overwrites a JSON edit that was made while it was in flight.

## 7. Not modelled

Formats and wording: the text of links and documents, nft and ip output, D-Bus,
.desktop files.  Presentation.  The BPF program's instructions and the fanotify marks
(a watched exec is an exec the marks cover).  The direct DNS proxy, which changes no
state of anything else.  The log store, one mutex around a file that nothing depends
on.  Pings and their scheduler: a late answer may put an entry of a dead location back,
which nothing but its display reads.  The reparse of cards written by 0.2.0.  Xray's
stream settings, fragments and dialer chains.  The development tool `tools/leakcheck`.

Core management (core.rs, core.svelte.ts) downloads, unpacks and activates copies of
xray-core under the user's directory.  No connection uses them: the daemon runs
/usr/libexec/varmlen/xray.  What a model would say of it concerns files only: a crash
in the middle of an unpacking or of the seed copy leaves a partial binary that counts
as installed, and the seed decides before it copies, so that it may overwrite an
activation made meanwhile.

## 8. Plan

1. `Lifecycle`, `LifecycleProps`, `KillSwitch`, `Lifecycle_proofs`,
   `LifecycleHost_proofs` - done.
2. `SplitReconcile`, `SplitReconcileProps`, `SplitReconcile_proofs` - done.
3. `HostNetwork`, `HostNetworkProps`, `HostNetwork_proofs` - done.
4. `Client`, `ClientProps`, `ClientOrder`, `Client_proofs` - done.
5. `Lists`, `Lists_proofs`, `Subscription`, `XrayConfig`, `XrayConfigProps`,
   `XrayConfig_proofs` - done.
6. `SubsStore`, `SubsStoreProps`, `SubsStore_proofs` - done.
7. Left: the host network's commands as the
   implementation of `Lifecycle`'s flags `routes`, `dns`, `split_table` and `split_rule`,
   and `SplitReconcile` as that of its split.
