------------------------ MODULE SplitReconcileProps ------------------------
(* What must hold of SplitReconcile.                                        *)
EXTENDS SplitReconcile

OrNone(S) == S \cup {None}

ProcessTypeOK ==
    /\ live \in SUBSET Pids
    /\ image \in [Pids -> OrNone(Names)] /\ scope \in [Pids -> OrNone(Ids)]
    /\ group \in [Pids -> Groups] /\ parent \in [Pids -> OrNone(Pids)]
    /\ cause \in [Pids -> OrNone(Rules)]

CommandTypeOK ==
    /\ status \in {"none", "Active"}
    /\ command \in {"idle", "watch", "walk", "walking", "walked", "walk_failed", "join"}
    /\ op \in {"none", "apply", "update", "remove"}
    /\ plan \in SUBSET Rules /\ answer \in {"ok", "error"}
    /\ selectors \in SUBSET Rules /\ routing \in BOOLEAN /\ stop \in BOOLEAN
    /\ retracted \in BOOLEAN
    /\ deaths \in 0..Deaths /\ commands \in 0..Commands

ThreadTypeOK ==
    /\ watcher \in [state : {"none", "running", "sick", "dead"}, rules : SUBSET Rules]
    /\ reconciler \in [state : {"none", "sleeping", "walking", "ended"},
                       rules : SUBSET Rules]

WalkTypeOK ==
    /\ walk \in [by : {"nobody", "command", "reconciler"},
                 at : {"sweep", "tree", "eject"}, rules : SUBSET Rules,
                 todo : SUBSET Pids, members : SUBSET Pids, eject : SUBSET Pids]
    /\ owned \in [Pids -> OrNone(Rules)]

\* The values of the processes, of the command, of the threads and of the walk.
TypeOK == ProcessTypeOK /\ CommandTypeOK /\ ThreadTypeOK /\ WalkTypeOK

-----------------------------------------------------------------------------
\* Once a list has been replaced no thread that still holds the old one moves a
\* process into the bypass (system.rs update_plan, "Dropping the watcher stops the
\* old rules from being applied a moment later from a queued event", and the join
\* in stop_reconciler).
StaleRulesMoveNobody ==
    [][\A p \in live : group[p] # "bypass" /\ group'[p] = "bypass"
                            => cause'[p] \in selectors]_vars

\* As long as nothing is taken off the list no process is taken out of the bypass,
\* although a sandboxed one no longer looks like its rule once it has been moved
\* (process.rs matched_application_id, system.rs reconcile_with).
SandboxIsNotCut ==
    [][\A p \in live : group[p] = "bypass" /\ group'[p] = "tunneled"
                            => retracted]_vars

\* A rule is on record for no more processes than the record may hold, and the
\* walk that ended last has left none of a rule that is no longer listed
\* (system.rs reconcile_with, MAX_OWNED_PIDS).
RecordIsCurrent ==
    /\ Recorded(owned) <= MaxOwned
    /\ command = "idle" /\ status = "Active" /\ answer = "ok" /\ walk.by = "nobody"
          => \A p \in Pids : owned[p] \in OrNone(selectors)

\* Every process in the bypass of a live split is there because of an application
\* on its list (system.rs reconcile_once, "taking an application out of the
\* exception list stops its traffic going direct").
OnlyListedGoDirect ==
    command = "idle" /\ status = "Active" /\ answer = "ok" /\ walk.by = "nobody"
        => \A p \in live : group[p] = "bypass" => cause[p] \in selectors

-----------------------------------------------------------------------------
\* The threads and the command run on; /proc is finite, and the reconciler wakes
\* every second.  Nothing is asked of the user's processes.
FairSpec ==
    /\ Spec
    /\ WF_vars(WalkSteps) /\ WF_vars(CommandSteps) /\ WF_vars(ReconcilerWakes)

\* A command comes to its end although it waits for a thread that may be asleep, or
\* in the middle of a walk that holds the lock on `owned` (system.rs
\* stop_reconciler).
CommandEnds == command # "idle" ~> command = "idle"

\* While a split that was applied or edited with success lives and its reconciler
\* could be started, a program on the list that runs somehow escaped the watcher
\* is brought into the bypass, also one that was thrown out with its parent
\* (system.rs reconcile_once).
Settled(p) ==
    \/ p \notin live \/ group[p] = "bypass" \/ image[p] \notin selectors
    \/ command # "idle" \/ status # "Active" \/ answer # "ok"

ListedIsBypassed == \A p \in Pids : ~Settled(p) ~> Settled(p)
=============================================================================
