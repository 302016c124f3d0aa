----------------------- MODULE SplitReconcile_proofs -----------------------
(***************************************************************************)
(* Theorems of SplitReconcile, for any processes, rules, bounds and         *)
(* failures: its types, that rules which have been replaced move nobody,    *)
(* that nobody is taken out of the bypass unless the list has shrunk, and   *)
(* that the record of the moved stays within its limit and names listed     *)
(* rules only after a successful command (for finitely many pids).          *)
(***************************************************************************)
EXTENDS SplitReconcileProps, FiniteSetTheorems, TLAPS

\* Walks are over the user's processes: a subtree is a set of pids.
LEMMA SubtreeType == \A p : Subtree(p) \subseteq Pids
 BY DEF Subtree

\* A rule that lists a process is one of the rules asked about.
LEMMA ListedIsRule == \A p, rules : Listed(p, rules) \subseteq rules
 BY DEF Listed

\* Whatever moves processes around keeps their record well-typed.
LEMMA ProcessStepTypeOK ==
    ASSUME TypeOK,
           \/ \E p, child \in Pids : Fork(p, child)
           \/ \E p \in Pids, id \in Ids : EnterScope(p, id)
           \/ \E p \in Pids, program \in Names \cup {None} : Exec(p, program)
           \/ \E p \in Pids : Exit(p)
           \/ WatcherDies
    PROVE  TypeOK'
 <1> USE RulesAssumption, BoundsAssumption 
         DEF TypeOK, ProcessTypeOK, CommandTypeOK, ThreadTypeOK, WalkTypeOK, OrNone,
             Rules, Groups, processes, backend, threads, counters
 <1>1. CASE \E p \in Pids, child \in Pids : Fork(p, child)
   <2> PICK p \in Pids, child \in Pids : Fork(p, child)
     BY <1>1
   <2>1. ProcessTypeOK'
     BY DEF Fork
   <2>2. CommandTypeOK'
     BY DEF Fork
   <2>3. ThreadTypeOK'
     BY DEF Fork
   <2>4. WalkTypeOK'
     <3>1. CASE UNCHANGED walk
       BY <3>1 DEF Fork
     <3>2. CASE walk' = [walk EXCEPT !.todo = @ \cup {child}]
       <4>1. walk.todo \cup {child} \in SUBSET Pids
         OBVIOUS
       <4> QED BY <3>2, <4>1 DEF Fork
     <3> QED BY <3>1, <3>2 DEF Fork
   <2> QED BY <2>1, <2>2, <2>3, <2>4
 <1>2. CASE \E p \in Pids, id \in Ids : EnterScope(p, id)
   <2> PICK p \in Pids, id \in Ids : EnterScope(p, id)
     BY <1>2
   <2>1. ProcessTypeOK'
     BY DEF EnterScope
   <2>2. CommandTypeOK'
     BY DEF EnterScope
   <2>3. ThreadTypeOK'
     BY DEF EnterScope
   <2>4. WalkTypeOK'
     BY DEF EnterScope
   <2> QED BY <2>1, <2>2, <2>3, <2>4
 <1>3. CASE \E p \in Pids, program \in Names \cup {None} : Exec(p, program)
   <2> PICK p \in Pids, program \in Names \cup {None} : Exec(p, program)
     BY <1>3
   <2>1. ProcessTypeOK'
     BY DEF Exec, WatchedExec, EnterBypass
   <2>2. CommandTypeOK'
     BY DEF Exec, WatchedExec, EnterBypass
   <2>3. ThreadTypeOK'
     BY DEF Exec, WatchedExec, EnterBypass
   <2>4. WalkTypeOK'
     BY DEF Exec, WatchedExec, EnterBypass
   <2> QED BY <2>1, <2>2, <2>3, <2>4
 <1>4. CASE \E p \in Pids : Exit(p)
   <2> PICK p \in Pids : Exit(p)
     BY <1>4
   <2>1. ProcessTypeOK'
     BY DEF Exit, Gone, Forget
   <2>2. CommandTypeOK'
     BY DEF Exit, Gone, Forget
   <2>3. ThreadTypeOK'
     BY DEF Exit, Gone, Forget
   <2>4. WalkTypeOK'
     BY DEF Exit, Gone, Forget
   <2> QED BY <2>1, <2>2, <2>3, <2>4
 <1>5. CASE WatcherDies
   <2>1. ProcessTypeOK'
     BY <1>5 DEF WatcherDies
   <2>2. CommandTypeOK'
     BY <1>5 DEF WatcherDies
   <2>3. ThreadTypeOK'
     BY <1>5 DEF WatcherDies
   <2>4. WalkTypeOK'
     BY <1>5 DEF WatcherDies
   <2> QED BY <2>1, <2>2, <2>3, <2>4
 <1> QED BY <1>1, <1>2, <1>3, <1>4, <1>5

\* So does every step of a walk over /proc.
LEMMA WalkStepTypeOK ==
    ASSUME TypeOK,
           \/ \E p \in Pids : SweepOne(p) \/ EjectOne(p) \/ SweepLoses(p)
           \/ Survey \/ ReadTree \/ FinishWalk \/ ReconcilerWakes \/ CommandWalks
    PROVE  TypeOK'
 <1> USE RulesAssumption, BoundsAssumption 
         DEF TypeOK, ProcessTypeOK, CommandTypeOK, ThreadTypeOK, WalkTypeOK, OrNone,
             Rules, Groups, processes, backend, threads, counters
 <1>1. CASE \E p \in Pids : SweepOne(p)
   <2> PICK p \in Pids : SweepOne(p)
     BY <1>1
   <2>1. ProcessTypeOK'
     BY ListedIsRule DEF SweepOne, EnterBypass
   <2>2. CommandTypeOK'
     BY DEF SweepOne, EnterBypass
   <2>3. ThreadTypeOK'
     BY DEF SweepOne, EnterBypass
   <2>4. WalkTypeOK'
     BY ListedIsRule DEF SweepOne, EnterBypass
   <2> QED BY <2>1, <2>2, <2>3, <2>4
 <1>2. CASE \E p \in Pids : EjectOne(p)
   <2> PICK p \in Pids : EjectOne(p)
     BY <1>2
   <2>1. ProcessTypeOK'
     BY DEF EjectOne
   <2>2. CommandTypeOK'
     BY DEF EjectOne
   <2>3. ThreadTypeOK'
     BY DEF EjectOne
   <2>4. WalkTypeOK'
     BY DEF EjectOne
   <2> QED BY <2>1, <2>2, <2>3, <2>4
 <1>3. CASE \E p \in Pids : SweepLoses(p)
   <2> PICK p \in Pids : SweepLoses(p)
     BY <1>3
   <2>1. ProcessTypeOK'
     BY DEF SweepLoses, Gone, Forget, WalkIsOver, NoWalk
   <2>2. CommandTypeOK'
     BY DEF SweepLoses, Gone, Forget, WalkIsOver, NoWalk
   <2>3. ThreadTypeOK'
     BY DEF SweepLoses, Gone, Forget, WalkIsOver, NoWalk
   <2>4. WalkTypeOK'
     BY DEF SweepLoses, Gone, Forget, WalkIsOver, NoWalk
   <2> QED BY <2>1, <2>2, <2>3, <2>4
 <1>4. CASE Survey
   <2>1. ProcessTypeOK'
     BY <1>4 DEF Survey
   <2>2. CommandTypeOK'
     BY <1>4 DEF Survey
   <2>3. ThreadTypeOK'
     BY <1>4 DEF Survey
   <2>4. WalkTypeOK'
     <3> DEFINE members == {p \in live : group[p] = "bypass"}
                kept == [p \in Pids |-> IF p \in members THEN owned[p] ELSE None]
     <3> HIDE DEF members
     <3>1. members \in SUBSET Pids
       BY DEF members
     <3>2. PICK entered \in SUBSET {p \in members : kept[p] = None /\ image[p] \in walk.rules} :
              /\ owned' = [p \in Pids |-> IF p \in entered THEN image[p] ELSE kept[p]]
              /\ walk' = [walk EXCEPT !.at = "tree", !.members = members]
       BY <1>4 DEF Survey, members
     <3>3. owned' \in [Pids -> OrNone(Rules)]
       <4>1. \A p \in entered : image[p] \in Rules
         BY <3>2
       <4>2. \A p \in Pids : kept[p] \in OrNone(Rules)
         OBVIOUS
       <4> QED BY <3>2, <4>1, <4>2
     <3> QED BY <3>1, <3>2, <3>3
   <2> QED BY <2>1, <2>2, <2>3, <2>4
 <1>5. CASE ReadTree
   <2>1. ProcessTypeOK'
     BY <1>5 DEF ReadTree
   <2>2. CommandTypeOK'
     BY <1>5 DEF ReadTree
   <2>3. ThreadTypeOK'
     BY <1>5 DEF ReadTree
   <2>4. WalkTypeOK'
     <3> DEFINE trees == UNION {Subtree(p) : p \in Stale}
     <3>1. trees \in SUBSET Pids
       BY SubtreeType
     <3> HIDE DEF trees
     <3>2. walk' = [walk EXCEPT !.at = "eject", !.eject = trees]
       BY <1>5 DEF ReadTree, trees
     <3> QED BY <1>5, <3>1, <3>2 DEF ReadTree
   <2> QED BY <2>1, <2>2, <2>3, <2>4
 <1>6. CASE FinishWalk
   <2>1. ProcessTypeOK'
     BY <1>6 DEF FinishWalk, WalkIsOver, NoWalk
   <2>2. CommandTypeOK'
     BY <1>6 DEF FinishWalk, WalkIsOver, NoWalk
   <2>3. ThreadTypeOK'
     BY <1>6 DEF FinishWalk, WalkIsOver, NoWalk
   <2>4. WalkTypeOK'
     BY <1>6 DEF FinishWalk, WalkIsOver, NoWalk
   <2> QED BY <2>1, <2>2, <2>3, <2>4
 <1>7. CASE ReconcilerWakes
   <2>1. ProcessTypeOK'
     BY <1>7 DEF ReconcilerWakes, BeginWalk, NoWalk
   <2>2. CommandTypeOK'
     BY <1>7 DEF ReconcilerWakes, BeginWalk, NoWalk
   <2>3. ThreadTypeOK'
     BY <1>7 DEF ReconcilerWakes, BeginWalk, NoWalk
   <2>4. WalkTypeOK'
     BY <1>7 DEF ReconcilerWakes, BeginWalk, NoWalk
   <2> QED BY <2>1, <2>2, <2>3, <2>4
 <1>8. CASE CommandWalks
   <2>1. ProcessTypeOK'
     BY <1>8 DEF CommandWalks, BeginWalk, NoWalk
   <2>2. CommandTypeOK'
     BY <1>8 DEF CommandWalks, BeginWalk, NoWalk
   <2>3. ThreadTypeOK'
     BY <1>8 DEF CommandWalks, BeginWalk, NoWalk
   <2>4. WalkTypeOK'
     BY <1>8 DEF CommandWalks, BeginWalk, NoWalk
   <2> QED BY <2>1, <2>2, <2>3, <2>4
 <1> QED BY <1>1, <1>2, <1>3, <1>4, <1>5, <1>6, <1>7, <1>8

\* And every step of a command.
LEMMA CommandStepTypeOK ==
    ASSUME TypeOK,
           \/ \E apps \in Plans : Apply(apps) \/ UpdatePlan(apps)
           \/ Remove \/ Join \/ StartWatcher \/ CommandWalkFailed \/ StartReconciler
    PROVE  TypeOK'
 <1> USE RulesAssumption, BoundsAssumption 
         DEF TypeOK, ProcessTypeOK, CommandTypeOK, ThreadTypeOK, WalkTypeOK, OrNone,
             Rules, Groups, processes, backend, threads, counters
 <1>1. CASE \E apps \in Plans : Apply(apps)
   <2> PICK apps \in Plans : Apply(apps)
     BY <1>1
   <2>1. ProcessTypeOK'
     BY DEF Apply, NewCommand, Called, Answered, Plans
   <2>2. CommandTypeOK'
     <3>1. commands' \in 0..Commands
       BY DEF Apply, NewCommand
     <3>2. apps \in SUBSET Rules
       BY DEF Plans
     <3> QED BY <3>1, <3>2 DEF Apply, NewCommand, Called, Answered
   <2>3. ThreadTypeOK'
     BY DEF Apply, NewCommand, Called, Answered, Plans
   <2>4. WalkTypeOK'
     BY DEF Apply, NewCommand, Called, Answered, Plans
   <2> QED BY <2>1, <2>2, <2>3, <2>4
 <1>2. CASE \E apps \in Plans : UpdatePlan(apps)
   <2> PICK apps \in Plans : UpdatePlan(apps)
     BY <1>2
   <2>1. ProcessTypeOK'
     BY DEF UpdatePlan, NewCommand, Called, Answered, StopReconciler, Plans
   <2>2. CommandTypeOK'
     <3>1. commands' \in 0..Commands
       BY DEF UpdatePlan, NewCommand
     <3>2. apps \in SUBSET Rules
       BY DEF Plans
     <3> QED BY <3>1, <3>2 DEF UpdatePlan, NewCommand, Called, Answered, StopReconciler
   <2>3. ThreadTypeOK'
     BY DEF UpdatePlan, NewCommand, Called, Answered, StopReconciler, Plans
   <2>4. WalkTypeOK'
     BY DEF UpdatePlan, NewCommand, Called, Answered, StopReconciler, Plans
   <2> QED BY <2>1, <2>2, <2>3, <2>4
 <1>3. CASE Remove
   <2>1. ProcessTypeOK'
     BY <1>3 DEF Remove, StopReconciler, NewCommand, Called, Answered
   <2>2. CommandTypeOK'
     BY <1>3 DEF Remove, StopReconciler, NewCommand, Called, Answered
   <2>3. ThreadTypeOK'
     BY <1>3 DEF Remove, StopReconciler, NewCommand, Called, Answered
   <2>4. WalkTypeOK'
     BY <1>3 DEF Remove, StopReconciler, NewCommand, Called, Answered
   <2> QED BY <2>1, <2>2, <2>3, <2>4
 <1>4. CASE Join
   <2>1. ProcessTypeOK'
     BY <1>4 DEF Join, NoThread, NoOne, Answered
   <2>2. CommandTypeOK'
     BY <1>4 DEF Join, NoThread, NoOne, Answered
   <2>3. ThreadTypeOK'
     BY <1>4 DEF Join, NoThread, NoOne, Answered
   <2>4. WalkTypeOK'
     BY <1>4 DEF Join, NoThread, NoOne, Answered
   <2> QED BY <2>1, <2>2, <2>3, <2>4
 <1>5. CASE StartWatcher
   <2>1. ProcessTypeOK'
     BY <1>5 DEF StartWatcher, CommandFails, StopReconciler, Answered
   <2>2. CommandTypeOK'
     BY <1>5 DEF StartWatcher, CommandFails, StopReconciler, Answered
   <2>3. ThreadTypeOK'
     BY <1>5 DEF StartWatcher, CommandFails, StopReconciler, Answered
   <2>4. WalkTypeOK'
     BY <1>5 DEF StartWatcher, CommandFails, StopReconciler, Answered
   <2> QED BY <2>1, <2>2, <2>3, <2>4
 <1>6. CASE CommandWalkFailed
   <2>1. ProcessTypeOK'
     BY <1>6 DEF CommandWalkFailed, CommandFails, StopReconciler, Answered
   <2>2. CommandTypeOK'
     BY <1>6 DEF CommandWalkFailed, CommandFails, StopReconciler, Answered
   <2>3. ThreadTypeOK'
     BY <1>6 DEF CommandWalkFailed, CommandFails, StopReconciler, Answered
   <2>4. WalkTypeOK'
     BY <1>6 DEF CommandWalkFailed, CommandFails, StopReconciler, Answered
   <2> QED BY <2>1, <2>2, <2>3, <2>4
 <1>7. CASE StartReconciler
   <2>1. ProcessTypeOK'
     BY <1>7 DEF StartReconciler, CommandFails, StopReconciler, Answered
   <2>2. CommandTypeOK'
     BY <1>7 DEF StartReconciler, CommandFails, StopReconciler, Answered
   <2>3. ThreadTypeOK'
     BY <1>7 DEF StartReconciler, CommandFails, StopReconciler, Answered
   <2>4. WalkTypeOK'
     BY <1>7 DEF StartReconciler, CommandFails, StopReconciler, Answered
   <2> QED BY <2>1, <2>2, <2>3, <2>4
 <1> QED BY <1>1, <1>2, <1>3, <1>4, <1>5, <1>6, <1>7

\* A stuttering step changes none of it.
LEMMA StepTypeOK == TypeOK /\ [Next]_vars => TypeOK'
 <1> SUFFICES ASSUME TypeOK, [Next]_vars PROVE TypeOK'
   OBVIOUS
 <1>1. CASE UNCHANGED vars
   BY <1>1 DEF vars, processes, backend, threads, counters, TypeOK, ProcessTypeOK,
               CommandTypeOK, ThreadTypeOK, WalkTypeOK
 <1>2. CASE Next
   BY <1>2, ProcessStepTypeOK, WalkStepTypeOK, CommandStepTypeOK
      DEF Next, WalkSteps, CommandSteps
 <1> QED BY <1>1, <1>2

\* Before the first command everything has its type.
LEMMA InitTypeOK == Init => TypeOK
 <1> SUFFICES ASSUME Init PROVE TypeOK
   OBVIOUS
 <1> USE RulesAssumption, BoundsAssumption DEF OrNone, Rules, NoOne, NoThread, NoWalk
 <1>1. ProcessTypeOK
   BY DEF Init, ProcessTypeOK, Groups
 <1>2. CommandTypeOK
   <2>1. deaths \in 0..Deaths /\ commands \in 0..Commands
     BY DEF Init
   <2> QED BY <2>1 DEF Init, CommandTypeOK
 <1>3. ThreadTypeOK
   BY DEF Init, ThreadTypeOK
 <1>4. WalkTypeOK
   BY DEF Init, WalkTypeOK
 <1> QED BY <1>1, <1>2, <1>3, <1>4 DEF TypeOK

\* The processes, the command, the threads and the walk of the split keep their
\* types (system.rs, watcher.rs, mod.rs), whatever happens to them.
THEOREM TypeCorrect == Spec => []TypeOK
 <1>1. Init => TypeOK
   BY InitTypeOK
 <1>2. TypeOK /\ [Next]_vars => TypeOK'
   BY StepTypeOK
 <1> QED BY <1>1, <1>2, PTL DEF Spec

-----------------------------------------------------------------------------
(* Who may move whom.                                                       *)

\* All that can move a process goes by the backend's list.
ThreadsAgree ==
    /\ watcher.state # "none" => watcher.rules = selectors
    /\ reconciler.state # "none" => reconciler.rules = selectors
    /\ walk.by = "reconciler" => reconciler.state = "walking" /\ walk.rules = selectors
    /\ walk.by = "command" => command = "walking" /\ walk.rules = selectors
    /\ walk.by = "nobody" => walk = NoWalk

\* A command that changes the list, or lays a first one, runs without a reconciler.
CommandAlone ==
    /\ command \in {"watch", "walk", "walking", "walked", "walk_failed"} =>
          reconciler.state = "none" /\ op \in {"apply", "update"}
    /\ op = "update" => status = "Active"
    /\ command = "watch" /\ op = "update" => selectors = plan
    /\ command = "watch" /\ op = "apply" => owned = NoOne
    /\ command = "idle" /\ status = "none" =>
          reconciler.state = "none" /\ owned = NoOne /\ selectors = {}

\* The record names listed rules, and nobody is to be thrown out, until the list
\* has shrunk.
RecordHonest ==
    /\ ~retracted => \A p \in Pids : owned[p] # None => owned[p] \in selectors
    /\ walk.eject # {} => retracted

SplitInv == ThreadsAgree /\ CommandAlone /\ RecordHonest

\* At the start nothing moves anybody.
LEMMA InitSplitInv == Init => SplitInv
 BY DEF Init, SplitInv, ThreadsAgree, CommandAlone, RecordHonest, NoOne, NoThread, NoWalk

\* No step of the processes or the threads, of a walk or of a command breaks it.
LEMMA StepSplitInv == TypeOK /\ SplitInv /\ [Next]_vars => SplitInv'
 <1> SUFFICES ASSUME TypeOK, SplitInv, [Next]_vars PROVE SplitInv'
   OBVIOUS
 <1> USE RulesAssumption
 <1> USE DEF SplitInv, ThreadsAgree, CommandAlone, RecordHonest, processes, backend,
             threads, counters
 <1> USE DEF TypeOK, ProcessTypeOK, CommandTypeOK, ThreadTypeOK, WalkTypeOK, OrNone
 <1>1. CASE UNCHANGED vars
   BY <1>1 DEF vars
 <1>2. CASE \E p \in Pids, child \in Pids : Fork(p, child)
   BY <1>2 DEF Fork
 <1>3. CASE \E p \in Pids, id \in Ids : EnterScope(p, id)
   BY <1>3 DEF EnterScope
 <1>4. CASE \E p \in Pids, program \in Names \cup {None} : Exec(p, program)
   BY <1>4 DEF Exec, WatchedExec
 <1>5. CASE \E p \in Pids : Exit(p)
   BY <1>5 DEF Exit
 <1>6. CASE WatcherDies
   BY <1>6 DEF WatcherDies
 <1>7. CASE \E p \in Pids : SweepOne(p)
   <2> PICK p \in Pids : SweepOne(p)
     BY <1>7
   <2>1. walk.by # "nobody"
     BY DEF SweepOne, NoWalk
   <2>2. CASE Wanted(p)
     <3> PICK rule \in Listed(p, walk.rules) :
            owned' = IF HasRoom THEN [owned EXCEPT ![p] = rule] ELSE owned
       BY <2>2 DEF SweepOne
     <3>1. rule \in selectors
       BY <2>1, ListedIsRule
     <3>2. command # "watch" /\ ~(command = "idle" /\ status = "none")
       BY <2>1
     <3>3. ThreadsAgree'
       BY <2>1 DEF SweepOne
     <3>4. CommandAlone'
       BY <3>2 DEF SweepOne
     <3>5. RecordHonest'
       BY <3>1 DEF SweepOne
     <3> QED BY <3>3, <3>4, <3>5
   <2>3. CASE ~Wanted(p)
     BY <2>1, <2>3 DEF SweepOne
   <2> QED BY <2>2, <2>3
 <1>8. CASE \E p \in Pids : SweepLoses(p)
   <2> PICK p \in Pids : SweepLoses(p)
     BY <1>8
   <2>1. walk.by # "nobody"
     BY DEF SweepLoses, NoWalk
   <2> QED BY <2>1 DEF SweepLoses, WalkIsOver, NoWalk
 <1>9. CASE Survey
   <2>1. walk.rules = selectors /\ command # "watch"
                               /\ ~(command = "idle" /\ status = "none")
     BY <1>9 DEF Survey
   <2>2. \A p \in Pids : owned'[p] \in {owned[p], None} \cup walk.rules
     <3> DEFINE members == {p \in live : group[p] = "bypass"}
                kept == [p \in Pids |-> IF p \in members THEN owned[p] ELSE None]
     <3>1. PICK entered \in SUBSET {p \in members : kept[p] = None /\ image[p] \in walk.rules} :
               owned' = [p \in Pids |-> IF p \in entered THEN image[p] ELSE kept[p]]
       BY <1>9 DEF Survey
     <3> QED BY <3>1
   <2>3. ThreadsAgree'
     BY <1>9 DEF Survey
   <2>4. CommandAlone'
     BY <1>9, <2>1 DEF Survey
   <2>5. RecordHonest'
     BY <1>9, <2>1, <2>2 DEF Survey
   <2> QED BY <2>3, <2>4, <2>5
 <1>10. CASE ReadTree
   <2>1. walk.by # "nobody" /\ walk.rules = selectors
     BY <1>10 DEF ReadTree, NoWalk
   <2>2. ~retracted => Stale = {}
     BY <2>1 DEF Stale
   <2>3. ~retracted => UNION {Subtree(p) : p \in Stale} = {}
     BY <2>2
   <2> QED BY <1>10, <2>1, <2>3 DEF ReadTree
 <1>11. CASE \E p \in Pids : EjectOne(p)
   <2> PICK p \in Pids : EjectOne(p)
     BY <1>11
   <2>1. walk.by # "nobody" /\ command # "watch"
                            /\ ~(command = "idle" /\ status = "none")
     BY DEF EjectOne, NoWalk
   <2> QED BY <2>1 DEF EjectOne
 <1>12. CASE FinishWalk
   BY <1>12 DEF FinishWalk, WalkIsOver, NoWalk
 <1>13. CASE ReconcilerWakes
   BY <1>13 DEF ReconcilerWakes, BeginWalk, NoWalk
 <1>14. CASE \E apps \in Plans : Apply(apps)
   BY <1>14 DEF Apply, NewCommand, Called, Answered, NoOne, NoWalk
 <1>15. CASE \E apps \in Plans : UpdatePlan(apps)
   BY <1>15 DEF UpdatePlan, NewCommand, Called, Answered, StopReconciler
 <1>16. CASE Remove
   BY <1>16 DEF Remove, NewCommand, Called, StopReconciler
 <1>17. CASE Join
   <2>1. walk.by = "nobody"
     BY <1>17 DEF Join, Joined
   <2>2. CASE op = "update"
     BY <1>17, <2>1, <2>2 DEF Join, NoThread, NoWalk
   <2>3. CASE op # "update"
     BY <1>17, <2>1, <2>3 DEF Join, Answered, NoOne, NoThread, NoWalk
   <2> QED BY <2>2, <2>3
 <1>18. CASE StartWatcher
   BY <1>18 DEF StartWatcher, CommandFails, Answered, StopReconciler, NoOne
 <1>19. CASE CommandWalks
   BY <1>19 DEF CommandWalks, BeginWalk, NoWalk
 <1>20. CASE CommandWalkFailed
   BY <1>20 DEF CommandWalkFailed, CommandFails, Answered, StopReconciler
 <1>21. CASE StartReconciler
   BY <1>21 DEF StartReconciler, CommandFails, Answered, StopReconciler
 <1> QED BY <1>1, <1>2, <1>3, <1>4, <1>5, <1>6, <1>7, <1>8, <1>9, <1>10, <1>11, <1>12,
            <1>13, <1>14, <1>15, <1>16, <1>17, <1>18, <1>19, <1>20, <1>21
         DEF Next, WalkSteps, CommandSteps

\* The two invariants hold together.
LEMMA SplitInvHolds == Spec => [](TypeOK /\ SplitInv)
 <1>1. Init => TypeOK /\ SplitInv
   BY InitTypeOK, InitSplitInv
 <1>2. (TypeOK /\ SplitInv) /\ [Next]_vars => (TypeOK /\ SplitInv)'
   BY StepTypeOK, StepSplitInv
 <1> QED BY <1>1, <1>2, PTL DEF Spec

\* The steps that may change the cgroup of a process that lives on.
LEMMA WhoChangesGroup ==
    ASSUME NEW p \in Pids, TypeOK, [Next]_vars, group'[p] # group[p],
           p \in live, p \in live'
    PROVE  \/ \E id \in Ids : EnterScope(p, id)
           \/ \E program \in Names \cup {None} : Exec(p, program)
           \/ SweepOne(p) \/ EjectOne(p)
 <1> USE DEF TypeOK, ProcessTypeOK
 <1>1. CASE UNCHANGED vars
   BY <1>1 DEF vars, processes
 <1>2. CASE \E q \in Pids, child \in Pids : Fork(q, child)
   BY <1>2 DEF Fork
 <1>3. CASE \E q \in Pids, id \in Ids : EnterScope(q, id)
   BY <1>3 DEF EnterScope
 <1>4. CASE \E q \in Pids, program \in Names \cup {None} : Exec(q, program)
   BY <1>4 DEF Exec, WatchedExec, EnterBypass
 <1>5. CASE \E q \in Pids : Exit(q)
   BY <1>5 DEF Exit, Gone
 <1>6. CASE \E q \in Pids : SweepOne(q)
   BY <1>6 DEF SweepOne, EnterBypass
 <1>7. CASE \E q \in Pids : SweepLoses(q)
   BY <1>7 DEF SweepLoses, Gone
 <1>8. CASE \E q \in Pids : EjectOne(q)
   BY <1>8 DEF EjectOne
 <1>9. CASE WatcherDies \/ Survey \/ ReadTree \/ FinishWalk \/ ReconcilerWakes
   BY <1>9 DEF WatcherDies, Survey, ReadTree, FinishWalk, ReconcilerWakes, processes
 <1>10. CASE \E apps \in Plans : Apply(apps) \/ UpdatePlan(apps)
   BY <1>10 DEF Apply, UpdatePlan, processes
 <1>11. CASE Remove \/ CommandSteps
   BY <1>11 DEF Remove, CommandSteps, Join, StartWatcher, CommandWalks,
                CommandWalkFailed, StartReconciler, processes
 <1> QED BY <1>1, <1>2, <1>3, <1>4, <1>5, <1>6, <1>7, <1>8, <1>9, <1>10, <1>11
         DEF Next, WalkSteps

\* A process that ends is not in the bypass any more, and not in the leaf either.
LEMMA GoneIsElsewhere ==
    ASSUME NEW p \in Pids, TypeOK, [Next]_vars, p \in live, p \notin live'
    PROVE  group'[p] = "elsewhere"
 <1> USE DEF TypeOK, ProcessTypeOK
 <1>1. CASE \E q \in Pids : Exit(q) \/ SweepLoses(q)
   BY <1>1 DEF Exit, SweepLoses, Gone
 <1>2. CASE ~\E q \in Pids : Exit(q) \/ SweepLoses(q)
   BY <1>2 DEF Next, vars, WalkSteps, CommandSteps, processes, Fork, EnterScope, Exec,
               WatcherDies, SweepOne, EjectOne, Survey, ReadTree, FinishWalk,
               ReconcilerWakes, Apply, UpdatePlan, Remove, Join, StartWatcher,
               CommandWalks, CommandWalkFailed, StartReconciler
 <1> QED BY <1>1, <1>2

\* Replaced rules move nobody into the bypass (system.rs update_plan and
\* stop_reconciler), for any processes, rules and failures.
THEOREM ReplacedRulesAreDead == Spec => StaleRulesMoveNobody
 <1> DEFINE Moves == \A p \in live : group[p] # "bypass" /\ group'[p] = "bypass"
                                        => cause'[p] \in selectors
 <1>1. ASSUME TypeOK, SplitInv, [Next]_vars PROVE Moves
   <2> SUFFICES ASSUME NEW p \in live, group[p] # "bypass", group'[p] = "bypass"
                PROVE  cause'[p] \in selectors
     OBVIOUS
   <2>1. p \in Pids /\ p \in live'
     BY <1>1, GoneIsElsewhere DEF TypeOK, ProcessTypeOK
   <2>2. cause \in [Pids -> OrNone(Rules)]
     BY <1>1 DEF TypeOK, ProcessTypeOK
   <2>3. CASE \E program \in Names \cup {None} : Exec(p, program)
     <3>1. PICK rule \in watcher.rules : EnterBypass(p, rule)
       BY <2>3 DEF Exec, WatchedExec
     <3>2. watcher.rules = selectors
       BY <1>1, <2>3, <3>1 DEF Exec, SplitInv, ThreadsAgree
     <3> QED BY <2>1, <2>2, <3>1, <3>2 DEF EnterBypass
   <2>4. CASE SweepOne(p)
     <3>1. PICK rule \in Listed(p, walk.rules) : EnterBypass(p, rule)
       BY <2>4 DEF SweepOne
     <3>2. rule \in selectors
       BY <1>1, <2>4, <3>1, ListedIsRule
          DEF SweepOne, SplitInv, ThreadsAgree, NoWalk, TypeOK, WalkTypeOK
     <3> QED BY <2>1, <2>2, <3>1, <3>2 DEF EnterBypass
   <2>5. ~(\E id \in Ids : EnterScope(p, id)) /\ ~EjectOne(p)
     BY <1>1, <2>1 DEF EnterScope, EjectOne, TypeOK, ProcessTypeOK
   <2> QED BY <1>1, <2>1, <2>3, <2>4, <2>5, WhoChangesGroup
 <1>2. TypeOK /\ SplitInv /\ [Next]_vars => [Moves]_vars
   BY <1>1
 <1> QED BY <1>2, SplitInvHolds, PTL DEF Spec, StaleRulesMoveNobody

\* Nobody leaves the bypass for the leaf of the taken back until the list has
\* shrunk (system.rs reconcile_with, process.rs matched_application_id).
THEOREM SandboxesStayWhole == Spec => SandboxIsNotCut
 <1> DEFINE Cut == \A p \in live : group[p] = "bypass" /\ group'[p] = "tunneled"
                                      => retracted
 <1>1. ASSUME TypeOK, SplitInv, [Next]_vars PROVE Cut
   <2> SUFFICES ASSUME NEW p \in live, group[p] = "bypass", group'[p] = "tunneled"
                PROVE  retracted
     OBVIOUS
   <2>1. p \in Pids /\ p \in live'
     BY <1>1, GoneIsElsewhere DEF TypeOK, ProcessTypeOK
   <2>2. EjectOne(p)
     <3>1. ~\E id \in Ids : EnterScope(p, id)
       BY <1>1, <2>1 DEF EnterScope, TypeOK, ProcessTypeOK
     <3>2. ~\E program \in Names \cup {None} : Exec(p, program)
       BY <1>1, <2>1 DEF Exec, WatchedExec, EnterBypass, TypeOK, ProcessTypeOK
     <3>3. ~SweepOne(p)
       BY <1>1, <2>1 DEF SweepOne, EnterBypass, TypeOK, ProcessTypeOK
     <3> QED BY <1>1, <2>1, <3>1, <3>2, <3>3, WhoChangesGroup
   <2> QED BY <1>1, <2>2 DEF EjectOne, SplitInv, RecordHonest
 <1>2. TypeOK /\ SplitInv /\ [Next]_vars => [Cut]_vars
   BY <1>1
 <1> QED BY <1>2, SplitInvHolds, PTL DEF Spec, SandboxIsNotCut

-----------------------------------------------------------------------------
(* The limit.                                                               *)

OnRecord(owners) == {p \in Pids : owners[p] # None}

WithinLimit == Recorded(owned) <= MaxOwned

\* Among finitely many pids the record counts by inclusion.
LEMMA RecordCounts ==
    ASSUME IsFiniteSet(Pids), NEW f, NEW g, OnRecord(f) \subseteq OnRecord(g)
    PROVE  Recorded(f) \in Nat /\ Recorded(g) \in Nat /\ Recorded(f) <= Recorded(g)
<1>1. OnRecord(f) \in SUBSET Pids /\ OnRecord(g) \in SUBSET Pids
  BY DEF OnRecord
<1>2. IsFiniteSet(OnRecord(f)) /\ IsFiniteSet(OnRecord(g))
  BY <1>1, FS_Subset
<1>3. Cardinality(OnRecord(f)) <= Cardinality(OnRecord(g))
  BY <1>2, FS_Subset
<1>4. Cardinality(OnRecord(f)) \in Nat /\ Cardinality(OnRecord(g)) \in Nat
  BY <1>2, FS_CardinalityType
<1> QED
  BY <1>3, <1>4 DEF Recorded, OnRecord

\* And grows by no more than what is entered.
LEMMA RecordGrows ==
    ASSUME IsFiniteSet(Pids), NEW f, NEW g, NEW E \in SUBSET Pids,
           OnRecord(g) \subseteq OnRecord(f) \cup E
    PROVE  Recorded(f) \in Nat /\ Recorded(g) \in Nat /\ Cardinality(E) \in Nat
           /\ Recorded(g) <= Recorded(f) + Cardinality(E)
<1> DEFINE U == OnRecord(f) \cup E
<1>1. OnRecord(f) \in SUBSET Pids /\ OnRecord(g) \in SUBSET Pids
  BY DEF OnRecord
<1>2. IsFiniteSet(OnRecord(f)) /\ IsFiniteSet(OnRecord(g)) /\ IsFiniteSet(E)
  BY <1>1, FS_Subset
<1>3. IsFiniteSet(OnRecord(f) \cap E)
  BY <1>2, FS_Subset
<1>4. IsFiniteSet(U) /\ Cardinality(U) = Cardinality(OnRecord(f)) + Cardinality(E) - Cardinality(OnRecord(f) \cap E)
  BY <1>2, FS_Union
<1>5. Cardinality(OnRecord(g)) <= Cardinality(U)
  BY <1>4, FS_Subset
<1>6. /\ Cardinality(OnRecord(f)) \in Nat /\ Cardinality(OnRecord(g)) \in Nat /\ Cardinality(E) \in Nat
      /\ Cardinality(OnRecord(f) \cap E) \in Nat /\ Cardinality(U) \in Nat
  BY <1>2, <1>3, <1>4, FS_CardinalityType
<1>7. Cardinality(OnRecord(g)) <= Cardinality(OnRecord(f)) + Cardinality(E)
  BY <1>4, <1>5, <1>6
<1> QED
  BY <1>6, <1>7 DEF Recorded, OnRecord

\* The walk and the end of a split are all that writes the record.
LEMMA WhoWritesRecord ==
    ASSUME TypeOK, [Next]_vars, owned' # owned
    PROVE  \/ Survey \/ (command = "join" /\ owned' = NoOne)
           \/ \E p \in Pids : SweepOne(p) \/ EjectOne(p)
BY DEF Next, vars, WalkSteps, CommandSteps, Fork, EnterScope, Exec, Exit, SweepLoses, WatcherDies, ReadTree,
       FinishWalk, ReconcilerWakes, Apply, UpdatePlan, Remove, Join, StartWatcher, CommandWalks,
       CommandWalkFailed, StartReconciler

\* A sweep enters a process only where there is room, a survey no more than there is.
LEMMA StepWithinLimit ==
    ASSUME IsFiniteSet(Pids), TypeOK, WithinLimit, [Next]_vars
    PROVE  WithinLimit'
<1> USE BoundsAssumption DEF WithinLimit, TypeOK, WalkTypeOK
<1>1. CASE owned' = owned
  BY <1>1 DEF Recorded
<1>2. CASE \E p \in Pids : SweepOne(p)
  <2>1. PICK p \in Pids : SweepOne(p)
    BY <1>2
  <2>2. CASE HasRoom /\ owned' # owned
    <3>1. OnRecord(owned') \subseteq OnRecord(owned) \cup {p}
      BY <2>1, <2>2 DEF SweepOne, OnRecord
    <3>2. Cardinality({p}) = 1
      BY FS_Singleton
    <3>3. /\ Recorded(owned) \in Nat /\ Recorded(owned') \in Nat
          /\ Recorded(owned') <= Recorded(owned) + Cardinality({p})
      BY <3>1, RecordGrows
    <3> QED
      BY <2>2, <3>2, <3>3 DEF HasRoom
  <2> QED
    BY <1>1, <2>1, <2>2 DEF SweepOne
<1>3. CASE Survey
  <2> DEFINE members == {p \in live : group[p] = "bypass"}
             kept == [p \in Pids |-> IF p \in members THEN owned[p] ELSE None]
             unattributed == {p \in members : kept[p] = None /\ image[p] \in walk.rules}
  <2>1. PICK entered \in SUBSET unattributed :
            /\ entered = {} \/ Recorded(kept) + Cardinality(entered) <= MaxOwned
            /\ owned' = [p \in Pids |-> IF p \in entered THEN image[p] ELSE kept[p]]
    BY <1>3 DEF Survey
  <2>2. entered \in SUBSET Pids
    BY <2>1 DEF ProcessTypeOK
  <2>3. OnRecord(kept) \subseteq OnRecord(owned)
    BY DEF OnRecord
  <2>4. Recorded(kept) \in Nat /\ Recorded(owned) \in Nat /\ Recorded(kept) <= Recorded(owned)
    BY <2>3, RecordCounts
  <2>5. OnRecord(owned') \subseteq OnRecord(kept) \cup entered
    BY <2>1, <2>2 DEF OnRecord
  <2> HIDE DEF kept
  <2>6. /\ Recorded(owned') \in Nat /\ Cardinality(entered) \in Nat
        /\ Recorded(owned') <= Recorded(kept) + Cardinality(entered)
    BY <2>2, <2>5, RecordGrows
  <2>7. CASE entered = {}
    BY <2>4, <2>6, <2>7, FS_EmptySet
  <2>8. CASE Recorded(kept) + Cardinality(entered) <= MaxOwned
    BY <2>4, <2>6, <2>8
  <2> QED
    BY <2>1, <2>7, <2>8
<1>4. CASE \E p \in Pids : EjectOne(p)
  <2>1. OnRecord(owned') \subseteq OnRecord(owned)
    BY <1>4 DEF EjectOne, OnRecord
  <2>2. Recorded(owned') \in Nat /\ Recorded(owned) \in Nat /\ Recorded(owned') <= Recorded(owned)
    BY <2>1, RecordCounts
  <2> QED
    BY <2>2
<1>5. CASE owned' = NoOne
  <2>1. OnRecord(owned') \subseteq OnRecord(owned)
    BY <1>5 DEF NoOne, OnRecord
  <2>2. Recorded(owned') \in Nat /\ Recorded(owned) \in Nat /\ Recorded(owned') <= Recorded(owned)
    BY <2>1, RecordCounts
  <2> QED
    BY <2>2
<1> QED
  BY <1>1, <1>2, <1>3, <1>4, <1>5, WhoWritesRecord

-----------------------------------------------------------------------------
(* What the record names.                                                   *)

\* The rules of the record are listed.
Clean == \A p \in Pids : owned[p] \in OrNone(selectors)

\* A walk throws out whomever it must, and the command that made one, or was made
\* with success, has a clean record.
RecordInv ==
    /\ walk.at = "eject" => \A p \in Pids : owned[p] \in OrNone(walk.rules) \/ p \in walk.eject
    /\ command = "walked" \/ (command = "idle" /\ status = "Active" /\ answer = "ok") => Clean

\* A process belongs to its own subtree.
LEMMA SubtreeHasRoot == \A p \in Pids : p \in Subtree(p)
BY DEF Subtree

\* Every step keeps it.
LEMMA StepRecordInv ==
    ASSUME TypeOK, SplitInv, RecordInv, [Next]_vars
    PROVE  RecordInv'
<1> USE RulesAssumption DEF RecordInv, Clean, SplitInv, ThreadsAgree, CommandAlone, OrNone, processes,
        backend, threads, counters, TypeOK, ProcessTypeOK, CommandTypeOK, ThreadTypeOK, WalkTypeOK
<1>1. CASE UNCHANGED vars
  BY <1>1 DEF vars
<1>2. CASE \E p \in Pids, child \in Pids : Fork(p, child)
  BY <1>2 DEF Fork
<1>3. CASE \E p \in Pids, id \in Ids : EnterScope(p, id)
  BY <1>3 DEF EnterScope
<1>4. CASE \E p \in Pids, program \in Names \cup {None} : Exec(p, program)
  BY <1>4 DEF Exec
<1>5. CASE \E p \in Pids : Exit(p)
  BY <1>5 DEF Exit
<1>6. CASE WatcherDies
  BY <1>6 DEF WatcherDies
<1>7. CASE \E p \in Pids : SweepOne(p)
  <2>1. PICK p \in Pids : SweepOne(p)
    BY <1>7
  <2>2. walk.by # "nobody" /\ walk.rules = selectors
    BY <2>1 DEF SweepOne, NoWalk
  <2>3. \A q \in Pids : owned'[q] \in {owned[q]} \cup walk.rules
    BY <2>1, ListedIsRule DEF SweepOne
  <2> QED
    BY <2>1, <2>2, <2>3 DEF SweepOne
<1>8. CASE \E p \in Pids : SweepLoses(p)
  BY <1>8 DEF SweepLoses, WalkIsOver, NoWalk
<1>9. CASE Survey
  <2>1. walk.rules = selectors
    BY <1>9 DEF Survey
  <2>2. \A p \in Pids : owned'[p] \in {owned[p], None} \cup walk.rules
    <3> DEFINE members == {p \in live : group[p] = "bypass"}
               kept == [p \in Pids |-> IF p \in members THEN owned[p] ELSE None]
    <3>1. PICK entered \in SUBSET {p \in members : kept[p] = None /\ image[p] \in walk.rules} :
              owned' = [p \in Pids |-> IF p \in entered THEN image[p] ELSE kept[p]]
      BY <1>9 DEF Survey
    <3> QED
      BY <3>1
  <2> QED
    BY <1>9, <2>1, <2>2 DEF Survey
<1>10. CASE ReadTree
  <2>1. \A p \in Stale : p \in UNION {Subtree(q) : q \in Stale}
    BY SubtreeHasRoot DEF Stale
  <2>2. \A p \in Pids : owned[p] \in OrNone(walk.rules) \/ p \in Stale
    BY DEF Stale
  <2> QED
    BY <1>10, <2>1, <2>2 DEF ReadTree
<1>11. CASE \E p \in Pids : EjectOne(p)
  BY <1>11 DEF EjectOne
<1>12. CASE FinishWalk
  <2>1. walk.by # "nobody" /\ walk.rules = selectors
    BY <1>12 DEF FinishWalk, NoWalk
  <2>2. Clean
    BY <1>12, <2>1 DEF FinishWalk
  <2> QED
    BY <1>12, <2>2 DEF FinishWalk, WalkIsOver, NoWalk
<1>13. CASE ReconcilerWakes
  BY <1>13 DEF ReconcilerWakes, BeginWalk, NoWalk
<1>14. CASE \E apps \in Plans : Apply(apps)
  BY <1>14 DEF Apply, NewCommand, Called, Answered
<1>15. CASE \E apps \in Plans : UpdatePlan(apps)
  BY <1>15 DEF UpdatePlan, NewCommand, Called, Answered, StopReconciler
<1>16. CASE Remove
  BY <1>16 DEF Remove, NewCommand, Called, StopReconciler
<1>17. CASE Join
  <2>1. walk.at # "eject"
    BY <1>17 DEF Join, Joined, NoWalk
  <2> QED
    BY <1>17, <2>1 DEF Join, Answered
<1>18. CASE StartWatcher
  <2>1. walk.at # "eject"
    BY <1>18 DEF StartWatcher, NoWalk
  <2> QED
    BY <1>18, <2>1 DEF StartWatcher, CommandFails, Answered, StopReconciler
<1>19. CASE CommandWalks
  BY <1>19 DEF CommandWalks, BeginWalk, NoWalk
<1>20. CASE CommandWalkFailed
  BY <1>20 DEF CommandWalkFailed, CommandFails, Answered, StopReconciler
<1>21. CASE StartReconciler
  BY <1>21 DEF StartReconciler, CommandFails, Answered, StopReconciler
<1> QED
  BY <1>1, <1>2, <1>3, <1>4, <1>5, <1>6, <1>7, <1>8, <1>9, <1>10, <1>11, <1>12,
     <1>13, <1>14, <1>15, <1>16, <1>17, <1>18, <1>19, <1>20, <1>21
  DEF Next, WalkSteps, CommandSteps

\* The record stays within MAX_OWNED_PIDS, and, once a command has been answered with
\* success, names no rule that has been taken off the list (system.rs reconcile_with).
THEOREM RecordStaysCurrent ==
    ASSUME IsFiniteSet(Pids)
    PROVE  Spec => []RecordIsCurrent
<1>1. Init => WithinLimit /\ RecordInv
  <2> SUFFICES ASSUME Init PROVE WithinLimit /\ RecordInv
    OBVIOUS
  <2>1. {p \in Pids : owned[p] # None} = {}
    BY DEF Init, NoOne
  <2>2. Recorded(owned) = 0
    BY <2>1, FS_EmptySet DEF Recorded
  <2> QED
    BY <2>2, BoundsAssumption DEF Init, WithinLimit, RecordInv, NoWalk
<1>2. WithinLimit /\ RecordInv => RecordIsCurrent
  BY DEF WithinLimit, RecordInv, Clean, RecordIsCurrent
<1>3. (TypeOK /\ SplitInv) /\ (WithinLimit /\ RecordInv) /\ [Next]_vars => (WithinLimit /\ RecordInv)'
  BY StepWithinLimit, StepRecordInv
<1> QED
  BY <1>1, <1>2, <1>3, SplitInvHolds, PTL DEF Spec
=============================================================================
