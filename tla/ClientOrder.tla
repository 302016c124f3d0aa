------------------------------ MODULE ClientOrder ------------------------------
(***************************************************************************)
(* Client with a record of what came when: the order in which the calls     *)
(* reached the backend, of those whose command may still be carried out.    *)
(* The record changes nothing of what Client does.                         *)
(***************************************************************************)
EXTENDS ClientProps

VARIABLE before   \* the pairs of such calls the first of which came before the second

Commands == {k \in DOMAIN queue : queue[k].what # "status"}

\* Whoever is at the lock of the backend, or has a command at the daemon, given up or not.
AtLock(c) == \E k \in DOMAIN lock : lock[k] = c
Outstanding == {c \in Users : AtLock(c) \/ \E k \in Commands : queue[k].who = c}

\* Calls are taken to the end of the lock's queue.
Arrives == Len(lock') > Len(lock)
Newest == lock'[Len(lock')]

Record ==
    LET new == IF Arrives THEN {<<c, Newest>> : c \in Outstanding' \ {Newest}} ELSE {}
    IN  before' = {p \in before \cup new : p[1] \in Outstanding' /\ p[2] \in Outstanding'}

OrderInit == Init /\ before = {}
OrderSpec == OrderInit /\ [][Next /\ Record]_<<vars, before>> /\ Fairness

\* When the daemon's next request is a command, no other call that may still have one
\* carried out came to the backend before it: a command its client has given up on never
\* comes after a later one, however calls dial again, time out or lose the daemon (vpn.rs:59
\* vpn_op_lock, controller.rs:91).  That is the order of the presses but for a connect whose
\* location is parsed first: it comes when that is done (conn.svelte.ts:174).
CommandsInOrder == 1 \in Commands => \A c \in Outstanding : <<c, Head(queue).who>> \notin before

-----------------------------------------------------------------------------
(* Why the commands are in order: the inductive invariant behind            *)
(* CommandsInOrder, on top of OrderInv.                                    *)

\* Nobody at the lock came before those ahead of it.
LockInTurn == \A i, j \in DOMAIN lock : i < j => <<lock[j], lock[i]>> \notin before

\* A command at the daemon is of a call that has come, and before all that are at the lock.
CommandInTurn(r) ==
    /\ r.who \in Users /\ calls[r.who].kind # "none" /\ calls[r.who].at # "select"
    /\ \A k \in DOMAIN lock : <<lock[k], r.who>> \notin before

\* The record is of two who are outstanding, the lock is in turn and the daemon's queue is.
TurnInv ==
    /\ \A b, c : <<b, c>> \in before => b \in Outstanding /\ c \in Outstanding /\ b # c
    /\ LockInTurn
    /\ \A k \in Commands : CommandInTurn(queue[k])
================================================================================
