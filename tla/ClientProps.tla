------------------------------ MODULE ClientProps ------------------------------
(* What must hold of Client.                                                  *)
EXTENDS Client

Asks == {"connect", "disconnect", "split", "status"}

Callers == Users \cup Polls
Kinds == {"none", "connect", "disconnect", "split", "poll", "gone"}
CallRecords ==
    {o \in [kind : Kinds, gen : 0..MaxCalls,
            at : {"select", "dial", "start", "probe", "send", "wait", "answered", "done"}, ask : Asks,
            again : BOOLEAN, answer : Shown \cup {"none", "error"}] :
        o.at = "answered" => o.answer # "none"}
RequestRecords == [who : Callers, what : Asks, here : BOOLEAN]

\* The values of the variables: what the window shows is one of its four states, an answer
\* one the window knows, and nobody awaits the lock twice.
TypeOK ==
    /\ status \in Statuses /\ gen \in 0..MaxCalls /\ timer \in 0..(MaxCalls + 1) /\ grace \in BOOLEAN
    /\ wish \in {"none", "on", "off", "lapsed"} /\ events \in 0..MaxEvents
    /\ calls \in [Callers -> CallRecords]
    /\ lock \in Seq(Users) /\ \A i, j \in DOMAIN lock : lock[i] = lock[j] => i = j
    /\ up \in BOOLEAN /\ phase \in Shown
    /\ queue \in Seq(RequestRecords)

\* A connect or a disconnect failed, and so did the status it then asked for.
CheckFailed(o) == o.kind \in {"connect", "disconnect"} /\ o.ask = "status" /\ o.answer = "error"

\* An answer changes what the window shows only if nothing was begun since the call was
\* (connection-operation.ts, "A stale response cannot publish state").  One path is left
\* out: conn.svelte.ts:216 and 236 show an outcome of their own when the status they ask
\* for after a failure is refused too, without asking whether they are still wanted.
StaleNeverShown ==
    [][status' \in Shown /\ status' # status /\ events' = events =>
         \E c \in DOMAIN calls : /\ calls[c].at = "answered" /\ calls'[c].at = "done"
                                 /\ calls[c].gen = gen \/ CheckFailed(calls[c])]_vars

Quiet == timer = 0 /\ queue = <<>> /\ \A c \in DOMAIN calls : calls[c].at = "done"

\* When the user's last press was a disconnect and nothing is under way, the daemon has
\* no connection: no timer, late connect or abandoned command brings one up
\* (connection-operation.test.ts:10).  There are three ways round it, and only three: an
\* edit while the disconnect is under way and the window still shows the connection
\* (conn.svelte.ts:149), a connect whose location is still being parsed (:174), and a
\* daemon too busy to answer the disconnect's probe (vpn.rs:213).
DisconnectIsFinal == Quiet /\ wish = "off" => phase # "connected"

\* A connect that has its location and is still wanted replaces "connecting" by an outcome, on every path that
\* holds the lock, starts a daemon, gives up or asks again.  (One that finds no location, conn.svelte.ts:180,
\* has made its predecessor stale and leaves "connecting" standing.)
Wanted ==
    \E c \in Users : calls[c].kind = "connect" /\ calls[c].gen = gen /\ calls[c].at \notin {"select", "done"}
Superseded ==
    \E c \in Users : calls[c].gen = gen /\ (calls[c].kind = "disconnect" \/ calls[c].at = "select")
ConnectingEnds == status = "connecting" /\ Wanted ~> status # "connecting" \/ Superseded

\* The window does not go on showing a connection the daemon no longer has.
FalseConnectedEnds == []<>(status = "connected" => phase = "connected")

-----------------------------------------------------------------------------
(* How the lock keeps commands apart: the inductive invariant under the     *)
(* others.                                                                 *)

\* A number that is not used yet does nothing, and is above every generation.
Fresh == \A c \in Callers : calls[c].kind = "none" => calls[c].at = "done" /\ (c \in Users => gen < c)

\* A call has come to the backend with a command and has not left it.
InBackend(o) == o.at \in {"dial", "start", "probe", "send", "wait"} /\ o.ask # "status"
LockHasCalls == \A k \in DOMAIN lock : InBackend(calls[lock[k]])

\* Only the holder of the lock gets past dialling with a command.
AtHead(c) == lock # <<>> /\ Head(lock) = c
OneHolder ==
    \A c \in Callers :
        /\ calls[c].at = "select" => c \in Users /\ calls[c].ask # "status"
        /\ calls[c].at \in {"start", "probe", "send"} => calls[c].ask # "status"
        /\ calls[c].at \in {"start", "probe", "send", "wait"} /\ calls[c].ask # "status" => AtHead(c)

\* Nobody has two requests in the queue, and behind a probe there are only Status requests.
OneRequest ==
    \A k \in DOMAIN queue : queue[k].here =>
        /\ calls[queue[k].who].at \in {"probe", "wait"}
        /\ \A j \in DOMAIN queue : queue[j].here /\ queue[j].who = queue[k].who => j = k
        /\ calls[queue[k].who].at = "probe" =>
              queue[k].what = "status" /\ \A j \in DOMAIN queue : j > k => queue[j].what = "status"

\* A command goes out when its probe is answered: then the queue has no other.
OneCommand ==
    /\ \A i, j \in DOMAIN queue : "status" \notin {queue[i].what, queue[j].what} => i = j
    /\ \A c \in Callers : calls[c].at = "send" => \A j \in DOMAIN queue : queue[j].what = "status"

OrderInv == Fresh /\ LockHasCalls /\ OneHolder /\ OneRequest /\ OneCommand

-----------------------------------------------------------------------------
(* Why a disconnect is final: the inductive invariant behind                *)
(* DisconnectIsFinal.                                                       *)

\* Only a connect starts a daemon; whoever waits has its request in the queue; a daemon
\* that is not there has no connection.
WaitsForAnswer ==
    /\ \A c \in Callers : calls[c].at = "start" => calls[c].ask = "connect"
    /\ \A c \in Callers : calls[c].at = "wait" =>
          \E k \in DOMAIN queue : queue[k].who = c /\ queue[k].what = calls[c].ask /\ queue[k].here
    /\ ~up => phase = "disconnected" /\ queue = <<>>

\* Behind a disconnect that is still at the lock there is no connect.
DisconnectComes ==
    \E k \in DOMAIN lock :
        calls[lock[k]].ask = "disconnect" /\ \A j \in DOMAIN lock : j > k => calls[lock[j]].ask # "connect"

\* No connect is at the lock, and the daemon has no connection, or is about to end it.
NoConnect == \A k \in DOMAIN lock : calls[lock[k]].ask # "connect"
ConnectionEnds ==
    \/ \E k \in DOMAIN queue : queue[k].what = "disconnect"
    \/ phase # "connected" /\ \A k \in DOMAIN queue : queue[k].what # "connect"

\* What was begun before the disconnect is overtaken, and no reconnect is scheduled.
Overtaken == timer = 0 /\ \A c \in Callers : calls[c].at = "select" => calls[c].gen < gen

FinalInv ==
    /\ WaitsForAnswer
    /\ \A c \in Callers : calls[c].at = "select" => calls[c].gen <= gen
    /\ wish = "off" => Overtaken /\ (DisconnectComes \/ (NoConnect /\ ConnectionEnds))
================================================================================
