-------------------------------- MODULE Client --------------------------------
(***************************************************************************)
(* The window, the Tauri backend and the daemon's queue.  A press of the    *)
(* power button, an edit or a poll starts a call; a call waits for the      *)
(* backend's lock (polls do not), dials the daemon, probes it with a        *)
(* Status, sends its command and brings the answer back to the window,      *)
(* which shows it if no newer operation has begun.  The daemon works its    *)
(* commands off one by one; a client that gives up leaves its command in    *)
(* the queue.  What a command does is reduced to the phase it ends in:      *)
(* Lifecycle says the rest.                                                *)
(*                                                                         *)
(* Assumed of the platform: calls reach the backend in the order in which   *)
(* the window makes them.                                                  *)
(***************************************************************************)
EXTENDS Naturals, Sequences

CONSTANTS
    MaxCalls,    \* bound: connects, disconnects and live edits of the exceptions
    Polls,       \* bound: status polls in flight, a set of call numbers
    Parsed,      \* bound: the connects whose location is edited JSON, which is parsed again, or is missing
    Faults,      \* subset of FaultNames
    MaxEvents    \* bound: requests given up, deaths of the daemon, windows made anew or brought
                 \* to the front

\* "resolve": the name of the location does not resolve; "unserved": the daemon does not
\* answer the probe in time; "abandoned": nor the command.
FaultNames == {"resolve", "unserved", "abandoned"}

ASSUME ClientAssumption ==
    /\ MaxCalls \in Nat /\ MaxEvents \in Nat
    /\ Polls \subseteq Nat /\ \A p \in Polls : p > MaxCalls
    /\ Faults \subseteq FaultNames

VARIABLES
    status, gen, timer, grace, \* the window: what it shows, the gate, lastConnectedAt
                               \* (a timer that is set is one above its generation)
    wish,      \* what the user pressed last; "lapsed": an "off" the code went back on
    calls,     \* what each call is doing
    lock,      \* calls that hold (the first) or await vpn_op_lock
    up, phase, \* the daemon
    queue,     \* requests at the daemon's mutex; ~here: the client has left
    events     \* how many of those there have been

window == <<status, gen, timer, grace>>
daemon == <<up, phase, queue>>
vars == <<window, wish, calls, lock, daemon, events>>

Statuses == {"disconnected", "connecting", "connected", "dropped"}
\* What response_from_daemon makes of a phase.
Shown == {"disconnected", "connected", "dropped"}
Users == 1..MaxCalls
Idle == [kind |-> "none", gen |-> 0, at |-> "done", ask |-> "status", again |-> FALSE, answer |-> "none"]
\* Something happens that nobody pressed for.
Event == events < MaxEvents /\ events' = events + 1

Over == [Idle EXCEPT !.kind = "gone"]

\* A window that has been made asks for the state (+layout.svelte:217).
Poll(g) == [Idle EXCEPT !.kind = "poll", !.gen = g, !.at = "dial"]
Mounted(cs) == {[cs EXCEPT ![p] = Poll(0)] : p \in {q \in Polls : cs[q].at = "done"}}

Init ==
    /\ status = "disconnected" /\ gen = 0 /\ timer = 0 /\ grace = FALSE /\ wish = "none"
    /\ calls \in Mounted([c \in Users \cup Polls |-> Idle]) /\ lock = <<>>
    /\ up = TRUE /\ phase \in {"disconnected", "connected"}
    /\ queue = <<>>
    /\ events = 0

-----------------------------------------------------------------------------
(* The window.                                                             *)

Free(c) == calls[c].kind = "none" /\ \A d \in Users : d < c => calls[d].kind # "none"

\* A call enters the backend; all but polls queue for vpn_op_lock.
Start(c, kind, g) ==
    /\ calls' = [calls EXCEPT ![c] = [Idle EXCEPT !.kind = kind, !.gen = g, !.at = "dial", !.ask = kind]]
    /\ lock' = Append(lock, c)

Begin == gen' = gen + 1 /\ timer' = 0

\* conn.connect(): the location is at hand, or has to be parsed first; that there is none
\* ends it like a parse that fails at once.
Connect(c) ==
    /\ Free(c) /\ Begin
    /\ \/ Start(c, "connect", gen + 1) /\ status' = "connecting"
       \/ /\ c \in Parsed
          /\ calls' = [calls EXCEPT ![c] = [Idle EXCEPT !.kind = "connect", !.gen = gen + 1, !.at = "select",
                                                        !.ask = "connect"]]
          /\ UNCHANGED <<status, lock>>
    /\ UNCHANGED <<grace, daemon, events>>

\* The parsed location arrives; nobody asks whether the connect is still wanted.
Selected(c) ==
    /\ calls[c].at = "select"
    /\ \/ /\ calls' = [calls EXCEPT ![c].at = "dial"] /\ lock' = Append(lock, c)
          /\ status' = "connecting"
          /\ wish' = IF calls[c].gen # gen /\ wish = "off" THEN "lapsed" ELSE wish
       \/ calls' = [calls EXCEPT ![c] = Over] /\ UNCHANGED <<lock, status, wish>>
    /\ UNCHANGED <<gen, timer, grace, daemon, events>>

\* Variant: disconnect() without operations.cancel().
PressNoCancel(c) ==
    \/ status \in {"disconnected", "dropped"} /\ wish' = "on" /\ Connect(c)
    \/ /\ status # "disconnected" /\ wish' = "off"
       /\ Free(c) /\ Start(c, "disconnect", gen)
       /\ UNCHANGED <<window, daemon, events>>

\* toggle(), or the button that clears a drop.
Press(c) ==
    /\ \/ status \in {"disconnected", "dropped"} /\ wish' = "on" /\ Connect(c)
       \/ /\ status # "disconnected" /\ wish' = "off"
          /\ Free(c) /\ Begin /\ Start(c, "disconnect", gen + 1)
          /\ UNCHANGED <<status, grace, daemon, events>>

\* An edit of the configuration schedules a reconnect; an edit of the excluded
\* applications is also sent at once, whatever the status (pushApps).
Edit == 
    /\ timer' = IF status \in {"connected", "connecting"} THEN gen + 1 ELSE timer
    /\ wish' = IF timer' # timer /\ wish = "off" THEN "lapsed" ELSE wish
    /\ \/ timer' # timer /\ UNCHANGED <<calls, lock>>
       \/ \E c \in Users : Free(c) /\ Start(c, "split", gen)
    /\ UNCHANGED <<status, gen, grace, daemon, events>>

TimerFires(c) ==
    /\ timer # 0
    /\ \/ timer = gen + 1 /\ Connect(c) /\ UNCHANGED wish
       \/ /\ timer # gen + 1 /\ timer' = 0 /\ c = 1
          /\ UNCHANGED <<status, gen, grace, wish, calls, lock, daemon, events>>

\* refresh(): every two seconds while connected, and when the window comes to the front.
Refresh(c) ==
    /\ calls[c].at = "done"
    /\ calls' = [calls EXCEPT ![c] = Poll(gen)]
    /\ UNCHANGED <<window, wish, lock, daemon>>
Tick(c) == status = "connected" /\ Refresh(c) /\ UNCHANGED events
ToFront(c) == status # "connected" /\ Refresh(c) /\ Event

GraceEnds == grace /\ grace' = FALSE /\ UNCHANGED <<status, gen, timer, wish, calls, lock, daemon, events>>

\* The web view is made anew: its promises are gone, what the backend does goes on.
Reload ==
    /\ Event
    /\ status' = "disconnected" /\ gen' = 0 /\ timer' = 0 /\ grace' = FALSE
    /\ calls' \in Mounted([c \in DOMAIN calls |->
           CASE calls[c].kind = "none" -> Idle
             [] calls[c].kind # "none" /\ calls[c].at \in {"select", "answered", "done"} -> Over
             [] OTHER -> [calls[c] EXCEPT !.kind = "gone"]])
    /\ UNCHANGED <<wish, lock, daemon>>

ApplyBackendState(state) ==
    /\ status' = state
    /\ grace' = (state = "connected" \/ grace)

\* Variant: a poll never takes a connection back.
PolledUpOnly(state) == IF state = "disconnected" THEN UNCHANGED <<status, grace>> ELSE ApplyBackendState(state)

\* The answer of a poll.
Polled(state) ==
    IF state = "disconnected"
    THEN status' = (IF status \in {"connected", "dropped"} /\ ~grace THEN "disconnected" ELSE status)
         /\ UNCHANGED grace
    ELSE ApplyBackendState(state)

\* Variant: connect() and disconnect() apply their answer without isCurrent.
HandleLate(c) ==
    LET o == calls[c] IN
        /\ o.at = "answered"
        /\ calls' = [calls EXCEPT ![c] = Over]
        /\ IF o.kind = "poll" /\ (o.gen # gen \/ o.answer = "error") THEN UNCHANGED <<status, grace>>
           ELSE IF o.kind = "poll" THEN Polled(o.answer)
           ELSE ApplyBackendState(IF o.answer = "error" THEN "disconnected" ELSE o.answer)
        /\ UNCHANGED <<gen, timer, wish, lock, daemon, events>>

\* The answer comes back to the window.  A connect or a disconnect that failed asks for
\* the state, and says so itself when that fails too, wanted or not.
Handle(c) ==
    LET o == calls[c]
        current == o.gen = gen
        checking == o.kind \in {"connect", "disconnect"} /\ o.ask = "status"
        End == calls' = [calls EXCEPT ![c] = Over]
        Keep == UNCHANGED <<status, grace>>
    IN  /\ o.at = "answered"
        /\ CASE o.kind = "poll" -> End /\ (IF current /\ o.answer # "error" THEN Polled(o.answer) ELSE Keep)
             [] checking /\ o.answer = "error" ->
                  End /\ status' = (IF o.kind = "connect" THEN "disconnected" ELSE "dropped") /\ UNCHANGED grace
             [] OTHER ->
                  IF ~current THEN End /\ Keep
                  ELSE IF o.answer = "error"
                       THEN calls' = [calls EXCEPT ![c] = [Poll(gen) EXCEPT !.kind = o.kind]] /\ Keep
                       ELSE End /\ ApplyBackendState(o.answer)
        /\ UNCHANGED <<gen, timer, wish, lock, daemon, events>>

-----------------------------------------------------------------------------
(* The backend.                                                            *)

\* Nobody in the window waits for a live edit, nor for what an earlier window began.
Answered(o, answer) ==
    IF o.kind \in {"split", "gone"} THEN Over ELSE [o EXCEPT !.at = "answered", !.answer = answer]

\* Variant: an unreachable daemon is a state the window does not know.
UnreachedRaw(o) ==
    IF o.ask = "connect" /\ ~o.again THEN [o EXCEPT !.at = "start"] ELSE Answered(o, "unreachable")

\* The daemon could not be reached or did not answer the probe.  A connect starts one;
\* a disconnect and a status take it that there is nothing to ask.
Unreached(o) ==
    CASE o.ask = "connect" /\ ~o.again -> [o EXCEPT !.at = "start"]
      [] o.ask \in {"disconnect", "status"} -> Answered(o, "disconnected")
      [] OTHER -> Answered(o, "error")

\* Variant: a command that failed keeps the lock.
ReleasedOnSuccess(cs) ==
    IF lock # <<>> /\ (cs[Head(lock)].at = "done" \/ (cs[Head(lock)].at = "answered" /\ cs[Head(lock)].answer # "error"))
    THEN Tail(lock) ELSE lock

\* A call that leaves the backend lets go of the lock; only the first has reached anything.
Released(cs) ==
    IF lock # <<>> /\ cs[Head(lock)].at \in {"answered", "done"} THEN Tail(lock) ELSE lock

Update(cs) == calls' = cs /\ lock' = Released(cs)

\* Variant: commands are not serialised.
HoldsNothing(c) == TRUE

Holds(c) == calls[c].ask = "status" \/ (lock # <<>> /\ Head(lock) = c)

\* vpn_status asks the same Status twice, as the probe and as the command: modelled once.
Dial(c) ==
    /\ calls[c].at = "dial" /\ Holds(c)
    /\ \/ /\ up
          /\ calls' = [calls EXCEPT ![c].at = IF calls[c].ask = "status" THEN "wait" ELSE "probe"]
          /\ queue' = Append(queue, [who |-> c, what |-> "status", here |-> TRUE])
          /\ UNCHANGED lock
       \/ ~up /\ Update([calls EXCEPT ![c] = Unreached(@)]) /\ UNCHANGED queue
       \/ /\ "resolve" \in Faults /\ calls[c].ask = "connect" /\ ~calls[c].again
          /\ Update([calls EXCEPT ![c] = Answered(@, "error")]) /\ UNCHANGED queue
    /\ UNCHANGED <<window, wish, up, phase, events>>

\* pkexec: a second daemon leaves on the lock file of the first; no daemon, no leave from
\* polkit: the connect fails.  What a new daemon's recovery ends in is either.
StartDaemon(c) ==
    /\ calls[c].at = "start"
    /\ \/ /\ up' = TRUE /\ phase' \in (IF up THEN {phase} ELSE {"disconnected", "dropped"})
          /\ Update([calls EXCEPT ![c].at = "dial", ![c].again = TRUE])
       \/ Update([calls EXCEPT ![c] = Answered(@, "error")]) /\ UNCHANGED <<up, phase>>
    /\ UNCHANGED <<window, wish, queue, events>>

\* The probe was answered: the command goes out on the same socket.
Send(c) ==
    /\ calls[c].at = "send"
    /\ \/ /\ up
          /\ calls' = [calls EXCEPT ![c].at = "wait"]
          /\ queue' = Append(queue, [who |-> c, what |-> calls[c].ask, here |-> TRUE])
          /\ UNCHANGED lock
       \/ /\ ~up
          /\ Update([calls EXCEPT ![c] = Answered(@, "error")]) /\ UNCHANGED queue
    /\ UNCHANGED <<window, wish, up, phase, events>>

\* Sixty seconds: the client goes, the command stays.
GiveUp(c) ==
    /\ Event
    /\ \/ /\ "unserved" \in Faults
          /\ calls[c].at = "probe" \/ (calls[c].at = "wait" /\ calls[c].ask = "status")
          /\ Update([calls EXCEPT ![c] = Unreached(@)])
          /\ wish' = IF calls[c].ask = "disconnect" /\ wish = "off" THEN "lapsed" ELSE wish
       \/ /\ "abandoned" \in Faults /\ calls[c].at = "wait"
          /\ Update([calls EXCEPT ![c] = Answered(@, "error")]) /\ UNCHANGED wish
    /\ queue' = [k \in DOMAIN queue |-> [queue[k] EXCEPT !.here = @ /\ queue[k].who # c]]
    /\ UNCHANGED <<window, up, phase>>

-----------------------------------------------------------------------------
(* The daemon.                                                             *)

\* The phases a command may end in, with its answer.
Outcomes(what) ==
    CASE what = "status" -> {<<phase, phase>>} \cup (IF phase = "connected" THEN {<<"error", "dropped">>} ELSE {})
      [] what = "connect" -> {<<"connected", "connected">>} \cup
           {<<"error", p>> : p \in {"disconnected", "dropped"} \cup (IF phase = "connected" THEN {phase} ELSE {})}
      [] what = "disconnect" -> {<<"disconnected", "disconnected">>, <<"error", "dropped">>}
      [] what = "split" -> {<<phase, phase>>, <<"error", phase>>}

\* The request at the head has been worked off; its client, if it is there, has the answer.
\* The refusal of a Status is taken for an unreachable daemon where it is the probe.
Serve ==
    /\ up /\ queue # <<>>
    /\ LET r == Head(queue)
           o == calls[r.who]
       IN  \E out \in Outcomes(r.what) :
             /\ phase' = out[2]
             /\ \/ ~r.here /\ UNCHANGED <<calls, lock>>
                \/ r.here /\ o.at = "wait" /\ Update([calls EXCEPT ![r.who] = Answered(o, out[1])])
                \/ /\ r.here /\ out[1] = "error" /\ (o.at = "probe" \/ o.ask = "status")
                   /\ Update([calls EXCEPT ![r.who] = Unreached(o)])
                \/ /\ r.here /\ out[1] # "error" /\ o.at = "probe"
                   /\ calls' = [calls EXCEPT ![r.who].at = "send"] /\ UNCHANGED lock
    /\ queue' = Tail(queue)
    /\ UNCHANGED <<window, wish, up, events>>

\* The monitor finds that the tunnel has died.
TunnelDies ==
    /\ up /\ phase = "connected" /\ phase' \in {"disconnected", "dropped"}
    /\ UNCHANGED <<window, wish, calls, lock, up, queue, events>>

DaemonDies ==
    /\ up /\ Event
    /\ up' = FALSE /\ phase' = "disconnected" /\ queue' = <<>>
    /\ Update([c \in DOMAIN calls |->
           CASE calls[c].at = "probe" -> Unreached(calls[c])
             [] calls[c].at = "wait" -> Answered(calls[c], "error")
             [] OTHER -> calls[c]])
    /\ UNCHANGED <<window, wish>>

-----------------------------------------------------------------------------
Work(c) == Dial(c) \/ StartDaemon(c) \/ Send(c) \/ Handle(c) \/ Selected(c)

Next ==
    \/ \E c \in Users : Press(c) \/ TimerFires(c)
    \/ \E c \in Polls : Tick(c) \/ ToFront(c)
    \/ Edit \/ GraceEnds \/ Reload
    \/ \E c \in Users \cup Polls : Work(c) \/ GiveUp(c)
    \/ Serve \/ TunnelDies \/ DaemonDies

\* The runtimes poll what is ready, timers and intervals fire, and every wait of the
\* daemon is bounded (Lifecycle!CommandEnds); nothing makes the user press.
Fairness ==
    /\ \A c \in Users \cup Polls : WF_vars(Work(c))
    /\ \A c \in Polls : WF_vars(Tick(c))
    /\ \A c \in Users : WF_vars(TimerFires(c))
    /\ WF_vars(GraceEnds) /\ WF_vars(Serve)

Spec == Init /\ [][Next]_vars /\ Fairness
===============================================================================
