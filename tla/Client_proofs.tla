---------------------------- MODULE Client_proofs ---------------------------
(***************************************************************************)
(* Proofs about Client, for any number of calls, polls and events and any   *)
(* set of faults: every variable keeps its type, the daemon carries         *)
(* commands out in the order in which they came to the backend, an answer   *)
(* that has been overtaken changes nothing the window shows, and a          *)
(* disconnect is final.                                                     *)
(***************************************************************************)
EXTENDS ClientOrder, TLAPS

IInv == TypeOK /\ OrderInv

\* The numbers of presses and of polls are apart.
LEMMA CallNumbers ==
    /\ MaxCalls \in Nat /\ MaxEvents \in Nat /\ Users \subseteq Nat \ {0}
    /\ Users \cap Polls = {} /\ Users \subseteq Callers /\ Polls \subseteq Callers
BY ClientAssumption DEF Users, Callers

\* The lock and the queue as functions on an interval.
LEMMA LockIsSeq ==
    ASSUME TypeOK
    PROVE  /\ lock \in Seq(Users) /\ \A i, j \in DOMAIN lock : lock[i] = lock[j] => i = j
           /\ Len(lock) \in Nat /\ DOMAIN lock = 1..Len(lock)
           /\ \A k \in DOMAIN lock : lock[k] \in Users /\ lock[k] \in Callers
           /\ lock # <<>> => 1 \in DOMAIN lock /\ Head(lock) = lock[1]
<1>1. /\ lock \in Seq(Users) /\ \A i, j \in DOMAIN lock : lock[i] = lock[j] => i = j
      /\ Len(lock) \in Nat /\ DOMAIN lock = 1..Len(lock)
      /\ \A k \in DOMAIN lock : lock[k] \in Users
      /\ lock # <<>> => 1 \in DOMAIN lock /\ Head(lock) = lock[1]
  BY DEF TypeOK
<1> QED
  BY <1>1, CallNumbers

LEMMA QueueIsSeq ==
    ASSUME TypeOK
    PROVE  /\ queue \in Seq(RequestRecords)
           /\ Len(queue) \in Nat /\ DOMAIN queue = 1..Len(queue)
           /\ \A k \in DOMAIN queue : /\ queue[k] \in RequestRecords /\ queue[k].who \in Callers
                                      /\ queue[k].what \in Asks /\ queue[k].here \in BOOLEAN
           /\ queue # <<>> => 1 \in DOMAIN queue /\ Head(queue) = queue[1]
<1>1. /\ queue \in Seq(RequestRecords)
      /\ Len(queue) \in Nat /\ DOMAIN queue = 1..Len(queue)
      /\ \A k \in DOMAIN queue : queue[k] \in RequestRecords
      /\ queue # <<>> => 1 \in DOMAIN queue /\ Head(queue) = queue[1]
  BY DEF TypeOK
<1> QED
  BY <1>1 DEF RequestRecords

-----------------------------------------------------------------------------
(* What happens to the lock.                                               *)

\* A call in the backend goes on, or it leaves: then it held the lock, or had no command.
Moves(c, cs) ==
    \/ cs[c] = calls[c]
    \/ /\ calls[c].at \in {"dial", "start", "probe", "send", "wait"}
       /\ calls[c].ask # "status" => AtHead(c)
       /\ \/ cs[c].at \in {"answered", "done"}
          \/ InBackend(cs[c]) /\ calls[c].ask # "status"
          \/ calls[c].ask = "status" /\ cs[c].ask = "status" /\ cs[c].at = "wait"

\* The lock stays one as calls move: whoever is gone has let go of it.
LEMMA LockIsReleased ==
    ASSUME TypeOK, LockHasCalls, OneHolder, NEW cs \in [Callers -> CallRecords],
           \A c \in Callers : Moves(c, cs),
           calls' = cs, lock' = Released(cs)
    PROVE  /\ lock' \in Seq(Users) /\ \A i, j \in DOMAIN lock' : lock'[i] = lock'[j] => i = j
           /\ LockHasCalls' /\ OneHolder'
<1> USE CallNumbers
<1>1. /\ lock \in Seq(Users) /\ \A i, j \in DOMAIN lock : lock[i] = lock[j] => i = j
      /\ Len(lock) \in Nat /\ DOMAIN lock = 1..Len(lock) /\ \A k \in DOMAIN lock : lock[k] \in Users
      /\ lock # <<>> => 1 \in DOMAIN lock /\ Head(lock) = lock[1]
  BY LockIsSeq
<1>2. \A k \in DOMAIN lock : lock[k] \in Callers /\ InBackend(calls[lock[k]])
  BY <1>1 DEF LockHasCalls
<1>3. \A k \in DOMAIN lock : k # 1 => cs[lock[k]] = calls[lock[k]]
  <2> SUFFICES ASSUME NEW k \in DOMAIN lock, k # 1 PROVE cs[lock[k]] = calls[lock[k]]
    OBVIOUS
  <2>1. lock # <<>> /\ lock[k] # Head(lock)
    BY <1>1
  <2> QED
    BY <2>1, <1>2 DEF Moves, AtHead, InBackend
<1>4. \A c \in Callers : \/ cs[c] = calls[c]
                         \/ cs[c].at \in {"answered", "done"}
                         \/ InBackend(cs[c]) /\ AtHead(c)
                         \/ calls[c].ask = "status" /\ cs[c].ask = "status" /\ cs[c].at = "wait"
  BY DEF Moves
<1>5. CASE lock # <<>> /\ cs[Head(lock)].at \in {"answered", "done"}
  <2>1. lock' = Tail(lock)
    BY <1>5 DEF Released
  <2>2. /\ lock' \in Seq(Users) /\ DOMAIN lock' = 1..(Len(lock) - 1)
        /\ \A k \in DOMAIN lock' : k + 1 \in DOMAIN lock /\ k + 1 # 1 /\ lock'[k] = lock[k + 1]
    BY <1>1, <1>5, <2>1
  <2>3. \A i, j \in DOMAIN lock' : lock'[i] = lock'[j] => i = j
    BY <1>1, <2>2
  <2>4. LockHasCalls'
    BY <1>2, <1>3, <2>2 DEF LockHasCalls
  <2>5. OneHolder'
    BY <1>4, <1>5 DEF OneHolder, AtHead, InBackend
  <2> QED
    BY <2>2, <2>3, <2>4, <2>5
<1>6. CASE ~(lock # <<>> /\ cs[Head(lock)].at \in {"answered", "done"})
  <2>1. lock' = lock
    BY <1>6 DEF Released
  <2>2. \A k \in DOMAIN lock : InBackend(cs[lock[k]])
    <3> SUFFICES ASSUME NEW k \in DOMAIN lock PROVE InBackend(cs[lock[k]])
      OBVIOUS
    <3>1. CASE k # 1
      BY <3>1, <1>2, <1>3
    <3>2. CASE k = 1
      <4>1. lock # <<>> /\ Head(lock) = lock[k]
        BY <3>2, <1>1
      <4> QED
        BY <4>1, <1>2, <1>4, <1>6 DEF InBackend
    <3> QED
      BY <3>1, <3>2
  <2>3. LockHasCalls'
    BY <2>1, <2>2 DEF LockHasCalls
  <2>4. OneHolder'
    BY <1>4, <2>1 DEF OneHolder, AtHead, InBackend
  <2> QED
    BY <1>1, <2>1, <2>3, <2>4
<1> QED
  BY <1>5, <1>6

LockInv ==
    /\ lock \in Seq(Users) /\ \A i, j \in DOMAIN lock : lock[i] = lock[j] => i = j
    /\ LockHasCalls /\ OneHolder

\* As long as nobody leaves the backend, nobody lets go of the lock.
LEMMA LockIsKept ==
    ASSUME TypeOK, LockHasCalls, OneHolder, calls' \in [Callers -> CallRecords], lock' = lock,
           \A c \in Callers : calls'[c] = calls[c] \/ (Moves(c, calls') /\ calls'[c].at \notin {"answered", "done"})
    PROVE  LockInv'
<1>1. \A k \in DOMAIN lock : lock[k] \in Callers /\ calls[lock[k]].at \notin {"answered", "done"}
  BY LockIsSeq DEF LockHasCalls, InBackend
<1>2. lock # <<>> => calls'[Head(lock)].at \notin {"answered", "done"}
  BY <1>1, LockIsSeq
<1>3. lock' = Released(calls')
  BY <1>2 DEF Released
<1>4. \A c \in Callers : Moves(c, calls')
  BY DEF Moves
<1> QED
  BY <1>3, <1>4, LockIsReleased DEF LockInv

\* A call outside the backend may end, ask for the state or wait for its location.
Stays(c) ==
    \/ calls'[c].at = calls[c].at /\ calls'[c].ask = calls[c].ask
    \/ /\ calls[c].at \in {"done", "answered", "select"}
       /\ \/ calls'[c].at \in {"done", "answered"}
          \/ calls'[c].at = "dial" /\ calls'[c].ask = "status"
          \/ calls'[c].at = "select" /\ calls'[c].ask # "status" /\ c \in Users

\* What happens outside the backend leaves the lock as it is.
LEMMA LockStands ==
    ASSUME TypeOK, LockHasCalls, OneHolder, \A c \in Callers : Stays(c), lock' = lock
    PROVE  LockInv'
<1> USE CallNumbers
<1>1. /\ lock \in Seq(Users) /\ \A i, j \in DOMAIN lock : lock[i] = lock[j] => i = j
      /\ \A k \in DOMAIN lock : lock[k] \in Callers
  BY LockIsSeq
<1>2. LockHasCalls'
  BY <1>1 DEF LockHasCalls, Stays, InBackend
<1>3. OneHolder'
  BY DEF OneHolder, Stays, AtHead
<1> QED
  BY <1>1, <1>2, <1>3 DEF LockInv

\* A call that comes to the backend with a command goes to the end of the lock's queue.
LEMMA LockGrows ==
    ASSUME TypeOK, LockHasCalls, OneHolder, NEW c \in Users,
           calls[c].at \in {"done", "select"}, calls'[c].at = "dial", calls'[c].ask # "status",
           \A d \in Callers : d # c => calls'[d] = calls[d], lock' = Append(lock, c)
    PROVE  LockInv'
<1> USE CallNumbers
<1>1. /\ lock \in Seq(Users) /\ \A i, j \in DOMAIN lock : lock[i] = lock[j] => i = j
      /\ Len(lock) \in Nat /\ DOMAIN lock = 1..Len(lock) /\ \A k \in DOMAIN lock : lock[k] \in Users
      /\ lock # <<>> => 1 \in DOMAIN lock /\ Head(lock) = lock[1]
  BY LockIsSeq
<1>2. /\ lock' \in Seq(Users) /\ DOMAIN lock' = 1..(Len(lock) + 1) /\ lock' # <<>>
      /\ \A k \in DOMAIN lock : lock'[k] = lock[k]
      /\ lock'[Len(lock) + 1] = c /\ Head(lock') = lock'[1]
  BY <1>1
<1>3. \A k \in DOMAIN lock : lock[k] # c
  BY <1>1 DEF LockHasCalls, InBackend
<1>4. \A k \in DOMAIN lock' : k \in DOMAIN lock \/ k = Len(lock) + 1
  BY <1>1, <1>2
<1>5. \A i, j \in DOMAIN lock' : lock'[i] = lock'[j] => i = j
  BY <1>1, <1>2, <1>3, <1>4
<1>7. LockHasCalls'
  <2> SUFFICES ASSUME NEW k \in DOMAIN lock' PROVE InBackend(calls'[lock'[k]])
    BY DEF LockHasCalls, InBackend
  <2>1. CASE k \in DOMAIN lock
    <3>1. lock'[k] = lock[k] /\ lock[k] # c /\ lock[k] \in Callers
      BY <2>1, <1>1, <1>2, <1>3
    <3> QED
      BY <2>1, <3>1 DEF LockHasCalls, InBackend
  <2>2. CASE k = Len(lock) + 1
    BY <2>2, <1>2 DEF InBackend
  <2> QED
    BY <1>4, <2>1, <2>2
<1>8. OneHolder'
  <2> SUFFICES ASSUME NEW d \in Callers
               PROVE  /\ calls'[d].at = "select" => d \in Users /\ calls'[d].ask # "status"
                      /\ calls'[d].at \in {"start", "probe", "send"} => calls'[d].ask # "status"
                      /\ calls'[d].at \in {"start", "probe", "send", "wait"} /\ calls'[d].ask # "status"
                         => AtHead(d)'
    BY DEF OneHolder
  <2>1. AtHead(d) => AtHead(d)'
    BY <1>1, <1>2 DEF AtHead
  <2> QED
    BY <2>1 DEF OneHolder
<1> QED
  BY <1>2, <1>5, <1>7, <1>8 DEF LockInv

-----------------------------------------------------------------------------
(* What happens to the queue.                                              *)

QueueInv == OneRequest /\ OneCommand

\* While the queue stands nobody with a request in it moves, and nobody may send.
LEMMA QueueStands ==
    ASSUME TypeOK, QueueInv, queue' = queue,
           \A c \in Callers : /\ calls[c].at \in {"probe", "wait"} => calls'[c].at = calls[c].at
                              /\ calls'[c].at = "send" => calls[c].at = "send"
    PROVE  QueueInv'
<1>1. \A k \in DOMAIN queue : queue[k].who \in Callers
  BY QueueIsSeq
<1>2. OneRequest'
  BY <1>1 DEF QueueInv, OneRequest
<1>3. OneCommand'
  BY DEF QueueInv, OneCommand
<1> QED
  BY <1>2, <1>3 DEF QueueInv


-----------------------------------------------------------------------------
(* The records of the calls.                                               *)

LEMMA CallFields ==
    ASSUME NEW o \in CallRecords
    PROVE  /\ o.gen \in 0..MaxCalls /\ o.ask \in Asks /\ o.again \in BOOLEAN
           /\ o.kind \in Kinds
           /\ o.at \in {"select", "dial", "start", "probe", "send", "wait", "answered", "done"}
           /\ o.answer \in Shown \cup {"none", "error"} /\ (o.at = "answered" => o.answer # "none")
BY DEF CallRecords

\* The records calls begin and end with.
LEMMA NewCalls ==
    /\ Idle \in CallRecords /\ Over \in CallRecords
    /\ \A g \in 0..MaxCalls : Poll(g) \in CallRecords
    /\ \A g \in 0..MaxCalls : \A kind \in {"connect", "disconnect", "split"} :
          /\ [Idle EXCEPT !.kind = kind, !.gen = g, !.at = "dial", !.ask = kind] \in CallRecords
          /\ [Idle EXCEPT !.kind = kind, !.gen = g, !.at = "select", !.ask = kind] \in CallRecords
    /\ \A g \in 0..MaxCalls : \A kind \in Kinds : [Poll(g) EXCEPT !.kind = kind] \in CallRecords
<1> USE DEF Idle, Over, Poll, CallRecords, Asks, Shown, Kinds
<1>1. 0 \in 0..MaxCalls
  BY CallNumbers
<1>2. Idle \in CallRecords /\ Over \in CallRecords
  BY <1>1
<1>3. \A g \in 0..MaxCalls : Poll(g) \in CallRecords
  OBVIOUS
<1>4. ASSUME NEW g \in 0..MaxCalls, NEW kind \in {"connect", "disconnect", "split"}
      PROVE  /\ [Idle EXCEPT !.kind = kind, !.gen = g, !.at = "dial", !.ask = kind] \in CallRecords
             /\ [Idle EXCEPT !.kind = kind, !.gen = g, !.at = "select", !.ask = kind] \in CallRecords
  OBVIOUS
<1>5. ASSUME NEW g \in 0..MaxCalls, NEW kind \in Kinds
      PROVE  [Poll(g) EXCEPT !.kind = kind] \in CallRecords
  OBVIOUS
<1> QED
  BY <1>2, <1>3, <1>4, <1>5

\* How a call in the backend goes on, fails or is answered.
LEMMA NextCalls ==
    ASSUME NEW o \in CallRecords
    PROVE  /\ \A at \in {"dial", "start", "probe", "send", "wait"} : [o EXCEPT !.at = at] \in CallRecords
           /\ [o EXCEPT !.at = "dial", !.again = TRUE] \in CallRecords
           /\ [o EXCEPT !.kind = "gone"] \in CallRecords
           /\ \A answer \in Shown \cup {"error"} : Answered(o, answer) \in CallRecords
           /\ Unreached(o) \in CallRecords
<1>1. \A at \in {"dial", "start", "probe", "send", "wait"} : [o EXCEPT !.at = at] \in CallRecords
  BY DEF CallRecords
<1>2. [o EXCEPT !.at = "dial", !.again = TRUE] \in CallRecords /\ [o EXCEPT !.kind = "gone"] \in CallRecords
  BY DEF CallRecords, Kinds
<1>3. \A answer \in Shown \cup {"error"} : [o EXCEPT !.at = "answered", !.answer = answer] \in CallRecords
  BY DEF CallRecords, Shown
<1>4. \A answer \in Shown \cup {"error"} : Answered(o, answer) \in CallRecords
  BY <1>3, NewCalls DEF Answered
<1>5. Unreached(o) \in CallRecords
  BY <1>1, <1>4 DEF Unreached, Shown
<1> QED
  BY <1>1, <1>2, <1>4, <1>5

\* Where such a call is then.
LEMMA WhereNext ==
    ASSUME NEW o \in CallRecords
    PROVE  /\ \A answer : Answered(o, answer).at \in {"answered", "done"}
           /\ \/ Unreached(o).at \in {"answered", "done"}
              \/ Unreached(o).at = "start" /\ Unreached(o).ask = "connect" /\ o.ask = "connect"
           /\ \A answer : Answered(o, answer).kind = "none" => o.kind = "none"
           /\ Unreached(o).kind = "none" => o.kind = "none"
<1>1. \A answer : /\ Answered(o, answer).at \in {"answered", "done"}
                  /\ Answered(o, answer).kind = "none" => o.kind = "none"
  BY DEF Answered, Over, Idle, CallRecords
<1>2. /\ \/ Unreached(o).at \in {"answered", "done"}
         \/ Unreached(o).at = "start" /\ Unreached(o).ask = "connect" /\ o.ask = "connect"
      /\ Unreached(o).kind = "none" => o.kind = "none"
  BY <1>1 DEF Unreached, CallRecords
<1> QED
  BY <1>1, <1>2

\* A call that failed.
LEMMA FailedCall ==
    ASSUME NEW o \in CallRecords
    PROVE  /\ Answered(o, "error") \in CallRecords /\ Answered(o, "error").at \in {"answered", "done"}
           /\ Answered(o, "error").kind = "none" => o.kind = "none"
<1>1. "error" \in Shown \cup {"error"}
  OBVIOUS
<1>2. Answered(o, "error") \in CallRecords
  BY <1>1, NextCalls
<1>3. Answered(o, "error").at \in {"answered", "done"} /\ (Answered(o, "error").kind = "none" => o.kind = "none")
  BY WhereNext
<1> QED
  BY <1>2, <1>3

-----------------------------------------------------------------------------
(* The parts the invariant is proved in.                                   *)

Scalars == /\ status \in Statuses /\ gen \in 0..MaxCalls /\ timer \in 0..(MaxCalls + 1) /\ grace \in BOOLEAN
           /\ wish \in {"none", "on", "off", "lapsed"} /\ events \in 0..MaxEvents
           /\ up \in BOOLEAN /\ phase \in Shown
Records == calls \in [Callers -> CallRecords] /\ queue \in Seq(RequestRecords)

LEMMA Parts == IInv <=> Scalars /\ Records /\ Fresh /\ LockInv /\ QueueInv
BY DEF IInv, TypeOK, OrderInv, Scalars, Records, LockInv, QueueInv

LEMMA PartsNext == Scalars' /\ Records' /\ Fresh' /\ LockInv' /\ QueueInv' => IInv'
BY DEF IInv, TypeOK, OrderInv, Scalars, Records, LockInv, QueueInv

\* What begins a generation belongs to a call nobody has used.
LEMMA NextGeneration ==
    ASSUME IInv, NEW c \in Users, Free(c)
    PROVE  /\ gen + 1 \in 0..MaxCalls /\ gen + 1 <= c /\ calls[c].at = "done"
           /\ \A d \in Users : d # c /\ calls[d].kind = "none" => gen < d /\ gen + 1 < d /\ calls[d].at = "done"
<1>1. /\ gen \in 0..MaxCalls /\ calls[c].kind = "none" /\ \A d \in Users : d < c => calls[d].kind # "none"
      /\ \A d \in Users : calls[d].kind = "none" => gen < d /\ calls[d].at = "done"
  BY CallNumbers DEF IInv, TypeOK, OrderInv, Fresh, Free
<1>2. c \in Nat /\ c <= MaxCalls /\ \A d \in Users : d \in Nat
  BY CallNumbers DEF Users
<1>3. gen + 1 \in 0..MaxCalls /\ gen + 1 <= c /\ calls[c].at = "done"
  BY <1>1, <1>2, CallNumbers
<1>4. ASSUME NEW d \in Users, d # c, calls[d].kind = "none"
      PROVE  gen < d /\ gen + 1 < d /\ calls[d].at = "done"
  <2>1. d \in Nat /\ ~(d < c)
    BY <1>1, <1>2, <1>4
  <2>2. c < d
    BY <1>2, <1>4, <2>1
  <2> QED
    BY <1>1, <1>2, <1>3, <1>4, <2>2
<1> QED
  BY <1>3, <1>4

\* A call starts.
LEMMA StartStep ==
    ASSUME IInv, NEW c \in Users, Free(c), NEW kind \in {"connect", "disconnect", "split"},
           NEW g \in 0..MaxCalls, Start(c, kind, g), gen' \in {gen, gen + 1}, queue' = queue
    PROVE  Records' /\ Fresh' /\ LockInv' /\ QueueInv'
<1> USE CallNumbers
<1> DEFINE o == [Idle EXCEPT !.kind = kind, !.gen = g, !.at = "dial", !.ask = kind]
<1>1. Scalars /\ Records /\ Fresh /\ LockHasCalls /\ OneHolder /\ QueueInv /\ TypeOK
  BY Parts DEF IInv, LockInv
<1>2. /\ calls' = [calls EXCEPT ![c] = o] /\ lock' = Append(lock, c)
      /\ o \in CallRecords /\ o.kind = kind /\ o.at = "dial" /\ o.ask = kind
  BY NewCalls DEF Start, Idle
<1> HIDE DEF o
<1>3. calls'[c] = o /\ \A d \in Callers : d # c => calls'[d] = calls[d]
  BY <1>1, <1>2 DEF Records
<1>4. Records'
  BY <1>1, <1>2 DEF Records
<1>5. Fresh'
  <2> SUFFICES ASSUME NEW d \in Callers, calls'[d].kind = "none"
               PROVE  calls'[d].at = "done" /\ (d \in Users => gen' < d)
    BY DEF Fresh
  <2>1. d # c /\ calls'[d] = calls[d]
    BY <1>2, <1>3
  <2> QED
    BY <1>1, <2>1, NextGeneration DEF Fresh
<1>6. LockInv'
  <2>1. calls'[c].ask # "status" /\ calls'[c].at = "dial" /\ calls[c].at \in {"done", "select"}
    BY <1>2, <1>3, NextGeneration
  <2> QED
    BY <1>1, <1>2, <1>3, <2>1, LockGrows
<1>7. QueueInv'
  BY <1>1, <1>2, <1>3, NextGeneration, QueueStands
<1> QED
  BY <1>4, <1>5, <1>6, <1>7

\* A press of the button that connects, or the timer of an edit.
LEMMA ConnectStep ==
    ASSUME IInv, NEW c \in Users, Connect(c), wish' \in {"none", "on", "off", "lapsed"}
    PROVE  IInv'
<1> USE CallNumbers
<1>1. Scalars /\ Records /\ Fresh /\ LockHasCalls /\ OneHolder /\ QueueInv /\ TypeOK
  BY Parts DEF IInv, LockInv
<1>2. /\ Free(c) /\ gen' = gen + 1 /\ timer' = 0 /\ grace' = grace /\ events' = events
      /\ up' = up /\ phase' = phase /\ queue' = queue /\ status' \in {status, "connecting"}
  BY DEF Connect, Begin, daemon
<1>3. Scalars'
  BY <1>1, <1>2, NextGeneration DEF Scalars, Statuses
<1>4. CASE Start(c, "connect", gen + 1)
  BY <1>2, <1>3, <1>4, StartStep, NextGeneration, PartsNext
<1>5. CASE /\ calls' = [calls EXCEPT ![c] = [Idle EXCEPT !.kind = "connect", !.gen = gen + 1,
                                                         !.at = "select", !.ask = "connect"]]
           /\ lock' = lock
  <2> DEFINE o == [Idle EXCEPT !.kind = "connect", !.gen = gen + 1, !.at = "select", !.ask = "connect"]
  <2>1. /\ calls' = [calls EXCEPT ![c] = o]
        /\ o \in CallRecords /\ o.kind = "connect" /\ o.at = "select" /\ o.ask = "connect"
    BY <1>2, <1>5, NewCalls, NextGeneration DEF Idle
  <2> HIDE DEF o
  <2>2. calls'[c] = o /\ \A d \in Callers : d # c => calls'[d] = calls[d]
    BY <1>1, <2>1 DEF Records
  <2>3. Records'
    BY <1>1, <1>2, <2>1 DEF Records
  <2>4. Fresh'
    BY <1>1, <1>2, <2>1, <2>2, NextGeneration DEF Fresh
  <2>5. LockInv'
    BY <1>1, <1>2, <1>5, <2>1, <2>2, NextGeneration, LockStands DEF Stays
  <2>6. QueueInv'
    BY <1>1, <1>2, <2>1, <2>2, NextGeneration, QueueStands
  <2> QED
    BY <1>3, <2>3, <2>4, <2>5, <2>6, PartsNext
<1> QED
  BY <1>4, <1>5 DEF Connect


\* A disconnect, or the button that clears a drop.
LEMMA PressStep == ASSUME IInv, NEW c \in Users, Press(c) PROVE IInv'
<1>1. CASE status \in {"disconnected", "dropped"} /\ wish' = "on" /\ Connect(c)
  BY <1>1, ConnectStep
<1>2. CASE /\ wish' = "off" /\ Free(c) /\ Begin /\ Start(c, "disconnect", gen + 1)
           /\ UNCHANGED <<status, grace, daemon, events>>
  <2>1. Scalars
    BY Parts
  <2>2. Scalars' /\ gen' = gen + 1 /\ queue' = queue /\ gen + 1 \in 0..MaxCalls
    BY <1>2, <2>1, NextGeneration, CallNumbers DEF Scalars, Begin, daemon
  <2>3. Records' /\ Fresh' /\ LockInv' /\ QueueInv'
    BY <1>2, <2>2, StartStep
  <2> QED
    BY <2>2, <2>3, PartsNext
<1> QED
  BY <1>1, <1>2 DEF Press

\* What happens outside the backend to any number of calls.
LEMMA OutsideStep ==
    ASSUME IInv, calls' \in [Callers -> CallRecords], \A d \in Callers : Stays(d),
           \A d \in Callers : calls'[d].kind = "none" => calls[d].kind = "none" /\ calls'[d].at = "done",
           gen' \in {0, gen}, lock' = lock, queue' = queue
    PROVE  Records' /\ Fresh' /\ LockInv' /\ QueueInv'
<1>1. Scalars /\ Records /\ Fresh /\ LockHasCalls /\ OneHolder /\ QueueInv /\ TypeOK
  BY Parts DEF IInv, LockInv
<1>2. Records'
  BY <1>1 DEF Records
<1>3. Fresh'
  <2>1. gen' = gen \/ gen' <= gen
    BY <1>1, CallNumbers DEF Scalars
  <2>2. \A d \in Callers : d \in Users => d \in Nat /\ d > 0
    BY CallNumbers
  <2> QED
    BY <1>1, <2>1, <2>2, CallNumbers DEF Fresh, Scalars
<1>4. LockInv'
  BY <1>1, LockStands
<1>5. QueueInv'
  BY <1>1, QueueStands DEF Stays
<1> QED
  BY <1>2, <1>3, <1>4, <1>5

\* An edit.
LEMMA EditStep == ASSUME IInv, Edit PROVE IInv'
<1>1. Scalars /\ Records
  BY Parts
<1>2. Scalars' /\ gen' = gen /\ queue' = queue /\ gen \in 0..MaxCalls
  <2>1. gen + 1 \in 0..(MaxCalls + 1)
    BY <1>1, CallNumbers DEF Scalars
  <2> QED
    BY <1>1, <2>1 DEF Scalars, Edit, daemon
<1>3. CASE UNCHANGED <<calls, lock>>
  <2>1. /\ calls' \in [Callers -> CallRecords] /\ \A d \in Callers : Stays(d)
        /\ \A d \in Callers : calls'[d].kind = "none" => calls[d].kind = "none" /\ calls'[d].at = "done"
        /\ lock' = lock
    BY <1>1, <1>3, Parts DEF Records, Stays, Fresh
  <2> QED
    BY <1>2, <2>1, OutsideStep, PartsNext
<1>4. ASSUME NEW c \in Users, Free(c), Start(c, "split", gen) PROVE IInv'
  BY <1>2, <1>4, StartStep, PartsNext
<1> QED
  BY <1>3, <1>4 DEF Edit

\* A timer, in time or overtaken.
LEMMA TimerStep == ASSUME IInv, NEW c \in Users, TimerFires(c) PROVE IInv'
<1>1. Scalars /\ Records
  BY Parts
<1>2. CASE timer = gen + 1 /\ Connect(c) /\ UNCHANGED wish
  BY <1>1, <1>2, ConnectStep DEF Scalars
<1>3. CASE timer' = 0 /\ UNCHANGED <<status, gen, grace, wish, calls, lock, daemon, events>>
  <2>1. Scalars' /\ gen' = gen /\ queue' = queue /\ lock' = lock
    BY <1>1, <1>3, CallNumbers DEF Scalars, daemon
  <2>2. /\ calls' \in [Callers -> CallRecords] /\ \A d \in Callers : Stays(d)
        /\ \A d \in Callers : calls'[d].kind = "none" => calls[d].kind = "none" /\ calls'[d].at = "done"
    BY <1>1, <1>3, Parts DEF Records, Stays, Fresh
  <2> QED
    BY <2>1, <2>2, OutsideStep, PartsNext
<1> QED
  BY <1>2, <1>3 DEF TimerFires


\* The location arrives, or there is none.
LEMMA SelectedStep == ASSUME IInv, NEW c \in Callers, Selected(c) PROVE IInv'
<1>1. Scalars /\ Records /\ Fresh /\ LockHasCalls /\ OneHolder /\ QueueInv /\ TypeOK
  BY Parts DEF IInv, LockInv
<1>2. Scalars' /\ gen' = gen /\ queue' = queue
  BY <1>1 DEF Selected, Scalars, Statuses, daemon
<1>3. calls[c] \in CallRecords /\ calls[c].at = "select" /\ calls[c].ask # "status" /\ c \in Users
  BY <1>1 DEF Selected, Records, OneHolder
<1>4. calls[c].kind # "none"
  BY <1>1, <1>3 DEF Fresh
<1>5. CASE calls' = [calls EXCEPT ![c].at = "dial"] /\ lock' = Append(lock, c)
  <2>1. /\ calls' \in [Callers -> CallRecords] /\ calls'[c].at = "dial" /\ calls'[c].ask # "status"
        /\ calls'[c].kind # "none" /\ \A d \in Callers : d # c => calls'[d] = calls[d]
    <3>1. calls' = [calls EXCEPT ![c] = [calls[c] EXCEPT !.at = "dial"]]
      BY <1>5
    <3>2. [calls[c] EXCEPT !.at = "dial"] \in CallRecords
      BY <1>3, NextCalls
    <3>3. /\ [calls[c] EXCEPT !.at = "dial"].at = "dial" /\ [calls[c] EXCEPT !.at = "dial"].ask # "status"
          /\ [calls[c] EXCEPT !.at = "dial"].kind # "none"
      BY <1>3, <1>4 DEF CallRecords
    <3> QED
      BY <1>1, <3>1, <3>2, <3>3 DEF Records
  <2>2. Records' /\ Fresh'
    BY <1>1, <1>2, <2>1, CallNumbers DEF Records, Fresh
  <2>3. LockInv'
    BY <1>1, <1>3, <1>5, <2>1, LockGrows
  <2>4. QueueInv'
    BY <1>1, <1>2, <1>3, <2>1, QueueStands
  <2> QED
    BY <1>2, <2>2, <2>3, <2>4, PartsNext
<1>6. CASE calls' = [calls EXCEPT ![c] = Over] /\ lock' = lock
  <2>1. /\ calls' \in [Callers -> CallRecords] /\ calls'[c].at = "done" /\ calls'[c].kind = "gone"
        /\ \A d \in Callers : d # c => calls'[d] = calls[d]
    BY <1>1, <1>6, NewCalls DEF Records, Over, Idle
  <2>2. /\ \A d \in Callers : Stays(d)
        /\ \A d \in Callers : calls'[d].kind = "none" => calls[d].kind = "none" /\ calls'[d].at = "done"
    BY <1>1, <1>3, <2>1, CallNumbers DEF Stays, Fresh
  <2> QED
    BY <1>2, <1>6, <2>1, <2>2, OutsideStep, PartsNext
<1> QED
  BY <1>5, <1>6 DEF Selected

\* A poll.
LEMMA RefreshStep ==
    ASSUME IInv, NEW p \in Polls, Refresh(p), events' \in 0..MaxEvents
    PROVE  IInv'
<1>1. Scalars /\ Records /\ Fresh
  BY Parts
<1>2. Scalars' /\ gen' = gen /\ queue' = queue /\ lock' = lock
  BY <1>1 DEF Refresh, Scalars, window, daemon
<1>3. /\ calls' \in [Callers -> CallRecords] /\ calls'[p] = Poll(gen) /\ calls[p].at = "done"
      /\ \A d \in Callers : d # p => calls'[d] = calls[d]
  <2>1. calls' = [calls EXCEPT ![p] = Poll(gen)] /\ calls[p].at = "done"
    BY DEF Refresh
  <2>2. Poll(gen) \in CallRecords /\ p \in Callers
    BY <1>1, NewCalls, CallNumbers DEF Scalars
  <2> QED
    BY <1>1, <2>1, <2>2 DEF Records
<1>4. calls'[p].kind = "poll" /\ calls'[p].at = "dial" /\ calls'[p].ask = "status"
  BY <1>3 DEF Poll, Idle
<1>5. \A d \in Callers : Stays(d)
  BY <1>3, <1>4 DEF Stays
<1>6. \A d \in Callers : calls'[d].kind = "none" => calls[d].kind = "none" /\ calls'[d].at = "done"
  BY <1>1, <1>3, <1>4 DEF Fresh
<1> QED
  BY <1>2, <1>3, <1>5, <1>6, OutsideStep, PartsNext

\* A window that is made anew polls, with what an answer or an end leaves of its calls.
LEMMA MountedCalls ==
    ASSUME NEW cs \in [Callers -> CallRecords], NEW ms \in Mounted(cs)
    PROVE  \E p \in Polls : /\ cs[p].at = "done" /\ ms[p] = Poll(0) /\ ms \in [Callers -> CallRecords]
                            /\ \A d \in Callers : d # p => ms[d] = cs[d]
<1>1. PICK p \in Polls : cs[p].at = "done" /\ ms = [cs EXCEPT ![p] = Poll(0)]
  BY DEF Mounted
<1>2. 0 \in 0..MaxCalls
  BY CallNumbers
<1>3. Poll(0) \in CallRecords
  BY <1>2, NewCalls
<1> QED
  BY <1>1, <1>3, CallNumbers

\* The calls of a window that is made anew: what it awaited is over, what the backend does
\* goes on for nobody, and a poll asks for the state.
LEMMA ReloadCalls ==
    ASSUME IInv, Reload
    PROVE  /\ calls' \in [Callers -> CallRecords]
           /\ \A d \in Callers :
                 /\ \/ calls'[d].at = calls[d].at /\ calls'[d].ask = calls[d].ask
                    \/ /\ calls[d].at \in {"select", "answered", "done"}
                       /\ calls'[d].at = "done" \/ (calls'[d].at = "dial" /\ calls'[d].ask = "status")
                 /\ calls'[d].at # "select"
                 /\ calls'[d].kind = "none" => calls[d].kind = "none" /\ calls'[d].at = "done"
<1> DEFINE cs == [c \in DOMAIN calls |->
                     CASE calls[c].kind = "none" -> Idle
                       [] calls[c].kind # "none" /\ calls[c].at \in {"select", "answered", "done"} -> Over
                       [] OTHER -> [calls[c] EXCEPT !.kind = "gone"]]
<1>1. Scalars /\ Records /\ Fresh
  BY Parts
<1>2. ASSUME NEW d \in Callers
      PROVE  /\ d \in DOMAIN calls /\ cs[d] \in CallRecords /\ cs[d].at # "select"
             /\ \/ cs[d].at = "done" /\ calls[d].at \in {"select", "answered", "done"}
                \/ cs[d].at = calls[d].at /\ cs[d].ask = calls[d].ask
             /\ cs[d].kind = "none" => calls[d].kind = "none" /\ cs[d].at = "done"
  <2>1. d \in DOMAIN calls /\ calls[d] \in CallRecords
    BY <1>1 DEF Records
  <2>2. CASE calls[d].kind = "none"
    <3>1. cs[d] = Idle /\ calls[d].at = "done"
      BY <1>1, <2>1, <2>2 DEF Fresh
    <3> QED
      BY <2>1, <2>2, <3>1, NewCalls DEF Idle
  <2>3. CASE calls[d].kind # "none" /\ calls[d].at \in {"select", "answered", "done"}
    <3>1. cs[d] = Over
      BY <2>1, <2>3
    <3> QED
      BY <2>1, <2>3, <3>1, NewCalls DEF Idle, Over
  <2>4. CASE calls[d].kind # "none" /\ calls[d].at \notin {"select", "answered", "done"}
    <3>1. cs[d] = [calls[d] EXCEPT !.kind = "gone"]
      BY <2>1, <2>4
    <3>2. /\ [calls[d] EXCEPT !.kind = "gone"].kind = "gone"
          /\ [calls[d] EXCEPT !.kind = "gone"].at = calls[d].at
          /\ [calls[d] EXCEPT !.kind = "gone"].ask = calls[d].ask
      BY <2>1 DEF CallRecords
    <3> QED
      BY <2>1, <2>4, <3>1, <3>2, NextCalls
  <2> QED
    BY <2>2, <2>3, <2>4
<1>3. DOMAIN cs = Callers /\ calls' \in Mounted(cs)
  BY <1>1 DEF Records, Reload
<1> HIDE DEF cs
<1>4. cs \in [Callers -> CallRecords]
  <2>1. cs = [d \in Callers |-> cs[d]]
    BY <1>1 DEF Records, cs
  <2> QED
    BY <1>2, <2>1
<1>5. PICK p \in Polls : /\ cs[p].at = "done" /\ calls'[p] = Poll(0) /\ calls' \in [Callers -> CallRecords]
                         /\ \A d \in Callers : d # p => calls'[d] = cs[d]
  BY <1>3, <1>4, MountedCalls
<1>6. calls'[p].at = "dial" /\ calls'[p].ask = "status" /\ calls'[p].kind = "poll" /\ p \in Callers
  BY <1>5, CallNumbers DEF Poll, Idle
<1>7. calls[p].at \in {"select", "answered", "done"}
  BY <1>2, <1>5, <1>6
<1> QED
  BY <1>2, <1>5, <1>6, <1>7

\* The web view is made anew.
LEMMA ReloadStep == ASSUME IInv, Reload PROVE IInv'
<1>1. Scalars /\ Records /\ Fresh
  BY Parts
<1>2. Scalars' /\ gen' = 0 /\ queue' = queue /\ lock' = lock
  <2>1. 0 \in 0..MaxCalls /\ 0 \in 0..(MaxCalls + 1)
    BY CallNumbers
  <2>2. events + 1 \in 0..MaxEvents
    BY <1>1, CallNumbers DEF Reload, Event, Scalars
  <2> QED
    BY <1>1, <2>1, <2>2 DEF Reload, Event, Scalars, Statuses, daemon
<1>3. \A d \in Callers : Stays(d)
  BY ReloadCalls DEF Stays
<1> QED
  BY <1>2, <1>3, ReloadCalls, OutsideStep, PartsNext

-----------------------------------------------------------------------------
(* The backend and the daemon.                                             *)

\* One call goes on in the backend, whoever holds the lock lets go of it when leaving.
LEMMA UpdateStep ==
    ASSUME IInv, NEW c \in Callers, NEW o \in CallRecords, Update([calls EXCEPT ![c] = o]),
           Moves(c, [calls EXCEPT ![c] = o]), o.kind = "none" => calls[c].kind = "none",
           calls[c].at \in {"dial", "start", "probe", "send", "wait"}, gen' = gen
    PROVE  /\ calls' \in [Callers -> CallRecords] /\ calls'[c] = o
           /\ \A d \in Callers : d # c => calls'[d] = calls[d]
           /\ Fresh' /\ LockInv'
<1>1. Scalars /\ Records /\ Fresh /\ LockHasCalls /\ OneHolder /\ QueueInv /\ TypeOK
  BY Parts DEF IInv, LockInv
<1>2. /\ calls' \in [Callers -> CallRecords] /\ calls'[c] = o
      /\ \A d \in Callers : d # c => calls'[d] = calls[d]
      /\ calls' = [calls EXCEPT ![c] = o] /\ lock' = Released([calls EXCEPT ![c] = o])
  BY <1>1 DEF Update, Records
<1>3. Fresh'
  BY <1>1, <1>2 DEF Fresh
<1>4. \A d \in Callers : Moves(d, [calls EXCEPT ![c] = o])
  BY <1>2 DEF Moves
<1>5. LockInv'
  BY <1>1, <1>2, <1>4, LockIsReleased DEF LockInv
<1> QED
  BY <1>2, <1>3, <1>5

\* A call goes on in the backend and stays there.
LEMMA GoesOnStep ==
    ASSUME IInv, NEW c \in Callers, NEW o \in CallRecords, calls' = [calls EXCEPT ![c] = o], lock' = lock,
           Moves(c, [calls EXCEPT ![c] = o]), o.kind = "none" => calls[c].kind = "none",
           o.at \notin {"answered", "done"},
           calls[c].at \in {"dial", "start", "probe", "send", "wait"}, gen' = gen
    PROVE  /\ calls' \in [Callers -> CallRecords] /\ calls'[c] = o
           /\ \A d \in Callers : d # c => calls'[d] = calls[d]
           /\ Fresh' /\ LockInv'
<1>1. Scalars /\ Records /\ Fresh /\ LockHasCalls /\ OneHolder /\ QueueInv /\ TypeOK
  BY Parts DEF IInv, LockInv
<1>2. /\ calls' \in [Callers -> CallRecords] /\ calls'[c] = o
      /\ \A d \in Callers : d # c => calls'[d] = calls[d]
  BY <1>1 DEF Records
<1>3. Fresh'
  BY <1>1, <1>2 DEF Fresh
<1>4. \A d \in Callers : calls'[d] = calls[d] \/ (Moves(d, calls') /\ calls'[d].at \notin {"answered", "done"})
  BY <1>2
<1>5. LockInv'
  BY <1>1, <1>2, <1>4, LockIsKept
<1> QED
  BY <1>2, <1>3, <1>5

\* How requests come to the queue and leave it.
LEMMA QueueAppend ==
    ASSUME TypeOK, NEW r \in RequestRecords, queue' = Append(queue, r)
    PROVE  /\ queue' \in Seq(RequestRecords) /\ DOMAIN queue' = 1..(Len(queue) + 1)
           /\ \A k \in DOMAIN queue : k \in DOMAIN queue' /\ queue'[k] = queue[k] /\ k < Len(queue) + 1
           /\ queue'[Len(queue) + 1] = r
           /\ \A k \in DOMAIN queue' : k \in DOMAIN queue \/ k = Len(queue) + 1
BY QueueIsSeq

LEMMA QueueTail ==
    ASSUME TypeOK, queue # <<>>, queue' = Tail(queue)
    PROVE  /\ queue' \in Seq(RequestRecords)
           /\ \A k \in DOMAIN queue' : k \in Nat /\ k + 1 \in DOMAIN queue /\ k + 1 # 1 /\ queue'[k] = queue[k + 1]
<1>1. queue \in Seq(RequestRecords) /\ Len(queue) \in Nat /\ DOMAIN queue = 1..Len(queue)
  BY QueueIsSeq
<1>2. /\ queue' \in Seq(RequestRecords) /\ DOMAIN queue' = 1..(Len(queue) - 1)
      /\ \A k \in 1..(Len(queue) - 1) : queue'[k] = queue[k + 1]
  BY <1>1
<1> QED
  BY <1>1, <1>2

\* A call dials: its probe, or its Status, goes to the end of the queue.
LEMMA DialStep == ASSUME IInv, NEW c \in Callers, Dial(c) PROVE IInv'
<1>1. Scalars /\ Records /\ Fresh /\ LockHasCalls /\ OneHolder /\ QueueInv /\ TypeOK
  BY Parts DEF IInv, LockInv
<1>2. Scalars' /\ gen' = gen /\ calls[c].at = "dial" /\ Holds(c)
  BY <1>1 DEF Dial, Scalars, window
<1>3. calls[c] \in CallRecords /\ (calls[c].ask # "status" => AtHead(c))
  BY <1>1, <1>2 DEF Records, Holds, AtHead
<1>4. ASSUME NEW o \in CallRecords, o = Unreached(calls[c]) \/ o = Answered(calls[c], "error"),
             Update([calls EXCEPT ![c] = o]), queue' = queue
      PROVE  IInv'
  <2>1. /\ o.at \in {"answered", "done"} \/ (o.at = "start" /\ o.ask # "status" /\ calls[c].ask # "status")
        /\ o.kind = "none" => calls[c].kind = "none"
    BY <1>3, <1>4, WhereNext
  <2>2. Moves(c, [calls EXCEPT ![c] = o])
    BY <1>1, <1>2, <1>3, <2>1 DEF Moves, InBackend, Records
  <2>3. /\ calls' \in [Callers -> CallRecords] /\ calls'[c] = o
        /\ \A d \in Callers : d # c => calls'[d] = calls[d]
        /\ Fresh' /\ LockInv'
    BY <1>2, <1>4, <2>1, <2>2, UpdateStep
  <2>4. Records' /\ QueueInv'
    BY <1>1, <1>2, <1>4, <2>1, <2>3, QueueStands DEF Records
  <2> QED
    BY <1>2, <2>3, <2>4, PartsNext
<1>5. CASE /\ calls' = [calls EXCEPT ![c].at = IF calls[c].ask = "status" THEN "wait" ELSE "probe"]
           /\ queue' = Append(queue, [who |-> c, what |-> "status", here |-> TRUE]) /\ lock' = lock
  <2> DEFINE at == IF calls[c].ask = "status" THEN "wait" ELSE "probe"
             o == [calls[c] EXCEPT !.at = at]
             r == [who |-> c, what |-> "status", here |-> TRUE]
  <2>1. calls' = [calls EXCEPT ![c] = o] /\ o \in CallRecords
    BY <1>3, <1>5, NextCalls
  <2>2. o.at = at /\ o.ask = calls[c].ask /\ o.kind = calls[c].kind /\ at \in {"wait", "probe"}
    BY <1>3 DEF CallRecords
  <2>3. r \in RequestRecords /\ r.who = c /\ r.what = "status" /\ r.here
    BY DEF RequestRecords, Asks
  <2>4. queue' = Append(queue, r) /\ (at = "probe" => calls[c].ask # "status") /\ (at = "wait" => calls[c].ask = "status")
    BY <1>5
  <2> HIDE DEF o, r, at
  <2>5. Moves(c, [calls EXCEPT ![c] = o])
    BY <1>1, <1>2, <1>3, <2>2, <2>4 DEF Moves, InBackend, Records
  <2>6. /\ calls' \in [Callers -> CallRecords] /\ calls'[c] = o
        /\ \A d \in Callers : d # c => calls'[d] = calls[d]
        /\ Fresh' /\ LockInv'
    BY <1>2, <1>5, <2>1, <2>2, <2>5, GoesOnStep
  <2>7. /\ queue' \in Seq(RequestRecords)
        /\ \A k \in DOMAIN queue : k \in DOMAIN queue' /\ queue'[k] = queue[k] /\ k < Len(queue) + 1
        /\ queue'[Len(queue) + 1] = r
        /\ \A k \in DOMAIN queue' : k \in DOMAIN queue \/ k = Len(queue) + 1
    BY <1>1, <2>3, <2>4, QueueAppend
  <2>8. \A k \in DOMAIN queue : /\ k \in Nat /\ queue[k].who \in Callers
                                /\ queue[k].here => queue[k].who # c /\ calls'[queue[k].who] = calls[queue[k].who]
    BY <1>1, <1>2, <2>6, QueueIsSeq DEF QueueInv, OneRequest
  <2>9. Len(queue) \in Nat
    BY <1>1, QueueIsSeq
  <2>10. OneRequest'
    <3> SUFFICES ASSUME NEW k \in DOMAIN queue', queue'[k].here
                 PROVE  /\ calls'[queue'[k].who].at \in {"probe", "wait"}
                        /\ \A j \in DOMAIN queue' : queue'[j].here /\ queue'[j].who = queue'[k].who => j = k
                        /\ calls'[queue'[k].who].at = "probe" =>
                              queue'[k].what = "status" /\ \A j \in DOMAIN queue' : j > k => queue'[j].what = "status"
      BY DEF OneRequest
    <3>1. CASE k = Len(queue) + 1
      BY <3>1, <2>2, <2>3, <2>6, <2>7, <2>8, <2>9
    <3>2. CASE k \in DOMAIN queue
      BY <1>1, <3>2, <2>3, <2>7, <2>8 DEF QueueInv, OneRequest
    <3> QED
      BY <2>7, <3>1, <3>2
  <2>11. OneCommand'
    <3>1. \A i, j \in DOMAIN queue' : "status" \notin {queue'[i].what, queue'[j].what} => i = j
      BY <1>1, <2>3, <2>7 DEF QueueInv, OneCommand
    <3>2. ASSUME NEW d \in Callers, calls'[d].at = "send"
          PROVE  \A j \in DOMAIN queue' : queue'[j].what = "status"
      BY <1>1, <3>2, <2>2, <2>3, <2>6, <2>7 DEF QueueInv, OneCommand
    <3> QED
      BY <3>1, <3>2 DEF OneCommand
  <2> QED
    BY <1>2, <2>6, <2>7, <2>10, <2>11, PartsNext DEF Records, QueueInv
<1>6. Unreached(calls[c]) \in CallRecords /\ Answered(calls[c], "error") \in CallRecords
  BY <1>3, NextCalls
<1>7. \/ queue' = queue /\ Update([calls EXCEPT ![c] = Unreached(calls[c])])
      \/ queue' = queue /\ Update([calls EXCEPT ![c] = Answered(calls[c], "error")])
      \/ /\ calls' = [calls EXCEPT ![c].at = IF calls[c].ask = "status" THEN "wait" ELSE "probe"]
         /\ queue' = Append(queue, [who |-> c, what |-> "status", here |-> TRUE]) /\ lock' = lock
  BY DEF Dial
<1> QED
  BY <1>4, <1>5, <1>6, <1>7

\* What an event leaves of the bound on events.
LEMMA EventCounts == ASSUME Scalars, Event PROVE events' \in 0..MaxEvents
BY CallNumbers DEF Scalars, Event

\* A daemon is started, or not.
LEMMA StartDaemonStep == ASSUME IInv, NEW c \in Callers, StartDaemon(c) PROVE IInv'
<1>1. Scalars /\ Records /\ Fresh /\ LockHasCalls /\ OneHolder /\ QueueInv /\ TypeOK
  BY Parts DEF IInv, LockInv
<1>2. /\ Scalars' /\ gen' = gen /\ queue' = queue /\ calls[c].at = "start"
      /\ calls[c].ask # "status" /\ AtHead(c) /\ calls[c] \in CallRecords
  BY <1>1 DEF StartDaemon, Scalars, Shown, window, OneHolder, Records
<1> DEFINE again == [calls[c] EXCEPT !.at = "dial", !.again = TRUE]
<1>3. /\ again \in CallRecords /\ again.at = "dial" /\ again.ask = calls[c].ask /\ again.kind = calls[c].kind
      /\ Answered(calls[c], "error") \in CallRecords /\ Answered(calls[c], "error").at \in {"answered", "done"}
      /\ Answered(calls[c], "error").kind = "none" => calls[c].kind = "none"
  <2>1. again.at = "dial" /\ again.ask = calls[c].ask /\ again.kind = calls[c].kind
    BY <1>2 DEF CallRecords
  <2> QED
    BY <1>2, <2>1, NextCalls, WhereNext
<1>4. ASSUME NEW o \in CallRecords, Update([calls EXCEPT ![c] = o]), o.kind = "none" => calls[c].kind = "none",
             o.at \in {"answered", "done"} \/ (o.at = "dial" /\ o.ask # "status")
      PROVE  IInv'
  <2>1. Moves(c, [calls EXCEPT ![c] = o])
    BY <1>1, <1>2, <1>4 DEF Moves, InBackend, Records
  <2>2. /\ calls' \in [Callers -> CallRecords] /\ calls'[c] = o
        /\ \A d \in Callers : d # c => calls'[d] = calls[d]
        /\ Fresh' /\ LockInv'
    BY <1>2, <1>4, <2>1, UpdateStep
  <2>3. Records' /\ QueueInv'
    BY <1>1, <1>2, <1>4, <2>2, QueueStands DEF Records
  <2> QED
    BY <1>2, <2>2, <2>3, PartsNext
<1>5. Update([calls EXCEPT ![c] = again]) \/ Update([calls EXCEPT ![c] = Answered(calls[c], "error")])
  BY DEF StartDaemon
<1> HIDE DEF again
<1> QED
  BY <1>2, <1>3, <1>4, <1>5

\* The probe was answered, so no other command is in the queue when this one goes out.
LEMMA SendStep == ASSUME IInv, NEW c \in Callers, Send(c) PROVE IInv'
<1>1. Scalars /\ Records /\ Fresh /\ LockHasCalls /\ OneHolder /\ QueueInv /\ TypeOK
  BY Parts DEF IInv, LockInv
<1>2. /\ Scalars' /\ gen' = gen /\ calls[c].at = "send"
      /\ calls[c].ask # "status" /\ AtHead(c) /\ calls[c] \in CallRecords
      /\ calls[c].ask \in Asks
  BY <1>1, CallFields DEF Send, Scalars, window, OneHolder, Records
<1>3. CASE Update([calls EXCEPT ![c] = Answered(calls[c], "error")]) /\ queue' = queue
  <2> DEFINE o == Answered(calls[c], "error")
  <2>1. o \in CallRecords /\ o.at \in {"answered", "done"} /\ (o.kind = "none" => calls[c].kind = "none")
    BY <1>2, FailedCall
  <2>2. Update([calls EXCEPT ![c] = o])
    BY <1>3
  <2> HIDE DEF o
  <2>3. Moves(c, [calls EXCEPT ![c] = o])
    BY <1>1, <1>2, <2>1 DEF Moves, Records
  <2>4. /\ calls' \in [Callers -> CallRecords] /\ calls'[c] = o
        /\ \A d \in Callers : d # c => calls'[d] = calls[d]
        /\ Fresh' /\ LockInv'
    BY <1>2, <2>1, <2>2, <2>3, UpdateStep
  <2>5. Records' /\ QueueInv'
    BY <1>1, <1>2, <1>3, <2>1, <2>4, QueueStands DEF Records
  <2> QED
    BY <1>2, <2>4, <2>5, PartsNext
<1>4. CASE /\ calls' = [calls EXCEPT ![c].at = "wait"] /\ lock' = lock
           /\ queue' = Append(queue, [who |-> c, what |-> calls[c].ask, here |-> TRUE])
  <2> DEFINE o == [calls[c] EXCEPT !.at = "wait"]
             r == [who |-> c, what |-> calls[c].ask, here |-> TRUE]
  <2>1. calls' = [calls EXCEPT ![c] = o] /\ o \in CallRecords /\ queue' = Append(queue, r)
    BY <1>2, <1>4, NextCalls
  <2>2. o.at = "wait" /\ o.ask = calls[c].ask /\ o.kind = calls[c].kind
    BY <1>2 DEF CallRecords
  <2>3. r \in RequestRecords /\ r.who = c /\ r.here
    BY <1>2 DEF RequestRecords
  <2> HIDE DEF o, r
  <2>4. Moves(c, [calls EXCEPT ![c] = o])
    BY <1>1, <1>2, <2>2 DEF Moves, InBackend, Records
  <2>5. /\ calls' \in [Callers -> CallRecords] /\ calls'[c] = o
        /\ \A d \in Callers : d # c => calls'[d] = calls[d]
        /\ Fresh' /\ LockInv'
    BY <1>2, <1>4, <2>1, <2>2, <2>4, GoesOnStep
  <2>6. /\ queue' \in Seq(RequestRecords)
        /\ \A k \in DOMAIN queue : queue'[k] = queue[k]
        /\ queue'[Len(queue) + 1] = r
        /\ \A k \in DOMAIN queue' : k \in DOMAIN queue \/ k = Len(queue) + 1
    BY <1>1, <2>1, <2>3, QueueAppend
  <2>7. \A k \in DOMAIN queue :
           /\ queue[k].who \in Callers /\ queue[k].what = "status"
           /\ queue[k].here => /\ queue[k].who # c /\ calls'[queue[k].who] = calls[queue[k].who]
                               /\ calls[queue[k].who].at = "wait"
    <3> SUFFICES ASSUME NEW k \in DOMAIN queue
                 PROVE  /\ queue[k].who \in Callers /\ queue[k].what = "status"
                        /\ queue[k].here => /\ queue[k].who # c /\ calls'[queue[k].who] = calls[queue[k].who]
                                            /\ calls[queue[k].who].at = "wait"
      OBVIOUS
    <3>1. queue[k].who \in Callers /\ queue[k].what = "status"
      BY <1>1, <1>2, QueueIsSeq DEF QueueInv, OneCommand
    <3>2. queue[k].here => queue[k].who # c /\ calls[queue[k].who].at \in {"probe", "wait"}
      BY <1>1, <1>2 DEF QueueInv, OneRequest
    <3>3. calls[queue[k].who].at = "probe" => queue[k].who = c
      BY <1>1, <1>2, <3>1 DEF OneHolder, AtHead
    <3> QED
      BY <2>5, <3>1, <3>2, <3>3
  <2>8. OneRequest'
    BY <1>1, <2>2, <2>3, <2>5, <2>6, <2>7 DEF QueueInv, OneRequest
  <2>9. OneCommand'
    <3>1. \A i, j \in DOMAIN queue' : "status" \notin {queue'[i].what, queue'[j].what} => i = j
      BY <2>6, <2>7
    <3>2. \A d \in Callers : calls'[d].at # "send"
      BY <1>1, <1>2, <2>2, <2>5 DEF OneHolder, AtHead
    <3> QED
      BY <3>1, <3>2 DEF OneCommand
  <2> QED
    BY <1>2, <2>5, <2>6, <2>8, <2>9, PartsNext DEF Records, QueueInv
<1> QED
  BY <1>3, <1>4 DEF Send

\* A client goes and leaves its request.
LEMMA GiveUpStep == ASSUME IInv, NEW c \in Callers, GiveUp(c) PROVE IInv'
<1>1. Scalars /\ Records /\ Fresh /\ LockHasCalls /\ OneHolder /\ QueueInv /\ TypeOK
  BY Parts DEF IInv, LockInv
<1>2. /\ Scalars' /\ gen' = gen /\ calls[c].at \in {"probe", "wait"} /\ calls[c] \in CallRecords
      /\ calls[c].ask # "status" => AtHead(c)
      /\ queue' = [k \in DOMAIN queue |-> [queue[k] EXCEPT !.here = @ /\ queue[k].who # c]]
  BY <1>1, EventCounts DEF GiveUp, Scalars, window, OneHolder, Records
<1>3. PICK o \in CallRecords : /\ Update([calls EXCEPT ![c] = o]) /\ (o.kind = "none" => calls[c].kind = "none")
                               /\ \/ o.at \in {"answered", "done"}
                                  \/ o.at = "start" /\ o.ask # "status" /\ calls[c].ask # "status"
  <2>1. \/ Update([calls EXCEPT ![c] = Unreached(calls[c])])
        \/ Update([calls EXCEPT ![c] = Answered(calls[c], "error")])
    BY DEF GiveUp
  <2>2. CASE Update([calls EXCEPT ![c] = Unreached(calls[c])])
    <3>1. /\ Unreached(calls[c]) \in CallRecords /\ (Unreached(calls[c]).kind = "none" => calls[c].kind = "none")
          /\ \/ Unreached(calls[c]).at \in {"answered", "done"}
             \/ /\ Unreached(calls[c]).at = "start" /\ Unreached(calls[c]).ask # "status"
                /\ calls[c].ask # "status"
      BY <1>2, NextCalls, WhereNext
    <3> QED
      BY <2>2, <3>1
  <2>3. CASE Update([calls EXCEPT ![c] = Answered(calls[c], "error")])
    <3>1. /\ Answered(calls[c], "error") \in CallRecords /\ Answered(calls[c], "error").at \in {"answered", "done"}
          /\ Answered(calls[c], "error").kind = "none" => calls[c].kind = "none"
      BY <1>2, FailedCall
    <3> QED
      BY <2>3, <3>1
  <2> QED
    BY <2>1, <2>2, <2>3
<1>4. Moves(c, [calls EXCEPT ![c] = o])
  BY <1>1, <1>2, <1>3 DEF Moves, InBackend, Records
<1>5. /\ calls' \in [Callers -> CallRecords] /\ calls'[c] = o
      /\ \A d \in Callers : d # c => calls'[d] = calls[d]
      /\ Fresh' /\ LockInv'
  BY <1>2, <1>3, <1>4, UpdateStep
<1>6. /\ DOMAIN queue' = DOMAIN queue /\ queue' \in Seq(RequestRecords)
      /\ \A k \in DOMAIN queue : /\ queue[k].who \in Callers /\ queue'[k].who = queue[k].who
                                 /\ queue'[k].what = queue[k].what
                                 /\ queue'[k].here => queue[k].here /\ queue[k].who # c
  <2>1. /\ queue \in Seq(RequestRecords) /\ Len(queue) \in Nat /\ DOMAIN queue = 1..Len(queue)
        /\ \A k \in DOMAIN queue : /\ queue[k] \in RequestRecords /\ queue[k].who \in Callers
                                   /\ queue[k].what \in Asks /\ queue[k].here \in BOOLEAN
    BY <1>1, QueueIsSeq
  <2>2. ASSUME NEW k \in DOMAIN queue, NEW b \in BOOLEAN
        PROVE  /\ [queue[k] EXCEPT !.here = b] \in RequestRecords
               /\ [queue[k] EXCEPT !.here = b].who = queue[k].who
               /\ [queue[k] EXCEPT !.here = b].what = queue[k].what
               /\ [queue[k] EXCEPT !.here = b].here = b
    BY <2>1 DEF RequestRecords
  <2>3. ASSUME NEW k \in DOMAIN queue
        PROVE  /\ queue'[k] = [queue[k] EXCEPT !.here = queue[k].here /\ queue[k].who # c]
               /\ (queue[k].here /\ queue[k].who # c) \in BOOLEAN
    BY <1>2
  <2>4. \A k \in DOMAIN queue : /\ queue'[k] \in RequestRecords /\ queue'[k].who = queue[k].who
                                /\ queue'[k].what = queue[k].what
                                /\ queue'[k].here = (queue[k].here /\ queue[k].who # c)
    BY <2>2, <2>3
  <2>5. queue' \in Seq(RequestRecords) /\ DOMAIN queue' = DOMAIN queue
    <3>1. DOMAIN queue' = DOMAIN queue /\ queue' = [k \in 1..Len(queue) |-> queue'[k]]
      BY <1>2, <2>1
    <3> QED
      BY <2>1, <2>4, <3>1
  <2> QED
    BY <2>1, <2>4, <2>5
<1>7. OneRequest'
  BY <1>1, <1>5, <1>6 DEF QueueInv, OneRequest
<1>8. OneCommand'
  BY <1>1, <1>3, <1>5, <1>6 DEF QueueInv, OneCommand
<1> QED
  BY <1>2, <1>5, <1>6, <1>7, <1>8, PartsNext DEF Records, QueueInv

\* The head of the queue is worked off: its client has left, is answered or may send.
LEMMA QueueServed ==
    ASSUME TypeOK, QueueInv, queue # <<>>, queue' = Tail(queue),
           \A d \in Callers : d # queue[1].who => calls'[d] = calls[d],
           \/ calls'[queue[1].who] = calls[queue[1].who] /\ ~queue[1].here
           \/ queue[1].here /\ calls'[queue[1].who].at \in {"answered", "done", "start"}
           \/ queue[1].here /\ calls'[queue[1].who].at = "send" /\ calls[queue[1].who].at = "probe"
    PROVE  QueueInv' /\ queue' \in Seq(RequestRecords)
<1>1. /\ queue' \in Seq(RequestRecords)
      /\ \A k \in DOMAIN queue' : k \in Nat /\ k + 1 \in DOMAIN queue /\ k + 1 # 1 /\ queue'[k] = queue[k + 1]
  BY QueueTail
<1>2. 1 \in DOMAIN queue /\ \A k \in DOMAIN queue : k \in Nat /\ k >= 1 /\ queue[k].who \in Callers
  BY QueueIsSeq
<1>3. \A k \in DOMAIN queue : k # 1 /\ queue[k].here =>
         calls'[queue[k].who] = calls[queue[k].who]
  BY <1>2 DEF QueueInv, OneRequest
<1>4. OneRequest'
  <2> SUFFICES ASSUME NEW k \in DOMAIN queue', queue'[k].here
               PROVE  /\ calls'[queue'[k].who].at \in {"probe", "wait"}
                      /\ \A j \in DOMAIN queue' : queue'[j].here /\ queue'[j].who = queue'[k].who => j = k
                      /\ calls'[queue'[k].who].at = "probe" =>
                            queue'[k].what = "status" /\ \A j \in DOMAIN queue' : j > k => queue'[j].what = "status"
    BY DEF OneRequest
  <2>1. k + 1 \in DOMAIN queue /\ k + 1 # 1 /\ queue'[k] = queue[k + 1] /\ k \in Nat
    BY <1>1
  <2>2. calls'[queue'[k].who] = calls[queue[k + 1].who]
    BY <1>3, <2>1
  <2>3. \A j \in DOMAIN queue' : j \in Nat /\ j + 1 \in DOMAIN queue /\ queue'[j] = queue[j + 1]
    BY <1>1
  <2> QED
    BY <2>1, <2>2, <2>3 DEF QueueInv, OneRequest
<1>5. OneCommand'
  <2>1. \A i, j \in DOMAIN queue' : "status" \notin {queue'[i].what, queue'[j].what} => i = j
    BY <1>1 DEF QueueInv, OneCommand
  <2>2. ASSUME NEW d \in Callers, calls'[d].at = "send", NEW j \in DOMAIN queue'
        PROVE  queue'[j].what = "status"
    <3>1. j + 1 \in DOMAIN queue /\ j + 1 > 1 /\ queue'[j] = queue[j + 1]
      BY <1>1
    <3>2. CASE calls[d].at = "send"
      BY <3>1, <3>2 DEF QueueInv, OneCommand
    <3>3. CASE calls[d].at # "send"
      <4>1. d = queue[1].who /\ queue[1].here /\ calls[queue[1].who].at = "probe"
        BY <2>2, <3>3
      <4> QED
        BY <1>2, <3>1, <4>1 DEF QueueInv, OneRequest
    <3> QED
      BY <3>2, <3>3
  <2> QED
    BY <2>1, <2>2 DEF OneCommand
<1> QED
  BY <1>1, <1>4, <1>5 DEF QueueInv

\* Every outcome leaves a phase the window knows, and an answer.
LEMMA OutcomesType ==
    ASSUME phase \in Shown, NEW what \in Asks, NEW out \in Outcomes(what)
    PROVE  out[2] \in Shown /\ out[1] \in Shown \cup {"error"}
BY DEF Outcomes, Shown, Asks

\* The daemon answers.
LEMMA ServeStep == ASSUME IInv, Serve PROVE IInv'
<1>1. Scalars /\ Records /\ Fresh /\ LockHasCalls /\ OneHolder /\ QueueInv /\ TypeOK
  BY Parts DEF IInv, LockInv
<1> DEFINE c == queue[1].who
           o == calls[c]
<1>2. /\ queue # <<>> /\ 1 \in DOMAIN queue /\ Head(queue) = queue[1] /\ c \in Callers
      /\ queue[1].what \in Asks /\ queue' = Tail(queue)
  BY <1>1, QueueIsSeq DEF Serve
<1>3. PICK out \in Outcomes(queue[1].what) :
         /\ phase' = out[2]
         /\ \/ ~queue[1].here /\ UNCHANGED <<calls, lock>>
            \/ queue[1].here /\ o.at = "wait" /\ Update([calls EXCEPT ![c] = Answered(o, out[1])])
            \/ /\ queue[1].here /\ (o.at = "probe" \/ o.ask = "status")
               /\ Update([calls EXCEPT ![c] = Unreached(o)])
            \/ /\ queue[1].here /\ o.at = "probe"
               /\ calls' = [calls EXCEPT ![c].at = "send"] /\ lock' = lock
  BY <1>2 DEF Serve
<1>4. Scalars' /\ gen' = gen /\ out[1] \in Shown \cup {"error"}
  BY <1>1, <1>2, <1>3, OutcomesType DEF Serve, Scalars, window
<1>5. /\ o \in CallRecords /\ (queue[1].here => o.at \in {"probe", "wait"})
      /\ o.at \in {"probe", "wait"} /\ o.ask # "status" => AtHead(c)
      /\ o.at = "probe" => o.ask # "status"
  BY <1>1, <1>2 DEF Records, QueueInv, OneRequest, OneHolder
<1> HIDE DEF o
<1>6. CASE ~queue[1].here /\ UNCHANGED <<calls, lock>>
  <2>1. Records' /\ QueueInv'
    BY <1>1, <1>2, <1>6, QueueServed DEF Records
  <2>2. Fresh' /\ LockInv'
    BY <1>1, <1>4, <1>6, LockStands DEF Stays, Fresh
  <2> QED
    BY <1>4, <2>1, <2>2, PartsNext
<1>7. ASSUME NEW n \in CallRecords, queue[1].here, Update([calls EXCEPT ![c] = n]), n.kind = "none" => o.kind = "none",
             n.at \in {"answered", "done"} \/ (n.at = "start" /\ n.ask # "status" /\ o.ask # "status")
      PROVE  IInv'
  <2>1. Moves(c, [calls EXCEPT ![c] = n])
    BY <1>1, <1>2, <1>5, <1>7 DEF Moves, InBackend, Records, o
  <2>2. o = calls[c] /\ o.at \in {"probe", "wait"}
    BY <1>5, <1>7 DEF o
  <2>3. /\ calls' \in [Callers -> CallRecords] /\ calls'[c] = n
        /\ \A d \in Callers : d # c => calls'[d] = calls[d]
        /\ Fresh' /\ LockInv'
    BY <1>2, <1>4, <1>7, <2>1, <2>2, UpdateStep
  <2>4. QueueInv' /\ queue' \in Seq(RequestRecords)
    BY <1>1, <1>2, <1>7, <2>3, QueueServed
  <2> QED
    BY <1>4, <2>3, <2>4, PartsNext DEF Records
<1>8. CASE queue[1].here /\ o.at = "wait" /\ Update([calls EXCEPT ![c] = Answered(o, out[1])])
  <2>1. /\ Answered(o, out[1]) \in CallRecords /\ Answered(o, out[1]).at \in {"answered", "done"}
        /\ Answered(o, out[1]).kind = "none" => o.kind = "none"
    <3>1. Answered(o, out[1]) \in CallRecords
      BY <1>4, <1>5, NextCalls
    <3>2. Answered(o, out[1]).at \in {"answered", "done"} /\ (Answered(o, out[1]).kind = "none" => o.kind = "none")
      BY <1>5, WhereNext
    <3> QED
      BY <3>1, <3>2
  <2> QED
    BY <1>7, <1>8, <2>1
<1>9. CASE queue[1].here /\ Update([calls EXCEPT ![c] = Unreached(o)])
  <2>1. /\ Unreached(o) \in CallRecords /\ (Unreached(o).kind = "none" => o.kind = "none")
        /\ \/ Unreached(o).at \in {"answered", "done"}
           \/ Unreached(o).at = "start" /\ Unreached(o).ask # "status" /\ o.ask # "status"
    BY <1>5, NextCalls, WhereNext
  <2> QED
    BY <1>7, <1>9, <2>1
<1>10. CASE queue[1].here /\ o.at = "probe" /\ calls' = [calls EXCEPT ![c].at = "send"] /\ lock' = lock
  <2> DEFINE n == [calls[c] EXCEPT !.at = "send"]
  <2>1. n.at = "send" /\ n.ask = calls[c].ask /\ n.kind = calls[c].kind /\ n \in CallRecords
    <3>1. o = calls[c]
      BY DEF o
    <3>2. n.at = "send" /\ n.ask = calls[c].ask /\ n.kind = calls[c].kind
      BY <1>5, <3>1 DEF CallRecords
    <3> QED
      BY <1>5, <3>1, <3>2, NextCalls
  <2>2. calls' = [calls EXCEPT ![c] = n]
    BY <1>10
  <2>3. o = calls[c]
    BY DEF o
  <2> HIDE DEF n
  <2>4. Moves(c, [calls EXCEPT ![c] = n])
    BY <1>1, <1>2, <1>5, <1>10, <2>1, <2>3 DEF Moves, InBackend, Records
  <2>5. /\ calls' \in [Callers -> CallRecords] /\ calls'[c] = n
        /\ \A d \in Callers : d # c => calls'[d] = calls[d]
        /\ Fresh' /\ LockInv'
    BY <1>2, <1>4, <1>10, <2>1, <2>2, <2>3, <2>4, GoesOnStep
  <2>6. QueueInv' /\ queue' \in Seq(RequestRecords)
    BY <1>1, <1>2, <1>10, <2>1, <2>3, <2>5, QueueServed
  <2> QED
    BY <1>4, <2>5, <2>6, PartsNext DEF Records
<1> QED
  BY <1>3, <1>6, <1>8, <1>9, <1>10

\* The tunnel dies.
LEMMA TunnelDiesStep == ASSUME IInv, TunnelDies PROVE IInv'
<1>1. Scalars /\ Records /\ Fresh
  BY Parts
<1>2. Scalars' /\ gen' = gen /\ queue' = queue /\ lock' = lock /\ calls' = calls
  BY <1>1 DEF TunnelDies, Scalars, Shown, window
<1>3. /\ calls' \in [Callers -> CallRecords] /\ \A d \in Callers : Stays(d)
      /\ \A d \in Callers : calls'[d].kind = "none" => calls[d].kind = "none" /\ calls'[d].at = "done"
  BY <1>1, <1>2 DEF Records, Stays, Fresh
<1> QED
  BY <1>2, <1>3, OutsideStep, PartsNext

\* The daemon dies, and every client at it is told.
LEMMA DaemonDiesCalls ==
    ASSUME IInv, DaemonDies
    PROVE  /\ calls' \in [Callers -> CallRecords] /\ lock' = Released(calls')
           /\ \A d \in Callers :
                 /\ Moves(d, calls') /\ (calls'[d].kind = "none" => calls[d].kind = "none")
                 /\ calls[d].kind = "none" => calls'[d] = calls[d]
                 /\ calls'[d].at # "wait" /\ (calls'[d].at = "send" => calls[d].at = "send")
                 /\ calls'[d].at = "start" => calls'[d].ask = "connect" \/ calls'[d] = calls[d]
                 /\ calls'[d].ask = calls[d].ask \/ calls'[d].at \in {"answered", "done"}
<1> DEFINE cs == [c \in DOMAIN calls |->
                     CASE calls[c].at = "probe" -> Unreached(calls[c])
                       [] calls[c].at = "wait" -> Answered(calls[c], "error")
                       [] OTHER -> calls[c]]
<1>1. Records /\ Fresh /\ OneHolder
  BY Parts DEF IInv, LockInv
<1>2. calls' = cs /\ lock' = Released(cs) /\ DOMAIN calls = Callers
  BY <1>1 DEF DaemonDies, Update, Records
<1>3. ASSUME NEW d \in Callers
      PROVE  /\ cs[d] \in CallRecords /\ Moves(d, cs) /\ (cs[d].kind = "none" => calls[d].kind = "none")
             /\ calls[d].kind = "none" => cs[d] = calls[d]
             /\ cs[d].at # "wait" /\ (cs[d].at = "send" => calls[d].at = "send")
             /\ cs[d].at = "start" => cs[d].ask = "connect" \/ cs[d] = calls[d]
             /\ cs[d].ask = calls[d].ask \/ cs[d].at \in {"answered", "done"}
  <2>1. calls[d] \in CallRecords /\ (calls[d].kind = "none" => calls[d].at = "done")
    BY <1>1 DEF Records, Fresh
  <2>2. CASE calls[d].at = "probe"
    <3>1. cs[d] = Unreached(calls[d]) /\ calls[d].ask # "status" /\ AtHead(d)
      BY <1>1, <1>2, <2>2 DEF OneHolder
    <3>2. /\ Unreached(calls[d]) \in CallRecords /\ (Unreached(calls[d]).kind = "none" => calls[d].kind = "none")
          /\ \/ Unreached(calls[d]).at \in {"answered", "done"}
             \/ /\ Unreached(calls[d]).at = "start" /\ Unreached(calls[d]).ask = "connect"
                /\ calls[d].ask = "connect"
      BY <2>1, NextCalls, WhereNext
    <3> HIDE DEF cs
    <3> QED
      BY <2>1, <2>2, <3>1, <3>2 DEF Moves, InBackend
  <2>3. CASE calls[d].at = "wait"
    <3>1. cs[d] = Answered(calls[d], "error") /\ (calls[d].ask # "status" => AtHead(d))
      BY <1>1, <1>2, <2>3 DEF OneHolder
    <3>2. /\ Answered(calls[d], "error") \in CallRecords /\ Answered(calls[d], "error").at \in {"answered", "done"}
          /\ Answered(calls[d], "error").kind = "none" => calls[d].kind = "none"
      BY <2>1, FailedCall
    <3> HIDE DEF cs
    <3> QED
      BY <2>1, <2>3, <3>1, <3>2 DEF Moves
  <2>4. CASE calls[d].at \notin {"probe", "wait"}
    <3>1. cs[d] = calls[d]
      BY <1>2, <2>4
    <3> HIDE DEF cs
    <3> QED
      BY <2>1, <2>4, <3>1 DEF Moves
  <2> QED
    BY <2>2, <2>3, <2>4
<1>4. cs \in [Callers -> CallRecords]
  <2>1. cs = [d \in Callers |-> cs[d]]
    BY <1>2
  <2> HIDE DEF cs
  <2> QED
    BY <1>3, <2>1
<1> HIDE DEF cs
<1>5. \A d \in Callers : Moves(d, calls')
  BY <1>2, <1>3 DEF Moves
<1> QED
  BY <1>2, <1>3, <1>4, <1>5

\* With the daemon goes its queue.
LEMMA DaemonDiesStep == ASSUME IInv, DaemonDies PROVE IInv'
<1>1. Scalars /\ Records /\ Fresh /\ LockHasCalls /\ OneHolder /\ QueueInv /\ TypeOK
  BY Parts DEF IInv, LockInv
<1>2. Scalars' /\ gen' = gen /\ queue' = <<>>
  BY <1>1, EventCounts DEF DaemonDies, Scalars, Shown, window
<1>3. LockInv'
  BY <1>1, DaemonDiesCalls, LockIsReleased DEF LockInv
<1>4. Fresh'
  BY <1>1, <1>2, DaemonDiesCalls DEF Fresh
<1>5. queue' \in Seq(RequestRecords) /\ DOMAIN queue' = {}
  BY <1>2
<1>6. QueueInv'
  BY <1>5 DEF QueueInv, OneRequest, OneCommand
<1> QED
  BY <1>2, <1>3, <1>4, <1>5, <1>6, DaemonDiesCalls, PartsNext DEF Records

-----------------------------------------------------------------------------
(* Answers in the window, and the whole.                                   *)

\* An answer comes back: it is shown, dropped, or a Status is asked for instead.
LEMMA HandleStep == ASSUME IInv, NEW c \in Callers, Handle(c) PROVE IInv'
<1>1. Scalars /\ Records /\ Fresh
  BY Parts
<1>2. /\ calls[c].at = "answered" /\ calls[c] \in CallRecords /\ calls[c].kind # "none"
      /\ calls[c].answer \in Shown \cup {"error"}
  <2>1. calls[c].at = "answered" /\ calls[c] \in CallRecords
    BY <1>1 DEF Handle, Records
  <2>2. calls[c].answer \in Shown \cup {"none", "error"} /\ calls[c].answer # "none"
    BY <2>1, CallFields
  <2> QED
    BY <1>1, <2>1, <2>2 DEF Fresh
<1>3. Scalars' /\ gen' = gen /\ queue' = queue /\ lock' = lock
  <2>1. /\ gen' = gen /\ queue' = queue /\ lock' = lock /\ UNCHANGED <<timer, wish, up, phase, events>>
    BY DEF Handle, daemon
  <2>2. status' \in Statuses /\ grace' \in BOOLEAN
    BY <1>1, <1>2 DEF Handle, Polled, ApplyBackendState, Scalars, Statuses, Shown
  <2> QED
    BY <1>1, <2>1, <2>2 DEF Scalars
<1>4. PICK o \in CallRecords : /\ calls' = [calls EXCEPT ![c] = o] /\ o.kind # "none"
                               /\ o.at = "done" \/ (o.at = "dial" /\ o.ask = "status")
  <2>1. \/ calls' = [calls EXCEPT ![c] = Over]
        \/ /\ calls' = [calls EXCEPT ![c] = [Poll(gen) EXCEPT !.kind = calls[c].kind]]
           /\ calls[c].kind \in Kinds
    BY <1>2, CallFields DEF Handle
  <2>2. CASE calls' = [calls EXCEPT ![c] = Over]
    BY <2>2, NewCalls DEF Over, Idle
  <2>3. CASE /\ calls' = [calls EXCEPT ![c] = [Poll(gen) EXCEPT !.kind = calls[c].kind]]
             /\ calls[c].kind \in Kinds
    <3>1. [Poll(gen) EXCEPT !.kind = calls[c].kind] \in CallRecords
      BY <1>1, <2>3, NewCalls DEF Scalars
    <3>2. /\ [Poll(gen) EXCEPT !.kind = calls[c].kind].kind = calls[c].kind
          /\ [Poll(gen) EXCEPT !.kind = calls[c].kind].at = "dial"
          /\ [Poll(gen) EXCEPT !.kind = calls[c].kind].ask = "status"
      BY DEF Poll, Idle
    <3> QED
      BY <1>2, <2>3, <3>1, <3>2
  <2> QED
    BY <2>1, <2>2, <2>3
<1>5. /\ calls' \in [Callers -> CallRecords] /\ calls'[c] = o
      /\ \A d \in Callers : d # c => calls'[d] = calls[d]
  BY <1>1, <1>4 DEF Records
<1>6. \A d \in Callers : Stays(d)
  BY <1>2, <1>4, <1>5 DEF Stays
<1>7. \A d \in Callers : calls'[d].kind = "none" => calls[d].kind = "none" /\ calls'[d].at = "done"
  BY <1>1, <1>4, <1>5 DEF Fresh
<1> QED
  BY <1>3, <1>5, <1>6, <1>7, OutsideStep, PartsNext

\* The time in which polls are not believed ends, and steps of nobody.
LEMMA QuietStep == ASSUME IInv, GraceEnds \/ UNCHANGED vars PROVE IInv'
<1>1. Scalars /\ Records /\ Fresh
  BY Parts
<1>2. Scalars' /\ gen' = gen /\ queue' = queue /\ lock' = lock /\ calls' = calls
  BY <1>1 DEF GraceEnds, Scalars, vars, window, daemon
<1>3. /\ calls' \in [Callers -> CallRecords] /\ \A d \in Callers : Stays(d)
      /\ \A d \in Callers : calls'[d].kind = "none" => calls[d].kind = "none" /\ calls'[d].at = "done"
  BY <1>1, <1>2 DEF Records, Stays, Fresh
<1> QED
  BY <1>2, <1>3, OutsideStep, PartsNext

\* At first nothing is under way but the window's poll.
LEMMA InitCalls ==
    ASSUME Init
    PROVE  /\ calls \in [Callers -> CallRecords]
           /\ \A d \in Callers : /\ calls[d].at = "done" \/ (calls[d].at = "dial" /\ calls[d].kind = "poll")
                                 /\ calls[d].at \in {"done", "dial"} /\ calls[d].ask = "status"
<1> DEFINE cs == [c \in Callers |-> Idle]
<1>1. cs \in [Callers -> CallRecords] /\ calls \in Mounted(cs)
  BY NewCalls DEF Init, Callers
<1> HIDE DEF cs
<1>2. PICK p \in Polls : /\ calls[p] = Poll(0) /\ calls \in [Callers -> CallRecords]
                         /\ \A d \in Callers : d # p => calls[d] = cs[d]
  BY <1>1, MountedCalls
<1>3. \A d \in Callers : calls[d] = Idle \/ calls[d] = Poll(0)
  BY <1>2 DEF cs
<1>4. Idle.at = "done" /\ Idle.ask = "status"
  BY DEF Idle
<1>5. Poll(0).at = "dial" /\ Poll(0).kind = "poll" /\ Poll(0).ask = "status"
  BY DEF Idle, Poll
<1> QED
  BY <1>2, <1>3, <1>4, <1>5

LEMMA InitIInv == Init => IInv
<1> SUFFICES ASSUME Init PROVE IInv
  OBVIOUS
<1>1. lock = <<>> /\ queue = <<>> /\ gen = 0 /\ timer = 0 /\ events = 0
  BY DEF Init
<1>2. Scalars
  <2>1. 0 \in 0..MaxCalls /\ 0 \in 0..(MaxCalls + 1) /\ 0 \in 0..MaxEvents
    BY CallNumbers
  <2> QED
    BY <2>1 DEF Init, Scalars, Statuses, Shown
<1>3. Records /\ DOMAIN lock = {} /\ DOMAIN queue = {} /\ lock \in Seq(Users)
  BY <1>1, InitCalls DEF Records
<1>4. Fresh
  <2>1. \A d \in Users : gen < d
    BY <1>1, CallNumbers
  <2> QED
    BY <2>1, InitCalls DEF Fresh
<1>5. LockInv
  BY <1>3, InitCalls DEF LockInv, LockHasCalls, OneHolder
<1>6. QueueInv
  BY <1>3, InitCalls DEF QueueInv, OneRequest, OneCommand
<1> QED
  BY <1>2, <1>3, <1>4, <1>5, <1>6, Parts

LEMMA NextIInv == IInv /\ [Next]_vars => IInv'
<1> SUFFICES ASSUME IInv, [Next]_vars PROVE IInv'
  OBVIOUS
<1>1. ASSUME NEW c \in Users, Press(c) \/ TimerFires(c) PROVE IInv'
  BY <1>1, PressStep, TimerStep
<1>2. ASSUME NEW c \in Polls, Tick(c) \/ ToFront(c) PROVE IInv'
  <2>1. Scalars
    BY Parts
  <2>2. Refresh(c) /\ events' \in 0..MaxEvents
    BY <1>2, <2>1, EventCounts DEF Tick, ToFront, Scalars
  <2> QED
    BY <2>2, RefreshStep
<1>3. ASSUME NEW c \in Callers, Work(c) \/ GiveUp(c) PROVE IInv'
  BY <1>3, DialStep, StartDaemonStep, SendStep, HandleStep, SelectedStep, GiveUpStep DEF Work
<1>4. CASE Edit \/ GraceEnds \/ Reload \/ UNCHANGED vars
  BY <1>4, EditStep, QuietStep, ReloadStep
<1>5. CASE Serve \/ TunnelDies \/ DaemonDies
  BY <1>5, ServeStep, TunnelDiesStep, DaemonDiesStep
<1> QED
  BY <1>1, <1>2, <1>3, <1>4, <1>5 DEF Next, Callers

LEMMA SpecIInv == Spec => []IInv
BY InitIInv, NextIInv, PTL DEF Spec

-----------------------------------------------------------------------------
\* conn.svelte.ts, vpn.rs and the daemon's queue: the window shows one of its four states,
\* every answer is one it knows, and no call waits for the backend's lock twice.
THEOREM ClientTypeOK == Spec => []TypeOK
<1>1. IInv => TypeOK
  BY DEF IInv
<1> QED
  BY <1>1, SpecIInv, PTL

\* connection-operation.ts: an answer that was overtaken by a newer operation is not shown,
\* but for the outcome of a failed call whose own check failed too.
THEOREM StaleAnswersAreNotShown == Spec => StaleNeverShown
<1> DEFINE A == status' \in Shown /\ status' # status /\ events' = events =>
                   \E c \in DOMAIN calls : /\ calls[c].at = "answered" /\ calls'[c].at = "done"
                                           /\ calls[c].gen = gen \/ CheckFailed(calls[c])
<1>1. ASSUME IInv, Next, status' \in Shown, status' # status, events' = events
      PROVE  \E c \in DOMAIN calls : /\ calls[c].at = "answered" /\ calls'[c].at = "done"
                                     /\ calls[c].gen = gen \/ CheckFailed(calls[c])
  <2>1. Scalars /\ DOMAIN calls = Callers /\ status' # "connecting"
    BY <1>1, Parts DEF Records, Shown
  <2>2. \A c : ~Connect(c)
    BY <1>1, <2>1 DEF Connect
  <2>3. \A c : ~Press(c) /\ ~TimerFires(c) /\ ~Tick(c) /\ ~ToFront(c)
    BY <1>1, <2>2 DEF Press, TimerFires, Tick, ToFront, Refresh, window
  <2>4. ~Event
    BY <1>1, <2>1 DEF Event, Scalars
  <2>5. ~Edit /\ ~GraceEnds /\ ~Reload /\ ~Serve /\ ~TunnelDies /\ ~DaemonDies /\ \A c : ~GiveUp(c)
    BY <1>1, <2>4 DEF Edit, GraceEnds, Reload, Serve, TunnelDies, DaemonDies, GiveUp, window
  <2>6. \A c : ~Dial(c) /\ ~StartDaemon(c) /\ ~Send(c) /\ ~Selected(c)
    BY <1>1, <2>1 DEF Dial, StartDaemon, Send, Selected, window
  <2>7. PICK c \in Callers : Handle(c)
    BY <1>1, <2>3, <2>5, <2>6 DEF Next, Work, Callers
  <2>8. calls[c].at = "answered"
    BY <2>7 DEF Handle
  <2>9. calls' = [calls EXCEPT ![c] = Over] /\ (calls[c].gen = gen \/ CheckFailed(calls[c]))
    BY <1>1, <2>7 DEF Handle, CheckFailed
  <2> QED
    BY <2>1, <2>8, <2>9 DEF Over, Idle
<1>2. IInv /\ [Next]_vars => [A]_vars
  BY <1>1
<1> QED
  BY <1>2, SpecIInv, PTL DEF Spec, StaleNeverShown

-----------------------------------------------------------------------------
(* A disconnect is final.  What keeps the daemon from a connection is at     *)
(* first the disconnect at the lock, behind which there is no connect, then  *)
(* its request in the queue, and in the end the phase of the daemon.         *)

LEMMA Facts ==
    ASSUME IInv
    PROVE  /\ Scalars /\ Records /\ Fresh /\ LockHasCalls /\ OneHolder /\ OneRequest /\ OneCommand /\ TypeOK
           /\ \A c \in Callers : calls[c] \in CallRecords
           /\ \A k \in DOMAIN lock : lock[k] \in Callers /\ InBackend(calls[lock[k]])
           /\ \A c \in Callers : c \in DOMAIN calls
<1>1. Scalars /\ Records /\ Fresh /\ LockHasCalls /\ OneHolder /\ OneRequest /\ OneCommand /\ TypeOK
  BY Parts DEF IInv, OrderInv
<1> QED
  BY <1>1, LockIsSeq DEF Records, LockHasCalls

-----------------------------------------------------------------------------
(* The lock.                                                                *)

\* Where the lock stands, nothing changes in what it says of the disconnect.
LEMMA LockSaysTheSame ==
    ASSUME lock' = lock, \A k \in DOMAIN lock : calls'[lock[k]].ask = calls[lock[k]].ask
    PROVE  (DisconnectComes => DisconnectComes') /\ (NoConnect => NoConnect')
BY DEF DisconnectComes, NoConnect

\* A call that is none of the connects goes to its end.
LEMMA LockGetsNoConnect ==
    ASSUME TypeOK, NEW c \in Users, lock' = Append(lock, c), calls'[c].ask # "connect",
           \A k \in DOMAIN lock : calls'[lock[k]].ask = calls[lock[k]].ask
    PROVE  (DisconnectComes => DisconnectComes') /\ (NoConnect => NoConnect')
           /\ (calls'[c].ask = "disconnect" => DisconnectComes')
<1>1. /\ lock \in Seq(Users) /\ Len(lock) \in Nat /\ DOMAIN lock = 1..Len(lock)
  BY LockIsSeq
<1>2. /\ DOMAIN lock' = 1..(Len(lock) + 1) /\ \A k \in DOMAIN lock : k \in DOMAIN lock' /\ lock'[k] = lock[k]
      /\ lock'[Len(lock) + 1] = c /\ Len(lock) + 1 \in DOMAIN lock'
      /\ \A k \in DOMAIN lock' : k \in DOMAIN lock \/ k = Len(lock) + 1
  BY <1>1
<1>3. NoConnect => NoConnect'
  BY <1>2 DEF NoConnect
<1>4. ASSUME DisconnectComes PROVE DisconnectComes'
  <2>1. PICK k \in DOMAIN lock :
           calls[lock[k]].ask = "disconnect" /\ \A j \in DOMAIN lock : j > k => calls[lock[j]].ask # "connect"
    BY <1>4 DEF DisconnectComes
  <2>2. calls'[lock'[k]].ask = "disconnect" /\ \A j \in DOMAIN lock' : j > k => calls'[lock'[j]].ask # "connect"
    BY <1>2, <2>1
  <2> QED
    BY <1>2, <2>2 DEF DisconnectComes
<1>5. ASSUME calls'[c].ask = "disconnect" PROVE DisconnectComes'
  <2>1. \A j \in DOMAIN lock' : ~(j > Len(lock) + 1)
    BY <1>1, <1>2
  <2> QED
    BY <1>2, <1>5, <2>1 DEF DisconnectComes
<1> QED
  BY <1>3, <1>4, <1>5

\* As calls move, the disconnect stays at the lock or has been the holder and leaves.
Leaves(c) == lock # <<>> /\ Head(lock) = c /\ calls'[c].at \in {"answered", "done"}
LEMMA LockLetsGo ==
    ASSUME IInv, lock' = Released(calls'),
           \A c \in Callers : Moves(c, calls') /\ (calls'[c].ask = calls[c].ask \/ calls'[c].at \in {"answered", "done"})
    PROVE  /\ NoConnect => NoConnect'
           /\ DisconnectComes =>
                 DisconnectComes' \/ (NoConnect' /\ \E c \in Callers : Leaves(c) /\ calls[c].ask = "disconnect")
<1>1. /\ lock \in Seq(Users) /\ \A i, j \in DOMAIN lock : lock[i] = lock[j] => i = j
      /\ Len(lock) \in Nat /\ DOMAIN lock = 1..Len(lock)
      /\ lock # <<>> => 1 \in DOMAIN lock /\ Head(lock) = lock[1]
      /\ \A k \in DOMAIN lock : lock[k] \in Callers /\ InBackend(calls[lock[k]])
  BY LockIsSeq, Facts
<1>2. \A k \in DOMAIN lock : k # 1 => calls'[lock[k]] = calls[lock[k]]
  <2> SUFFICES ASSUME NEW k \in DOMAIN lock, k # 1 PROVE calls'[lock[k]] = calls[lock[k]]
    OBVIOUS
  <2>1. lock # <<>> /\ lock[k] # Head(lock)
    BY <1>1
  <2> QED
    BY <2>1, <1>1 DEF Moves, AtHead, InBackend
<1>3. CASE lock # <<>> /\ calls'[Head(lock)].at \in {"answered", "done"}
  <2>1. lock' = Tail(lock)
    BY <1>3 DEF Released
  <2>2. /\ DOMAIN lock' = 1..(Len(lock) - 1)
        /\ \A k \in DOMAIN lock' : k \in Nat /\ k + 1 \in DOMAIN lock /\ k + 1 # 1 /\ lock'[k] = lock[k + 1]
        /\ \A k \in DOMAIN lock : k # 1 => k - 1 \in DOMAIN lock' /\ lock'[k - 1] = lock[k]
    BY <1>1, <1>3, <2>1
  <2>3. \A k \in DOMAIN lock' : calls'[lock'[k]].ask = calls[lock[k + 1]].ask
    BY <1>2, <2>2
  <2>4. NoConnect => NoConnect'
    BY <2>2, <2>3 DEF NoConnect
  <2>5. ASSUME NEW k \in DOMAIN lock, calls[lock[k]].ask = "disconnect",
               \A j \in DOMAIN lock : j > k => calls[lock[j]].ask # "connect"
        PROVE  DisconnectComes' \/ (NoConnect' /\ \E c \in Callers : Leaves(c) /\ calls[c].ask = "disconnect")
    <3>1. CASE k = 1
      <4>1. \A j \in DOMAIN lock' : j + 1 > k
        BY <2>2, <3>1
      <4>2. NoConnect'
        BY <2>2, <2>3, <2>5, <4>1 DEF NoConnect
      <4>3. Leaves(lock[1]) /\ lock[1] \in Callers
        BY <1>1, <1>3 DEF Leaves
      <4> QED
        BY <2>5, <3>1, <4>2, <4>3
    <3>2. CASE k # 1
      <4>1. k - 1 \in DOMAIN lock' /\ calls'[lock'[k - 1]].ask = "disconnect"
        BY <1>2, <2>2, <2>5, <3>2
      <4>2. \A j \in DOMAIN lock' : j > k - 1 => calls'[lock'[j]].ask # "connect"
        <5> SUFFICES ASSUME NEW j \in DOMAIN lock', j > k - 1 PROVE calls'[lock'[j]].ask # "connect"
          OBVIOUS
        <5>1. j + 1 \in DOMAIN lock /\ j + 1 > k
          BY <1>1, <2>2
        <5> QED
          BY <2>3, <2>5, <5>1
      <4> QED
        BY <4>1, <4>2 DEF DisconnectComes
    <3> QED
      BY <3>1, <3>2
  <2> QED
    BY <2>4, <2>5 DEF DisconnectComes
<1>4. CASE ~(lock # <<>> /\ calls'[Head(lock)].at \in {"answered", "done"})
  <2>1. lock' = lock
    BY <1>4 DEF Released
  <2>2. \A k \in DOMAIN lock : calls'[lock[k]].ask = calls[lock[k]].ask
    <3> SUFFICES ASSUME NEW k \in DOMAIN lock PROVE calls'[lock[k]].ask = calls[lock[k]].ask
      OBVIOUS
    <3>1. CASE k # 1
      BY <1>2, <3>1
    <3>2. CASE k = 1
      BY <1>1, <1>4, <3>2
    <3> QED
      BY <3>1, <3>2
  <2> QED
    BY <2>1, <2>2, LockSaysTheSame
<1> QED
  BY <1>3, <1>4

-----------------------------------------------------------------------------
(* The invariant.                                                           *)

\* The request that was made stays final while the lock and the queue go on as they do.
Final == DisconnectComes \/ (NoConnect /\ ConnectionEnds)

\* A step outside the backend.
LEMMA OutsideIsFinal ==
    ASSUME IInv, FinalInv, queue' = queue, phase' = phase, up' = up, lock' = lock,
           \A c \in Callers : \/ calls'[c].at = calls[c].at /\ calls'[c].ask = calls[c].ask
                              \/ calls[c].at \in {"done", "answered", "select"} /\ calls'[c].at \in {"done", "dial", "select"}
    PROVE  WaitsForAnswer' /\ (Final => Final')
<1>1. /\ \A k \in DOMAIN lock : lock[k] \in Callers /\ InBackend(calls[lock[k]])
  BY Facts
<1>2. WaitsForAnswer'
  BY DEF FinalInv, WaitsForAnswer
<1>3. \A k \in DOMAIN lock : calls'[lock[k]].ask = calls[lock[k]].ask
  BY <1>1 DEF InBackend
<1>4. ConnectionEnds => ConnectionEnds'
  BY DEF ConnectionEnds
<1> QED
  BY <1>2, <1>3, <1>4, LockSaysTheSame DEF Final

\* A connect, from the button or the timer of an edit: it is not what the user wants off.
LEMMA ConnectFinal == ASSUME IInv, FinalInv, NEW c \in Users, Connect(c), wish' # "off" PROVE FinalInv'
<1>1. /\ Free(c) /\ gen' = gen + 1 /\ UNCHANGED <<up, phase, queue>>
      /\ calls[c].at = "done" /\ gen \in Nat /\ c \in Callers
  BY Facts, NextGeneration, CallNumbers DEF Connect, Begin, daemon, Scalars
<1>2. PICK o : /\ calls' = [calls EXCEPT ![c] = o] /\ o.at \in {"dial", "select"} /\ o.gen = gen + 1
  <2> DEFINE dial == [Idle EXCEPT !.kind = "connect", !.gen = gen + 1, !.at = "dial", !.ask = "connect"]
             select == [Idle EXCEPT !.kind = "connect", !.gen = gen + 1, !.at = "select", !.ask = "connect"]
  <2>1. dial.at = "dial" /\ dial.gen = gen + 1 /\ select.at = "select" /\ select.gen = gen + 1
    BY DEF Idle
  <2>2. calls' = [calls EXCEPT ![c] = dial] \/ calls' = [calls EXCEPT ![c] = select]
    BY DEF Connect, Start
  <2> HIDE DEF dial, select
  <2> QED
    BY <2>1, <2>2
<1>3. calls'[c] = o /\ \A d \in Callers : d # c => calls'[d] = calls[d]
  BY <1>1, <1>2, Facts DEF Records
<1>4. WaitsForAnswer'
  BY <1>1, <1>2, <1>3 DEF FinalInv, WaitsForAnswer
<1>5. \A d \in Callers : calls'[d].at = "select" => calls'[d].gen <= gen'
  <2>1. \A d \in Callers : calls[d].gen \in Nat
    BY Facts, CallFields
  <2> QED
    BY <1>1, <1>2, <1>3, <2>1 DEF FinalInv
<1> QED
  BY <1>4, <1>5 DEF FinalInv

\* The press of a disconnect, or an edit of the excluded applications.
LEMMA StartFinal ==
    ASSUME IInv, FinalInv, NEW c \in Users, Free(c), NEW kind \in {"disconnect", "split"}, NEW g \in 0..MaxCalls,
           Start(c, kind, g), UNCHANGED <<up, phase, queue>>
    PROVE  /\ WaitsForAnswer' /\ (Final => Final') /\ (kind = "disconnect" => Final')
           /\ \A d \in Callers : calls'[d].at = "select" => calls[d].at = "select" /\ calls'[d].gen = calls[d].gen
<1> DEFINE o == [Idle EXCEPT !.kind = kind, !.gen = g, !.at = "dial", !.ask = kind]
<1>1. calls[c].at = "done" /\ c \in Callers /\ lock' = Append(lock, c) /\ o.at = "dial" /\ o.ask = kind
  BY NextGeneration, CallNumbers DEF Start, Idle
<1>2. calls' = [calls EXCEPT ![c] = o]
  BY DEF Start
<1> HIDE DEF o
<1>3. calls'[c] = o /\ \A d \in Callers : d # c => calls'[d] = calls[d]
  BY <1>1, <1>2, Facts DEF Records
<1>4. \A k \in DOMAIN lock : calls'[lock[k]].ask = calls[lock[k]].ask
  BY <1>1, <1>3, Facts DEF InBackend
<1>5. /\ DisconnectComes => DisconnectComes'
      /\ NoConnect => NoConnect'
      /\ kind = "disconnect" => DisconnectComes'
  BY <1>1, <1>3, <1>4, Facts, LockGetsNoConnect
<1>6. WaitsForAnswer' /\ (ConnectionEnds => ConnectionEnds')
  BY <1>1, <1>3 DEF FinalInv, WaitsForAnswer, ConnectionEnds
<1> QED
  BY <1>1, <1>3, <1>5, <1>6 DEF Final

LEMMA PressFinal == ASSUME IInv, FinalInv, NEW c \in Users, Press(c) PROVE FinalInv'
<1>1. CASE status \in {"disconnected", "dropped"} /\ wish' = "on" /\ Connect(c)
  BY <1>1, ConnectFinal
<1>2. CASE /\ wish' = "off" /\ Free(c) /\ Begin /\ Start(c, "disconnect", gen + 1)
           /\ UNCHANGED <<status, grace, daemon, events>>
  <2>1. /\ gen' = gen + 1 /\ timer' = 0 /\ UNCHANGED <<up, phase, queue>> /\ gen + 1 \in 0..MaxCalls
        /\ gen \in Nat
    BY <1>2, NextGeneration, Facts, CallNumbers DEF Begin, daemon, Scalars
  <2>2. /\ WaitsForAnswer' /\ Final'
        /\ \A d \in Callers : calls'[d].at = "select" => calls[d].at = "select" /\ calls'[d].gen = calls[d].gen
    BY <1>2, <2>1, StartFinal
  <2>3. \A d \in Callers : calls'[d].at = "select" => calls'[d].gen < gen' /\ calls'[d].gen <= gen'
    <3>1. \A d \in Callers : calls[d].gen \in Nat
      BY Facts, CallFields
    <3> QED
      BY <2>1, <2>2, <3>1 DEF FinalInv
  <2> QED
    BY <2>1, <2>2, <2>3 DEF FinalInv, Overtaken, Final
<1> QED
  BY <1>1, <1>2 DEF Press

LEMMA EditFinal == ASSUME IInv, FinalInv, Edit PROVE FinalInv'
<1>1. /\ gen' = gen /\ UNCHANGED <<up, phase, queue>> /\ gen \in 0..MaxCalls
      /\ wish' = "off" => wish = "off" /\ timer' = timer
  BY Facts DEF Edit, daemon, Scalars
<1>2. CASE UNCHANGED <<calls, lock>>
  <2>1. WaitsForAnswer' /\ (Final => Final')
    BY <1>1, <1>2, OutsideIsFinal
  <2> QED
    BY <1>1, <1>2, <2>1 DEF FinalInv, Overtaken, Final
<1>3. ASSUME NEW c \in Users, Free(c), Start(c, "split", gen) PROVE FinalInv'
  <2>1. /\ WaitsForAnswer' /\ (Final => Final')
        /\ \A d \in Callers : calls'[d].at = "select" => calls[d].at = "select" /\ calls'[d].gen = calls[d].gen
    BY <1>1, <1>3, StartFinal
  <2> QED
    BY <1>1, <2>1 DEF FinalInv, Overtaken, Final
<1> QED
  BY <1>2, <1>3 DEF Edit

\* No timer is set when the user wants the connection off.
LEMMA TimerFinal == ASSUME IInv, FinalInv, NEW c \in Users, TimerFires(c) PROVE FinalInv'
<1>1. wish # "off"
  BY DEF TimerFires, FinalInv, Overtaken
<1>2. CASE timer = gen + 1 /\ Connect(c) /\ UNCHANGED wish
  BY <1>1, <1>2, ConnectFinal
<1>3. CASE timer' = 0 /\ UNCHANGED <<status, gen, grace, wish, calls, lock, daemon, events>>
  <2>1. WaitsForAnswer'
    BY <1>3, OutsideIsFinal DEF daemon
  <2> QED
    BY <1>1, <1>3, <2>1 DEF FinalInv
<1> QED
  BY <1>2, <1>3 DEF TimerFires

\* A location arrives: while the user wants the connection off, it is that of an overtaken
\* connect, and lets the wish lapse.
LEMMA SelectedFinal == ASSUME IInv, FinalInv, NEW c \in Callers, Selected(c) PROVE FinalInv'
<1>1. calls[c].at = "select" /\ gen' = gen /\ timer' = timer /\ UNCHANGED <<up, phase, queue>>
      /\ calls[c].gen \in Nat /\ gen \in Nat
  BY Facts, CallFields, CallNumbers DEF Selected, daemon, Scalars
<1>2. CASE /\ calls' = [calls EXCEPT ![c].at = "dial"]
           /\ wish' = IF calls[c].gen # gen /\ wish = "off" THEN "lapsed" ELSE wish
  <2>1. wish' # "off"
    BY <1>1, <1>2 DEF FinalInv, Overtaken
  <2>2. calls'[c].at = "dial" /\ \A d \in Callers : d # c => calls'[d] = calls[d]
    <3>1. calls' = [calls EXCEPT ![c] = [calls[c] EXCEPT !.at = "dial"]] /\ [calls[c] EXCEPT !.at = "dial"].at = "dial"
      BY <1>2, Facts DEF CallRecords
    <3> QED
      BY <3>1, Facts DEF Records
  <2>3. WaitsForAnswer'
    BY <1>1, <2>2 DEF FinalInv, WaitsForAnswer
  <2> QED
    BY <1>1, <2>1, <2>2, <2>3 DEF FinalInv
<1>3. CASE calls' = [calls EXCEPT ![c] = Over] /\ UNCHANGED <<lock, status, wish>>
  <2>1. calls'[c].at = "done" /\ \A d \in Callers : d # c => calls'[d] = calls[d]
    BY <1>3, Facts DEF Records, Over, Idle
  <2>2. WaitsForAnswer' /\ (Final => Final')
    BY <1>1, <1>3, <2>1, OutsideIsFinal
  <2>3. \A d \in Callers : calls'[d].at = "select" => calls'[d] = calls[d]
    BY <2>1
  <2> QED
    BY <1>1, <1>3, <2>2, <2>3 DEF FinalInv, Overtaken, Final
<1> QED
  BY <1>2, <1>3 DEF Selected

\* A step outside the backend in which nobody begins to wait for a location.
LEMMA QuietFinal ==
    ASSUME IInv, FinalInv, queue' = queue, phase' = phase, up' = up, lock' = lock, wish' = wish,
           timer' \in {0, timer}, gen' = gen \/ \A c \in Callers : calls'[c].at # "select",
           \A c \in Callers : \/ calls'[c].at = calls[c].at /\ calls'[c].ask = calls[c].ask /\ calls'[c].gen = calls[c].gen
                              \/ calls'[c].at # "select" /\ calls'[c].at = calls[c].at /\ calls'[c].ask = calls[c].ask
                              \/ calls[c].at \in {"done", "answered", "select"} /\ calls'[c].at \in {"done", "dial"}
    PROVE  FinalInv'
<1>1. WaitsForAnswer' /\ (Final => Final')
  <2>1. \A c \in Callers : \/ calls'[c].at = calls[c].at /\ calls'[c].ask = calls[c].ask
                           \/ calls[c].at \in {"done", "answered", "select"} /\ calls'[c].at \in {"done", "dial", "select"}
    OBVIOUS
  <2> QED
    BY <2>1, OutsideIsFinal
<1>2. \A c \in Callers : calls'[c].at = "select" => calls[c].at = "select" /\ calls'[c].gen = calls[c].gen /\ gen' = gen
  OBVIOUS
<1>3. Overtaken => Overtaken'
  BY <1>2 DEF Overtaken
<1>4. \A c \in Callers : calls'[c].at = "select" => calls'[c].gen <= gen'
  BY <1>2 DEF FinalInv
<1> QED
  BY <1>1, <1>3, <1>4 DEF FinalInv, Final

\* A poll.
LEMMA RefreshFinal == ASSUME IInv, FinalInv, NEW p \in Polls, Refresh(p) PROVE FinalInv'
<1>1. /\ queue' = queue /\ phase' = phase /\ up' = up /\ lock' = lock /\ wish' = wish /\ timer' = timer
      /\ gen' = gen /\ calls[p].at = "done" /\ p \in Callers
  BY CallNumbers DEF Refresh, window, daemon
<1>2. calls'[p].at = "dial" /\ \A d \in Callers : d # p => calls'[d] = calls[d]
  BY <1>1, Facts DEF Refresh, Records, Poll, Idle
<1> QED
  BY <1>1, <1>2, QuietFinal

\* The web view is made anew: what the window had begun is over, what the backend does goes on.
LEMMA ReloadFinal == ASSUME IInv, FinalInv, Reload PROVE FinalInv'
<1>1. /\ queue' = queue /\ phase' = phase /\ up' = up /\ lock' = lock /\ wish' = wish /\ timer' = 0
  BY DEF Reload, daemon
<1>2. \A d \in Callers : /\ calls'[d].at # "select"
                         /\ \/ calls'[d].at = calls[d].at /\ calls'[d].ask = calls[d].ask
                            \/ calls[d].at \in {"select", "answered", "done"} /\ calls'[d].at \in {"done", "dial"}
  BY ReloadCalls
<1> QED
  BY <1>1, <1>2, QuietFinal

\* An answer comes back to the window.
LEMMA HandleFinal == ASSUME IInv, FinalInv, NEW c \in Callers, Handle(c) PROVE FinalInv'
<1>1. /\ queue' = queue /\ phase' = phase /\ up' = up /\ lock' = lock /\ wish' = wish /\ timer' = timer
      /\ gen' = gen /\ calls[c].at = "answered"
  BY DEF Handle, daemon
<1>2. PICK o : calls' = [calls EXCEPT ![c] = o] /\ o.at \in {"done", "dial"}
  <2>1. [Poll(gen) EXCEPT !.kind = calls[c].kind].at = "dial" /\ Over.at = "done"
    BY DEF Poll, Idle, Over
  <2>2. \/ calls' = [calls EXCEPT ![c] = Over]
        \/ calls' = [calls EXCEPT ![c] = [Poll(gen) EXCEPT !.kind = calls[c].kind]]
    BY DEF Handle
  <2> QED
    BY <2>1, <2>2
<1>3. calls'[c] = o /\ \A d \in Callers : d # c => calls'[d] = calls[d]
  BY <1>2, Facts DEF Records
<1> QED
  BY <1>1, <1>2, <1>3, QuietFinal

-----------------------------------------------------------------------------
(* The backend and the daemon.                                              *)

\* Calls move in the backend: it is enough that the connection goes on ending, and that
\* it does when a disconnect leaves.
LEMMA BackendFinal ==
    ASSUME IInv, FinalInv, lock' = Released(calls'), timer' = timer, gen' = gen, wish' \in {wish, "lapsed"},
           \A c \in Callers : Moves(c, calls') /\ (calls'[c].ask = calls[c].ask \/ calls'[c].at \in {"answered", "done"}),
           WaitsForAnswer',
           wish' = "off" /\ NoConnect /\ ConnectionEnds => ConnectionEnds',
           \A c \in Callers : wish' = "off" /\ Leaves(c) /\ calls[c].ask = "disconnect" => ConnectionEnds'
    PROVE  FinalInv'
<1>1. \A c \in Callers : calls'[c].at = "select" => calls'[c] = calls[c]
  BY DEF Moves, InBackend
<1>2. \A c \in Callers : calls'[c].at = "select" => calls'[c].gen <= gen'
  BY <1>1 DEF FinalInv
<1>3. ASSUME wish' = "off" PROVE Overtaken' /\ (DisconnectComes' \/ (NoConnect' /\ ConnectionEnds'))
  <2>1. Overtaken /\ (DisconnectComes \/ (NoConnect /\ ConnectionEnds))
    BY <1>3 DEF FinalInv
  <2>2. Overtaken'
    BY <1>1, <2>1 DEF Overtaken
  <2>3. CASE NoConnect /\ ConnectionEnds
    BY <1>3, <2>2, <2>3, LockLetsGo
  <2>4. CASE DisconnectComes
    <3>1. DisconnectComes' \/ (NoConnect' /\ \E c \in Callers : Leaves(c) /\ calls[c].ask = "disconnect")
      BY <2>4, LockLetsGo
    <3> QED
      BY <1>3, <2>2, <3>1
  <2> QED
    BY <2>1, <2>3, <2>4
<1> QED
  BY <1>2, <1>3 DEF FinalInv

\* One call moves in the backend.
LEMMA OneFinal ==
    ASSUME IInv, FinalInv, NEW c \in Callers, NEW o \in CallRecords, calls' = [calls EXCEPT ![c] = o],
           lock' = Released(calls'), timer' = timer, gen' = gen, wish' \in {wish, "lapsed"},
           calls[c].at \in {"dial", "start", "probe", "send", "wait"}, calls[c].ask # "status" => AtHead(c),
           \/ o.at \in {"answered", "done"}
           \/ o.at \in {"dial", "start", "probe", "send", "wait"} /\ o.ask = calls[c].ask /\ o.ask # "status"
           \/ o.at = "wait" /\ o.ask = "status" /\ calls[c].ask = "status",
           WaitsForAnswer',
           wish' = "off" /\ NoConnect /\ ConnectionEnds => ConnectionEnds',
           wish' = "off" /\ calls[c].ask = "disconnect" /\ o.at \in {"answered", "done"} => ConnectionEnds'
    PROVE  FinalInv'
<1>1. calls'[c] = o /\ \A d \in Callers : d # c => calls'[d] = calls[d]
  BY Facts DEF Records
<1>2. \A d \in Callers : Moves(d, calls') /\ (calls'[d].ask = calls[d].ask \/ calls'[d].at \in {"answered", "done"})
  BY <1>1 DEF Moves, InBackend
<1>3. \A d \in Callers : Leaves(d) => calls[d].at \notin {"answered", "done"}
  <2>1. \A d \in Callers : lock # <<>> /\ Head(lock) = d => InBackend(calls[d])
    BY Facts, LockIsSeq
  <2> QED
    BY <2>1 DEF Leaves, InBackend
<1>4. \A d \in Callers : wish' = "off" /\ Leaves(d) /\ calls[d].ask = "disconnect" => ConnectionEnds'
  BY <1>1, <1>3 DEF Leaves
<1> QED
  BY <1>2, <1>4, BackendFinal

\* Where a call that stays takes the holder's place, the lock is not let go of.
LEMMA KeptIsReleased ==
    ASSUME IInv, NEW c \in Callers, NEW o \in CallRecords, calls' = [calls EXCEPT ![c] = o],
           o.at \notin {"answered", "done"}, lock' = lock
    PROVE  lock' = Released(calls')
<1>1. calls'[c] = o /\ \A d \in Callers : d # c => calls'[d] = calls[d]
  BY Facts DEF Records
<1>2. lock # <<>> => Head(lock) \in Callers /\ calls[Head(lock)].at \notin {"answered", "done"}
  BY Facts, LockIsSeq DEF InBackend
<1> QED
  BY <1>1, <1>2 DEF Released

\* A request joins the queue.
LEMMA AppendFinal ==
    ASSUME IInv, FinalInv, NEW r \in RequestRecords, queue' = Append(queue, r), phase' = phase, up' = up, up, r.here,
           \A d \in Callers : /\ calls'[d].at = "start" => calls[d].at = "start" /\ calls'[d].ask = calls[d].ask
                              /\ calls'[d].at = "wait" => \/ calls[d].at = "wait" /\ calls'[d].ask = calls[d].ask
                                                          \/ r.who = d /\ r.what = calls'[d].ask
    PROVE  WaitsForAnswer' /\ (ConnectionEnds /\ r.what # "connect" => ConnectionEnds')
<1>1. /\ \A k \in DOMAIN queue : k \in DOMAIN queue' /\ queue'[k] = queue[k]
      /\ queue'[Len(queue) + 1] = r /\ Len(queue) + 1 \in DOMAIN queue'
      /\ \A k \in DOMAIN queue' : k \in DOMAIN queue \/ k = Len(queue) + 1
  <2>1. TypeOK /\ Len(queue) \in Nat
    BY Facts, QueueIsSeq
  <2> QED
    BY <2>1, QueueAppend
<1>2. ASSUME NEW d \in Callers, calls'[d].at = "wait"
      PROVE  \E k \in DOMAIN queue' : queue'[k].who = d /\ queue'[k].what = calls'[d].ask /\ queue'[k].here
  <2>1. CASE calls[d].at = "wait" /\ calls'[d].ask = calls[d].ask
    BY <1>1, <2>1 DEF FinalInv, WaitsForAnswer
  <2>2. CASE r.who = d /\ r.what = calls'[d].ask
    BY <1>1, <2>2
  <2> QED
    BY <1>2, <2>1, <2>2
<1>3. WaitsForAnswer'
  BY <1>2 DEF FinalInv, WaitsForAnswer
<1>4. ConnectionEnds /\ r.what # "connect" => ConnectionEnds'
  BY <1>1 DEF ConnectionEnds
<1> QED
  BY <1>3, <1>4

\* A call dials: whoever finds no daemon leaves none behind, and only a connect fails on a name.
LEMMA DialFinal == ASSUME IInv, FinalInv, NEW c \in Callers, Dial(c) PROVE FinalInv'
<1>1. /\ calls[c].at = "dial" /\ (calls[c].ask # "status" => AtHead(c)) /\ calls[c] \in CallRecords
      /\ UNCHANGED <<timer, gen, wish, up, phase>>
  BY Facts DEF Dial, Holds, AtHead, window
<1>2. CASE ~up /\ Update([calls EXCEPT ![c] = Unreached(calls[c])]) /\ UNCHANGED queue
  <2> DEFINE o == Unreached(calls[c])
  <2>1. o \in CallRecords
    BY <1>1, NextCalls
  <2>2. o.at \in {"answered", "done"} \/ (o.at = "start" /\ o.ask = "connect" /\ calls[c].ask = "connect")
    BY <1>1, WhereNext
  <2>3. calls' = [calls EXCEPT ![c] = o] /\ lock' = Released(calls')
    BY <1>2 DEF Update
  <2> HIDE DEF o
  <2>4. calls'[c] = o /\ \A d \in Callers : d # c => calls'[d] = calls[d]
    BY <2>3, Facts DEF Records
  <2>5. WaitsForAnswer'
    BY <1>1, <1>2, <2>2, <2>4 DEF FinalInv, WaitsForAnswer
  <2>6. ConnectionEnds'
    BY <1>1, <1>2 DEF FinalInv, WaitsForAnswer, ConnectionEnds
  <2> QED
    BY <1>1, <2>1, <2>2, <2>3, <2>5, <2>6, OneFinal
<1>3. CASE calls[c].ask = "connect" /\ Update([calls EXCEPT ![c] = Answered(calls[c], "error")]) /\ UNCHANGED queue
  <2> DEFINE o == Answered(calls[c], "error")
  <2>1. o \in CallRecords /\ o.at \in {"answered", "done"}
    BY <1>1, FailedCall
  <2>2. calls' = [calls EXCEPT ![c] = o] /\ lock' = Released(calls')
    BY <1>3 DEF Update
  <2> HIDE DEF o
  <2>3. calls'[c] = o /\ \A d \in Callers : d # c => calls'[d] = calls[d]
    BY <2>2, Facts DEF Records
  <2>4. WaitsForAnswer'
    BY <1>1, <1>3, <2>1, <2>3 DEF FinalInv, WaitsForAnswer
  <2>5. ConnectionEnds => ConnectionEnds'
    BY <1>1, <1>3 DEF ConnectionEnds
  <2> QED
    BY <1>1, <1>3, <2>1, <2>2, <2>4, <2>5, OneFinal
<1>4. CASE /\ up /\ calls' = [calls EXCEPT ![c].at = IF calls[c].ask = "status" THEN "wait" ELSE "probe"]
           /\ queue' = Append(queue, [who |-> c, what |-> "status", here |-> TRUE]) /\ lock' = lock
  <2> DEFINE at == IF calls[c].ask = "status" THEN "wait" ELSE "probe"
             o == [calls[c] EXCEPT !.at = at]
             r == [who |-> c, what |-> "status", here |-> TRUE]
  <2>1. calls' = [calls EXCEPT ![c] = o] /\ o \in CallRecords
    BY <1>1, <1>4, NextCalls
  <2>2. o.at = at /\ o.ask = calls[c].ask
    BY <1>1 DEF CallRecords
  <2>3. r \in RequestRecords /\ r.who = c /\ r.what = "status" /\ r.here
    BY DEF RequestRecords, Asks
  <2>4. queue' = Append(queue, r) /\ at \in {"wait", "probe"}
        /\ (at = "probe" => calls[c].ask # "status") /\ (at = "wait" => calls[c].ask = "status")
    BY <1>4
  <2> HIDE DEF o, r, at
  <2>5. calls'[c] = o /\ \A d \in Callers : d # c => calls'[d] = calls[d]
    BY <2>1, Facts DEF Records
  <2>6. lock' = Released(calls')
    BY <1>4, <2>1, <2>2, <2>4, KeptIsReleased
  <2>7. \A d \in Callers : /\ calls'[d].at = "start" => calls[d].at = "start" /\ calls'[d].ask = calls[d].ask
                           /\ calls'[d].at = "wait" => \/ calls[d].at = "wait" /\ calls'[d].ask = calls[d].ask
                                                       \/ r.who = d /\ r.what = calls'[d].ask
    BY <2>2, <2>3, <2>4, <2>5
  <2>8. WaitsForAnswer' /\ (ConnectionEnds => ConnectionEnds')
    BY <1>1, <1>4, <2>3, <2>4, <2>7, AppendFinal
  <2>9. \/ o.at \in {"dial", "start", "probe", "send", "wait"} /\ o.ask = calls[c].ask /\ o.ask # "status"
        \/ o.at = "wait" /\ o.ask = "status" /\ calls[c].ask = "status"
    BY <2>2, <2>4
  <2>10. o.at \notin {"answered", "done"}
    BY <2>2, <2>4
  <2> QED
    BY <1>1, <2>1, <2>6, <2>8, <2>9, <2>10, OneFinal
<1> QED
  BY <1>2, <1>3, <1>4 DEF Dial

\* Only a connect starts a daemon, and a new one has no connection.
LEMMA StartDaemonFinal == ASSUME IInv, FinalInv, NEW c \in Callers, StartDaemon(c) PROVE FinalInv'
<1>1. /\ calls[c].at = "start" /\ calls[c] \in CallRecords /\ UNCHANGED <<timer, gen, wish, queue>>
      /\ calls[c].ask = "connect" /\ (calls[c].ask # "status" => AtHead(c))
  BY Facts DEF StartDaemon, window, FinalInv, WaitsForAnswer, OneHolder
<1>2. /\ up' = TRUE \/ up' = up
      /\ phase' = phase \/ phase' \in {"disconnected", "dropped"}
      /\ up' = TRUE \/ phase' = phase
  BY DEF StartDaemon
<1> DEFINE again == [calls[c] EXCEPT !.at = "dial", !.again = TRUE]
<1>3. /\ again \in CallRecords /\ again.at = "dial" /\ again.ask = calls[c].ask
      /\ Answered(calls[c], "error") \in CallRecords /\ Answered(calls[c], "error").at \in {"answered", "done"}
  <2>1. again.at = "dial" /\ again.ask = calls[c].ask
    BY <1>1 DEF CallRecords
  <2> QED
    BY <1>1, <2>1, NextCalls, FailedCall
<1>4. PICK o \in CallRecords : /\ calls' = [calls EXCEPT ![c] = o] /\ lock' = Released(calls')
                               /\ \/ o.at \in {"answered", "done"}
                                  \/ o.at = "dial" /\ o.ask = "connect"
  <2>1. \/ calls' = [calls EXCEPT ![c] = again]
        \/ calls' = [calls EXCEPT ![c] = Answered(calls[c], "error")]
    BY DEF StartDaemon, Update
  <2>2. lock' = Released(calls')
    BY DEF StartDaemon, Update
  <2> HIDE DEF again
  <2> QED
    BY <1>1, <1>3, <2>1, <2>2
<1>5. calls'[c] = o /\ \A d \in Callers : d # c => calls'[d] = calls[d]
  BY <1>4, Facts DEF Records
<1>6. WaitsForAnswer'
  BY <1>1, <1>2, <1>4, <1>5 DEF FinalInv, WaitsForAnswer
<1>7. ConnectionEnds => ConnectionEnds'
  BY <1>1, <1>2 DEF ConnectionEnds
<1> QED
  BY <1>1, <1>4, <1>6, <1>7, OneFinal

\* A command goes out: while no connect is at the lock, it is none.
LEMMA SendFinal == ASSUME IInv, FinalInv, NEW c \in Callers, Send(c) PROVE FinalInv'
<1>1. /\ calls[c].at = "send" /\ calls[c] \in CallRecords /\ UNCHANGED <<timer, gen, wish, up, phase>>
      /\ calls[c].ask # "status" /\ AtHead(c) /\ calls[c].ask \in Asks
  <2>1. calls[c].at = "send" /\ calls[c] \in CallRecords /\ UNCHANGED <<timer, gen, wish, up, phase>>
    BY Facts DEF Send, window
  <2>2. calls[c].ask # "status" /\ AtHead(c)
    BY <2>1, Facts DEF OneHolder
  <2> QED
    BY <2>1, <2>2, CallFields
<1>2. CASE ~up /\ Update([calls EXCEPT ![c] = Answered(calls[c], "error")]) /\ UNCHANGED queue
  <2> DEFINE o == Answered(calls[c], "error")
  <2>1. o \in CallRecords /\ o.at \in {"answered", "done"}
    BY <1>1, FailedCall
  <2>2. calls' = [calls EXCEPT ![c] = o] /\ lock' = Released(calls')
    BY <1>2 DEF Update
  <2> HIDE DEF o
  <2>3. calls'[c] = o /\ \A d \in Callers : d # c => calls'[d] = calls[d]
    BY <2>2, Facts DEF Records
  <2>4. WaitsForAnswer'
    BY <1>1, <1>2, <2>1, <2>3 DEF FinalInv, WaitsForAnswer
  <2>5. ConnectionEnds'
    BY <1>1, <1>2 DEF FinalInv, WaitsForAnswer, ConnectionEnds
  <2> QED
    BY <1>1, <2>1, <2>2, <2>4, <2>5, OneFinal
<1>3. CASE /\ up /\ calls' = [calls EXCEPT ![c].at = "wait"] /\ lock' = lock
           /\ queue' = Append(queue, [who |-> c, what |-> calls[c].ask, here |-> TRUE])
  <2> DEFINE o == [calls[c] EXCEPT !.at = "wait"]
             r == [who |-> c, what |-> calls[c].ask, here |-> TRUE]
  <2>1. calls' = [calls EXCEPT ![c] = o] /\ o \in CallRecords /\ queue' = Append(queue, r)
    BY <1>1, <1>3, NextCalls
  <2>2. o.at = "wait" /\ o.ask = calls[c].ask
    BY <1>1 DEF CallRecords
  <2>3. r \in RequestRecords /\ r.who = c /\ r.what = calls[c].ask /\ r.here
    BY <1>1 DEF RequestRecords
  <2> HIDE DEF o, r
  <2>4. calls'[c] = o /\ \A d \in Callers : d # c => calls'[d] = calls[d]
    BY <2>1, Facts DEF Records
  <2>5. lock' = Released(calls')
    BY <1>3, <2>1, <2>2, KeptIsReleased
  <2>6. \A d \in Callers : /\ calls'[d].at = "start" => calls[d].at = "start" /\ calls'[d].ask = calls[d].ask
                           /\ calls'[d].at = "wait" => \/ calls[d].at = "wait" /\ calls'[d].ask = calls[d].ask
                                                       \/ r.who = d /\ r.what = calls'[d].ask
    BY <2>2, <2>3, <2>4
  <2>7. WaitsForAnswer' /\ (ConnectionEnds /\ r.what # "connect" => ConnectionEnds')
    BY <1>1, <1>3, <2>1, <2>3, <2>6, AppendFinal
  <2>8. NoConnect => calls[c].ask # "connect"
    BY <1>1, Facts, LockIsSeq DEF AtHead, NoConnect
  <2> QED
    BY <1>1, <2>1, <2>2, <2>3, <2>5, <2>7, <2>8, OneFinal
<1> QED
  BY <1>2, <1>3 DEF Send

\* A client gives up: the command of a disconnect stays in the queue, or it was never sent and
\* the wish has lapsed.
LEMMA GiveUpFinal == ASSUME IInv, FinalInv, NEW c \in Callers, GiveUp(c) PROVE FinalInv'
<1>1. /\ UNCHANGED <<timer, gen, up, phase>> /\ wish' \in {wish, "lapsed"} /\ calls[c] \in CallRecords
      /\ calls[c].at \in {"probe", "wait"} /\ (calls[c].ask # "status" => AtHead(c))
      /\ queue' = [k \in DOMAIN queue |-> [queue[k] EXCEPT !.here = @ /\ queue[k].who # c]]
      /\ lock' = Released(calls')
  BY Facts DEF GiveUp, window, OneHolder, Update
<1>2. /\ DOMAIN queue' = DOMAIN queue
      /\ \A k \in DOMAIN queue : /\ queue'[k].who = queue[k].who /\ queue'[k].what = queue[k].what
                                 /\ queue[k].here /\ queue[k].who # c => queue'[k].here
  <2>1. \A k \in DOMAIN queue : queue[k] \in RequestRecords
    BY Facts, QueueIsSeq
  <2> QED
    BY <1>1, <2>1 DEF RequestRecords
<1>3. PICK o \in CallRecords :
         /\ calls' = [calls EXCEPT ![c] = o]
         /\ o.at \in {"answered", "done"} \/ (o.at = "start" /\ o.ask = "connect" /\ calls[c].ask = "connect")
         /\ wish' = "off" /\ calls[c].ask = "disconnect" => calls[c].at = "wait"
  <2>1. \/ /\ calls' = [calls EXCEPT ![c] = Unreached(calls[c])]
           /\ wish' = IF calls[c].ask = "disconnect" /\ wish = "off" THEN "lapsed" ELSE wish
        \/ calls' = [calls EXCEPT ![c] = Answered(calls[c], "error")] /\ calls[c].at = "wait"
    BY DEF GiveUp, Update
  <2>2. /\ Unreached(calls[c]) \in CallRecords
        /\ \/ Unreached(calls[c]).at \in {"answered", "done"}
           \/ Unreached(calls[c]).at = "start" /\ Unreached(calls[c]).ask = "connect" /\ calls[c].ask = "connect"
    BY <1>1, NextCalls, WhereNext
  <2>3. Answered(calls[c], "error") \in CallRecords /\ Answered(calls[c], "error").at \in {"answered", "done"}
    BY <1>1, FailedCall
  <2> QED
    BY <2>1, <2>2, <2>3
<1>4. calls'[c] = o /\ \A d \in Callers : d # c => calls'[d] = calls[d]
  BY <1>3, Facts DEF Records
<1>5. WaitsForAnswer'
  <2>1. \A d \in Callers : calls'[d].at = "start" => calls'[d].ask = "connect"
    BY <1>3, <1>4 DEF FinalInv, WaitsForAnswer
  <2>2. ASSUME NEW d \in Callers, calls'[d].at = "wait"
        PROVE  \E k \in DOMAIN queue' : queue'[k].who = d /\ queue'[k].what = calls'[d].ask /\ queue'[k].here
    <3>1. d # c /\ calls'[d] = calls[d]
      BY <1>3, <1>4, <2>2
    <3>2. PICK k \in DOMAIN queue : queue[k].who = d /\ queue[k].what = calls[d].ask /\ queue[k].here
      BY <2>2, <3>1 DEF FinalInv, WaitsForAnswer
    <3> QED
      BY <1>2, <3>1, <3>2
  <2>3. ~up' => phase' = "disconnected" /\ queue' = <<>>
    <3>1. queue = <<>> => queue' = <<>>
      BY <1>1
    <3> QED
      BY <1>1, <3>1 DEF FinalInv, WaitsForAnswer
  <2> QED
    BY <2>1, <2>2, <2>3 DEF WaitsForAnswer
<1>6. ConnectionEnds => ConnectionEnds'
  BY <1>1, <1>2 DEF ConnectionEnds
<1>7. wish' = "off" /\ calls[c].ask = "disconnect" => ConnectionEnds'
  <2>1. calls[c].at = "wait" => \E k \in DOMAIN queue : queue[k].who = c /\ queue[k].what = calls[c].ask
    BY DEF FinalInv, WaitsForAnswer
  <2> QED
    BY <1>2, <1>3, <2>1 DEF ConnectionEnds
<1> QED
  BY <1>1, <1>3, <1>5, <1>6, <1>7, OneFinal

\* The head of the queue is worked off: without a connect in the queue the connection ends.
LEMMA ServedEnds ==
    ASSUME IInv, queue # <<>>, queue' = Tail(queue), NEW out \in Outcomes(queue[1].what), phase' = out[2]
    PROVE  /\ queue[1].what = "disconnect" => ConnectionEnds'
           /\ queue[1].what = "status" /\ out[1] = "error" /\ (\A j \in DOMAIN queue : j > 1 => queue[j].what = "status")
              => ConnectionEnds'
           /\ ConnectionEnds => ConnectionEnds'
<1>1. /\ \A k \in DOMAIN queue' : k \in Nat /\ k + 1 \in DOMAIN queue /\ k + 1 # 1 /\ queue'[k] = queue[k + 1]
      /\ \A k \in DOMAIN queue : k # 1 => k - 1 \in DOMAIN queue' /\ queue'[k - 1] = queue[k]
  <2>1. TypeOK /\ queue \in Seq(RequestRecords) /\ Len(queue) \in Nat /\ DOMAIN queue = 1..Len(queue)
    BY Facts, QueueIsSeq
  <2>2. DOMAIN queue' = 1..(Len(queue) - 1) /\ \A k \in 1..(Len(queue) - 1) : queue'[k] = queue[k + 1]
    BY <2>1
  <2> QED
    BY <2>1, <2>2
<1>2. queue[1].what \in Asks /\ 1 \in DOMAIN queue
  BY Facts, QueueIsSeq
<1>3. ASSUME queue[1].what = "disconnect" PROVE ConnectionEnds'
  <2>1. phase' # "connected"
    BY <1>3 DEF Outcomes
  <2>2. \A k \in DOMAIN queue : k # 1 => queue[k].what = "status"
    BY <1>2, <1>3, Facts DEF OneCommand
  <2> QED
    BY <1>1, <2>1, <2>2 DEF ConnectionEnds
<1>4. ASSUME queue[1].what = "status", out[1] = "error", \A j \in DOMAIN queue : j > 1 => queue[j].what = "status"
      PROVE  ConnectionEnds'
  <2>1. phase' # "connected"
    <3>1. phase \in Shown /\ "error" \notin Shown
      BY Facts DEF Scalars, Shown
    <3> QED
      BY <1>4, <3>1 DEF Outcomes
  <2>2. \A k \in DOMAIN queue' : queue'[k].what = "status"
    BY <1>1, <1>4
  <2> QED
    BY <2>1, <2>2 DEF ConnectionEnds
<1>5. ASSUME ConnectionEnds PROVE ConnectionEnds'
  <2>1. ASSUME NEW k \in DOMAIN queue, queue[k].what = "disconnect" PROVE ConnectionEnds'
    <3>1. CASE k = 1
      BY <1>3, <2>1, <3>1
    <3>2. CASE k # 1
      BY <1>1, <2>1, <3>2 DEF ConnectionEnds
    <3> QED
      BY <3>1, <3>2
  <2>2. ASSUME phase # "connected", \A k \in DOMAIN queue : queue[k].what # "connect" PROVE ConnectionEnds'
    <3>1. queue[1].what \in {"status", "disconnect", "split"}
      BY <1>2, <2>2 DEF Asks
    <3>2. phase' # "connected"
      BY <2>2, <3>1 DEF Outcomes
    <3> QED
      BY <1>1, <2>2, <3>2 DEF ConnectionEnds
  <2> QED
    BY <1>5, <2>1, <2>2 DEF ConnectionEnds
<1> QED
  BY <1>3, <1>4, <1>5

\* The daemon answers: the disconnect that leaves with its answer has been carried out, and one
\* whose probe is refused finds a connection that has been dropped.
LEMMA ServeFinal == ASSUME IInv, FinalInv, Serve PROVE FinalInv'
<1> DEFINE c == queue[1].who
           what == queue[1].what
<1>1. /\ queue # <<>> /\ 1 \in DOMAIN queue /\ Head(queue) = queue[1] /\ c \in Callers
      /\ queue' = Tail(queue) /\ up /\ up' = up /\ UNCHANGED <<timer, gen, wish>>
      /\ TypeOK /\ phase \in Shown /\ what \in Asks
  BY Facts, QueueIsSeq DEF Serve, window, Scalars
<1>2. PICK out \in Outcomes(what) :
         /\ phase' = out[2]
         /\ \/ ~queue[1].here /\ UNCHANGED <<calls, lock>>
            \/ queue[1].here /\ calls[c].at = "wait" /\ Update([calls EXCEPT ![c] = Answered(calls[c], out[1])])
            \/ /\ queue[1].here /\ out[1] = "error" /\ (calls[c].at = "probe" \/ calls[c].ask = "status")
               /\ Update([calls EXCEPT ![c] = Unreached(calls[c])])
            \/ /\ queue[1].here /\ calls[c].at = "probe"
               /\ calls' = [calls EXCEPT ![c].at = "send"] /\ lock' = lock
  BY <1>1 DEF Serve
<1>3. /\ calls[c] \in CallRecords /\ out[1] \in Shown \cup {"error"}
      /\ queue[1].here => /\ calls[c].at \in {"probe", "wait"}
                          /\ calls[c].at \in {"probe", "wait"} /\ calls[c].ask # "status" => AtHead(c)
                          /\ calls[c].at = "probe" => calls[c].ask # "status"
  BY <1>1, Facts, OutcomesType DEF OneRequest, OneHolder
<1>4. ConnectionEnds => ConnectionEnds'
  BY <1>1, <1>2, ServedEnds
<1>5. \A k \in DOMAIN queue : k # 1 => k - 1 \in DOMAIN queue' /\ queue'[k - 1] = queue[k]
  <2>1. queue \in Seq(RequestRecords) /\ Len(queue) \in Nat /\ DOMAIN queue = 1..Len(queue)
    BY <1>1, QueueIsSeq
  <2>2. DOMAIN queue' = 1..(Len(queue) - 1) /\ \A k \in 1..(Len(queue) - 1) : queue'[k] = queue[k + 1]
    BY <1>1, <2>1
  <2> QED
    BY <2>1, <2>2
<1>6. ASSUME \A d \in Callers : /\ calls'[d].at = "start" => calls'[d].ask = "connect"
                                /\ calls'[d].at = "wait" => calls'[d] = calls[d] /\ (d = c => ~queue[1].here)
      PROVE  WaitsForAnswer'
  <2>1. ASSUME NEW d \in Callers, calls'[d].at = "wait"
        PROVE  \E k \in DOMAIN queue' : queue'[k].who = d /\ queue'[k].what = calls'[d].ask /\ queue'[k].here
    <3>1. calls'[d] = calls[d]
      BY <1>6, <2>1
    <3>2. PICK k \in DOMAIN queue : queue[k].who = d /\ queue[k].what = calls[d].ask /\ queue[k].here
      BY <2>1, <3>1 DEF FinalInv, WaitsForAnswer
    <3>3. k # 1
      BY <1>6, <2>1, <3>2
    <3> QED
      BY <1>5, <3>1, <3>2, <3>3
  <2> QED
    BY <1>1, <1>6, <2>1 DEF WaitsForAnswer
<1> HIDE DEF c, what
<1>7. CASE ~queue[1].here /\ UNCHANGED <<calls, lock>>
  <2>1. WaitsForAnswer'
    BY <1>6, <1>7 DEF FinalInv, WaitsForAnswer
  <2>2. (DisconnectComes => DisconnectComes') /\ (NoConnect => NoConnect')
    BY <1>7, LockSaysTheSame
  <2> QED
    BY <1>1, <1>4, <1>7, <2>1, <2>2 DEF FinalInv, Overtaken
<1>8. ASSUME NEW o \in CallRecords, queue[1].here, Update([calls EXCEPT ![c] = o]),
             o.at \in {"answered", "done"} \/ (o.at = "start" /\ o.ask = "connect" /\ calls[c].ask = "connect"),
             calls[c].ask = "disconnect" => ConnectionEnds'
      PROVE  FinalInv'
  <2>1. calls' = [calls EXCEPT ![c] = o] /\ lock' = Released(calls')
    BY <1>8 DEF Update
  <2>2. calls'[c] = o /\ \A d \in Callers : d # c => calls'[d] = calls[d]
    BY <1>1, <2>1, Facts DEF Records
  <2>3. WaitsForAnswer'
    BY <1>6, <1>8, <2>2 DEF FinalInv, WaitsForAnswer
  <2> QED
    BY <1>1, <1>3, <1>4, <1>8, <2>1, <2>3, OneFinal
<1>9. CASE queue[1].here /\ calls[c].at = "wait" /\ Update([calls EXCEPT ![c] = Answered(calls[c], out[1])])
  <2>1. Answered(calls[c], out[1]) \in CallRecords /\ Answered(calls[c], out[1]).at \in {"answered", "done"}
    BY <1>3, NextCalls, WhereNext
  <2>2. calls[c].ask = "disconnect" => what = "disconnect"
    <3>1. PICK k \in DOMAIN queue : queue[k].who = c /\ queue[k].what = calls[c].ask /\ queue[k].here
      BY <1>1, <1>9 DEF FinalInv, WaitsForAnswer
    <3>2. k = 1
      BY <1>1, <1>9, <3>1, Facts DEF OneRequest, c
    <3> QED
      BY <3>1, <3>2 DEF what
  <2>3. calls[c].ask = "disconnect" => ConnectionEnds'
    BY <1>1, <1>2, <2>2, ServedEnds DEF what
  <2> QED
    BY <1>8, <1>9, <2>1, <2>3
<1>10. CASE /\ queue[1].here /\ out[1] = "error" /\ (calls[c].at = "probe" \/ calls[c].ask = "status")
            /\ Update([calls EXCEPT ![c] = Unreached(calls[c])])
  <2>1. /\ Unreached(calls[c]) \in CallRecords
        /\ \/ Unreached(calls[c]).at \in {"answered", "done"}
           \/ /\ Unreached(calls[c]).at = "start" /\ Unreached(calls[c]).ask = "connect" /\ calls[c].ask = "connect"
    BY <1>3, NextCalls, WhereNext
  <2>2. ASSUME calls[c].ask = "disconnect" PROVE ConnectionEnds'
    <3>1. what = "status" /\ \A j \in DOMAIN queue : j > 1 => queue[j].what = "status"
      BY <1>1, <1>10, <2>2, Facts DEF OneRequest, c, what
    <3> QED
      BY <1>1, <1>2, <1>10, <3>1, ServedEnds DEF what
  <2> QED
    BY <1>8, <1>10, <2>1, <2>2
<1>11. CASE /\ queue[1].here /\ calls[c].at = "probe"
            /\ calls' = [calls EXCEPT ![c].at = "send"] /\ lock' = lock
  <2> DEFINE o == [calls[c] EXCEPT !.at = "send"]
  <2>1. o.at = "send" /\ o.ask = calls[c].ask /\ o \in CallRecords
    <3>1. o.at = "send" /\ o.ask = calls[c].ask
      BY <1>3 DEF CallRecords
    <3> QED
      BY <1>3, <3>1, NextCalls
  <2>2. calls' = [calls EXCEPT ![c] = o]
    BY <1>11
  <2> HIDE DEF o
  <2>3. lock' = Released(calls')
    BY <1>1, <1>11, <2>1, <2>2, KeptIsReleased
  <2>4. calls'[c] = o /\ \A d \in Callers : d # c => calls'[d] = calls[d]
    BY <1>1, <2>2, Facts DEF Records
  <2>5. WaitsForAnswer'
    BY <1>6, <2>1, <2>4 DEF FinalInv, WaitsForAnswer
  <2> QED
    BY <1>1, <1>3, <1>4, <1>11, <2>1, <2>2, <2>3, <2>5, OneFinal
<1> QED
  BY <1>2, <1>7, <1>9, <1>10, <1>11

LEMMA TunnelDiesFinal == ASSUME IInv, FinalInv, TunnelDies PROVE FinalInv'
<1>1. /\ UNCHANGED <<timer, gen, wish, calls, lock, up, queue>> /\ phase' # "connected" /\ up
  BY DEF TunnelDies, window
<1>2. WaitsForAnswer' /\ (ConnectionEnds => ConnectionEnds')
  BY <1>1 DEF FinalInv, WaitsForAnswer, ConnectionEnds
<1>3. (DisconnectComes => DisconnectComes') /\ (NoConnect => NoConnect')
  BY <1>1, LockSaysTheSame
<1> QED
  BY <1>1, <1>2, <1>3 DEF FinalInv, Overtaken

LEMMA DaemonDiesFinal == ASSUME IInv, FinalInv, DaemonDies PROVE FinalInv'
<1>1. /\ UNCHANGED <<timer, gen, wish>> /\ ~up' /\ phase' = "disconnected" /\ queue' = <<>>
  BY DEF DaemonDies, window
<1>2. WaitsForAnswer'
  BY <1>1, DaemonDiesCalls DEF FinalInv, WaitsForAnswer
<1>3. ConnectionEnds'
  BY <1>1 DEF ConnectionEnds
<1> QED
  BY <1>1, <1>2, <1>3, DaemonDiesCalls, BackendFinal

-----------------------------------------------------------------------------
(* The whole.                                                               *)

LEMMA InitFinal == Init => FinalInv
<1> SUFFICES ASSUME Init PROVE FinalInv
  OBVIOUS
<1>1. IInv /\ wish = "none" /\ up
  BY InitIInv DEF Init
<1>2. \A d \in Callers : calls[d].at \in {"done", "dial"}
  BY InitCalls
<1> QED
  BY <1>1, <1>2 DEF FinalInv, WaitsForAnswer

LEMMA NextFinal == IInv /\ FinalInv /\ [Next]_vars => FinalInv'
<1> SUFFICES ASSUME IInv, FinalInv, [Next]_vars PROVE FinalInv'
  OBVIOUS
<1>1. ASSUME NEW c \in Users, Press(c) \/ TimerFires(c) PROVE FinalInv'
  BY <1>1, PressFinal, TimerFinal
<1>2. ASSUME NEW c \in Polls, Tick(c) \/ ToFront(c) PROVE FinalInv'
  BY <1>2, RefreshFinal DEF Tick, ToFront
<1>3. ASSUME NEW c \in Callers, Work(c) \/ GiveUp(c) PROVE FinalInv'
  BY <1>3, DialFinal, StartDaemonFinal, SendFinal, HandleFinal, SelectedFinal, GiveUpFinal DEF Work
<1>4. CASE GraceEnds \/ UNCHANGED vars
  <2>1. UNCHANGED <<queue, phase, up, lock, wish, timer, gen, calls>>
    BY <1>4 DEF GraceEnds, vars, window, daemon
  <2> QED
    BY <2>1, QuietFinal
<1>5. CASE Edit \/ Reload \/ Serve \/ TunnelDies \/ DaemonDies
  BY <1>5, EditFinal, ReloadFinal, ServeFinal, TunnelDiesFinal, DaemonDiesFinal
<1> QED
  BY <1>1, <1>2, <1>3, <1>4, <1>5 DEF Next, Callers

LEMMA SpecFinal == Spec => [](IInv /\ FinalInv)
<1>1. Init => IInv /\ FinalInv
  BY InitIInv, InitFinal
<1>2. IInv /\ FinalInv /\ [Next]_vars => (IInv /\ FinalInv)'
  BY NextIInv, NextFinal
<1> QED
  BY <1>1, <1>2, PTL DEF Spec

\* conn.svelte.ts, connection-operation.test.ts:10 and vpn.rs:59: when the user's last press was a
\* disconnect that has not lapsed, and nothing is under way, the daemon has no connection.
THEOREM DisconnectStaysFinal == Spec => []DisconnectIsFinal
<1>1. IInv /\ FinalInv => DisconnectIsFinal
  <2> SUFFICES ASSUME IInv, FinalInv, Quiet, wish = "off" PROVE phase # "connected"
    BY DEF DisconnectIsFinal
  <2>1. \A k \in DOMAIN lock : FALSE
    BY Facts DEF Quiet, InBackend
  <2>2. ~DisconnectComes
    BY <2>1 DEF DisconnectComes
  <2>3. ConnectionEnds
    BY <2>2 DEF FinalInv
  <2> QED
    BY <2>3 DEF ConnectionEnds, Quiet
<1> QED
  BY <1>1, SpecFinal, PTL

-----------------------------------------------------------------------------
(* The order of the commands.  Only a call that comes to the lock adds to    *)
(* the record, behind everyone; whoever sends a command is at the head of    *)
(* the lock, so that nobody there came before it; and the command is alone.  *)

\* A call that has begun goes on.
GoesOn(d) == calls[d].kind # "none" /\ calls[d].at # "select" => calls'[d].kind # "none" /\ calls'[d].at # "select"

LEMMA OneGoesOn ==
    ASSUME IInv, NEW c \in Callers, NEW o, calls' = [calls EXCEPT ![c] = o],
           calls[c].kind # "none" /\ calls[c].at # "select" => o.kind # "none" /\ o.at # "select"
    PROVE  \A d \in Users : GoesOn(d)
<1>1. calls'[c] = o /\ \A d \in Users : d # c => calls'[d] = calls[d]
  BY Facts, CallNumbers DEF Records
<1> QED
  BY <1>1 DEF GoesOn

\* The rest of a lock, and a queue with one request more.
LEMMA Rest ==
    ASSUME NEW s \in Seq(Users), s # <<>>
    PROVE  /\ Len(Tail(s)) = Len(s) - 1 /\ DOMAIN Tail(s) = 1..(Len(s) - 1)
           /\ \A k \in 1..(Len(s) - 1) : Tail(s)[k] = s[k + 1]
<1>1. /\ Tail(s) \in Seq(Users) /\ DOMAIN Tail(s) = 1..(Len(s) - 1)
      /\ \A k \in 1..(Len(s) - 1) : Tail(s)[k] = s[k + 1]
  OBVIOUS
<1>2. Len(s) \in Nat \ {0}
  OBVIOUS
<1> QED
  BY <1>1, <1>2

LEMMA OneMore ==
    ASSUME TypeOK, NEW r, queue' = Append(queue, r)
    PROVE  /\ Len(queue') = Len(queue) + 1 /\ DOMAIN queue' = 1..(Len(queue) + 1)
           /\ \A k \in DOMAIN queue : queue'[k] = queue[k]
           /\ queue'[Len(queue) + 1] = r
BY QueueIsSeq

\* The lock stands, or its holder lets go.
LEMMA LockShrinks ==
    ASSUME IInv, lock' = lock \/ (lock # <<>> /\ lock' = Tail(lock))
    PROVE  /\ ~Arrives
           /\ \E s \in {0, 1} : \A k \in DOMAIN lock' : k \in Nat /\ k + s \in DOMAIN lock /\ lock'[k] = lock[k + s]
<1>1. lock \in Seq(Users) /\ Len(lock) \in Nat /\ DOMAIN lock = 1..Len(lock)
  BY LockIsSeq, Facts
<1>2. CASE lock' = lock
  <2>1. \A k \in DOMAIN lock' : k \in Nat /\ k + 0 \in DOMAIN lock /\ lock'[k] = lock[k + 0]
    BY <1>1, <1>2
  <2>2. ~Arrives
    BY <1>1, <1>2 DEF Arrives
  <2> QED
    BY <2>1, <2>2
<1>3. CASE lock # <<>> /\ lock' = Tail(lock)
  <2>1. /\ Len(lock') = Len(lock) - 1 /\ DOMAIN lock' = 1..(Len(lock) - 1)
        /\ \A k \in DOMAIN lock' : lock'[k] = lock[k + 1]
    BY <1>1, <1>3, Rest
  <2>0. \A k \in 1..(Len(lock) - 1) : k \in Nat /\ k + 1 \in 1..Len(lock)
    BY <1>1
  <2>2. \A k \in DOMAIN lock' : k \in Nat /\ k + 1 \in DOMAIN lock /\ lock'[k] = lock[k + 1]
    BY <1>1, <2>0, <2>1
  <2>3. ~Arrives
    BY <1>1, <2>1 DEF Arrives
  <2> QED
    BY <2>2, <2>3
<1> QED
  BY <1>2, <1>3

\* What the record says of two is between two who are outstanding.
LEMMA RecordHas ==
    ASSUME TurnInv, Record
    PROVE  \A b, c : <<b, c>> \in before' =>
               /\ b \in Outstanding' /\ c \in Outstanding' /\ b # c
               /\ <<b, c>> \in before \/ (Arrives /\ c = Newest)
<1> SUFFICES ASSUME NEW b, NEW c, <<b, c>> \in before'
             PROVE  /\ b \in Outstanding' /\ c \in Outstanding' /\ b # c
                    /\ <<b, c>> \in before \/ (Arrives /\ c = Newest)
  OBVIOUS
<1>1. b \in Outstanding' /\ c \in Outstanding'
  BY DEF Record
<1>2. \/ <<b, c>> \in before
      \/ Arrives /\ \E d \in Outstanding' \ {Newest} : <<b, c>> = <<d, Newest>>
  BY DEF Record
<1>3. CASE <<b, c>> \in before
  BY <1>1, <1>3 DEF TurnInv
<1>4. CASE Arrives /\ \E d \in Outstanding' \ {Newest} : <<b, c>> = <<d, Newest>>
  BY <1>1, <1>4
<1> QED
  BY <1>2, <1>3, <1>4

\* Nothing new is said while nobody comes: what is left of the lock is in turn.
LEMMA RestInTurn ==
    ASSUME IInv, TurnInv, Record, lock' = lock \/ (lock # <<>> /\ lock' = Tail(lock))
    PROVE  /\ LockInTurn'
           /\ \A b, c : <<b, c>> \in before' => <<b, c>> \in before
           /\ \A b, c : <<b, c>> \in before' => b \in Outstanding' /\ c \in Outstanding' /\ b # c
<1>1. PICK s \in {0, 1} : \A k \in DOMAIN lock' : k \in Nat /\ k + s \in DOMAIN lock /\ lock'[k] = lock[k + s]
  BY LockShrinks
<1>2. \A b, c : <<b, c>> \in before' =>
          <<b, c>> \in before /\ b \in Outstanding' /\ c \in Outstanding' /\ b # c
  BY LockShrinks, RecordHas
<1>3. ASSUME NEW i \in DOMAIN lock', NEW j \in DOMAIN lock', i < j PROVE <<lock'[j], lock'[i]>> \notin before'
  <2>1. i + s < j + s
    BY <1>1, <1>3
  <2>2. <<lock[j + s], lock[i + s]>> \notin before
    BY <1>1, <2>1 DEF TurnInv, LockInTurn
  <2> QED
    BY <1>1, <1>2, <2>2
<1> QED
  BY <1>2, <1>3 DEF LockInTurn

\* The record stays in turn while nobody comes and no command is added.
LEMMA TurnStands ==
    ASSUME IInv, TurnInv, Record, lock' = lock \/ (lock # <<>> /\ lock' = Tail(lock)), \A d \in Users : GoesOn(d),
           \A k \in Commands' : \E j \in Commands : queue[j].who = queue'[k].who
    PROVE  TurnInv'
<1>1. PICK s \in {0, 1} : \A k \in DOMAIN lock' : k + s \in DOMAIN lock /\ lock'[k] = lock[k + s]
  BY LockShrinks
<1>2. ASSUME NEW k \in Commands' PROVE CommandInTurn(queue[k])'
  <2> DEFINE who == queue'[k].who
  <2>1. PICK j \in Commands : queue[j].who = who
    BY <1>2
  <2>2. /\ who \in Users /\ calls[who].kind # "none" /\ calls[who].at # "select"
        /\ \A i \in DOMAIN lock : <<lock[i], who>> \notin before
    BY <2>1 DEF TurnInv, CommandInTurn
  <2>3. calls'[who].kind # "none" /\ calls'[who].at # "select"
    BY <2>2 DEF GoesOn
  <2>4. \A i \in DOMAIN lock' : <<lock'[i], who>> \notin before'
    BY <1>1, <2>2, RestInTurn
  <2> QED
    BY <2>2, <2>3, <2>4 DEF CommandInTurn
<1> QED
  BY <1>2, RestInTurn DEF TurnInv

\* Nothing but Status requests joins the queue.
LEMMA TurnQuiet ==
    ASSUME IInv, TurnInv, Record, lock' = lock \/ lock' = Released(calls'), \A d \in Users : GoesOn(d),
           queue' = queue \/ \E c : queue' = Append(queue, [who |-> c, what |-> "status", here |-> TRUE])
    PROVE  TurnInv'
<1>1. lock' = lock \/ (lock # <<>> /\ lock' = Tail(lock))
  BY DEF Released
<1>2. queue \in Seq(RequestRecords) /\ Len(queue) \in Nat /\ DOMAIN queue = 1..Len(queue)
  BY Facts, QueueIsSeq
<1>3. \A k \in Commands' : k \in Commands /\ queue'[k] = queue[k]
  <2>1. CASE queue' = queue
    BY <2>1 DEF Commands
  <2>2. ASSUME NEW c, queue' = Append(queue, [who |-> c, what |-> "status", here |-> TRUE])
        PROVE  \A k \in Commands' : k \in Commands /\ queue'[k] = queue[k]
    <3> DEFINE r == [who |-> c, what |-> "status", here |-> TRUE]
    <3>1. r.what = "status"
      OBVIOUS
    <3>0. queue' = Append(queue, r)
      BY <2>2
    <3> HIDE DEF r
    <3>2. /\ DOMAIN queue' = 1..(Len(queue) + 1)
          /\ \A k \in DOMAIN queue : queue'[k] = queue[k]
          /\ queue'[Len(queue) + 1] = r
      BY <3>0, Facts, OneMore
    <3> QED
      BY <1>2, <3>1, <3>2 DEF Commands
  <2> QED
    BY <2>1, <2>2
<1> QED
  BY <1>1, <1>3, TurnStands

\* A call that comes to the lock comes after all that are outstanding.
LEMMA TurnTaken ==
    ASSUME IInv, TurnInv, Record, NEW c \in Users, NEW o, calls' = [calls EXCEPT ![c] = o],
           calls[c].kind = "none" \/ calls[c].at = "select", lock' = Append(lock, c), queue' = queue
    PROVE  TurnInv'
<1>1. /\ lock \in Seq(Users) /\ Len(lock) \in Nat /\ DOMAIN lock = 1..Len(lock)
      /\ \A k \in DOMAIN lock : lock[k] \in Callers /\ InBackend(calls[lock[k]])
  BY LockIsSeq, Facts
<1>2. /\ Len(lock') = Len(lock) + 1 /\ DOMAIN lock' = 1..(Len(lock) + 1)
      /\ \A k \in DOMAIN lock : lock'[k] = lock[k]
      /\ lock'[Len(lock) + 1] = c
  BY <1>1
<1>3. Newest = c
  BY <1>2 DEF Newest
<1>4. c \in Callers /\ \A d \in Users : d # c => calls'[d] = calls[d]
  BY Facts, CallNumbers DEF Records
<1>5. /\ \A k \in DOMAIN lock : lock[k] # c
      /\ \A k \in Commands : queue[k].who # c
  <2>1. \A k \in DOMAIN lock : lock[k] # c
    BY <1>1, <1>4, Facts DEF Fresh, InBackend
  <2>2. \A k \in Commands : queue[k].who # c
    BY DEF TurnInv, CommandInTurn
  <2> QED
    BY <2>1, <2>2
<1>6. c \notin Outstanding
  BY <1>5 DEF Outstanding, AtLock
<1>7. \A b, d : <<b, d>> \in before' => b # c /\ (<<b, d>> \in before \/ d = c)
  <2> SUFFICES ASSUME NEW b, NEW d, <<b, d>> \in before' PROVE b # c /\ (<<b, d>> \in before \/ d = c)
    OBVIOUS
  <2>1. b # d /\ (<<b, d>> \in before \/ d = c)
    BY <1>3, RecordHas
  <2>2. <<b, d>> \in before => b # c
    BY <1>6 DEF TurnInv
  <2> QED
    BY <2>1, <2>2
<1>8. LockInTurn'
  <2> SUFFICES ASSUME NEW i \in DOMAIN lock', NEW j \in DOMAIN lock', i < j
               PROVE  <<lock'[j], lock'[i]>> \notin before'
    BY DEF LockInTurn
  <2>1. i \in DOMAIN lock /\ (j \in DOMAIN lock \/ j = Len(lock) + 1)
    BY <1>1, <1>2
  <2>2. CASE j \in DOMAIN lock
    <3>1. <<lock[j], lock[i]>> \notin before /\ lock[i] # c
      BY <1>5, <2>1, <2>2 DEF TurnInv, LockInTurn
    <3> QED
      BY <1>2, <1>7, <2>1, <2>2, <3>1
  <2>3. CASE j = Len(lock) + 1
    BY <1>2, <1>7, <2>3
  <2> QED
    BY <2>1, <2>2, <2>3
<1>9. ASSUME NEW k \in Commands' PROVE CommandInTurn(queue[k])'
  <2> DEFINE who == queue[k].who
  <2>1. k \in Commands /\ queue'[k].who = who /\ who # c
    BY <1>5, <1>9 DEF Commands
  <2>2. /\ who \in Users /\ calls[who].kind # "none" /\ calls[who].at # "select"
        /\ \A i \in DOMAIN lock : <<lock[i], who>> \notin before
    BY <2>1 DEF TurnInv, CommandInTurn
  <2>3. ASSUME NEW i \in DOMAIN lock' PROVE <<lock'[i], who>> \notin before'
    <3>1. CASE i \in DOMAIN lock
      BY <1>2, <1>7, <2>1, <2>2, <3>1
    <3>2. CASE i = Len(lock) + 1
      BY <1>2, <1>7, <3>2
    <3>3. i \in DOMAIN lock \/ i = Len(lock) + 1
      BY <1>1, <1>2
    <3> QED
      BY <3>1, <3>2, <3>3
  <2>4. calls'[who].kind # "none" /\ calls'[who].at # "select"
    BY <1>4, <2>1, <2>2
  <2> HIDE DEF who
  <2> QED
    BY <2>1, <2>2, <2>3, <2>4 DEF CommandInTurn
<1>10. \A b, d : <<b, d>> \in before' => b \in Outstanding' /\ d \in Outstanding' /\ b # d
  BY RecordHas
<1> QED
  BY <1>8, <1>9, <1>10 DEF TurnInv

\* What begins in the window: a connect with its location comes to the lock, one without waits.
LEMMA ConnectTurn == ASSUME IInv, TurnInv, Record, NEW c \in Users, Connect(c) PROVE TurnInv'
<1>1. c \in Callers /\ calls[c].kind = "none" /\ queue' = queue
  BY CallNumbers DEF Connect, Free, daemon
<1>2. ASSUME Start(c, "connect", gen + 1) PROVE TurnInv'
  BY <1>1, <1>2, TurnTaken DEF Start
<1>3. ASSUME NEW o, calls' = [calls EXCEPT ![c] = o], lock' = lock PROVE TurnInv'
  <2>1. \A d \in Users : GoesOn(d)
    BY <1>1, <1>3, OneGoesOn
  <2> QED
    BY <1>1, <1>3, <2>1, TurnQuiet
<1> QED
  BY <1>2, <1>3 DEF Connect

\* The actions of the window.
LEMMA WindowTurn ==
    ASSUME IInv, TurnInv, Record,
           \/ \E c \in Users : Press(c) \/ TimerFires(c)
           \/ \E c \in Polls : Tick(c) \/ ToFront(c)
           \/ Edit \/ GraceEnds \/ Reload
    PROVE  TurnInv'
<1> DEFINE Goal == TurnInv'
<1>1. ASSUME calls' = calls, lock' = lock, queue' = queue PROVE Goal
  <2>1. \A d \in Users : GoesOn(d)
    BY <1>1 DEF GoesOn
  <2> QED
    BY <1>1, <2>1, TurnQuiet
<1>2. ASSUME NEW c \in Users, Press(c) PROVE Goal
  <2>1. CASE Connect(c)
    BY <2>1, ConnectTurn
  <2>2. CASE Free(c) /\ Start(c, "disconnect", gen + 1) /\ queue' = queue
    BY <2>2, TurnTaken DEF Start, Free
  <2> QED
    BY <1>2, <2>1, <2>2 DEF Press, daemon
<1>3. ASSUME NEW c \in Users, TimerFires(c) PROVE Goal
  BY <1>1, <1>3, ConnectTurn DEF TimerFires, daemon
<1>4. ASSUME NEW p \in Polls, Refresh(p) PROVE Goal
  <2>1. p \in Callers /\ p \notin Users /\ calls[p].at = "done"
    BY <1>4, CallNumbers DEF Refresh
  <2>2. \A d \in Users : calls'[d] = calls[d]
    BY <1>4, <2>1 DEF Refresh
  <2>3. \A d \in Users : GoesOn(d)
    BY <2>2 DEF GoesOn
  <2> QED
    BY <1>4, <2>3, TurnQuiet DEF Refresh, daemon
<1>5. ASSUME Edit PROVE Goal
  <2>1. ASSUME NEW c \in Users, Free(c), Start(c, "split", gen), queue' = queue PROVE Goal
    BY <2>1, TurnTaken DEF Start, Free
  <2> QED
    BY <1>1, <1>5, <2>1 DEF Edit, daemon
<1>6. ASSUME GraceEnds PROVE Goal
  BY <1>1, <1>6 DEF GraceEnds, daemon
<1>7. ASSUME Reload PROVE Goal
  <2>1. lock' = lock /\ queue' = queue
    BY <1>7 DEF Reload, daemon
  <2>2. ASSUME NEW d \in Users PROVE GoesOn(d)
    <3>1. d \in Callers
      BY CallNumbers
    <3> QED
      BY <1>7, <3>1, ReloadCalls DEF GoesOn
  <2> QED
    BY <2>1, <2>2, TurnQuiet
<1> QED
  BY <1>2, <1>3, <1>4, <1>5, <1>6, <1>7 DEF Tick, ToFront

\* An answer is shown, or a location has been parsed.
LEMMA HandleTurn ==
    ASSUME IInv, TurnInv, Record, NEW c \in Callers, Handle(c) \/ Selected(c)
    PROVE  TurnInv'
<1>1. c \in DOMAIN calls /\ calls[c] \in CallRecords /\ (calls[c].at # "done" => calls[c].kind # "none")
  BY Facts DEF Fresh
<1>2. CASE Handle(c)
  <2>1. calls[c].at = "answered" /\ calls[c].kind # "none" /\ lock' = lock /\ queue' = queue
    BY <1>1, <1>2 DEF Handle, daemon
  <2>2. \/ calls' = [calls EXCEPT ![c] = Over]
        \/ calls' = [calls EXCEPT ![c] = [Poll(gen) EXCEPT !.kind = calls[c].kind]]
    BY <1>2 DEF Handle
  <2>3. /\ Over.kind # "none" /\ Over.at # "select"
        /\ [Poll(gen) EXCEPT !.kind = calls[c].kind].kind = calls[c].kind
        /\ [Poll(gen) EXCEPT !.kind = calls[c].kind].at # "select"
    BY DEF Over, Poll, Idle
  <2>4. \A d \in Users : GoesOn(d)
    BY <2>1, <2>2, <2>3, OneGoesOn
  <2> QED
    BY <2>1, <2>4, TurnQuiet
<1>3. CASE Selected(c)
  <2>1. calls[c].at = "select" /\ c \in Users /\ queue' = queue
    BY <1>3, Facts DEF Selected, OneHolder, daemon
  <2>2. CASE calls' = [calls EXCEPT ![c].at = "dial"] /\ lock' = Append(lock, c)
    BY <2>1, <2>2, TurnTaken
  <2>3. CASE calls' = [calls EXCEPT ![c] = Over] /\ lock' = lock
    <3>1. \A d \in Users : GoesOn(d)
      BY <2>1, <2>3, OneGoesOn
    <3> QED
      BY <2>1, <2>3, <3>1, TurnQuiet
  <2> QED
    BY <1>3, <2>2, <2>3 DEF Selected
<1> QED
  BY <1>2, <1>3

\* A call dials, or starts a daemon.
LEMMA DialTurn ==
    ASSUME IInv, TurnInv, Record, NEW c \in Callers, Dial(c) \/ StartDaemon(c)
    PROVE  TurnInv'
<1>1. /\ calls[c] \in CallRecords /\ calls[c].at \in {"dial", "start"} /\ calls[c].kind # "none"
      /\ queue' = queue \/ queue' = Append(queue, [who |-> c, what |-> "status", here |-> TRUE])
  BY Facts DEF Fresh, Dial, StartDaemon
<1>2. \A at : [calls[c] EXCEPT !.at = at].kind = calls[c].kind /\ [calls[c] EXCEPT !.at = at].at = at
  BY <1>1 DEF CallRecords
<1>3. /\ [calls[c] EXCEPT !.at = "dial", !.again = TRUE].kind = calls[c].kind
      /\ [calls[c] EXCEPT !.at = "dial", !.again = TRUE].at = "dial"
  BY <1>1 DEF CallRecords
<1>4. /\ Unreached(calls[c]).kind # "none" /\ Unreached(calls[c]).at # "select"
      /\ Answered(calls[c], "error").kind # "none" /\ Answered(calls[c], "error").at # "select"
  BY <1>1, WhereNext
<1>5. PICK o : /\ calls' = [calls EXCEPT ![c] = o] /\ o.kind # "none" /\ o.at # "select"
               /\ lock' = lock \/ lock' = Released(calls')
  <2>1. CASE calls' = [calls EXCEPT ![c].at = IF calls[c].ask = "status" THEN "wait" ELSE "probe"] /\ lock' = lock
    <3> DEFINE at == IF calls[c].ask = "status" THEN "wait" ELSE "probe"
    <3>1. calls' = [calls EXCEPT ![c] = [calls[c] EXCEPT !.at = at]] /\ at # "select"
      BY <2>1
    <3> DEFINE o == [calls[c] EXCEPT !.at = at]
    <3> HIDE DEF at
    <3>2. o.kind = calls[c].kind /\ o.at = at
      BY <1>2
    <3>3. calls' = [calls EXCEPT ![c] = o]
      BY <3>1
    <3> HIDE DEF o
    <3> QED
      BY <1>1, <2>1, <3>1, <3>2, <3>3
  <2>2. CASE Update([calls EXCEPT ![c] = Unreached(calls[c])])
    BY <1>4, <2>2 DEF Update
  <2>3. CASE Update([calls EXCEPT ![c] = Answered(calls[c], "error")])
    BY <1>4, <2>3 DEF Update
  <2>4. CASE Update([calls EXCEPT ![c].at = "dial", ![c].again = TRUE])
    <3> DEFINE cs == [calls EXCEPT ![c].at = "dial", ![c].again = TRUE]
    <3>1. cs = [calls EXCEPT ![c] = [calls[c] EXCEPT !.at = "dial", !.again = TRUE]]
      BY Facts DEF Records, CallRecords
    <3>2. calls' = cs /\ lock' = Released(calls')
      BY <2>4 DEF Update
    <3> HIDE DEF cs
    <3> QED
      BY <1>1, <1>3, <3>1, <3>2
  <2> QED
    BY <2>1, <2>2, <2>3, <2>4 DEF Dial, StartDaemon
<1>6. \A d \in Users : GoesOn(d)
  BY <1>1, <1>5, OneGoesOn
<1> QED
  BY <1>1, <1>5, <1>6, TurnQuiet
\* The holder of the lock sends its command: nobody there came before it.
LEMMA SendTurn == ASSUME IInv, TurnInv, Record, NEW c \in Callers, Send(c) PROVE TurnInv'
<1>1. /\ calls[c] \in CallRecords /\ calls[c].at = "send" /\ calls[c].kind # "none" /\ calls[c].ask # "status"
      /\ AtHead(c)
  BY Facts DEF Fresh, Send, OneHolder
<1>2. CASE Update([calls EXCEPT ![c] = Answered(calls[c], "error")]) /\ queue' = queue
  <2>1. Answered(calls[c], "error").kind # "none" /\ Answered(calls[c], "error").at # "select"
    BY <1>1, WhereNext
  <2>2. \A d \in Users : GoesOn(d)
    BY <1>2, <2>1, OneGoesOn DEF Update
  <2> QED
    BY <1>2, <2>2, TurnQuiet DEF Update
<1>3. CASE /\ calls' = [calls EXCEPT ![c].at = "wait"] /\ lock' = lock
           /\ queue' = Append(queue, [who |-> c, what |-> calls[c].ask, here |-> TRUE])
  <2> DEFINE o == [calls[c] EXCEPT !.at = "wait"]
             r == [who |-> c, what |-> calls[c].ask, here |-> TRUE]
  <2>1. calls' = [calls EXCEPT ![c] = o] /\ o.kind = calls[c].kind /\ o.at = "wait"
    BY <1>1, <1>3 DEF CallRecords
  <2>2. r.who = c /\ queue' = Append(queue, r)
    BY <1>3
  <2> HIDE DEF o, r
  <2>3. /\ Len(queue) \in Nat /\ DOMAIN queue = 1..Len(queue)
        /\ DOMAIN queue' = 1..(Len(queue) + 1)
        /\ \A k \in DOMAIN queue : queue'[k] = queue[k]
        /\ queue'[Len(queue) + 1] = r
    BY <2>2, Facts, OneMore, QueueIsSeq
  <2>4. calls'[c] = o
    BY <2>1, Facts DEF Records
  <2>5. /\ LockInTurn'
        /\ \A b, d : <<b, d>> \in before' => <<b, d>> \in before
        /\ \A b, d : <<b, d>> \in before' => b \in Outstanding' /\ d \in Outstanding' /\ b # d
    BY <1>3, RestInTurn
  <2>6. /\ DOMAIN lock = 1..Len(lock) /\ Len(lock) \in Nat /\ 1 \in DOMAIN lock /\ c = lock[1] /\ c \in Users
    BY <1>1, LockIsSeq, Facts DEF AtHead
  <2>7. ASSUME NEW k \in DOMAIN lock PROVE <<lock[k], c>> \notin before
    <3>1. CASE k = 1
      BY <2>6, <3>1 DEF TurnInv
    <3>2. CASE k # 1
      <4>1. 1 < k
        BY <2>6, <3>2
      <4> QED
        BY <2>6, <4>1 DEF TurnInv, LockInTurn
    <3> QED
      BY <3>1, <3>2
  <2>8. ASSUME NEW k \in Commands' PROVE CommandInTurn(queue[k])'
    <3>1. k \in DOMAIN queue' /\ queue'[k].what # "status"
      BY <2>8 DEF Commands
    <3>2. k \notin DOMAIN queue
      BY <1>1, <2>3, <3>1, Facts DEF OneCommand
    <3>3. queue'[k].who = c
      BY <2>2, <2>3, <3>1, <3>2
    <3>4. calls'[c].kind # "none" /\ calls'[c].at # "select"
      BY <1>1, <2>1, <2>4
    <3> QED
      BY <1>3, <2>5, <2>6, <2>7, <3>3, <3>4 DEF CommandInTurn
  <2> QED
    BY <2>5, <2>8 DEF TurnInv
<1> QED
  BY <1>2, <1>3 DEF Send

\* A client gives up: its command stays.
LEMMA GiveUpTurn == ASSUME IInv, TurnInv, Record, NEW c \in Callers, GiveUp(c) PROVE TurnInv'
<1>1. /\ calls[c] \in CallRecords /\ calls[c].at \in {"probe", "wait"} /\ calls[c].kind # "none"
      /\ queue' = [k \in DOMAIN queue |-> [queue[k] EXCEPT !.here = @ /\ queue[k].who # c]]
      /\ \/ Update([calls EXCEPT ![c] = Unreached(calls[c])]) /\ (calls[c].at = "wait" => calls[c].ask = "status")
         \/ Update([calls EXCEPT ![c] = Answered(calls[c], "error")]) /\ calls[c].at = "wait"
  BY Facts DEF Fresh, GiveUp
<1>2. PICK o : calls' = [calls EXCEPT ![c] = o] /\ o.kind # "none" /\ o.at # "select"
  BY <1>1, WhereNext DEF Update
<1>3. lock' = lock \/ (lock # <<>> /\ lock' = Tail(lock))
  BY <1>1 DEF Update, Released
<1>4. \A k \in Commands' : k \in Commands /\ queue[k].who = queue'[k].who
  <2>1. \A k \in DOMAIN queue : queue[k] \in RequestRecords
    BY Facts, QueueIsSeq
  <2>2. \A k \in DOMAIN queue : queue'[k].who = queue[k].who /\ queue'[k].what = queue[k].what
    BY <1>1, <2>1 DEF RequestRecords
  <2> QED
    BY <1>1, <2>2 DEF Commands
<1>5. \A d \in Users : GoesOn(d)
  BY <1>2, OneGoesOn
<1> QED
  BY <1>3, <1>4, <1>5, TurnStands

\* A request has been worked off: what is behind it stays in turn.
LEMMA ServeTurn == ASSUME IInv, TurnInv, Record, Serve PROVE TurnInv'
<1> DEFINE r == queue[1]
           c == queue[1].who
<1>1. /\ queue # <<>> /\ 1 \in DOMAIN queue /\ Head(queue) = r /\ c \in Callers /\ r.what \in Asks
      /\ queue' = Tail(queue)
      /\ queue \in Seq(RequestRecords) /\ Len(queue) \in Nat /\ DOMAIN queue = 1..Len(queue)
  BY Facts, QueueIsSeq DEF Serve
<1>2. /\ DOMAIN queue' = 1..(Len(queue) - 1)
      /\ \A k \in DOMAIN queue' : k + 1 \in DOMAIN queue /\ queue'[k] = queue[k + 1]
  BY <1>1
<1>3. \A k \in Commands' : k + 1 \in Commands /\ queue[k + 1].who = queue'[k].who
  BY <1>2 DEF Commands
<1>4. PICK out \in Outcomes(r.what) :
         \/ ~r.here /\ UNCHANGED <<calls, lock>>
         \/ r.here /\ calls[c].at = "wait" /\ Update([calls EXCEPT ![c] = Answered(calls[c], out[1])])
         \/ r.here /\ Update([calls EXCEPT ![c] = Unreached(calls[c])]) /\ (calls[c].at = "probe" \/ calls[c].ask = "status")
         \/ r.here /\ calls[c].at = "probe" /\ calls' = [calls EXCEPT ![c].at = "send"] /\ lock' = lock
  BY <1>1 DEF Serve
<1>5. /\ calls[c] \in CallRecords
      /\ r.here => calls[c].at \in {"probe", "wait"} /\ calls[c].kind # "none"
  BY <1>1, Facts DEF OneRequest, Fresh
<1>6. lock' = lock \/ (lock # <<>> /\ lock' = Tail(lock))
  BY <1>4 DEF Update, Released
<1>7. \/ calls' = calls
      \/ \E o : calls' = [calls EXCEPT ![c] = o] /\ o.kind # "none" /\ o.at # "select"
  <2>1. CASE ~r.here /\ UNCHANGED <<calls, lock>>
    BY <2>1
  <2>2. CASE r.here /\ calls[c].at = "wait" /\ Update([calls EXCEPT ![c] = Answered(calls[c], out[1])])
    BY <1>5, <2>2, WhereNext DEF Update
  <2>3. CASE r.here /\ Update([calls EXCEPT ![c] = Unreached(calls[c])]) /\ (calls[c].at = "probe" \/ calls[c].ask = "status")
    BY <1>5, <2>3, WhereNext DEF Update
  <2>4. CASE r.here /\ calls[c].at = "probe" /\ calls' = [calls EXCEPT ![c].at = "send"] /\ lock' = lock
    <3>1. /\ calls' = [calls EXCEPT ![c] = [calls[c] EXCEPT !.at = "send"]]
          /\ [calls[c] EXCEPT !.at = "send"].kind = calls[c].kind /\ [calls[c] EXCEPT !.at = "send"].at = "send"
      BY <1>5, <2>4 DEF CallRecords
    <3> QED
      BY <1>5, <2>4, <3>1
  <2> QED
    BY <1>4, <2>1, <2>2, <2>3, <2>4
<1>8. \A d \in Users : GoesOn(d)
  <2>1. CASE calls' = calls
    BY <2>1 DEF GoesOn
  <2>2. CASE \E o : calls' = [calls EXCEPT ![c] = o] /\ o.kind # "none" /\ o.at # "select"
    BY <1>1, <2>2, OneGoesOn
  <2> QED
    BY <1>7, <2>1, <2>2
<1> QED
  BY <1>3, <1>6, <1>8, TurnStands

\* With the daemon goes its queue, and with the tunnel nothing of it.
LEMMA DeathTurn == ASSUME IInv, TurnInv, Record, DaemonDies \/ TunnelDies PROVE TurnInv'
<1>1. CASE DaemonDies
  <2>1. lock' = lock \/ (lock # <<>> /\ lock' = Tail(lock))
    BY <1>1, DaemonDiesCalls DEF Released
  <2>2. Commands' = {}
    BY <1>1 DEF DaemonDies, Commands
  <2> QED
    BY <2>1, <2>2, RestInTurn DEF TurnInv
<1>2. CASE TunnelDies
  <2>1. calls' = calls /\ lock' = lock /\ queue' = queue
    BY <1>2 DEF TunnelDies
  <2>2. \A d \in Users : GoesOn(d)
    BY <2>1 DEF GoesOn
  <2> QED
    BY <2>1, <2>2, TurnQuiet
<1> QED
  BY <1>1, <1>2

LEMMA NextTurn ==
    ASSUME IInv, TurnInv, [Next /\ Record]_<<vars, before>>
    PROVE  IInv' /\ TurnInv'
<1>1. CASE Next /\ Record
  <2>1. IInv'
    BY <1>1, NextIInv
  <2>2. ASSUME NEW c \in Callers, Work(c) \/ GiveUp(c) PROVE TurnInv'
    BY <1>1, <2>2, HandleTurn, DialTurn, SendTurn, GiveUpTurn DEF Work
  <2>3. CASE \/ \E c \in Users : Press(c) \/ TimerFires(c)
             \/ \E c \in Polls : Tick(c) \/ ToFront(c)
             \/ Edit \/ GraceEnds \/ Reload
    BY <1>1, <2>1, <2>3, WindowTurn
  <2>4. CASE Serve \/ TunnelDies \/ DaemonDies
    BY <1>1, <2>1, <2>4, ServeTurn, DeathTurn
  <2> QED
    BY <1>1, <2>1, <2>2, <2>3, <2>4 DEF Next, Callers
<1>2. CASE UNCHANGED <<vars, before>>
  <2>1. IInv'
    BY <1>2, NextIInv
  <2>2. UNCHANGED <<calls, lock, queue, before>>
    BY <1>2 DEF vars, daemon
  <2>3. Commands' = Commands
    BY <2>2 DEF Commands
  <2>4. Outstanding' = Outstanding /\ (LockInTurn <=> LockInTurn')
    BY <2>2, <2>3 DEF Outstanding, AtLock, LockInTurn
  <2>5. \A k \in Commands : CommandInTurn(queue[k]) => CommandInTurn(queue[k])'
    BY <2>2 DEF CommandInTurn
  <2> QED
    BY <2>1, <2>2, <2>3, <2>4, <2>5 DEF TurnInv
<1> QED
  BY <1>1, <1>2

\* vpn.rs:59 and controller.rs:91: a command the daemon is about to carry out is of a call that
\* came to the backend before all others that may still have one carried out, however many are
\* given up, however many polls run beside them and however often the daemon dies.
THEOREM CommandsAreInOrder == OrderSpec => []CommandsInOrder
<1>1. Init /\ before = {} => IInv /\ TurnInv
  <2> SUFFICES ASSUME Init, before = {} PROVE IInv /\ TurnInv
    OBVIOUS
  <2>1. IInv
    BY InitIInv
  <2>2. DOMAIN lock = {} /\ Commands = {}
    BY DEF Init, Commands
  <2> QED
    BY <2>1, <2>2 DEF TurnInv, LockInTurn
<1>2. IInv /\ TurnInv /\ [Next /\ Record]_<<vars, before>> => (IInv /\ TurnInv)'
  BY NextTurn
<1>3. IInv /\ TurnInv => CommandsInOrder
  <2> SUFFICES ASSUME IInv, TurnInv, 1 \in Commands, NEW c \in Outstanding
               PROVE  <<c, Head(queue).who>> \notin before
    BY DEF CommandsInOrder
  <2>1. Head(queue) = queue[1] /\ CommandInTurn(queue[1])
    BY Facts, QueueIsSeq DEF TurnInv, Commands
  <2>2. CASE AtLock(c)
    BY <2>1, <2>2 DEF AtLock, CommandInTurn
  <2>3. CASE \E k \in Commands : queue[k].who = c
    <3>1. queue[1].who = c
      BY <2>3, Facts DEF OneCommand, Commands
    <3> QED
      BY <2>1, <3>1 DEF TurnInv
  <2> QED
    BY <2>2, <2>3 DEF Outstanding
<1> QED
  BY <1>1, <1>2, <1>3, PTL DEF OrderSpec, OrderInit
=============================================================================
