------------------------- MODULE HostNetwork_proofs -------------------------
(***************************************************************************)
(* Proofs about HostNetwork, for any servers, requests and faults and any   *)
(* number of crashes. The inductive invariant, IInv, relates the `ip` and   *)
(* `nft` commands that are still to run, and the calls after them, to what  *)
(* is laid; from what the host may lack at each moment it follows that no   *)
(* dial of Xray's enters the tunnel, bypassed traffic stays beside it, a    *)
(* connected host carries everything, the kill switch covers every          *)
(* handover, and Disconnected means an untouched host. The lemmas say       *)
(* first which commands every call runs, in which order, and which calls    *)
(* every request makes.                                                     *)
(***************************************************************************)
EXTENDS HostNetworkProps, SequenceTheorems, FiniteSetTheorems, TLAPS

-----------------------------------------------------------------------------
(* The commands and calls that are still to come.                           *)

L == host.laid
Ahead == Range(cmds)
Todo == Range(calls)
DoesIn(s, d) == \E c \in Range(s) : c.do = d
LaysIn(s, i) == \E c \in Range(s) : c.do = "lay" /\ c.what = i
DropsIn(s, i) == \E c \in Range(s) : c.do = "drop" /\ c.what = i
Does(d) == DoesIn(cmds, d)
Laying(i) == LaysIn(cmds, i)
Dropping(i) == DropsIn(cmds, i)

SplitNames == {"split-down", "split-up", "split-refresh"}
StopNames == {"split-down", "dns-down", "route-down", "terminate", "killswitch-down"}
Early == {"killswitch-up", "dns-down", "route-down", "terminate", "start"}
CallNames == Early \cup SplitNames \cup {"route-up", "dns-up", "killswitch-down"}

Deeds == {"lay", "drop", "block", "tuntap", "link_up", "probe", "verify", "loosen", "restore", "record4", "record6",
          "unpin4", "unpin6", "drop_bypass_rules", "routed", "unrouted", "flush100", "flush102", "delete_tun",
          "start", "kill"}

\* What a table routes is removed with the table; the gateway of IPv6 is laid if there is one.
CommandSet ==
    {c \in [do : Deeds, what : Items \cup {""}, must : BOOLEAN] :
        /\ c.do = "lay" => c.must /\ c.what \in Items /\ (c.what = "phys6.default" => HostHasV6)
        /\ c.do = "drop" => c.what \in Fixed \ (Table100 \cup Table102)
        /\ c.do = "block" => c.what \in {"", "ks.lan"}
        /\ c.do \notin {"lay", "drop", "block"} => c.what = ""}

\* The part of the host a call works on.
RouteUpPart(c) ==
    \/ c.do \in {"tuntap", "link_up", "loosen", "record4", "record6"}
    \/ c.do = "lay" /\ c.what \in ThroughTun \cup Blackholes \cup Rules4 \cup Rules6 \cup Table100 \cup Pins4
                                    \cup Pins6 \cup {"dns.rule"}
    \/ c.do = "drop" /\ c.what \in Rules4 \cup Rules6 \cup {"dns.rule"}
RouteDownPart(c) ==
    \/ c.do \in {"unpin6", "drop_bypass_rules", "flush100", "unpin4", "restore"}
    \/ c.do = "drop" /\ c.what \in {"low", "high", "dns.rule", "dns.route", "rule4.dial", "rule6.dial", "rule6.bypass"}
                                     \cup Blackholes
SplitPart(c) ==
    \/ c.do \in {"flush102", "routed", "unrouted"}
    \/ c.do = "lay" /\ c.what \in Table102 \cup {"split.rule", "split.bpf", "nft.split"}
    \/ c.do = "drop" /\ c.what \in {"split.rule", "split.bpf", "nft.split"}
Part(name, c) ==
    CASE name = "killswitch-up" -> c.do \in {"block", "verify"}
      [] name = "killswitch-down" -> c.do = "drop" /\ c.what = "nft.ks"
      [] name = "start" -> c.do = "start"
      [] name = "terminate" -> c.do = "kill"
      [] name = "route-up" -> RouteUpPart(c)
      [] name = "route-down" -> RouteDownPart(c)
      [] name \in {"split-up", "split-refresh"} -> SplitPart(c)
      [] name = "split-down" -> SplitPart(c) /\ c.do # "lay"
      [] name = "dns-up" -> c.do = "probe" \/ (c.do = "lay" /\ c.what = "nft.dns")
      [] name = "dns-down" -> c.do = "drop" /\ c.what = "nft.dns"
RecoveryPart(c) ==
    c.do \in {"drop", "unpin6", "drop_bypass_rules", "flush100", "flush102", "unpin4", "restore", "delete_tun", "kill"}

-----------------------------------------------------------------------------
(* Order.                                                                   *)

DropsRule(c, r) ==
    (c.do = "drop" /\ c.what = r) \/ (c.do = "drop_bypass_rules" /\ r \in {"rule4.bypass", "split.rule"})

\* What the default routes through the tunnel rest on.
Footing == Pins4 \cup {"rule4.bypass", "phys.default"}

\* A rule and the route of its table that sends local networks back.
Thrown == {<<"rule4.dial", "phys.throw">>, <<"rule4.bypass", "phys.throw">>, <<"rule6.dial", "phys6.throw">>,
           <<"rule6.bypass", "phys6.throw">>, <<"split.rule", "split.throw">>}

\* Wherever a call runs both c and d, c is run first.
Precedes(c, d) ==
    \/ d.do = "lay" /\ d.what \in {"low", "high"} /\ c.do = "lay" /\ c.what \in Footing
    \/ d.do = "lay" /\ d.what \in {"low", "high"} /\ c.do = "drop" /\ c.what = "rule4.bypass"
    \/ d.do = "lay" /\ c.do = "drop" /\ c.what = d.what
    \/ d.do = "lay" /\ c.do = "lay" /\ <<d.what, c.what>> \in Thrown
    \/ d.do \in {"drop_bypass_rules", "flush100", "unpin4"} /\ c.do = "drop" /\ c.what \in {"low", "high"}
    \/ d.do = "lay" /\ d.what \in Table102 \cup {"split.rule"} /\ c.do = "flush102"
    \/ d.do = "verify" /\ c.do = "block"
    \/ d.do \in {"block", "loosen"} /\ c.do = d.do
    \/ d.do = "drop" /\ d.what = "nft.ks" /\ c.do = "drop" /\ c.what = "nft.ks"
Ordered(s) == \A i, j \in DOMAIN s : i < j => ~Precedes(s[j], s[i])

\* Between an item of l and the flush of its table a command drops the rule to the table.
FlushedAfter(s, k, d, rules, l) ==
    s[k].do = d => \A r \in rules : r \notin l \/ \E j \in 1..(k - 1) : DropsRule(s[j], r)
FlushLate(l, s) ==
    \A k \in DOMAIN s : FlushedAfter(s, k, "flush100", Rules4 \cup Rules6, l)
                        /\ FlushedAfter(s, k, "flush102", {"split.rule"}, l)

\* The order of the calls of a connect.
CallStage(n) ==
    CASE n = "killswitch-up" -> 1 [] n = "dns-down" -> 2 [] n = "route-down" -> 3 [] n = "terminate" -> 4
      [] n = "start" -> 5 [] n = "route-up" -> 6 [] n = "split-down" -> 7 [] n = "split-up" -> 8
      [] n = "split-refresh" -> 9 [] n = "dns-up" -> 10 [] n = "killswitch-down" -> 11
Staged(s) == \A i, j \in DOMAIN s : i < j => CallStage(s[i]) < CallStage(s[j])

-----------------------------------------------------------------------------
(* The inductive invariant.                                                 *)

Typed == TypeOK /\ cmds \in Seq(CommandSet) /\ calls \in Seq(CallNames)

\* The commands of a connect are those of one call, and what follows it is still to come.
WorkShape(name) ==
    /\ \A c \in Ahead : Part(name, c)
    /\ \A n \in Todo : CallStage(name) < CallStage(n)
    /\ name \in Early => "route-up" \in Todo
    /\ name \in Early \cup {"route-up"} => "dns-up" \in Todo
WorkingShape ==
    phase = "working" =>
        /\ Staged(calls)
        /\ Todo \cap Early # {} => "route-up" \in Todo
        /\ "route-up" \in Todo => "dns-up" \in Todo
        /\ cmds = <<>> \/ \E name \in CallNames : WorkShape(name)
EditingShape ==
    phase = "editing" =>
        Todo \subseteq {"split-up", "split-down"} /\ (\A c \in Ahead : SplitPart(c)) /\ asked.ks = req.ks
StoppingShape ==
    phase = "stopping" =>
        /\ Todo \subseteq StopNames /\ after \in {"down", "blocked", "refused", "up"}
        /\ \E name \in StopNames : \A c \in Ahead : Part(name, c)
        /\ after = "up" => calls = <<>> /\ \A c \in Ahead : Part("killswitch-down", c)
RestShape ==
    /\ phase \notin {"working", "editing", "stopping", "recovering"} => Idle
    /\ phase = "recovering" => calls = <<>> /\ \A c \in Ahead : RecoveryPart(c)
    /\ phase = "stuck" => host.left
Shape == WorkingShape /\ EditingShape /\ StoppingShape /\ RestShape /\ (phase # "recovering" => Ordered(cmds))

\* The connect has not laid and verified its block.
NotBlocked == "killswitch-up" \in Todo \/ Does("block")
Blocking == phase = "working" /\ (NotBlocked \/ Does("verify"))

\* No recovery has left anything behind to the daemon that is there.
Settled == Attended /\ ~host.left

\* Nothing routes through the tunnel before its footing is laid, nor when it is removed.
RouteInv ==
    /\ Settled => ("high" \in L => Pins4 \subseteq L) /\ ("low" \in L => {"rule4.bypass", "phys.default"} \subseteq L)
    /\ Settled /\ (Laying("low") \/ Laying("high")) => \A i \in Footing : i \in L \/ Laying(i)
    /\ Settled /\ Dropping("rule4.bypass") => Laying("rule4.bypass") /\ "low" \notin L
    /\ Settled /\ (Does("drop_bypass_rules") \/ Does("flush100")) => "low" \notin L \/ Dropping("low")
    /\ Settled /\ Does("unpin4") => "high" \notin L \/ Dropping("high")
    /\ Settled /\ phase = "working" /\ "route-up" \in Todo =>
          "low" \notin L \/ Dropping("low") \/ "route-down" \in Todo

\* A data plane that carries everything, and the way a connect comes to one.
Always == {"dns.rule", "black.low", "rule4.bypass", "phys.default"}
WithTun == {"low", "dns.route"}
Plane == Always \cup {"nft.dns"} \subseteq L /\ (host.xray => WithTun \subseteq L)
Live == phase \in {"up", "editing"} \/ (phase = "stopping" /\ after = "up")
PlaneInv ==
    /\ Live \/ (Blocking /\ was) => Plane
    /\ Blocking => (was <=> after = "up") /\ after \in {"down", "refused", "up"}
    /\ phase = "working" /\ "route-up" \notin Todo =>
          \A i \in Always \cup (IF host.xray THEN WithTun ELSE {}) : i \in L \/ Laying(i)
    /\ phase = "working" /\ "dns-up" \notin Todo => "nft.dns" \in L \/ Laying("nft.dns")
    /\ phase = "working" => \A i \in {"dns.rule", "rule4.bypass"} : Dropping(i) => Laying(i) \/ "route-up" \in Todo

\* The block is there whenever the request or the handover needs it.
BlockInv ==
    /\ phase = "blocked" \/ (phase = "stopping" /\ after = "blocked") =>
          "nft.ks" \in L /\ "killswitch-down" \notin Todo /\ ~Dropping("nft.ks")
    /\ Live \/ (Blocking /\ was) => (req.ks => "nft.ks" \in L)
    /\ phase = "stopping" /\ after = "up" => cmds = <<>>
    /\ phase = "working" /\ ~NotBlocked => "nft.ks" \in L \/ (Idle /\ ~asked.ks)
    /\ phase = "working" /\ asked.ks => "killswitch-down" \notin Todo /\ ~Dropping("nft.ks")

\* The block goes when nothing asks for it.
Unblocking == "nft.ks" \notin L \/ Dropping("nft.ks") \/ "killswitch-down" \in Todo
UnblockInv ==
    /\ phase = "down" \/ (phase \in {"up", "editing"} /\ ~req.ks) => "nft.ks" \notin L
    /\ phase = "stopping" /\ (after = "down" \/ (after = "up" /\ ~req.ks)) => Unblocking
    /\ phase = "working" /\ NotBlocked /\ (after = "down" \/ (was /\ ~req.ks)) => "nft.ks" \notin L
    /\ phase = "working" /\ ~asked.ks => Unblocking /\ (NotBlocked => "killswitch-down" \in Todo)

\* A stop removes what carries or holds the traffic.
Devices == {"low", "high"} \cup Blackholes
Bare == (Devices \cup {"nft.dns"}) \cap L = {}
BareInv ==
    ~host.left =>
        /\ phase \in {"down", "refused", "blocked"} => Bare
        /\ Blocking /\ ~was => Bare
        /\ phase = "stopping" /\ after # "up" =>
              /\ \A i \in Devices : i \notin L \/ Dropping(i) \/ "route-down" \in Todo
              /\ "nft.dns" \notin L \/ Dropping("nft.dns") \/ "dns-down" \in Todo

\* While no daemon was killed, the value of rp_filter is the host's or is kept.
RpClean == host.rp = "orig" /\ host.rpFile = "none"
Restoring == RpClean \/ Does("restore") \/ "route-down" \in Todo
RpInv ==
    crashes = 0 =>
        /\ Settled
        /\ RpClean \/ (host.rp = "loose" /\ host.rpFile = "orig")
        /\ phase \in {"down", "refused", "blocked"} \/ (Blocking /\ ~was) \/ Does("loosen") => RpClean
        /\ (phase = "stopping" /\ after # "up") \/ (phase = "working" /\ "route-up" \in Todo) => Restoring

\* While no removal was refused, a rule is there only with the throw of its table.
LanInv ==
    refusals = 0 =>
        /\ \A t \in Thrown : t[1] \in L => t[2] \in L
        /\ \A t \in Thrown : Laying(t[1]) => t[2] \in L \/ Laying(t[2])
        /\ Laying("split.rule") /\ Does("flush102") => Laying("split.throw")
        /\ FlushLate(L, cmds)

V6Inv == ~HostHasV6 => "phys6.default" \notin L

IInv == /\ Typed /\ Shape /\ RouteInv /\ PlaneInv /\ UnblockInv /\ BareInv /\ RpInv /\ LanInv /\ V6Inv
        /\ "verify" \notin Faults => BlockInv

-----------------------------------------------------------------------------
(* Sequences.                                                               *)

\* The first element of a sequence and the others.
LEMMA HeadAndTail ==
    ASSUME NEW S, NEW s \in Seq(S), s # <<>>
    PROVE  /\ Head(s) \in S /\ Tail(s) \in Seq(S) /\ Head(s) \in Range(s)
           /\ Range(Tail(s)) \subseteq Range(s)
           /\ \A x \in Range(s) : x = Head(s) \/ x \in Range(Tail(s))
<1>1. /\ Head(s) \in S /\ Tail(s) \in Seq(S) /\ Len(Tail(s)) = Len(s) - 1 /\ Len(s) \in Nat \ {0}
      /\ \A k \in 1..Len(Tail(s)) : Tail(s)[k] = s[k + 1]
      /\ DOMAIN s = 1..Len(s) /\ DOMAIN Tail(s) = 1..Len(Tail(s))
  BY HeadTailProperties, LenProperties, EmptySeq
<1>2. Head(s) = s[1]
  OBVIOUS
<1>3. Range(Tail(s)) \subseteq Range(s)
  BY <1>1 DEF Range
<1>4. ASSUME NEW x \in Range(s) PROVE x = Head(s) \/ x \in Range(Tail(s))
  <2>1. PICK k \in 1..Len(s) : x = s[k]
    BY <1>1 DEF Range
  <2>2. CASE k = 1
    BY <1>2, <2>1, <2>2
  <2>3. CASE k # 1
    <3>1. k - 1 \in 1..Len(Tail(s)) /\ (k - 1) + 1 = k
      BY <1>1, <2>3
    <3>2. Tail(s)[k - 1] = s[k]
      BY <1>1, <3>1
    <3> QED
      BY <1>1, <2>1, <3>1, <3>2 DEF Range
  <2> QED
    BY <2>2, <2>3
<1> QED
  BY <1>1, <1>2, <1>3, <1>4 DEF Range

\* Nothing is ahead of the empty sequence, and only of it.
LEMMA EmptyRange == ASSUME NEW S, NEW s \in Seq(S) PROVE s = <<>> <=> Range(s) = {}
<1>1. DOMAIN s = 1..Len(s) /\ (s # <<>> => Len(s) \in Nat \ {0}) /\ Len(<<>>) = 0
  BY LenProperties, EmptySeq
<1>2. CASE s = <<>>
  <2>1. DOMAIN s = {}
    BY <1>1, <1>2
  <2> QED
    BY <1>2, <2>1 DEF Range
<1>3. CASE s # <<>>
  <2>1. 1 \in DOMAIN s
    BY <1>1, <1>3
  <2>2. s[1] \in Range(s)
    BY <2>1 DEF Range
  <2> QED
    BY <1>3, <2>2
<1> QED
  BY <1>2, <1>3

\* Where the elements of a concatenation come from.
LEMMA ConcatElements ==
    ASSUME NEW S, NEW s \in Seq(S), NEW t \in Seq(S)
    PROVE  /\ s \o t \in Seq(S) /\ DOMAIN s = 1..Len(s) /\ DOMAIN t = 1..Len(t)
           /\ DOMAIN (s \o t) = 1..(Len(s) + Len(t)) /\ Len(s) \in Nat /\ Len(t) \in Nat
           /\ Range(s \o t) = Range(s) \cup Range(t)
           /\ \A k \in 1..(Len(s) + Len(t)) :
                 (s \o t)[k] = IF k <= Len(s) THEN s[k] ELSE t[k - Len(s)]
BY LenProperties, ConcatProperties, RangeConcatenation

\* A concatenation is ordered if its parts are and nothing of the second precedes the first.
LEMMA OrderedConcat ==
    ASSUME NEW s \in Seq(CommandSet), NEW t \in Seq(CommandSet), Ordered(s), Ordered(t),
           \A x \in Range(s), y \in Range(t) : ~Precedes(y, x)
    PROVE  Ordered(s \o t)
<1> SUFFICES ASSUME NEW i \in DOMAIN (s \o t), NEW j \in DOMAIN (s \o t), i < j
             PROVE  ~Precedes((s \o t)[j], (s \o t)[i])
  BY DEF Ordered
<1>1. i \in 1..(Len(s) + Len(t)) /\ j \in 1..(Len(s) + Len(t)) /\ Len(s) \in Nat /\ Len(t) \in Nat
      /\ DOMAIN s = 1..Len(s) /\ DOMAIN t = 1..Len(t)
      /\ (s \o t)[i] = (IF i <= Len(s) THEN s[i] ELSE t[i - Len(s)])
      /\ (s \o t)[j] = (IF j <= Len(s) THEN s[j] ELSE t[j - Len(s)])
  BY ConcatElements
<1>2. CASE j <= Len(s)
  BY <1>1, <1>2 DEF Ordered
<1>3. CASE i > Len(s)
  <2>1. i - Len(s) \in DOMAIN t /\ j - Len(s) \in DOMAIN t /\ i - Len(s) < j - Len(s)
    BY <1>1, <1>3
  <2> QED
    BY <1>1, <1>3, <2>1 DEF Ordered
<1>4. CASE i <= Len(s) /\ j > Len(s)
  <2>1. i \in DOMAIN s /\ j - Len(s) \in DOMAIN t
    BY <1>1, <1>4
  <2> QED
    BY <1>1, <1>4, <2>1 DEF Range
<1> QED
  BY <1>1, <1>2, <1>3, <1>4

\* The same for the stages of calls.
LEMMA StagedConcat ==
    ASSUME NEW s \in Seq(CallNames), NEW t \in Seq(CallNames), Staged(s), Staged(t),
           \A x \in Range(s), y \in Range(t) : CallStage(x) < CallStage(y)
    PROVE  Staged(s \o t)
<1> SUFFICES ASSUME NEW i \in DOMAIN (s \o t), NEW j \in DOMAIN (s \o t), i < j
             PROVE  CallStage((s \o t)[i]) < CallStage((s \o t)[j])
  BY DEF Staged
<1>1. i \in 1..(Len(s) + Len(t)) /\ j \in 1..(Len(s) + Len(t)) /\ Len(s) \in Nat /\ Len(t) \in Nat
      /\ DOMAIN s = 1..Len(s) /\ DOMAIN t = 1..Len(t)
      /\ (s \o t)[i] = (IF i <= Len(s) THEN s[i] ELSE t[i - Len(s)])
      /\ (s \o t)[j] = (IF j <= Len(s) THEN s[j] ELSE t[j - Len(s)])
  BY ConcatElements
<1>2. CASE j <= Len(s)
  BY <1>1, <1>2 DEF Staged
<1>3. CASE i > Len(s)
  <2>1. i - Len(s) \in DOMAIN t /\ j - Len(s) \in DOMAIN t /\ i - Len(s) < j - Len(s)
    BY <1>1, <1>3
  <2> QED
    BY <1>1, <1>3, <2>1 DEF Staged
<1>4. CASE i <= Len(s) /\ j > Len(s)
  <2>1. i \in DOMAIN s /\ j - Len(s) \in DOMAIN t
    BY <1>1, <1>4
  <2> QED
    BY <1>1, <1>4, <2>1 DEF Range
<1> QED
  BY <1>1, <1>2, <1>3, <1>4

\* A flush that comes late in the parts comes late in their concatenation.
LEMMA FlushLateConcat ==
    ASSUME NEW l, NEW s \in Seq(CommandSet), NEW t \in Seq(CommandSet), FlushLate(l, s), FlushLate(l, t)
    PROVE  FlushLate(l, s \o t)
<1>1. ASSUME NEW k \in DOMAIN (s \o t), NEW d, NEW rules,
             \A m \in DOMAIN s : FlushedAfter(s, m, d, rules, l),
             \A m \in DOMAIN t : FlushedAfter(t, m, d, rules, l)
      PROVE  FlushedAfter(s \o t, k, d, rules, l)
  <2>1. k \in 1..(Len(s) + Len(t)) /\ Len(s) \in Nat /\ Len(t) \in Nat
        /\ DOMAIN s = 1..Len(s) /\ DOMAIN t = 1..Len(t)
        /\ \A m \in 1..(Len(s) + Len(t)) : (s \o t)[m] = IF m <= Len(s) THEN s[m] ELSE t[m - Len(s)]
    BY ConcatElements
  <2> SUFFICES ASSUME (s \o t)[k].do = d, NEW r \in rules, r \in l
               PROVE  \E j \in 1..(k - 1) : DropsRule((s \o t)[j], r)
    BY DEF FlushedAfter
  <2>2. CASE k <= Len(s)
    <3>1. PICK j \in 1..(k - 1) : DropsRule(s[j], r)
      BY <1>1, <2>1, <2>2 DEF FlushedAfter
    <3> QED
      BY <2>1, <2>2, <3>1
  <2>3. CASE k > Len(s)
    <3>1. k - Len(s) \in DOMAIN t /\ t[k - Len(s)].do = d
      BY <2>1, <2>3
    <3>2. PICK j \in 1..(k - Len(s) - 1) : DropsRule(t[j], r)
      BY <1>1, <3>1 DEF FlushedAfter
    <3>3. j + Len(s) \in 1..(k - 1) /\ j + Len(s) > Len(s) /\ (j + Len(s)) - Len(s) = j
      BY <2>1, <2>3
    <3>4. (s \o t)[j + Len(s)] = t[j]
      BY <2>1, <3>3
    <3> QED
      BY <3>2, <3>3, <3>4
  <2> QED
    BY <2>1, <2>2, <2>3
<1> QED
  BY <1>1 DEF FlushLate

-----------------------------------------------------------------------------
(* The commands of the calls.                                               *)

\* What a command does, and to what.
LEMMA LayFields == \A i : Lay(i).do = "lay" /\ Lay(i).what = i
BY DEF Lay
LEMMA DropFields == \A i : Drop(i).do = "drop" /\ Drop(i).what = i
BY DEF Drop
LEMMA RunFields == \A n : Run(n).do = n /\ Run(n).what = ""
BY DEF Run
LEMMA MustFields == \A n : Must(n).do = n /\ Must(n).what = ""
BY DEF Must

LEMMA CommandTypes ==
    /\ \A i \in Items : (i = "phys6.default" => HostHasV6) => Lay(i) \in CommandSet
    /\ \A i \in Fixed \ (Table100 \cup Table102) : Drop(i) \in CommandSet
    /\ \A n \in Deeds \ {"lay", "drop", "block"} : Run(n) \in CommandSet /\ Must(n) \in CommandSet
<1>1. \A i \in Items : (i = "phys6.default" => HostHasV6) => Lay(i) \in CommandSet
  BY DEF Lay, CommandSet, Deeds
<1>2. \A i \in Fixed \ (Table100 \cup Table102) : Drop(i) \in CommandSet
  BY DEF Drop, CommandSet, Deeds, Items
<1>3. \A n \in Deeds \ {"lay", "drop", "block"} : Run(n) \in CommandSet /\ Must(n) \in CommandSet
  BY DEF Run, Must, CommandSet, Deeds
<1> QED
  BY <1>1, <1>2, <1>3

\* The names of the items that are not pins.
LEMMA FixedItems ==
    /\ Fixed = {"low", "high", "dns.route", "black.low", "black.high", "rule4.dial", "rule4.bypass",
                "rule6.dial", "rule6.bypass", "phys.default", "phys.throw", "phys6.default", "phys6.throw",
                "split.default", "split.throw", "nft.dns", "nft.ks", "nft.split", "dns.rule", "split.rule",
                "split.bpf", "ks.lan"}
    /\ Items = Fixed \cup Pins4 \cup Pins6
    /\ \A i \in Pins4 \cup Pins6 : i \notin Fixed
    /\ \A i \in Pins4 : i \notin Pins6
BY HostAssumption, PinsAssumption
   DEF Fixed, Items, ThroughTun, Blackholes, Rules4, Rules6, Table100, Table102, NftTables, Pins4, Pins6

\* Items by their names.
LEMMA CommandsOfItems ==
    /\ \A i \in Fixed \ {"phys6.default"} : Lay(i) \in CommandSet
    /\ HostHasV6 => Lay("phys6.default") \in CommandSet
    /\ \A i \in Pins4 \cup Pins6 : Lay(i) \in CommandSet
BY CommandTypes, FixedItems

\* Commands of which none precedes another are in order.
LEMMA OrderedIfUnrelated ==
    ASSUME NEW s \in Seq(CommandSet), \A x, y \in Range(s) : ~Precedes(x, y)
    PROVE  Ordered(s)
BY DEF Ordered, Range

\* Commands that may be concatenated.
Proper(s) == s \in Seq(CommandSet) /\ Ordered(s)

LEMMA ProperEmpty == Proper(<<>>) /\ Range(<<>>) = {}
<1>1. <<>> \in Seq(CommandSet) /\ Range(<<>>) = {}
  BY EmptySeq, EmptyRange
<1>2. \A x, y \in Range(<<>>) : ~Precedes(x, y)
  BY <1>1
<1> QED
  BY <1>1, <1>2, OrderedIfUnrelated DEF Proper

LEMMA ProperOne == ASSUME NEW c \in CommandSet PROVE Proper(<<c>>) /\ Range(<<c>>) = {c}
<1>1. <<c>> \in Seq(CommandSet) /\ Range(<<c>>) = {c}
  BY DEF Range
<1>2. Ordered(<<c>>)
  BY DEF Ordered
<1> QED
  BY <1>1, <1>2 DEF Proper

LEMMA ProperTwo ==
    ASSUME NEW c \in CommandSet, NEW d \in CommandSet, ~Precedes(d, c)
    PROVE  Proper(<<c, d>>) /\ Range(<<c, d>>) = {c, d}
<1>1. <<c, d>> \in Seq(CommandSet) /\ Range(<<c, d>>) = {c, d}
  BY DEF Range
<1>2. Ordered(<<c, d>>)
  BY DEF Ordered
<1> QED
  BY <1>1, <1>2 DEF Proper

LEMMA ProperThree ==
    ASSUME NEW c \in CommandSet, NEW d \in CommandSet, NEW e \in CommandSet,
           ~Precedes(d, c), ~Precedes(e, c), ~Precedes(e, d)
    PROVE  Proper(<<c, d, e>>) /\ Range(<<c, d, e>>) = {c, d, e}
<1>1. <<c, d, e>> \in Seq(CommandSet) /\ Range(<<c, d, e>>) = {c, d, e}
  BY DEF Range
<1>2. Ordered(<<c, d, e>>)
  BY DEF Ordered
<1> QED
  BY <1>1, <1>2 DEF Proper

LEMMA ProperConcat ==
    ASSUME NEW s, NEW t, Proper(s), Proper(t), \A x \in Range(s), y \in Range(t) : ~Precedes(y, x)
    PROVE  Proper(s \o t) /\ Range(s \o t) = Range(s) \cup Range(t)
BY ConcatElements, OrderedConcat DEF Proper

\* What the commands that remove the policy rules do.
RulesPart(c) ==
    \/ c.do = "drop_bypass_rules"
    \/ c.do = "drop" /\ c.what \in {"rule4.dial", "rule6.dial", "rule6.bypass"}
LEMMA RemovePolicyRulesCommands ==
    /\ Proper(RemovePolicyRules)
    /\ \A c \in Range(RemovePolicyRules) : RulesPart(c)
    /\ \A r \in Rules4 \cup Rules6 : \E c \in Range(RemovePolicyRules) : DropsRule(c, r)
<1>1. Drop("rule4.dial") \in CommandSet /\ Drop("rule6.dial") \in CommandSet
      /\ Run("drop_bypass_rules") \in CommandSet /\ Drop("rule6.bypass") \in CommandSet
  BY CommandTypes, FixedItems DEF Deeds, Table100, Table102
<1>2. RemovePolicyRules \in Seq(CommandSet)
  BY <1>1 DEF RemovePolicyRules
<1>3. Range(RemovePolicyRules) = {Drop("rule4.dial"), Drop("rule6.dial"), Run("drop_bypass_rules"), Drop("rule6.bypass")}
  BY DEF RemovePolicyRules, Range
<1>4. \A c \in Range(RemovePolicyRules) : RulesPart(c)
  BY <1>3, DropFields, RunFields DEF RulesPart
<1>5. \A x, y \in Range(RemovePolicyRules) : ~Precedes(x, y)
  BY <1>4 DEF Precedes, RulesPart
<1>6. \A r \in Rules4 \cup Rules6 : \E c \in Range(RemovePolicyRules) : DropsRule(c, r)
  <2>1. /\ DropsRule(Drop("rule4.dial"), "rule4.dial") /\ DropsRule(Drop("rule6.dial"), "rule6.dial")
        /\ DropsRule(Run("drop_bypass_rules"), "rule4.bypass") /\ DropsRule(Drop("rule6.bypass"), "rule6.bypass")
    BY DropFields, RunFields DEF DropsRule
  <2> QED
    BY <1>3, <2>1 DEF Rules4, Rules6
<1> QED
  BY <1>2, <1>4, <1>5, <1>6, OrderedIfUnrelated DEF Proper

\* Sequences without a flush, and a flush after the removal of the rules.
LEMMA FlushLateIfNone ==
    ASSUME NEW l, NEW s \in Seq(CommandSet), \A c \in Range(s) : c.do \notin {"flush100", "flush102"}
    PROVE  FlushLate(l, s)
BY DEF FlushLate, FlushedAfter, Range
LEMMA FlushAfterRules ==
    ASSUME NEW l, NEW s \in Seq(CommandSet), NEW t \in Seq(CommandSet), FlushLate(l, s),
           \A r \in Rules4 \cup Rules6 : \E c \in Range(s) : DropsRule(c, r),
           \A c \in Range(t) : c.do # "flush102"
    PROVE  FlushLate(l, s \o t)
<1>1. /\ Len(s) \in Nat /\ Len(t) \in Nat /\ DOMAIN s = 1..Len(s) /\ DOMAIN t = 1..Len(t)
      /\ DOMAIN (s \o t) = 1..(Len(s) + Len(t))
      /\ \A m \in 1..(Len(s) + Len(t)) : (s \o t)[m] = IF m <= Len(s) THEN s[m] ELSE t[m - Len(s)]
  BY ConcatElements
<1>2. ASSUME NEW k \in DOMAIN (s \o t), NEW d, NEW rules, \A m \in DOMAIN s : FlushedAfter(s, m, d, rules, l), k <= Len(s)
      PROVE  FlushedAfter(s \o t, k, d, rules, l)
  BY <1>1, <1>2 DEF FlushedAfter
<1>3. ASSUME NEW k \in DOMAIN (s \o t), k > Len(s), NEW r \in Rules4 \cup Rules6
      PROVE  \E j \in 1..(k - 1) : DropsRule((s \o t)[j], r)
  <2>1. PICK j \in 1..Len(s) : DropsRule(s[j], r)
    BY <1>1 DEF Range
  <2>2. j \in 1..(k - 1) /\ (s \o t)[j] = s[j]
    BY <1>1, <1>3
  <2> QED
    BY <2>1, <2>2
<1>4. ASSUME NEW k \in DOMAIN (s \o t), k > Len(s) PROVE (s \o t)[k].do # "flush102"
  <2>1. k - Len(s) \in DOMAIN t /\ (s \o t)[k] = t[k - Len(s)]
    BY <1>1, <1>4
  <2> QED
    BY <2>1 DEF Range
<1> SUFFICES ASSUME NEW k \in DOMAIN (s \o t)
             PROVE  FlushedAfter(s \o t, k, "flush100", Rules4 \cup Rules6, l)
                    /\ FlushedAfter(s \o t, k, "flush102", {"split.rule"}, l)
  BY DEF FlushLate
<1>5. CASE k <= Len(s)
  BY <1>2, <1>5 DEF FlushLate
<1>6. CASE k > Len(s)
  BY <1>3, <1>4, <1>6 DEF FlushedAfter
<1> QED
  BY <1>1, <1>5, <1>6

\* What route-down runs, and what it removes in the end.
LEMMA RouteDownCommands ==
    /\ Proper(RouteDown) /\ \A l : FlushLate(l, RouteDown)
    /\ \A c \in Range(RouteDown) : RouteDownPart(c)
    /\ {Drop("low"), Drop("high"), Drop("black.low"), Drop("black.high"), Run("restore")} \subseteq Range(RouteDown)
<1> DEFINE first == <<Drop("low"), Drop("high"), Drop("dns.rule"), Drop("dns.route"), Drop("black.low"),
                      Drop("black.high"), Run("unpin6")>>
           last == <<Run("flush100"), Run("unpin4"), Run("restore")>>
<1>1. Proper(first) /\ Range(first) = {Drop("low"), Drop("high"), Drop("dns.rule"), Drop("dns.route"),
                                       Drop("black.low"), Drop("black.high"), Run("unpin6")}
  <2>1. Drop("low") \in CommandSet /\ Drop("high") \in CommandSet /\ Drop("dns.rule") \in CommandSet
        /\ Drop("dns.route") \in CommandSet /\ Drop("black.low") \in CommandSet /\ Drop("black.high") \in CommandSet
        /\ Run("unpin6") \in CommandSet
    BY CommandTypes, FixedItems DEF Deeds, Table100, Table102
  <2>2. first \in Seq(CommandSet)
    BY <2>1
  <2>3. Range(first) = {Drop("low"), Drop("high"), Drop("dns.rule"), Drop("dns.route"), Drop("black.low"),
                        Drop("black.high"), Run("unpin6")}
    BY DEF Range
  <2> HIDE DEF first
  <2>4. ASSUME NEW c \in Range(first) PROVE c.do \in {"drop", "unpin6"} /\ c.what # "nft.ks"
    <3>1. c = Run("unpin6") \/ \E i \in {"low", "high", "dns.rule", "dns.route", "black.low", "black.high"} : c = Drop(i)
      BY <2>3
    <3> QED
      BY <3>1, DropFields, RunFields
  <2>5. \A x, y \in Range(first) : ~Precedes(x, y)
    BY <2>4 DEF Precedes
  <2> QED
    BY <2>2, <2>3, <2>5, OrderedIfUnrelated DEF Proper
<1>2. Proper(last) /\ Range(last) = {Run("flush100"), Run("unpin4"), Run("restore")}
  <2>1. Run("flush100") \in CommandSet /\ Run("unpin4") \in CommandSet /\ Run("restore") \in CommandSet
    BY CommandTypes DEF Deeds
  <2>2. ~Precedes(Run("unpin4"), Run("flush100")) /\ ~Precedes(Run("restore"), Run("flush100"))
        /\ ~Precedes(Run("restore"), Run("unpin4"))
    BY RunFields DEF Precedes
  <2> QED
    BY <2>1, <2>2, ProperThree
<1> HIDE DEF first
<1>3. ASSUME NEW c \in Range(first)
      PROVE  RouteDownPart(c) /\ c.do \notin {"flush100", "flush102", "drop_bypass_rules", "unpin4"}
  <2>1. c = Run("unpin6") \/ \E i \in {"low", "high", "dns.rule", "dns.route", "black.low", "black.high"} : c = Drop(i)
    BY <1>1
  <2> QED
    BY <2>1, DropFields, RunFields DEF RouteDownPart, Blackholes
<1>4. \A c \in Range(last) : RouteDownPart(c) /\ c.do \in {"flush100", "unpin4", "restore"}
  BY <1>2, RunFields DEF RouteDownPart
<1>5. \A c \in Range(RemovePolicyRules) : RouteDownPart(c) /\ c.do \in {"drop_bypass_rules", "drop"}
        /\ (c.do = "drop" => c.what \notin {"low", "high"})
  BY RemovePolicyRulesCommands DEF RouteDownPart, RulesPart
<1>6. RouteDown = (first \o RemovePolicyRules) \o last
  BY DEF RouteDown, first
<1> HIDE DEF last
<1>7. Proper(first \o RemovePolicyRules)
      /\ Range(first \o RemovePolicyRules) = Range(first) \cup Range(RemovePolicyRules)
  <2>1. \A x \in Range(first), y \in Range(RemovePolicyRules) : ~Precedes(y, x)
    BY <1>3, RemovePolicyRulesCommands DEF Precedes, RouteDownPart, RulesPart, Blackholes
  <2> QED
    BY <1>1, <2>1, RemovePolicyRulesCommands, ProperConcat
<1>8. Proper(RouteDown) /\ Range(RouteDown) = Range(first) \cup Range(RemovePolicyRules) \cup Range(last)
  <2>1. \A x \in Range(first \o RemovePolicyRules), y \in Range(last) : ~Precedes(y, x)
    BY <1>3, <1>4, <1>5, <1>7 DEF Precedes, RouteDownPart
  <2> QED
    BY <1>2, <1>6, <1>7, <2>1, ProperConcat
<1>9. ASSUME NEW l PROVE FlushLate(l, RouteDown)
  <2>1. FlushLate(l, first \o RemovePolicyRules)
    <3>1. \A c \in Range(first \o RemovePolicyRules) : c.do \notin {"flush100", "flush102"}
      BY <1>3, <1>5, <1>7
    <3> QED
      BY <1>7, <3>1, FlushLateIfNone DEF Proper
  <2>2. \A r \in Rules4 \cup Rules6 : \E c \in Range(first \o RemovePolicyRules) : DropsRule(c, r)
    BY <1>7, RemovePolicyRulesCommands
  <2>3. \A c \in Range(last) : c.do # "flush102"
    BY <1>4
  <2> QED
    BY <1>2, <1>6, <1>7, <2>1, <2>2, <2>3, FlushAfterRules DEF Proper
<1> QED
  BY <1>1, <1>2, <1>3, <1>4, <1>5, <1>8, <1>9

\* The pins are laid one by one, in some order, and all of them.
LEMMA LayAllCommands ==
    ASSUME NEW S \in SUBSET (Pins4 \cup Pins6)
    PROVE  Proper(LayAll(S)) /\ Range(LayAll(S)) = {Lay(i) : i \in S}
<1> DEFINE q == SetToSeq(S)
           n == Cardinality(S)
<1>1. IsFiniteSet(S) /\ n \in Nat /\ ExistsBijection(1..n, S)
  BY PinsAssumption, FS_Subset, FS_CardinalityType
<1>2. \E f \in [1..n -> S] : IsInjective(f)
  BY <1>1 DEF ExistsBijection, Bijection, Injection, IsInjective
<1>3. q \in [1..n -> S] /\ IsInjective(q)
  BY <1>2 DEF SetToSeq
<1>4. Range(q) = S
  <2>1. q \in Injection(1..n, S)
    BY <1>3 DEF Injection, IsInjective
  <2>2. IsFiniteSet(1..n) /\ Cardinality(1..n) = n
    BY <1>1, FS_Interval
  <2>3. q \in Surjection(1..n, S)
    BY <1>1, <2>1, <2>2, FS_Injection
  <2> QED
    BY <1>3, <2>3 DEF Surjection, Range
<1>5. LayAll(S) = [k \in 1..n |-> Lay(q[k])]
  BY <1>3 DEF LayAll
<1> HIDE DEF q, n
<1>6. \A k \in 1..n : Lay(q[k]) \in CommandSet /\ q[k] \in S
  BY <1>3, CommandsOfItems
<1>7. LayAll(S) \in Seq(CommandSet)
  BY <1>1, <1>5, <1>6
<1>8. Range(LayAll(S)) = {Lay(i) : i \in S}
  BY <1>3, <1>4, <1>5 DEF Range
<1>9. \A x, y \in Range(LayAll(S)) : ~Precedes(x, y)
  <2>1. \A x \in Range(LayAll(S)) : x.do = "lay" /\ x.what \in Pins4 \cup Pins6
    BY <1>8, LayFields
  <2>2. \A i \in Pins4 \cup Pins6 : i \notin {"low", "high", "split.rule", "split.default", "split.throw"}
    BY FixedItems
  <2>3. \A i \in Pins4 \cup Pins6 : \A j : <<i, j>> \notin Thrown
    BY FixedItems DEF Thrown
  <2> QED
    BY <2>1, <2>2, <2>3 DEF Precedes, Table102
<1> QED
  BY <1>7, <1>8, <1>9, OrderedIfUnrelated DEF Proper

\* A policy rule is replaced: the old one is removed, then the new one is laid.
LEMMA AddRuleCommands ==
    ASSUME NEW i \in Rules4 \cup Rules6
    PROVE  Proper(AddRuleFwmark(i)) /\ Range(AddRuleFwmark(i)) = {Drop(i), Lay(i)}
<1>1. i \in Fixed \ (Table100 \cup Table102) /\ i # "phys6.default" /\ i # "nft.ks"
  BY FixedItems DEF Rules4, Rules6, Table100, Table102
<1>2. Drop(i) \in CommandSet /\ Lay(i) \in CommandSet
  BY <1>1, CommandTypes, FixedItems
<1>3. ~Precedes(Lay(i), Drop(i))
  BY <1>1, LayFields, DropFields DEF Precedes
<1> QED
  BY <1>2, <1>3, ProperTwo DEF AddRuleFwmark

\* A table is laid before the rules that lead to it.
LEMMA TableAndRules ==
    ASSUME NEW default, NEW throw, NEW r1, NEW r2, Lay(default) \in CommandSet, Lay(throw) \in CommandSet,
           default \in {"phys.default", "phys6.default"}, throw \in {"phys.throw", "phys6.throw"},
           r1 \in Rules4 \cup Rules6, r2 \in Rules4 \cup Rules6, r1 # r2
    PROVE  LET s == <<Lay(default), Lay(throw)>> \o AddRuleFwmark(r1) \o AddRuleFwmark(r2) IN
           /\ Proper(s)
           /\ Range(s) = {Lay(default), Lay(throw), Drop(r1), Lay(r1), Drop(r2), Lay(r2)}
<1> DEFINE table == <<Lay(default), Lay(throw)>>
<1>1. Proper(table) /\ Range(table) = {Lay(default), Lay(throw)}
  <2>1. ~Precedes(Lay(throw), Lay(default))
    BY LayFields DEF Precedes, Thrown, Table102
  <2> QED
    BY <2>1, ProperTwo
<1> HIDE DEF table
<1>2. Proper(table \o AddRuleFwmark(r1))
      /\ Range(table \o AddRuleFwmark(r1)) = {Lay(default), Lay(throw), Drop(r1), Lay(r1)}
  <2>1. ASSUME NEW x \in Range(table), NEW y \in Range(AddRuleFwmark(r1)) PROVE ~Precedes(y, x)
    <3>1. x.do = "lay" /\ x.what \in Table100
      BY <1>1, LayFields DEF Table100
    <3>2. y.do \in {"lay", "drop"} /\ y.what \in Rules4 \cup Rules6
      BY AddRuleCommands, LayFields, DropFields
    <3> QED
      BY <3>1, <3>2 DEF Precedes, Table100, Table102, Thrown, Rules4, Rules6
  <2> QED
    BY <1>1, <2>1, AddRuleCommands, ProperConcat
<1>3. Proper(table \o AddRuleFwmark(r1) \o AddRuleFwmark(r2))
      /\ Range(table \o AddRuleFwmark(r1) \o AddRuleFwmark(r2)) =
            Range(table \o AddRuleFwmark(r1)) \cup Range(AddRuleFwmark(r2))
  <2>1. ASSUME NEW x \in Range(table \o AddRuleFwmark(r1)), NEW y \in Range(AddRuleFwmark(r2)) PROVE ~Precedes(y, x)
    <3>1. x.do \in {"lay", "drop"} /\ x.what \in Table100 \cup {r1}
      BY <1>2, LayFields, DropFields DEF Table100
    <3>2. y.do \in {"lay", "drop"} /\ y.what = r2
      BY AddRuleCommands, LayFields, DropFields
    <3> QED
      BY <3>1, <3>2 DEF Precedes, Table100, Table102, Thrown, Rules4, Rules6
  <2> QED
    BY <1>2, <2>1, AddRuleCommands, ProperConcat
<1> QED
  BY <1>2, <1>3, AddRuleCommands DEF table

\* What lets the dials of Xray and the bypassed traffic escape.
DialsPart(c) ==
    \/ c.do = "lay" /\ c.what \in Rules4 \cup Rules6 \cup Table100
    \/ c.do = "drop" /\ c.what \in Rules4 \cup Rules6
LEMMA DialsEscapeCommands ==
    /\ Proper(DialsEscape)
    /\ \A c \in Range(DialsEscape) : DialsPart(c)
    /\ \A i \in {"phys.default", "phys.throw", "rule4.dial", "rule4.bypass"} : Lay(i) \in Range(DialsEscape)
    /\ \A i \in {"rule6.dial", "rule6.bypass"} : Lay(i) \in Range(DialsEscape) => Lay("phys6.throw") \in Range(DialsEscape)
<1> DEFINE four == <<Lay("phys.default"), Lay("phys.throw")>> \o AddRuleFwmark("rule4.dial") \o AddRuleFwmark("rule4.bypass")
<1>1. Proper(four) /\ Range(four) = {Lay("phys.default"), Lay("phys.throw"), Drop("rule4.dial"), Lay("rule4.dial"),
                                     Drop("rule4.bypass"), Lay("rule4.bypass")}
  <2>1. Lay("phys.default") \in CommandSet /\ Lay("phys.throw") \in CommandSet
    BY CommandsOfItems, FixedItems
  <2> QED
    BY <2>1, TableAndRules DEF Rules4
<1> HIDE DEF four
<1>2. Proper(V6Physical)
      /\ \/ Range(V6Physical) = {}
         \/ Range(V6Physical) = {Lay("phys6.default"), Lay("phys6.throw"), Drop("rule6.dial"), Lay("rule6.dial"),
                                 Drop("rule6.bypass"), Lay("rule6.bypass")}
  <2>1. CASE ~HostHasV6
    BY <2>1, ProperEmpty DEF V6Physical
  <2>2. CASE HostHasV6
    <3>1. Lay("phys6.default") \in CommandSet /\ Lay("phys6.throw") \in CommandSet
      BY <2>2, CommandsOfItems, FixedItems
    <3>2. V6Physical = <<Lay("phys6.default"), Lay("phys6.throw")>> \o AddRuleFwmark("rule6.dial") \o AddRuleFwmark("rule6.bypass")
      BY <2>2 DEF V6Physical
    <3> QED
      BY <3>1, <3>2, TableAndRules DEF Rules6
  <2> QED
    BY <2>1, <2>2, HostAssumption
<1>3. ASSUME NEW c \in Range(four)
      PROVE  c.do \in {"lay", "drop"} /\ c.what \in {"phys.default", "phys.throw"} \cup Rules4
             /\ (c.do = "drop" => c.what \in Rules4)
  BY <1>1, LayFields, DropFields DEF Rules4
<1>4. ASSUME NEW c \in Range(V6Physical)
      PROVE  c.do \in {"lay", "drop"} /\ c.what \in {"phys6.default", "phys6.throw"} \cup Rules6
             /\ (c.do = "drop" => c.what \in Rules6)
  BY <1>2, LayFields, DropFields DEF Rules6
<1>5. DialsEscape = four \o V6Physical
  BY DEF DialsEscape, four
<1>6. Proper(DialsEscape) /\ Range(DialsEscape) = Range(four) \cup Range(V6Physical)
  <2>1. \A x \in Range(four), y \in Range(V6Physical) : ~Precedes(y, x)
    BY <1>3, <1>4 DEF Precedes, Table102, Thrown, Rules4, Rules6
  <2> QED
    BY <1>1, <1>2, <1>5, <2>1, ProperConcat
<1>7. \A c \in Range(DialsEscape) : DialsPart(c)
  BY <1>3, <1>4, <1>6 DEF DialsPart, Table100
<1>8. \A i \in {"phys.default", "phys.throw", "rule4.dial", "rule4.bypass"} : Lay(i) \in Range(DialsEscape)
  BY <1>1, <1>6
<1>9. ASSUME NEW i \in {"rule6.dial", "rule6.bypass"}, Lay(i) \in Range(DialsEscape)
      PROVE  Lay("phys6.throw") \in Range(DialsEscape)
  <2>1. Lay(i) \notin Range(four)
    BY <1>3, LayFields DEF Rules4
  <2> QED
    BY <1>2, <1>6, <1>9, <2>1
<1> QED
  BY <1>6, <1>7, <1>8, <1>9

\* What route-up runs: the footing of the default routes among it, and before them.
LEMMA RouteUpCommands ==
    /\ Proper(RouteUp)
    /\ \A c \in Range(RouteUp) : RouteUpPart(c)
    /\ \A i \in Footing \cup Always \cup WithTun : Lay(i) \in Range(RouteUp)
    /\ \A t \in Thrown : Lay(t[1]) \in Range(RouteUp) => Lay(t[2]) \in Range(RouteUp)
<1> DEFINE device == <<Run("tuntap"), Must("link_up")>>
           loosen == <<Must("loosen")>>
           begin == device \o InstallDnsPolicyRoute \o loosen
           pins6 == (IF HostHasV6 THEN LayAll(Pins6) ELSE <<>>)
           blackholes == <<Run("record6"), Lay("black.low"), Lay("black.high")>>
<1>1. Proper(begin)
      /\ Range(begin) = {Run("tuntap"), Must("link_up"), Lay("dns.route"), Drop("dns.rule"), Lay("dns.rule"), Must("loosen")}
  <2>1. Run("tuntap") \in CommandSet /\ Must("link_up") \in CommandSet /\ Must("loosen") \in CommandSet
        /\ Lay("dns.route") \in CommandSet /\ Lay("dns.rule") \in CommandSet /\ Drop("dns.rule") \in CommandSet
    BY CommandTypes, CommandsOfItems, FixedItems DEF Deeds, Table100, Table102
  <2>2. Proper(device) /\ Range(device) = {Run("tuntap"), Must("link_up")}
    <3>1. ~Precedes(Must("link_up"), Run("tuntap"))
      BY RunFields DEF Precedes
    <3> QED
      BY <2>1, <3>1, ProperTwo
  <2>3. Proper(InstallDnsPolicyRoute)
        /\ Range(InstallDnsPolicyRoute) = {Lay("dns.route"), Drop("dns.rule"), Lay("dns.rule")}
    <3>1. ~Precedes(Drop("dns.rule"), Lay("dns.route")) /\ ~Precedes(Lay("dns.rule"), Lay("dns.route"))
          /\ ~Precedes(Lay("dns.rule"), Drop("dns.rule"))
      BY LayFields, DropFields DEF Precedes, Thrown, Table102
    <3> QED
      BY <2>1, <3>1, ProperThree DEF InstallDnsPolicyRoute
  <2>4. Proper(loosen) /\ Range(loosen) = {Must("loosen")}
    BY <2>1, ProperOne
  <2> HIDE DEF device, loosen
  <2>5. ASSUME NEW x \in {Run("tuntap"), Must("link_up")} PROVE x.do \in {"tuntap", "link_up"}
    BY RunFields, MustFields
  <2>6. ASSUME NEW x \in {Lay("dns.route"), Drop("dns.rule"), Lay("dns.rule")}
        PROVE  x.do \in {"lay", "drop"} /\ x.what \in {"dns.route", "dns.rule"}
    BY LayFields, DropFields
  <2>7. Proper(device \o InstallDnsPolicyRoute)
        /\ Range(device \o InstallDnsPolicyRoute) = Range(device) \cup Range(InstallDnsPolicyRoute)
    <3>1. \A x \in Range(device), y \in Range(InstallDnsPolicyRoute) : ~Precedes(y, x)
      BY <2>2, <2>5 DEF Precedes
    <3> QED
      BY <2>2, <2>3, <3>1, ProperConcat
  <2>8. Proper(device \o InstallDnsPolicyRoute \o loosen)
        /\ Range(device \o InstallDnsPolicyRoute \o loosen) = Range(device \o InstallDnsPolicyRoute) \cup Range(loosen)
    <3>1. ASSUME NEW x \in Range(device \o InstallDnsPolicyRoute) PROVE ~Precedes(Must("loosen"), x)
      <4>1. x.do \in {"tuntap", "link_up", "lay", "drop"}
        BY <2>2, <2>3, <2>5, <2>6, <2>7
      <4> QED
        BY <4>1, MustFields DEF Precedes
    <3> QED
      BY <2>4, <2>7, <3>1, ProperConcat
  <2> QED
    BY <2>2, <2>3, <2>4, <2>7, <2>8 DEF device, loosen
<1>2. Proper(ServerPins) /\ Range(ServerPins) = {Lay(i) : i \in Pins4} \cup {Run("record4")}
  <2>1. Proper(<<Run("record4")>>) /\ Range(<<Run("record4")>>) = {Run("record4")}
    BY CommandTypes, ProperOne DEF Deeds
  <2>2. Proper(LayAll(Pins4)) /\ Range(LayAll(Pins4)) = {Lay(i) : i \in Pins4}
    BY LayAllCommands
  <2>3. ASSUME NEW x PROVE ~Precedes(Run("record4"), x)
    BY RunFields DEF Precedes
  <2> QED
    BY <2>1, <2>2, <2>3, ProperConcat DEF ServerPins
<1>3. Proper(TunDefault) /\ Range(TunDefault) = {Lay("low"), Lay("high")}
  <2>1. Lay("low") \in CommandSet /\ Lay("high") \in CommandSet
    BY CommandsOfItems, FixedItems
  <2>2. "high" \notin Footing
    BY FixedItems DEF Footing
  <2>3. ~Precedes(Lay("high"), Lay("low"))
    BY <2>2, LayFields DEF Precedes, Thrown, Table102
  <2> QED
    BY <2>1, <2>3, ProperTwo DEF TunDefault
<1>4. Proper(V6FailsClosed)
      /\ Range(V6FailsClosed) \subseteq {Lay(i) : i \in Pins6} \cup {Run("record6"), Lay("black.low"), Lay("black.high")}
      /\ {Lay("black.low"), Lay("black.high")} \subseteq Range(V6FailsClosed)
  <2>1. Proper(pins6) /\ Range(pins6) \subseteq {Lay(i) : i \in Pins6}
    <3>1. CASE HostHasV6
      BY <3>1, LayAllCommands
    <3>2. CASE ~HostHasV6
      BY <3>2, ProperEmpty
    <3> QED
      BY <3>1, <3>2
  <2>2. Proper(blackholes) /\ Range(blackholes) = {Run("record6"), Lay("black.low"), Lay("black.high")}
    <3>1. Run("record6") \in CommandSet /\ Lay("black.low") \in CommandSet /\ Lay("black.high") \in CommandSet
      BY CommandTypes, CommandsOfItems, FixedItems DEF Deeds
    <3>2. ~Precedes(Lay("black.low"), Run("record6")) /\ ~Precedes(Lay("black.high"), Run("record6"))
          /\ ~Precedes(Lay("black.high"), Lay("black.low"))
      BY LayFields, RunFields DEF Precedes, Thrown, Table102
    <3> QED
      BY <3>1, <3>2, ProperThree
  <2>3. ASSUME NEW x \in Range(pins6), NEW y \in Range(blackholes) PROVE ~Precedes(y, x)
    <3>1. x.do = "lay" /\ x.what \in Pins6
      BY <2>1, LayFields
    <3>2. x.what \notin {"low", "high", "split.rule"} \cup Table102 /\ \A i : <<x.what, i>> \notin Thrown
      BY <3>1, FixedItems DEF Thrown, Table102
    <3>3. y.do # "drop"
      BY <2>2, LayFields, RunFields
    <3> QED
      BY <3>1, <3>2, <3>3 DEF Precedes
  <2> HIDE DEF pins6, blackholes
  <2>4. V6FailsClosed = pins6 \o blackholes
    BY DEF V6FailsClosed, pins6, blackholes
  <2>5. Proper(V6FailsClosed) /\ Range(V6FailsClosed) = Range(pins6) \cup Range(blackholes)
    BY <2>1, <2>2, <2>3, <2>4, ProperConcat
  <2> QED
    BY <2>1, <2>2, <2>5
<1> HIDE DEF begin
<1>5. ASSUME NEW c \in Range(begin)
      PROVE  c.do \in {"tuntap", "link_up", "loosen", "lay", "drop"}
             /\ (c.do = "lay" => c.what \in {"dns.route", "dns.rule"}) /\ (c.do = "drop" => c.what = "dns.rule")
  <2>1. \/ c = Run("tuntap") \/ \E n \in {"link_up", "loosen"} : c = Must(n)
        \/ c = Drop("dns.rule") \/ \E i \in {"dns.route", "dns.rule"} : c = Lay(i)
    BY <1>1
  <2>2. c = Run("tuntap") => c.do = "tuntap"
    BY RunFields
  <2>3. ASSUME NEW n \in {"link_up", "loosen"}, c = Must(n) PROVE c.do \in {"link_up", "loosen"}
    BY <2>3, MustFields
  <2>4. c = Drop("dns.rule") => c.do = "drop" /\ c.what = "dns.rule"
    BY DropFields
  <2>5. ASSUME NEW i \in {"dns.route", "dns.rule"}, c = Lay(i) PROVE c.do = "lay" /\ c.what \in {"dns.route", "dns.rule"}
    BY <2>5, LayFields
  <2> QED
    BY <2>1, <2>2, <2>3, <2>4, <2>5
<1>6. ASSUME NEW c \in Range(ServerPins) PROVE c.do \in {"lay", "record4"} /\ (c.do = "lay" => c.what \in Pins4)
  <2>1. c = Run("record4") \/ \E i \in Pins4 : c = Lay(i)
    BY <1>2
  <2> QED
    BY <2>1, LayFields, RunFields
<1>7. ASSUME NEW c \in Range(TunDefault) PROVE c.do = "lay" /\ c.what \in {"low", "high"}
  BY <1>3, LayFields
<1>8. ASSUME NEW c \in Range(V6FailsClosed)
      PROVE  c.do \in {"lay", "record6"} /\ (c.do = "lay" => c.what \in Pins6 \cup Blackholes)
  <2>1. c = Run("record6") \/ \E i \in Pins6 \cup Blackholes : c = Lay(i)
    BY <1>4 DEF Blackholes
  <2> QED
    BY <2>1, LayFields, RunFields
<1> DEFINE s2 == begin \o DialsEscape
           s3 == s2 \o ServerPins
           s4 == s3 \o TunDefault
<1>9. Proper(s2) /\ Range(s2) = Range(begin) \cup Range(DialsEscape)
  <2>1. ASSUME NEW x \in Range(begin), NEW y \in Range(DialsEscape) PROVE ~Precedes(y, x)
    BY <1>5, DialsEscapeCommands DEF Precedes, DialsPart, Rules4, Rules6, Table100, Table102, Thrown
  <2> QED
    BY <1>1, <2>1, DialsEscapeCommands, ProperConcat
<1> HIDE DEF s2
<1>10. Proper(s3) /\ Range(s3) = Range(s2) \cup Range(ServerPins)
  <2>1. ASSUME NEW x \in Range(s2), NEW y \in Range(ServerPins) PROVE ~Precedes(y, x)
    <3>1. x.do = "lay" => x.what \in {"dns.route", "dns.rule"} \cup Rules4 \cup Rules6 \cup Table100
      BY <1>5, <1>9, DialsEscapeCommands DEF DialsPart
    <3>2. x.do \in {"tuntap", "link_up", "loosen", "lay", "drop"} /\ (x.do = "drop" => x.what # "nft.ks")
      BY <1>5, <1>9, DialsEscapeCommands DEF DialsPart, Rules4, Rules6
    <3>3. y.do \in {"lay", "record4"} /\ (y.do = "lay" => \A i : <<i, y.what>> \notin Thrown)
      BY <1>6, FixedItems DEF Thrown
    <3> QED
      BY <3>1, <3>2, <3>3 DEF Precedes, Rules4, Rules6, Table100, Table102
  <2> QED
    BY <1>2, <1>9, <2>1, ProperConcat
<1> HIDE DEF s3
<1>11. Proper(s4) /\ Range(s4) = Range(s3) \cup Range(TunDefault)
  <2>1. ASSUME NEW x \in Range(s3), NEW y \in Range(TunDefault) PROVE ~Precedes(y, x)
    <3>1. y.do = "lay" /\ y.what \notin Footing /\ \A i : <<i, y.what>> \notin Thrown
      BY <1>7, FixedItems DEF Footing, Thrown
    <3> QED
      BY <3>1 DEF Precedes
  <2> QED
    BY <1>3, <1>10, <2>1, ProperConcat
<1> HIDE DEF s4
<1>12. Proper(RouteUp)
       /\ Range(RouteUp) = Range(begin) \cup Range(DialsEscape) \cup Range(ServerPins) \cup Range(TunDefault)
                             \cup Range(V6FailsClosed)
  <2>1. ASSUME NEW x \in Range(s4), NEW y \in Range(V6FailsClosed) PROVE ~Precedes(y, x)
    <3>1. y.do \in {"lay", "record6"} /\ (y.do = "lay" => y.what \notin Footing /\ \A i : <<i, y.what>> \notin Thrown)
      BY <1>8, FixedItems DEF Footing, Thrown, Blackholes
    <3> QED
      BY <3>1 DEF Precedes
  <2>2. RouteUp = s4 \o V6FailsClosed
    BY DEF RouteUp, s4, s3, s2, begin
  <2>3. Proper(s4 \o V6FailsClosed) /\ Range(s4 \o V6FailsClosed) = Range(s4) \cup Range(V6FailsClosed)
    BY <1>4, <1>11, <2>1, ProperConcat
  <2> QED
    BY <1>9, <1>10, <1>11, <2>2, <2>3
<1>13. ASSUME NEW c \in Range(RouteUp) PROVE RouteUpPart(c)
  <2>1. CASE c \in Range(begin)
    BY <1>5, <2>1 DEF RouteUpPart, ThroughTun
  <2>2. CASE c \in Range(DialsEscape)
    BY <2>2, DialsEscapeCommands DEF DialsPart, RouteUpPart
  <2>3. CASE c \in Range(ServerPins)
    BY <1>6, <2>3 DEF RouteUpPart
  <2>4. CASE c \in Range(TunDefault)
    BY <1>7, <2>4 DEF RouteUpPart, ThroughTun
  <2>5. CASE c \in Range(V6FailsClosed)
    BY <1>8, <2>5 DEF RouteUpPart
  <2> QED
    BY <1>12, <2>1, <2>2, <2>3, <2>4, <2>5
<1>14. ASSUME NEW i \in Footing \cup Always \cup WithTun PROVE Lay(i) \in Range(RouteUp)
  <2>1. i \in Pins4 \/ i \in {"rule4.bypass", "phys.default"} \/ i \in {"dns.rule", "dns.route"} \/ i = "black.low" \/ i = "low"
    BY DEF Footing, Always, WithTun
  <2> QED
    BY <1>1, <1>2, <1>3, <1>4, <1>12, <2>1, DialsEscapeCommands
<1>15. ASSUME NEW t \in Thrown, Lay(t[1]) \in Range(RouteUp) PROVE Lay(t[2]) \in Range(RouteUp)
  <2>1. Lay(t[1]).do = "lay" /\ Lay(t[1]).what = t[1]
    BY LayFields
  <2>2. t[1] \notin Pins4 \cup Pins6 \cup {"dns.route", "dns.rule", "low", "high"} \cup Blackholes
    BY FixedItems DEF Thrown, Blackholes
  <2>3. Lay(t[1]) \in Range(DialsEscape)
    BY <1>5, <1>6, <1>7, <1>8, <1>12, <1>15, <2>1, <2>2
  <2>4. t[1] # "split.rule"
    BY <2>1, <2>3, DialsEscapeCommands DEF DialsPart, Rules4, Rules6, Table100
  <2>5. t \in {<<"rule4.dial", "phys.throw">>, <<"rule4.bypass", "phys.throw">>, <<"rule6.dial", "phys6.throw">>,
               <<"rule6.bypass", "phys6.throw">>}
    BY <2>4 DEF Thrown
  <2>6. Lay(t[2]) \in Range(DialsEscape)
    BY <2>3, <2>5, DialsEscapeCommands
  <2> QED
    BY <1>12, <2>6
<1> QED
  BY <1>12, <1>13, <1>14, <1>15

\* Removing the routing of the split.
LEMMA SplitTeardownCommands ==
    /\ Proper(SplitTeardown) /\ \A l : FlushLate(l, SplitTeardown)
    /\ Range(SplitTeardown) = {Drop("split.rule"), Run("flush102")}
<1>1. Proper(SplitTeardown) /\ Range(SplitTeardown) = {Drop("split.rule"), Run("flush102")}
  <2>1. Drop("split.rule") \in CommandSet /\ Run("flush102") \in CommandSet
    BY CommandTypes, FixedItems DEF Deeds, Table100, Table102
  <2>2. ~Precedes(Run("flush102"), Drop("split.rule"))
    BY RunFields, DropFields DEF Precedes
  <2> QED
    BY <2>1, <2>2, ProperTwo DEF SplitTeardown
<1>2. ASSUME NEW l PROVE FlushLate(l, SplitTeardown)
  <2>1. DOMAIN SplitTeardown = 1..2 /\ SplitTeardown[1] = Drop("split.rule") /\ SplitTeardown[2] = Run("flush102")
    BY DEF SplitTeardown
  <2>2. SplitTeardown[1].do = "drop" /\ SplitTeardown[2].do = "flush102" /\ DropsRule(SplitTeardown[1], "split.rule")
    BY <2>1, DropFields, RunFields DEF DropsRule
  <2> QED
    BY <2>1, <2>2 DEF FlushLate, FlushedAfter
<1> QED
  BY <1>1, <1>2

\* Laying the routing of the split anew.
LEMMA InstallRoutingCommands ==
    /\ Proper(InstallRouting) /\ \A l : FlushLate(l, InstallRouting)
    /\ \A c \in Range(InstallRouting) : SplitPart(c) /\ (c.do = "drop" => c.what = "split.rule")
    /\ Lay("split.throw") \in Range(InstallRouting)
<1> DEFINE table == <<Lay("nft.split")>>
<1>1. Lay("split.default") \in CommandSet /\ Lay("split.throw") \in CommandSet /\ Lay("split.rule") \in CommandSet
      /\ Lay("nft.split") \in CommandSet
  BY CommandsOfItems, FixedItems
<1>2. Proper(SplitSetup) /\ Range(SplitSetup) = {Lay("split.default"), Lay("split.throw"), Lay("split.rule")}
  <2>1. ~Precedes(Lay("split.throw"), Lay("split.default")) /\ ~Precedes(Lay("split.rule"), Lay("split.default"))
        /\ ~Precedes(Lay("split.rule"), Lay("split.throw"))
    BY LayFields DEF Precedes, Thrown
  <2> QED
    BY <1>1, <2>1, ProperThree DEF SplitSetup
<1>3. Proper(table) /\ Range(table) = {Lay("nft.split")}
  BY <1>1, ProperOne
<1>4. ASSUME NEW c \in Range(SplitSetup) PROVE c.do = "lay" /\ c.what \in Table102 \cup {"split.rule"}
  BY <1>2, LayFields DEF Table102
<1>5. ASSUME NEW c \in Range(SplitTeardown) PROVE c.do \in {"drop", "flush102"} /\ (c.do = "drop" => c.what = "split.rule")
  BY SplitTeardownCommands, DropFields, RunFields
<1>6. ASSUME NEW c \in Range(table) PROVE c.do = "lay" /\ c.what = "nft.split"
  BY <1>3, LayFields
<1> HIDE DEF table
<1>7. Proper(SplitTeardown \o SplitSetup)
      /\ Range(SplitTeardown \o SplitSetup) = Range(SplitTeardown) \cup Range(SplitSetup)
  <2>1. \A x \in Range(SplitTeardown), y \in Range(SplitSetup) : ~Precedes(y, x)
    BY <1>4, <1>5 DEF Precedes
  <2> QED
    BY <1>2, <2>1, SplitTeardownCommands, ProperConcat
<1>8. Proper(InstallRouting) /\ Range(InstallRouting) = Range(SplitTeardown) \cup Range(SplitSetup) \cup Range(table)
  <2>1. \A x \in Range(SplitTeardown \o SplitSetup), y \in Range(table) : ~Precedes(y, x)
    BY <1>4, <1>5, <1>6, <1>7 DEF Precedes, Thrown, Table102
  <2>2. InstallRouting = (SplitTeardown \o SplitSetup) \o table
    BY DEF InstallRouting, table
  <2> QED
    BY <1>3, <1>7, <2>1, <2>2, ProperConcat
<1>9. ASSUME NEW l PROVE FlushLate(l, InstallRouting)
  <2>1. FlushLate(l, SplitSetup) /\ FlushLate(l, table)
    BY <1>2, <1>3, <1>4, <1>6, FlushLateIfNone DEF Proper
  <2>2. FlushLate(l, SplitTeardown \o SplitSetup)
    BY <1>2, <2>1, SplitTeardownCommands, FlushLateConcat DEF Proper
  <2>3. FlushLate(l, (SplitTeardown \o SplitSetup) \o table)
    BY <1>3, <1>7, <2>1, <2>2, FlushLateConcat DEF Proper
  <2> QED
    BY <2>3 DEF InstallRouting, table
<1>10. ASSUME NEW c \in Range(InstallRouting) PROVE SplitPart(c) /\ (c.do = "drop" => c.what = "split.rule")
  BY <1>4, <1>5, <1>6, <1>8 DEF SplitPart
<1> QED
  BY <1>2, <1>8, <1>9, <1>10

\* The commands of split-up.
LEMMA SplitUpCommands ==
    LET s == <<Lay("split.bpf")>> \o InstallRouting \o <<Run("routed")>> IN
    /\ Proper(s) /\ \A l : FlushLate(l, s)
    /\ \A c \in Range(s) : SplitPart(c)
    /\ Lay("split.throw") \in Range(s)
<1> DEFINE bpf == <<Lay("split.bpf")>>
           routed == <<Run("routed")>>
<1>1. Proper(bpf) /\ Range(bpf) = {Lay("split.bpf")} /\ Proper(routed) /\ Range(routed) = {Run("routed")}
  BY CommandTypes, CommandsOfItems, FixedItems, ProperOne DEF Deeds
<1>2. ASSUME NEW c \in Range(bpf) PROVE c.do = "lay" /\ c.what = "split.bpf"
  BY <1>1, LayFields
<1>3. ASSUME NEW c \in Range(routed) PROVE c.do = "routed"
  BY <1>1, RunFields
<1> HIDE DEF bpf, routed
<1>4. Proper(bpf \o InstallRouting) /\ Range(bpf \o InstallRouting) = Range(bpf) \cup Range(InstallRouting)
  <2>1. \A x \in Range(bpf), y \in Range(InstallRouting) : ~Precedes(y, x)
    BY <1>2, InstallRoutingCommands DEF Precedes, Thrown, Table102
  <2> QED
    BY <1>1, <2>1, InstallRoutingCommands, ProperConcat
<1>5. Proper(bpf \o InstallRouting \o routed)
      /\ Range(bpf \o InstallRouting \o routed) = Range(bpf \o InstallRouting) \cup Range(routed)
  <2>1. \A x \in Range(bpf \o InstallRouting), y \in Range(routed) : ~Precedes(y, x)
    BY <1>3 DEF Precedes
  <2> QED
    BY <1>1, <1>4, <2>1, ProperConcat
<1>6. ASSUME NEW l PROVE FlushLate(l, bpf \o InstallRouting \o routed)
  <2>1. FlushLate(l, bpf) /\ FlushLate(l, routed)
    BY <1>1, <1>2, <1>3, FlushLateIfNone DEF Proper
  <2>2. FlushLate(l, bpf \o InstallRouting)
    BY <1>1, <2>1, InstallRoutingCommands, FlushLateConcat DEF Proper
  <2> QED
    BY <1>1, <1>4, <2>1, <2>2, FlushLateConcat DEF Proper
<1>7. ASSUME NEW c \in Range(bpf \o InstallRouting \o routed) PROVE SplitPart(c)
  BY <1>2, <1>3, <1>4, <1>5, InstallRoutingCommands DEF SplitPart
<1>8. Lay("split.throw") \in Range(bpf \o InstallRouting \o routed)
  BY <1>4, <1>5, InstallRoutingCommands
<1> QED
  BY <1>5, <1>6, <1>7, <1>8 DEF bpf, routed

\* The commands of split-down, whether or not the routing is known to be laid.
LEMMA SplitDownCommands ==
    LET s == (IF "routing" \in host.own THEN RemoveRouting ELSE <<>>) \o <<Drop("split.bpf"), Run("unrouted")>> IN
    /\ Proper(s) /\ \A l : FlushLate(l, s)
    /\ \A c \in Range(s) : SplitPart(c) /\ c.do # "lay"
<1> DEFINE nft == <<Drop("nft.split")>>
           bpf == <<Drop("split.bpf"), Run("unrouted")>>
           routing == (IF "routing" \in host.own THEN RemoveRouting ELSE <<>>)
           Quiet(c) == SplitPart(c) /\ c.do \in {"drop", "flush102", "unrouted"}
<1>1. Drop("nft.split") \in CommandSet /\ Drop("split.bpf") \in CommandSet /\ Run("unrouted") \in CommandSet
  BY CommandTypes, FixedItems DEF Deeds, Table100, Table102
<1>2. Proper(nft) /\ Range(nft) = {Drop("nft.split")}
  BY <1>1, ProperOne
<1>3. Proper(bpf) /\ Range(bpf) = {Drop("split.bpf"), Run("unrouted")}
  <2>1. ~Precedes(Run("unrouted"), Drop("split.bpf"))
    BY RunFields, DropFields DEF Precedes
  <2> QED
    BY <1>1, <2>1, ProperTwo
<1>4. \A c \in Range(nft) : Quiet(c)
  BY <1>2, DropFields DEF SplitPart
<1>5. \A c \in Range(bpf) : Quiet(c)
  BY <1>3, DropFields, RunFields DEF SplitPart
<1>6. \A c \in Range(SplitTeardown) : Quiet(c)
  BY SplitTeardownCommands, DropFields, RunFields DEF SplitPart
<1>7. ASSUME NEW c, NEW d, Quiet(c) PROVE ~Precedes(d, c)
  BY <1>7 DEF Precedes, SplitPart
<1> HIDE DEF nft, bpf, Quiet
<1>8. Proper(RemoveRouting) /\ Range(RemoveRouting) = Range(SplitTeardown) \cup Range(nft)
  <2>1. \A x \in Range(SplitTeardown), y \in Range(nft) : ~Precedes(y, x)
    BY <1>6, <1>7
  <2> QED
    BY <1>2, <2>1, SplitTeardownCommands, ProperConcat DEF RemoveRouting, nft
<1>9. Proper(routing) /\ (\A c \in Range(routing) : Quiet(c)) /\ \A l : FlushLate(l, routing)
  <2>1. CASE "routing" \in host.own
    <3>1. ASSUME NEW l PROVE FlushLate(l, RemoveRouting)
      <4>1. FlushLate(l, nft)
        BY <1>2, DropFields, FlushLateIfNone DEF Proper
      <4> QED
        BY <1>2, <4>1, SplitTeardownCommands, FlushLateConcat DEF Proper, RemoveRouting, nft
    <3> QED
      BY <1>4, <1>6, <1>8, <2>1, <3>1
  <2>2. CASE "routing" \notin host.own
    <3>1. ASSUME NEW l PROVE FlushLate(l, <<>>)
      BY ProperEmpty, FlushLateIfNone DEF Proper
    <3> QED
      BY <2>2, <3>1, ProperEmpty
  <2> QED
    BY <2>1, <2>2
<1> HIDE DEF routing
<1>10. Proper(routing \o bpf) /\ Range(routing \o bpf) = Range(routing) \cup Range(bpf)
  <2>1. \A x \in Range(routing), y \in Range(bpf) : ~Precedes(y, x)
    BY <1>7, <1>9
  <2> QED
    BY <1>3, <1>9, <2>1, ProperConcat
<1>11. ASSUME NEW l PROVE FlushLate(l, routing \o bpf)
  <2>1. FlushLate(l, bpf)
    BY <1>3, DropFields, RunFields, FlushLateIfNone DEF Proper
  <2> QED
    BY <1>3, <1>9, <2>1, FlushLateConcat DEF Proper
<1>12. \A c \in Range(routing \o bpf) : SplitPart(c) /\ c.do # "lay"
  BY <1>5, <1>9, <1>10 DEF Quiet
<1> QED
  BY <1>10, <1>11, <1>12 DEF routing, bpf

\* Every call runs commands of its part, in order, and flushes a table after the rules to it.
LEMMA CallCommands ==
    ASSUME NEW name \in CallNames, NEW r, r.lan \in BOOLEAN
    PROVE  /\ Proper(Commands(name, r)) /\ \A l : FlushLate(l, Commands(name, r))
           /\ \A c \in Range(Commands(name, r)) : Part(name, c)
<1>1. CASE name = "killswitch-up"
  <2> DEFINE block == [do |-> "block", what |-> IF r.lan THEN "ks.lan" ELSE "", must |-> TRUE]
  <2>1. block \in CommandSet /\ Must("verify") \in CommandSet
    BY CommandTypes, FixedItems DEF CommandSet, Deeds
  <2>2. block.do = "block"
    OBVIOUS
  <2> HIDE DEF block
  <2>3. ~Precedes(Must("verify"), block)
    BY <2>2, MustFields DEF Precedes
  <2>4. Commands(name, r) = <<block, Must("verify")>>
    BY <1>1 DEF Commands, block
  <2>5. Proper(Commands(name, r)) /\ Range(Commands(name, r)) = {block, Must("verify")}
    BY <2>1, <2>3, <2>4, ProperTwo
  <2>6. \A c \in Range(Commands(name, r)) : c.do \in {"block", "verify"}
    BY <2>2, <2>5, MustFields
  <2> QED
    BY <1>1, <2>5, <2>6, FlushLateIfNone DEF Part, Proper
<1>2. CASE name = "killswitch-down"
  <2>1. Commands(name, r) = <<Drop("nft.ks")>>
    BY <1>2 DEF Commands
  <2>2. Proper(Commands(name, r)) /\ Range(Commands(name, r)) = {Drop("nft.ks")}
    BY <2>1, CommandTypes, FixedItems, ProperOne DEF Table100, Table102
  <2> QED
    BY <1>2, <2>2, DropFields, FlushLateIfNone DEF Part, Proper
<1>3. CASE name = "start"
  <2>1. Commands(name, r) = <<Must("start")>>
    BY <1>3 DEF Commands
  <2>2. Proper(Commands(name, r)) /\ Range(Commands(name, r)) = {Must("start")}
    BY <2>1, CommandTypes, ProperOne DEF Deeds
  <2> QED
    BY <1>3, <2>2, MustFields, FlushLateIfNone DEF Part, Proper
<1>4. CASE name = "terminate"
  <2>1. Commands(name, r) \in {<<>>, <<Run("kill")>>}
    BY <1>4 DEF Commands
  <2>2. Proper(Commands(name, r)) /\ Range(Commands(name, r)) \subseteq {Run("kill")}
    BY <2>1, CommandTypes, ProperOne, ProperEmpty DEF Deeds
  <2> QED
    BY <1>4, <2>2, RunFields, FlushLateIfNone DEF Part, Proper
<1>5. CASE name = "route-up"
  <2>1. Commands(name, r) = RouteUp
    BY <1>5 DEF Commands
  <2>2. \A c \in Range(RouteUp) : c.do \notin {"flush100", "flush102"}
    BY RouteUpCommands DEF RouteUpPart
  <2> QED
    BY <1>5, <2>1, <2>2, RouteUpCommands, FlushLateIfNone DEF Part, Proper
<1>6. CASE name = "route-down"
  <2>1. Commands(name, r) \in {<<>>, RouteDown}
    BY <1>6 DEF Commands
  <2>2. Proper(<<>>) /\ Range(<<>>) = {} /\ \A l : FlushLate(l, <<>>)
    BY ProperEmpty, FlushLateIfNone DEF Proper
  <2> QED
    BY <1>6, <2>1, <2>2, RouteDownCommands DEF Part
<1>7. CASE name = "split-up"
  <2>1. Commands(name, r) = <<Lay("split.bpf")>> \o InstallRouting \o <<Run("routed")>>
    BY <1>7 DEF Commands
  <2> QED
    BY <1>7, <2>1, SplitUpCommands DEF Part
<1>8. CASE name = "split-refresh"
  <2>1. Commands(name, r) = InstallRouting
    BY <1>8 DEF Commands
  <2> QED
    BY <1>8, <2>1, InstallRoutingCommands DEF Part
<1>9. CASE name = "split-down"
  <2>1. Commands(name, r) = (IF "routing" \in host.own THEN RemoveRouting ELSE <<>>) \o <<Drop("split.bpf"), Run("unrouted")>>
    BY <1>9 DEF Commands
  <2> QED
    BY <1>9, <2>1, SplitDownCommands DEF Part
<1>10. CASE name = "dns-up"
  <2>1. Commands(name, r) = <<Lay("nft.dns"), Must("probe")>>
    BY <1>10 DEF Commands
  <2>2. Lay("nft.dns") \in CommandSet /\ Must("probe") \in CommandSet
    BY CommandTypes, CommandsOfItems, FixedItems DEF Deeds
  <2>3. ~Precedes(Must("probe"), Lay("nft.dns"))
    BY LayFields, MustFields DEF Precedes
  <2>4. Proper(Commands(name, r)) /\ Range(Commands(name, r)) = {Lay("nft.dns"), Must("probe")}
    BY <2>1, <2>2, <2>3, ProperTwo
  <2>5. \A c \in Range(Commands(name, r)) : c.do = "probe" \/ (c.do = "lay" /\ c.what = "nft.dns")
    BY <2>4, LayFields, MustFields
  <2> QED
    BY <1>10, <2>4, <2>5, FlushLateIfNone DEF Part, Proper
<1>11. CASE name = "dns-down"
  <2>1. Commands(name, r) \in {<<>>, <<Drop("nft.dns")>>}
    BY <1>11 DEF Commands
  <2>2. Proper(Commands(name, r)) /\ Range(Commands(name, r)) \subseteq {Drop("nft.dns")}
    BY <2>1, CommandTypes, FixedItems, ProperOne, ProperEmpty DEF Table100, Table102
  <2> QED
    BY <1>11, <2>2, DropFields, FlushLateIfNone DEF Part, Proper
<1> QED
  BY <1>1, <1>2, <1>3, <1>4, <1>5, <1>6, <1>7, <1>8, <1>9, <1>10, <1>11 DEF CallNames, Early, SplitNames

\* What a call brings or takes, as far as the invariant speaks of it.
LEMMA CallBrings ==
    ASSUME NEW r
    PROVE  /\ \A i \in Footing \cup Always \cup WithTun : Lay(i) \in Range(Commands("route-up", r))
           /\ \A t \in Thrown : Lay(t[1]) \in Range(Commands("route-up", r)) => Lay(t[2]) \in Range(Commands("route-up", r))
           /\ ~host.left => {Drop("low"), Drop("high"), Drop("black.low"), Drop("black.high"), Run("restore")}
                               \subseteq Range(Commands("route-down", r))
           /\ Lay("split.throw") \in Range(Commands("split-up", r))
           /\ Lay("split.throw") \in Range(Commands("split-refresh", r))
           /\ Lay("nft.dns") \in Range(Commands("dns-up", r))
           /\ ~host.left => Drop("nft.dns") \in Range(Commands("dns-down", r))
           /\ Drop("nft.ks") \in Range(Commands("killswitch-down", r))
           /\ \E c \in Range(Commands("killswitch-up", r)) : c.do = "block"
<1>1. Commands("route-up", r) = RouteUp /\ (~host.left => Commands("route-down", r) = RouteDown)
  BY DEF Commands, Stranger
<1>2. Commands("split-refresh", r) = InstallRouting
      /\ Commands("split-up", r) = <<Lay("split.bpf")>> \o InstallRouting \o <<Run("routed")>>
  BY DEF Commands
<1>3. (~host.left => Commands("dns-down", r) = <<Drop("nft.dns")>>) /\ Commands("killswitch-down", r) = <<Drop("nft.ks")>>
      /\ Commands("dns-up", r) = <<Lay("nft.dns"), Must("probe")>>
  BY DEF Commands, Stranger
<1>4. Drop("nft.dns") \in Range(<<Drop("nft.dns")>>) /\ Drop("nft.ks") \in Range(<<Drop("nft.ks")>>)
      /\ Lay("nft.dns") \in Range(<<Lay("nft.dns"), Must("probe")>>)
  BY DEF Range
<1>5. \E c \in Range(Commands("killswitch-up", r)) : c.do = "block"
  <2> DEFINE block == [do |-> "block", what |-> IF r.lan THEN "ks.lan" ELSE "", must |-> TRUE]
  <2>1. Commands("killswitch-up", r) = <<block, Must("verify")>> /\ block.do = "block"
    BY DEF Commands
  <2> HIDE DEF block
  <2>2. block \in Range(<<block, Must("verify")>>)
    BY DEF Range
  <2> QED
    BY <2>1, <2>2
<1>6. /\ \A i \in Footing \cup Always \cup WithTun : Lay(i) \in Range(Commands("route-up", r))
      /\ \A t \in Thrown : Lay(t[1]) \in Range(Commands("route-up", r)) => Lay(t[2]) \in Range(Commands("route-up", r))
  BY <1>1, RouteUpCommands
<1>7. ~host.left => {Drop("low"), Drop("high"), Drop("black.low"), Drop("black.high"), Run("restore")}
                       \subseteq Range(Commands("route-down", r))
  BY <1>1, RouteDownCommands
<1>8. Lay("split.throw") \in Range(Commands("split-up", r)) /\ Lay("split.throw") \in Range(Commands("split-refresh", r))
  BY <1>2, InstallRoutingCommands, SplitUpCommands
<1> QED
  BY <1>3, <1>4, <1>5, <1>6, <1>7, <1>8

\* What a recovery may run.
Removing(s) == s \in Seq(CommandSet) /\ (\A c \in Range(s) : RecoveryPart(c)) /\ \A l : FlushLate(l, s)

LEMMA RemovingConcat ==
    ASSUME NEW s, NEW t, Removing(s), Removing(t)
    PROVE  Removing(s \o t)
<1>1. \A l : FlushLate(l, s \o t)
  BY FlushLateConcat DEF Removing
<1> QED
  BY <1>1, ConcatElements DEF Removing

LEMMA RemovingOne ==
    ASSUME NEW c \in CommandSet, RecoveryPart(c), c.do \notin {"flush100", "flush102"}
    PROVE  Removing(<<c>>)
<1>1. <<c>> \in Seq(CommandSet) /\ Range(<<c>>) = {c}
  BY DEF Range
<1> QED
  BY <1>1, FlushLateIfNone DEF Removing

LEMMA RemovalIsRemoving ==
    ASSUME NEW r \in {"process", "tun", "table100", "table101", "table102", "nft.dns", "nft.ks", "nft.split", "split.bpf"}
    PROVE  Removing(Removal(r))
<1>1. Removing(<<Run("kill")>>) /\ Removing(<<Run("delete_tun")>>)
  BY CommandTypes, RunFields, RemovingOne DEF Deeds, RecoveryPart
<1>2. ASSUME NEW i \in Fixed \ (Table100 \cup Table102) PROVE Removing(<<Drop(i)>>)
  BY CommandTypes, DropFields, RemovingOne DEF RecoveryPart
<1>3. CASE r = "process"
  BY <1>1, <1>3 DEF Removal
<1>4. CASE r = "tun"
  BY <1>1, <1>4 DEF Removal
<1>5. CASE r = "table100"
  <2> DEFINE flush == <<Run("flush100")>>
  <2>1. Removing(RouteDown)
    BY RouteDownCommands DEF Removing, Proper, RecoveryPart, RouteDownPart
  <2>2. Removing(<<Drop("nft.ks")>>)
    BY <1>2, FixedItems DEF Table100, Table102
  <2>3. Removing(<<Drop("nft.ks")>> \o RouteDown)
    BY <2>1, <2>2, RemovingConcat
  <2>4. Removing(HelperCleanup)
    BY <1>1, <2>3, RemovingConcat DEF HelperCleanup
  <2>5. Removing(RemovePolicyRules)
    <3>1. \A l : FlushLate(l, RemovePolicyRules)
      BY RemovePolicyRulesCommands, FlushLateIfNone DEF Proper, RulesPart
    <3> QED
      BY <3>1, RemovePolicyRulesCommands DEF Removing, Proper, RulesPart, RecoveryPart
  <2>6. Removing(HelperCleanup \o RemovePolicyRules)
    BY <2>4, <2>5, RemovingConcat
  <2>7. Proper(flush) /\ Range(flush) = {Run("flush100")}
    BY CommandTypes, ProperOne DEF Deeds
  <2> HIDE DEF flush
  <2>8. \A c \in Range(flush) : c.do = "flush100"
    BY <2>7, RunFields
  <2>9. Range(HelperCleanup \o RemovePolicyRules) = Range(HelperCleanup) \cup Range(RemovePolicyRules)
    BY <2>4, <2>5, ConcatElements DEF Removing
  <2>10. \A l : FlushLate(l, (HelperCleanup \o RemovePolicyRules) \o flush)
    BY <2>6, <2>7, <2>8, <2>9, RemovePolicyRulesCommands, FlushAfterRules DEF Removing, Proper
  <2>11. Removing((HelperCleanup \o RemovePolicyRules) \o flush)
    <3> DEFINE rest == HelperCleanup \o RemovePolicyRules
    <3>1. rest \in Seq(CommandSet) /\ flush \in Seq(CommandSet) /\ \A c \in Range(rest) : RecoveryPart(c)
      BY <2>6, <2>7 DEF Removing, Proper
    <3>2. \A c \in Range(flush) : RecoveryPart(c)
      BY <2>8 DEF RecoveryPart
    <3> HIDE DEF rest
    <3>3. rest \o flush \in Seq(CommandSet) /\ \A c \in Range(rest \o flush) : RecoveryPart(c)
      BY <3>1, <3>2, ConcatElements
    <3> QED
      BY <2>10, <3>3 DEF Removing, rest
  <2> QED
    BY <1>5, <2>11 DEF Removal, flush
<1>6. CASE r = "table101"
  <2>1. Removing(<<Drop("dns.rule")>>) /\ Removing(<<Drop("dns.route")>>)
    BY <1>2, FixedItems DEF Table100, Table102
  <2>2. Drop("dns.rule") \in CommandSet /\ Drop("dns.route") \in CommandSet
    BY CommandTypes, FixedItems DEF Table100, Table102
  <2>3. <<Drop("dns.rule"), Drop("dns.route")>> \in Seq(CommandSet)
        /\ Range(<<Drop("dns.rule"), Drop("dns.route")>>) = {Drop("dns.rule"), Drop("dns.route")}
    BY <2>2 DEF Range
  <2>4. \A c \in {Drop("dns.rule"), Drop("dns.route")} : c.do = "drop"
    BY DropFields
  <2>5. Removing(<<Drop("dns.rule"), Drop("dns.route")>>)
    BY <2>3, <2>4, FlushLateIfNone DEF Removing, RecoveryPart
  <2> QED
    BY <1>6, <2>5 DEF Removal
<1>7. CASE r = "table102"
  <2>1. \A c \in Range(SplitTeardown) : c.do \in {"drop", "flush102"}
    BY SplitTeardownCommands, DropFields, RunFields
  <2>2. Removing(SplitTeardown)
    BY <2>1, SplitTeardownCommands DEF Removing, Proper, RecoveryPart
  <2> QED
    BY <1>7, <2>2 DEF Removal
<1>8. CASE r \in {"nft.dns", "nft.ks", "nft.split", "split.bpf"}
  <2>1. Removing(<<Drop(r)>>)
    BY <1>2, <1>8, FixedItems DEF Table100, Table102
  <2>2. Removal(r) = <<Drop(r)>>
    BY <1>8 DEF Removal
  <2> QED
    BY <2>1, <2>2
<1> QED
  BY <1>3, <1>4, <1>5, <1>6, <1>7, <1>8

\* Whatever was found, the commands of its removal are such.
LEMMA RemovalCommandsAreRemoving == ASSUME NEW found PROVE Removing(RemovalCommands(found))
<1> DEFINE Found(r) == IF r \in found THEN Removal(r) ELSE <<>>
           Names == {"process", "tun", "table100", "table101", "table102", "nft.dns", "nft.ks", "nft.split", "split.bpf"}
<1>1. Removing(<<>>)
  BY ProperEmpty, FlushLateIfNone DEF Removing, Proper
<1>2. \A r \in Names : Removing(Found(r))
  BY <1>1, RemovalIsRemoving
<1>3. RemovalCommands(found) = Found("process") \o Found("tun") \o Found("table100") \o Found("table101")
         \o Found("table102") \o Found("nft.dns") \o Found("nft.ks") \o Found("nft.split") \o Found("split.bpf")
  BY DEF RemovalCommands
<1>4. /\ Removing(Found("process")) /\ Removing(Found("tun")) /\ Removing(Found("table100"))
      /\ Removing(Found("table101")) /\ Removing(Found("table102")) /\ Removing(Found("nft.dns"))
      /\ Removing(Found("nft.ks")) /\ Removing(Found("nft.split")) /\ Removing(Found("split.bpf"))
  BY <1>2
<1> HIDE DEF Found
<1>5. Removing(Found("process") \o Found("tun") \o Found("table100"))
  BY <1>4, RemovingConcat
<1>6. Removing(Found("process") \o Found("tun") \o Found("table100") \o Found("table101") \o Found("table102"))
  BY <1>4, <1>5, RemovingConcat
<1>7. Removing(Found("process") \o Found("tun") \o Found("table100") \o Found("table101") \o Found("table102")
         \o Found("nft.dns") \o Found("nft.ks"))
  BY <1>4, <1>6, RemovingConcat
<1>8. Removing(Found("process") \o Found("tun") \o Found("table100") \o Found("table101") \o Found("table102")
         \o Found("nft.dns") \o Found("nft.ks") \o Found("nft.split") \o Found("split.bpf"))
  BY <1>4, <1>7, RemovingConcat
<1> QED
  BY <1>3, <1>8

-----------------------------------------------------------------------------
(* The calls of a command.                                                  *)

LEMMA NoCalls == <<>> \in Seq(CallNames) /\ Range(<<>>) = {} /\ Staged(<<>>)
<1>1. <<>> \in Seq(CallNames) /\ Len(<<>>) = 0 /\ DOMAIN <<>> = 1..Len(<<>>)
  BY EmptySeq, LenProperties
<1>2. DOMAIN <<>> = {}
  BY <1>1
<1> QED
  BY <1>1, <1>2 DEF Staged, Range

LEMMA OnlyCalls ==
    ASSUME NEW n \in CallNames, NEW b
    PROVE  /\ Only(n, b) \in Seq(CallNames) /\ Staged(Only(n, b))
           /\ \A m \in Range(Only(n, b)) : m = n /\ b
           /\ b => n \in Range(Only(n, b))
<1>1. CASE b
  <2>1. Only(n, b) = <<n>>
    BY <1>1 DEF Only
  <2>2. <<n>> \in Seq(CallNames) /\ Staged(<<n>>) /\ Range(<<n>>) = {n}
    BY DEF Staged, Range
  <2> QED
    BY <1>1, <2>1, <2>2
<1>2. CASE ~b
  <2>1. Only(n, b) = <<>>
    BY <1>2 DEF Only
  <2> QED
    BY <1>2, <2>1, NoCalls
<1> QED
  BY <1>1, <1>2

\* The calls that stop the data plane.
LEMMA StopCallsShape ==
    ASSUME NEW keepSplit
    PROVE  /\ StopCalls(keepSplit) \in Seq(CallNames)
           /\ {"dns-down", "route-down", "terminate"} \subseteq Range(StopCalls(keepSplit))
           /\ Range(StopCalls(keepSplit)) \subseteq {"split-down", "dns-down", "route-down", "terminate"}
           /\ keepSplit => "split-down" \notin Range(StopCalls(keepSplit)) /\ Staged(StopCalls(keepSplit))
<1> DEFINE three == <<"dns-down", "route-down", "terminate">>
           split == Only("split-down", HasSplit /\ ~keepSplit)
<1>1. three \in Seq(CallNames) /\ Range(three) = {"dns-down", "route-down", "terminate"} /\ Staged(three)
  BY DEF CallNames, Early, Range, Staged, CallStage
<1>2. split \in Seq(CallNames) /\ (\A m \in Range(split) : m = "split-down" /\ ~keepSplit) /\ Staged(split)
  BY OnlyCalls DEF CallNames, SplitNames
<1>3. StopCalls(keepSplit) = split \o three
  BY DEF StopCalls
<1> HIDE DEF three, split
<1>4. split \o three \in Seq(CallNames) /\ Range(split \o three) = Range(split) \cup Range(three)
  BY <1>1, <1>2, ConcatElements
<1>5. keepSplit => Staged(split \o three)
  BY <1>1, <1>2, StagedConcat
<1> QED
  BY <1>1, <1>2, <1>3, <1>4, <1>5

\* The calls of a connect come in their order, the block first.
LEMMA ConnectCallsShape ==
    ASSUME NEW r
    PROVE  /\ ConnectCalls(r) \in Seq(CallNames) /\ Staged(ConnectCalls(r))
           /\ {"killswitch-up", "route-up", "dns-up"} \subseteq Range(ConnectCalls(r))
           /\ phase = "up" => {"dns-down", "route-down"} \subseteq Range(ConnectCalls(r))
           /\ "killswitch-down" \in Range(ConnectCalls(r)) <=> ~r.ks
<1> DEFINE block == <<"killswitch-up">>
           stop == (IF phase = "up" THEN StopCalls(TRUE) ELSE <<>>)
           start == <<"start", "route-up">>
           down == Only("split-down", HasSplit /\ r.split # req.split)
           up == Only("split-up", r.split # 0 /\ ~(HasSplit /\ r.split = req.split))
           refresh == Only("split-refresh", HasSplit /\ r.split = req.split)
           dns == <<"dns-up">>
           unblock == Only("killswitch-down", ~r.ks)
<1>1. block \in Seq(CallNames) /\ Staged(block) /\ Range(block) = {"killswitch-up"}
  BY DEF CallNames, Early, Staged, Range
<1>2. stop \in Seq(CallNames) /\ Staged(stop) /\ Range(stop) \subseteq {"dns-down", "route-down", "terminate"}
      /\ (phase = "up" => {"dns-down", "route-down"} \subseteq Range(stop))
  <2>1. CASE phase = "up"
    BY <2>1, StopCallsShape
  <2>2. CASE phase # "up"
    BY <2>2, NoCalls
  <2> QED
    BY <2>1, <2>2
<1>3. start \in Seq(CallNames) /\ Staged(start) /\ Range(start) = {"start", "route-up"}
  BY DEF CallNames, Early, Staged, Range, CallStage
<1>4. /\ down \in Seq(CallNames) /\ Staged(down) /\ Range(down) \subseteq {"split-down"}
      /\ up \in Seq(CallNames) /\ Staged(up) /\ Range(up) \subseteq {"split-up"}
      /\ refresh \in Seq(CallNames) /\ Staged(refresh) /\ Range(refresh) \subseteq {"split-refresh"}
  BY OnlyCalls DEF CallNames, SplitNames
<1>5. dns \in Seq(CallNames) /\ Staged(dns) /\ Range(dns) = {"dns-up"}
  BY DEF CallNames, Staged, Range
<1>6. unblock \in Seq(CallNames) /\ Staged(unblock) /\ Range(unblock) \subseteq {"killswitch-down"}
      /\ ("killswitch-down" \in Range(unblock) <=> ~r.ks)
  BY OnlyCalls DEF CallNames
<1>7. ConnectCalls(r) = block \o stop \o start \o (down \o up \o refresh) \o dns \o unblock
  BY DEF ConnectCalls, SplitCalls
<1> HIDE DEF block, stop, start, down, up, refresh, dns, unblock
<1> DEFINE Joined(s) == s \in Seq(CallNames) /\ Staged(s)
<1>8. ASSUME NEW s, NEW t, Joined(s), Joined(t), \A x \in Range(s), y \in Range(t) : CallStage(x) < CallStage(y)
      PROVE  Joined(s \o t) /\ Range(s \o t) = Range(s) \cup Range(t)
  BY <1>8, ConcatElements, StagedConcat
<1>9. Joined(down \o up) /\ Range(down \o up) \subseteq {"split-down", "split-up"}
  <2>1. \A x \in Range(down), y \in Range(up) : CallStage(x) < CallStage(y)
    BY <1>4 DEF CallStage
  <2> QED
    BY <1>4, <1>8, <2>1
<1>10. Joined(down \o up \o refresh) /\ Range(down \o up \o refresh) \subseteq SplitNames
  <2>1. \A x \in Range(down \o up), y \in Range(refresh) : CallStage(x) < CallStage(y)
    BY <1>4, <1>9 DEF CallStage
  <2>2. Joined(down \o up \o refresh) /\ Range(down \o up \o refresh) = Range(down \o up) \cup Range(refresh)
    BY <1>4, <1>8, <1>9, <2>1
  <2> QED
    BY <1>4, <1>9, <2>2 DEF SplitNames
<1> DEFINE split == down \o up \o refresh
<1> HIDE DEF split
<1>11. /\ \A x \in Range(block) : CallStage(x) \in 1..1
       /\ \A x \in Range(stop) : CallStage(x) \in 2..4
       /\ \A x \in Range(start) : CallStage(x) \in 5..6
       /\ \A x \in Range(split) : CallStage(x) \in 7..9
       /\ \A x \in Range(dns) : CallStage(x) = 10
       /\ \A x \in Range(unblock) : CallStage(x) = 11
  <2>1. \A x \in Range(block) : CallStage(x) \in 1..1
    BY <1>1 DEF CallStage
  <2>2. \A x \in Range(stop) : CallStage(x) \in 2..4
    BY <1>2 DEF CallStage
  <2>3. \A x \in Range(start) : CallStage(x) \in 5..6
    BY <1>3 DEF CallStage
  <2>4. \A x \in Range(split) : CallStage(x) \in 7..9
    BY <1>10 DEF CallStage, SplitNames, split
  <2>5. \A x \in Range(dns) : CallStage(x) = 10
    BY <1>5 DEF CallStage
  <2>6. \A x \in Range(unblock) : CallStage(x) = 11
    BY <1>6 DEF CallStage
  <2> QED
    BY <2>1, <2>2, <2>3, <2>4, <2>5, <2>6
<1>12. Joined(block) /\ Joined(stop) /\ Joined(start) /\ Joined(split) /\ Joined(dns) /\ Joined(unblock)
  BY <1>1, <1>2, <1>3, <1>5, <1>6, <1>10 DEF split
<1> HIDE DEF Joined
<1> DEFINE s2 == block \o stop
           s3 == s2 \o start
           s4 == s3 \o split
           s5 == s4 \o dns
           s6 == s5 \o unblock
<1> HIDE DEF s2, s3, s4, s5, s6
<1>13. Joined(s2) /\ Range(s2) = Range(block) \cup Range(stop) /\ \A x \in Range(s2) : CallStage(x) \in 1..4
  <2>1. \A x \in Range(block), y \in Range(stop) : CallStage(x) < CallStage(y)
    BY <1>11
  <2>2. Joined(s2) /\ Range(s2) = Range(block) \cup Range(stop)
    BY <1>8, <1>12, <2>1 DEF s2
  <2> QED
    BY <1>11, <2>2
<1>14. Joined(s3) /\ Range(s3) = Range(s2) \cup Range(start) /\ \A x \in Range(s3) : CallStage(x) \in 1..6
  <2>1. \A x \in Range(s2), y \in Range(start) : CallStage(x) < CallStage(y)
    BY <1>11, <1>13
  <2>2. Joined(s3) /\ Range(s3) = Range(s2) \cup Range(start)
    BY <1>8, <1>12, <1>13, <2>1 DEF s3
  <2> QED
    BY <1>11, <1>13, <2>2
<1>15. Joined(s4) /\ Range(s4) = Range(s3) \cup Range(split) /\ \A x \in Range(s4) : CallStage(x) \in 1..9
  <2>1. \A x \in Range(s3), y \in Range(split) : CallStage(x) < CallStage(y)
    BY <1>11, <1>14
  <2>2. Joined(s4) /\ Range(s4) = Range(s3) \cup Range(split)
    BY <1>8, <1>12, <1>14, <2>1 DEF s4
  <2> QED
    BY <1>11, <1>14, <2>2
<1>16. Joined(s5) /\ Range(s5) = Range(s4) \cup Range(dns) /\ \A x \in Range(s5) : CallStage(x) \in 1..10
  <2>1. \A x \in Range(s4), y \in Range(dns) : CallStage(x) < CallStage(y)
    BY <1>11, <1>15
  <2>2. Joined(s5) /\ Range(s5) = Range(s4) \cup Range(dns)
    BY <1>8, <1>12, <1>15, <2>1 DEF s5
  <2> QED
    BY <1>11, <1>15, <2>2
<1>17. Joined(s6) /\ Range(s6) = Range(s5) \cup Range(unblock) /\ \A x \in Range(s6) : CallStage(x) \in 1..11
  <2>1. \A x \in Range(s5), y \in Range(unblock) : CallStage(x) < CallStage(y)
    BY <1>11, <1>16
  <2>2. Joined(s6) /\ Range(s6) = Range(s5) \cup Range(unblock)
    BY <1>8, <1>12, <1>16, <2>1 DEF s6
  <2> QED
    BY <1>11, <1>16, <2>2
<1>18. Range(ConnectCalls(r)) =
         Range(block) \cup Range(stop) \cup Range(start) \cup Range(split) \cup Range(dns) \cup Range(unblock)
  BY <1>7, <1>13, <1>14, <1>15, <1>16, <1>17 DEF split, s6, s5, s4, s3, s2
<1>19. "killswitch-down" \notin Range(block) \cup Range(stop) \cup Range(start) \cup Range(split) \cup Range(dns)
  BY <1>1, <1>2, <1>3, <1>5, <1>10 DEF SplitNames, split
<1>20. ConnectCalls(r) \in Seq(CallNames) /\ Staged(ConnectCalls(r))
  BY <1>7, <1>17 DEF split, s6, s5, s4, s3, s2, Joined
<1>21. {"killswitch-up", "route-up", "dns-up"} \subseteq Range(ConnectCalls(r))
  BY <1>1, <1>3, <1>5, <1>18
<1>22. phase = "up" => {"dns-down", "route-down"} \subseteq Range(ConnectCalls(r))
  BY <1>2, <1>18
<1>23. "killswitch-down" \in Range(ConnectCalls(r)) <=> ~r.ks
  BY <1>6, <1>18, <1>19
<1> QED
  BY <1>20, <1>21, <1>22, <1>23

-----------------------------------------------------------------------------
(* What a step does.                                                        *)

HostSet ==
    [laid : SUBSET Items, tun : {"none", "xray", "kept"}, xray : BOOLEAN, rp : {"orig", "loose"},
     rpFile : {"none", "orig", "loose"}, pinned : SUBSET (Pins4 \cup Pins6),
     own : SUBSET Makings, left : BOOLEAN]

\* What is laid after Xray ended: without the routes through a device it made.
LEMMA XrayEnds ==
    ASSUME NEW h \in HostSet
    PROVE  /\ WithoutXray(h) \in HostSet /\ WithoutDevice(h) \in HostSet
           /\ ~WithoutXray(h).xray /\ WithoutDevice(h).xray = h.xray
           /\ WithoutXray(h).laid \in {h.laid, h.laid \ ThroughTun} /\ WithoutDevice(h).laid = h.laid \ ThroughTun
           /\ WithoutXray(h).rp = h.rp /\ WithoutXray(h).rpFile = h.rpFile
           /\ WithoutDevice(h).rp = h.rp /\ WithoutDevice(h).rpFile = h.rpFile
           /\ WithoutXray(h).left = h.left /\ WithoutDevice(h).left = h.left
           /\ (h.tun = WithoutXray(h).tun => WithoutXray(h).laid = h.laid)
BY DEF WithoutXray, WithoutDevice, HostSet

\* The daemon forgets the mode and the Xray it has ended.
LEMMA KillFields ==
    ASSUME NEW c \in CommandSet, NEW h \in HostSet, c.do = "kill"
    PROVE  LET x == WithoutXray(h) IN
           /\ After(c, h) = [x EXCEPT !.own = @ \ {"mode", "xray"}] /\ After(c, h) \in HostSet
           /\ After(c, h).laid = x.laid /\ After(c, h).xray = x.xray /\ After(c, h).left = x.left
           /\ After(c, h).rp = x.rp /\ After(c, h).rpFile = x.rpFile
<1>1. PICK x \in HostSet : x = WithoutXray(h)
  BY XrayEnds
<1>2. After(c, h) = [x EXCEPT !.own = @ \ {"mode", "xray"}]
  BY <1>1 DEF After
<1>3. LET y == [x EXCEPT !.own = @ \ {"mode", "xray"}] IN
      /\ y \in HostSet /\ y.laid = x.laid /\ y.xray = x.xray /\ y.left = x.left /\ y.rp = x.rp /\ y.rpFile = x.rpFile
  BY DEF HostSet
<1> QED
  BY <1>1, <1>2, <1>3

\* Every command leaves a host behind.
LEMMA AfterType == ASSUME NEW c \in CommandSet, NEW h \in HostSet PROVE After(c, h) \in HostSet
<1> USE DEF HostSet, Without
<1>1. CASE c.do = "lay"
  BY <1>1 DEF After, CommandSet
<1>2. CASE c.do = "block"
  BY <1>2, FixedItems DEF After, CommandSet, Block
<1>3. CASE c.do = "drop"
  BY <1>3 DEF After
<1>4. CASE c.do = "tuntap"
  BY <1>4 DEF After
<1>5. CASE c.do \in {"link_up", "probe", "verify"}
  BY <1>5 DEF After
<1>6. CASE c.do = "loosen"
  BY <1>6 DEF After, Loosen
<1>7. CASE c.do = "restore"
  BY <1>7 DEF After, Restore
<1>8. CASE c.do = "record4"
  BY <1>8 DEF After
<1>9. CASE c.do = "record6"
  BY <1>9 DEF After
<1>10. CASE c.do = "unpin4"
  BY <1>10 DEF After, Unpin
<1>11. CASE c.do = "unpin6"
  BY <1>11 DEF After, Unpin
<1>12. CASE c.do = "drop_bypass_rules"
  BY <1>12 DEF After
<1>13. CASE c.do \in {"routed", "unrouted"}
  BY <1>13 DEF After, Makings
<1>14. CASE c.do = "flush100"
  BY <1>14 DEF After
<1>15. CASE c.do = "flush102"
  BY <1>15 DEF After
<1>16. CASE c.do = "delete_tun"
  BY <1>16, XrayEnds DEF After
<1>17. CASE c.do = "start"
  BY <1>17 DEF After, Start, Makings
<1>18. CASE c.do = "kill"
  BY <1>18, KillFields
<1>19. c.do \in Deeds
  BY DEF CommandSet
<1> QED
  BY <1>1, <1>2, <1>3, <1>4, <1>5, <1>6, <1>7, <1>8, <1>9, <1>10, <1>11, <1>12, <1>13, <1>14, <1>15, <1>16, <1>17,
     <1>18, <1>19 DEF Deeds

\* What a command lays and removes.
LEMMA AfterLaid ==
    ASSUME NEW c \in CommandSet, NEW h \in HostSet
    PROVE  /\ c.do = "lay" => After(c, h).laid = h.laid \cup {c.what}
           /\ c.do = "drop" =>
                 After(c, h).laid = h.laid \ ({c.what} \cup (IF c.what = "nft.ks" THEN {"ks.lan"} ELSE {}))
           /\ c.do = "block" => After(c, h).laid = (h.laid \ {"ks.lan"}) \cup {"nft.ks"} \cup ({c.what} \ {""})
           /\ c.do = "unpin4" => After(c, h).laid \subseteq h.laid /\ h.laid \ Pins4 \subseteq After(c, h).laid
           /\ c.do = "unpin6" => After(c, h).laid \subseteq h.laid /\ h.laid \ Pins6 \subseteq After(c, h).laid
           /\ c.do = "drop_bypass_rules" => After(c, h).laid = h.laid \ {"rule4.bypass", "split.rule"}
           /\ c.do = "flush100" => After(c, h).laid = h.laid \ Table100
           /\ c.do = "flush102" => After(c, h).laid = h.laid \ Table102
           /\ c.do \in {"delete_tun", "kill"} =>
                 After(c, h).laid \subseteq h.laid /\ h.laid \ ThroughTun \subseteq After(c, h).laid
           /\ c.do \notin {"lay", "drop", "block", "unpin4", "unpin6", "drop_bypass_rules", "flush100", "flush102",
                           "delete_tun", "kill"} => After(c, h).laid = h.laid
<1> USE DEF HostSet, Without
<1>1. CASE c.do = "lay"
  BY <1>1 DEF After
<1>2. CASE c.do = "block"
  BY <1>2 DEF After, Block
<1>3. CASE c.do = "drop"
  BY <1>3 DEF After
<1>4. CASE c.do \in {"tuntap", "link_up", "probe", "verify", "record4", "record6", "routed", "unrouted", "start"}
  BY <1>4 DEF After, Start
<1>5. CASE c.do \in {"loosen", "restore"}
  BY <1>5 DEF After, Loosen, Restore
<1>6. CASE c.do \in {"unpin4", "unpin6"}
  BY <1>6 DEF After, Unpin
<1>7. CASE c.do \in {"drop_bypass_rules", "flush100", "flush102"}
  BY <1>7 DEF After
<1>8. CASE c.do \in {"delete_tun", "kill"}
  <2>1. After(c, h).laid \in {WithoutDevice(h).laid, WithoutXray(h).laid}
    BY <1>8, KillFields DEF After
  <2> QED
    BY <1>8, <2>1, XrayEnds
<1>9. c.do \in Deeds
  BY DEF CommandSet
<1> QED
  BY <1>1, <1>2, <1>3, <1>4, <1>5, <1>6, <1>7, <1>8, <1>9 DEF Deeds

\* What a command does to Xray and to rp_filter.
LEMMA AfterRest ==
    ASSUME NEW c \in CommandSet, NEW h \in HostSet
    PROVE  /\ c.do = "kill" => ~After(c, h).xray
           /\ c.do \notin {"kill", "start"} => After(c, h).xray = h.xray
           /\ c.do = "loosen" => After(c, h).rp = "loose" /\ After(c, h).rpFile = h.rp
           /\ c.do = "restore" => After(c, h).rpFile = "none"
                                  /\ After(c, h).rp = (IF h.rpFile = "none" THEN h.rp ELSE h.rpFile)
           /\ c.do \notin {"loosen", "restore"} => After(c, h).rp = h.rp /\ After(c, h).rpFile = h.rpFile
           /\ After(c, h).left = h.left
<1> USE DEF HostSet, Without
<1>1. CASE c.do \in {"lay", "drop", "tuntap", "link_up", "probe", "verify", "record4", "record6", "routed", "unrouted",
                     "start", "drop_bypass_rules", "flush100", "flush102"}
  BY <1>1 DEF After, Start
<1>2. CASE c.do \in {"block", "loosen", "restore"}
  BY <1>2 DEF After, Block, Loosen, Restore
<1>3. CASE c.do \in {"unpin4", "unpin6"}
  BY <1>3 DEF After, Unpin
<1>4. CASE c.do = "delete_tun"
  BY <1>4, XrayEnds DEF After
<1>5. CASE c.do = "kill"
  BY <1>5, XrayEnds, KillFields
<1>6. c.do \in Deeds
  BY DEF CommandSet
<1> QED
  BY <1>1, <1>2, <1>3, <1>4, <1>5, <1>6 DEF Deeds

\* The command a step runs, and what is still ahead after it.
LEMMA StepRuns ==
    ASSUME Typed, Step
    PROVE  /\ Head(cmds) \in CommandSet /\ Head(cmds) \in Range(cmds) /\ cmds # <<>>
           /\ cmds' \in Seq(CommandSet) /\ cmds' = Tail(cmds)
           /\ host \in HostSet /\ host' \in HostSet /\ host' = After(Head(cmds), host) /\ host'.left = host.left
           /\ Range(cmds') \subseteq Range(cmds)
           /\ \A x \in Range(cmds) : x = Head(cmds) \/ x \in Range(cmds')
           /\ UNCHANGED <<phase, request, calls, saved, crashes, refusals>>
<1>1. cmds \in Seq(CommandSet) /\ cmds # <<>> /\ cmds' = Tail(cmds) /\ host' = After(Head(cmds), host)
      /\ host \in HostSet
  BY DEF Typed, TypeOK, Step, HostSet
<1>2. Head(cmds) \in CommandSet /\ Tail(cmds) \in Seq(CommandSet) /\ Head(cmds) \in Range(cmds)
      /\ Range(Tail(cmds)) \subseteq Range(cmds)
      /\ \A x \in Range(cmds) : x = Head(cmds) \/ x \in Range(Tail(cmds))
  BY <1>1, HeadAndTail
<1>3. host' \in HostSet /\ host'.left = host.left
  BY <1>1, <1>2, AfterType, AfterRest
<1> QED
  BY <1>1, <1>2, <1>3 DEF Step

\* What stays ahead.
LEMMA StepAhead ==
    ASSUME Typed, Step
    PROVE  /\ \A i : LaysIn(cmds', i) => LaysIn(cmds, i)
           /\ \A i : LaysIn(cmds, i) => LaysIn(cmds', i) \/ (Head(cmds).do = "lay" /\ Head(cmds).what = i)
           /\ \A i : DropsIn(cmds', i) => DropsIn(cmds, i)
           /\ \A i : DropsIn(cmds, i) => DropsIn(cmds', i) \/ (Head(cmds).do = "drop" /\ Head(cmds).what = i)
           /\ \A d : DoesIn(cmds', d) => DoesIn(cmds, d)
           /\ \A d : DoesIn(cmds, d) => DoesIn(cmds', d) \/ Head(cmds).do = d
           /\ Head(cmds).do = "lay" => LaysIn(cmds, Head(cmds).what)
           /\ Head(cmds).do = "drop" => DropsIn(cmds, Head(cmds).what)
           /\ DoesIn(cmds, Head(cmds).do)
BY StepRuns DEF LaysIn, DropsIn, DoesIn

\* What is still ahead does not precede the command that was run.
LEMMA StepOrder ==
    ASSUME Typed, Step, Ordered(cmds)
    PROVE  /\ Ordered(cmds')
           /\ \A x \in Range(cmds') : ~Precedes(x, Head(cmds))
<1>1. cmds \in Seq(CommandSet) /\ cmds # <<>>
  BY StepRuns DEF Typed
<1>2. /\ cmds' = Tail(cmds) /\ Len(cmds) \in Nat \ {0} /\ Len(Tail(cmds)) = Len(cmds) - 1
      /\ DOMAIN cmds = 1..Len(cmds) /\ DOMAIN Tail(cmds) = 1..Len(Tail(cmds)) /\ Head(cmds) = cmds[1]
      /\ \A k \in 1..Len(Tail(cmds)) : Tail(cmds)[k] = cmds[k + 1]
  BY <1>1, StepRuns, HeadTailProperties, LenProperties, EmptySeq
<1>3. Ordered(cmds')
  <2> SUFFICES ASSUME NEW i \in DOMAIN cmds', NEW j \in DOMAIN cmds', i < j PROVE ~Precedes(cmds'[j], cmds'[i])
    BY DEF Ordered
  <2>1. i + 1 \in DOMAIN cmds /\ j + 1 \in DOMAIN cmds /\ i + 1 < j + 1 /\ cmds'[i] = cmds[i + 1] /\ cmds'[j] = cmds[j + 1]
    BY <1>2
  <2> QED
    BY <2>1 DEF Ordered
<1>4. ASSUME NEW x \in Range(cmds') PROVE ~Precedes(x, Head(cmds))
  <2>1. PICK k \in DOMAIN cmds' : x = cmds'[k]
    BY DEF Range
  <2>2. 1 \in DOMAIN cmds /\ k + 1 \in DOMAIN cmds /\ 1 < k + 1 /\ x = cmds[k + 1]
    BY <1>2, <2>1
  <2> QED
    BY <1>2, <2>2 DEF Ordered
<1> QED
  BY <1>3, <1>4

LEMMA StepOrderByName ==
    ASSUME Typed, Step, Ordered(cmds), NEW c, c = Head(cmds)
    PROVE  /\ c.do = "lay" /\ c.what \in {"low", "high"} =>
                 ~DropsIn(cmds', "rule4.bypass") /\ \A i \in Footing : ~LaysIn(cmds', i)
           /\ c.do = "lay" => ~DropsIn(cmds', c.what) /\ \A i : <<c.what, i>> \in Thrown => ~LaysIn(cmds', i)
           /\ c.do \in {"drop_bypass_rules", "flush100", "unpin4"} => ~DropsIn(cmds', "low") /\ ~DropsIn(cmds', "high")
           /\ c.do = "lay" /\ c.what \in Table102 \cup {"split.rule"} => ~DoesIn(cmds', "flush102")
           /\ c.do \in {"block", "verify"} => ~DoesIn(cmds', "block")
           /\ c.do = "loosen" => ~DoesIn(cmds', "loosen")
           /\ c.do = "drop" /\ c.what = "nft.ks" => ~DropsIn(cmds', "nft.ks")
BY StepOrder DEF Precedes, DropsIn, LaysIn, DoesIn

\* Where the daemon is at work, the commands ahead are those of one call.
LEMMA OneCall ==
    ASSUME Typed, Shape, Attended, cmds # <<>>
    PROVE  \E name \in CallNames : \A c \in Range(cmds) : Part(name, c)
<1>1. phase \in {"working", "editing", "stopping"}
  BY DEF Typed, TypeOK, Phases, Shape, RestShape, Attended, Idle
<1>2. CASE phase = "working"
  BY <1>2 DEF Shape, WorkingShape, WorkShape, Ahead
<1>3. CASE phase = "editing"
  <2>1. \A c \in Range(cmds) : Part("split-up", c)
    BY <1>3 DEF Shape, EditingShape, Part, Ahead
  <2> QED
    BY <2>1 DEF CallNames, SplitNames
<1>4. CASE phase = "stopping"
  BY <1>4 DEF Shape, StoppingShape, StopNames, CallNames, Early, SplitNames, Ahead
<1> QED
  BY <1>1, <1>2, <1>3, <1>4

\* Which call a command belongs to.
LaidByRouteUp == ThroughTun \cup Blackholes \cup Rules4 \cup Rules6 \cup Table100 \cup Pins4 \cup Pins6 \cup {"dns.rule"}
DroppedByRouteDown == {"low", "high", "dns.route", "black.low", "black.high"}
RunByRouteDown == {"unpin6", "drop_bypass_rules", "flush100", "unpin4", "restore"}
LEMMA PartOfCommand ==
    ASSUME NEW name \in CallNames, NEW c, Part(name, c)
    PROVE  /\ c.do = "lay" /\ c.what \in LaidByRouteUp => name = "route-up"
           /\ c.do = "lay" /\ c.what \in Table102 \cup {"split.rule"} => name \in {"split-up", "split-refresh"}
           /\ c.do = "lay" /\ c.what = "nft.dns" => name = "dns-up"
           /\ c.do = "lay" => c.what \notin {"nft.ks", "ks.lan"}
           /\ c.do = "drop" /\ c.what = "rule4.bypass" => name = "route-up"
           /\ c.do = "drop" /\ c.what = "dns.rule" => name \in {"route-up", "route-down"}
           /\ c.do = "drop" /\ c.what \in DroppedByRouteDown => name = "route-down"
           /\ c.do = "drop" /\ c.what = "nft.dns" => name = "dns-down"
           /\ c.do = "drop" /\ c.what = "nft.ks" => name = "killswitch-down"
           /\ c.do \in RunByRouteDown => name = "route-down"
           /\ c.do = "flush102" => name \in SplitNames
           /\ c.do = "kill" => name = "terminate"
           /\ c.do = "start" => name = "start"
           /\ c.do \in {"block", "verify"} => name = "killswitch-up"
           /\ c.do = "loosen" => name = "route-up"
           /\ c.do # "delete_tun"
<1> USE DEF Part, RouteUpPart, RouteDownPart, SplitPart, CallNames, Early, SplitNames
<1>1. c.do = "lay" /\ c.what \in LaidByRouteUp => name = "route-up"
  <2>1. \A i \in LaidByRouteUp : i \notin {"split.rule", "split.bpf", "nft.split", "nft.dns"} \cup Table102
    BY FixedItems DEF LaidByRouteUp, ThroughTun, Blackholes, Rules4, Rules6, Table100, Table102
  <2> QED
    BY <2>1
<1>2. c.do = "lay" /\ c.what \in Table102 \cup {"split.rule"} => name \in {"split-up", "split-refresh"}
  <2>1. \A i \in Table102 \cup {"split.rule"} : i \notin LaidByRouteUp /\ i # "nft.dns"
    BY FixedItems DEF LaidByRouteUp, ThroughTun, Blackholes, Rules4, Rules6, Table100, Table102
  <2> QED
    BY <2>1 DEF LaidByRouteUp
<1>3. c.do = "lay" /\ c.what = "nft.dns" => name = "dns-up"
  BY FixedItems DEF ThroughTun, Blackholes, Rules4, Rules6, Table100, Table102
<1>4. c.do = "lay" => c.what \notin {"nft.ks", "ks.lan"}
  BY FixedItems DEF ThroughTun, Blackholes, Rules4, Rules6, Table100, Table102
<1>5. c.do = "drop" /\ c.what = "rule4.bypass" => name = "route-up"
  BY DEF Blackholes
<1>6. c.do = "drop" /\ c.what = "dns.rule" => name \in {"route-up", "route-down"}
  OBVIOUS
<1>7. c.do = "drop" /\ c.what \in DroppedByRouteDown => name = "route-down"
  BY DEF DroppedByRouteDown, Rules4, Rules6
<1>8. c.do = "drop" /\ c.what = "nft.dns" => name = "dns-down"
  BY DEF Rules4, Rules6, Blackholes
<1>9. c.do = "drop" /\ c.what = "nft.ks" => name = "killswitch-down"
  BY DEF Rules4, Rules6, Blackholes
<1>10. c.do \in RunByRouteDown => name = "route-down"
  BY DEF RunByRouteDown
<1>11. c.do = "flush102" => name \in SplitNames
  OBVIOUS
<1>12. c.do = "kill" => name = "terminate"
  OBVIOUS
<1>13. c.do = "start" => name = "start"
  OBVIOUS
<1>14. c.do \in {"block", "verify"} => name = "killswitch-up"
  OBVIOUS
<1>15. c.do = "loosen" => name = "route-up"
  OBVIOUS
<1>16. c.do # "delete_tun"
  OBVIOUS
<1> QED
  BY <1>1, <1>2, <1>3, <1>4, <1>5, <1>6, <1>7, <1>8, <1>9, <1>10, <1>11, <1>12, <1>13, <1>14, <1>15, <1>16

\* What the commands of one call say together.
LEMMA PartByName ==
    ASSUME NEW s, NEW name \in CallNames, \A c \in Range(s) : Part(name, c)
    PROVE  /\ \A i \in LaidByRouteUp : LaysIn(s, i) => name = "route-up"
           /\ \A i \in Table102 \cup {"split.rule"} : LaysIn(s, i) => name \in {"split-up", "split-refresh"}
           /\ LaysIn(s, "nft.dns") => name = "dns-up"
           /\ DropsIn(s, "rule4.bypass") => name = "route-up"
           /\ DropsIn(s, "dns.rule") => name \in {"route-up", "route-down"}
           /\ \A i \in DroppedByRouteDown : DropsIn(s, i) => name = "route-down"
           /\ DropsIn(s, "nft.dns") => name = "dns-down"
           /\ DropsIn(s, "nft.ks") => name = "killswitch-down"
           /\ \A d \in RunByRouteDown : DoesIn(s, d) => name = "route-down"
           /\ DoesIn(s, "flush102") => name \in SplitNames
           /\ DoesIn(s, "block") \/ DoesIn(s, "verify") => name = "killswitch-up"
           /\ DoesIn(s, "loosen") => name = "route-up"
BY PartOfCommand DEF LaysIn, DropsIn, DoesIn

\* What a step lays, and the only ways in which something goes.
Goes(c, i) ==
    \/ c.do = "drop" /\ (c.what = i \/ (c.what = "nft.ks" /\ i = "ks.lan"))
    \/ c.do = "block" /\ i = "ks.lan"
    \/ c.do = "unpin4" /\ i \in Pins4
    \/ c.do = "unpin6" /\ i \in Pins6
    \/ c.do = "drop_bypass_rules" /\ i \in {"rule4.bypass", "split.rule"}
    \/ c.do = "flush100" /\ i \in Table100
    \/ c.do = "flush102" /\ i \in Table102
    \/ c.do \in {"delete_tun", "kill"} /\ i \in ThroughTun
LEMMA StepLaid ==
    ASSUME Typed, Step, NEW c, c = Head(cmds)
    PROVE  /\ \A i : i \in host'.laid =>
                 i \in host.laid \/ (c.do = "lay" /\ c.what = i) \/ (c.do = "block" /\ i \in {"nft.ks", "ks.lan"})
           /\ \A i : i \in host.laid => i \in host'.laid \/ Goes(c, i)
           /\ c.do = "lay" => c.what \in host'.laid
           /\ c.do = "block" => "nft.ks" \in host'.laid
           /\ \A i : c.do = "drop" /\ c.what = i => i \notin host'.laid
           /\ \A i : c.do = "drop_bypass_rules" /\ i \in {"rule4.bypass", "split.rule"} => i \notin host'.laid
<1>1. c \in CommandSet /\ host \in HostSet /\ host' = After(c, host)
  BY StepRuns
<1>2. c.do \in Deeds /\ (c.do = "block" => c.what \in {"", "ks.lan"})
  BY <1>1 DEF CommandSet
<1>3. CASE c.do = "lay"
  <2>1. host'.laid = host.laid \cup {c.what}
    BY <1>1, <1>3, AfterLaid
  <2> QED
    BY <1>3, <2>1
<1>4. CASE c.do = "drop"
  <2>1. host'.laid = host.laid \ ({c.what} \cup (IF c.what = "nft.ks" THEN {"ks.lan"} ELSE {}))
    BY <1>1, <1>4, AfterLaid
  <2> QED
    BY <1>4, <2>1 DEF Goes
<1>5. CASE c.do = "block"
  <2>1. host'.laid = (host.laid \ {"ks.lan"}) \cup {"nft.ks"} \cup ({c.what} \ {""})
    BY <1>1, <1>5, AfterLaid
  <2> QED
    BY <1>2, <1>5, <2>1 DEF Goes
<1>6. CASE c.do \in {"unpin4", "unpin6"}
  <2>1. host'.laid \subseteq host.laid
    BY <1>1, <1>6, AfterLaid
  <2>2. host.laid \ (IF c.do = "unpin4" THEN Pins4 ELSE Pins6) \subseteq host'.laid
    BY <1>1, <1>6, AfterLaid
  <2> QED
    BY <1>6, <2>1, <2>2 DEF Goes
<1>7. CASE c.do = "drop_bypass_rules"
  <2>1. host'.laid = host.laid \ {"rule4.bypass", "split.rule"}
    BY <1>1, <1>7, AfterLaid
  <2> QED
    BY <1>7, <2>1 DEF Goes
<1>8. CASE c.do \in {"flush100", "flush102"}
  <2>1. c.do = "flush100" => host'.laid = host.laid \ Table100
    BY <1>1, AfterLaid
  <2>2. c.do = "flush102" => host'.laid = host.laid \ Table102
    BY <1>1, AfterLaid
  <2> QED
    BY <1>8, <2>1, <2>2 DEF Goes
<1>9. CASE c.do \in {"delete_tun", "kill"}
  <2>1. host'.laid \subseteq host.laid /\ host.laid \ ThroughTun \subseteq host'.laid
    BY <1>1, <1>9, AfterLaid
  <2> QED
    BY <1>9, <2>1 DEF Goes
<1>10. CASE c.do \notin {"lay", "drop", "block", "unpin4", "unpin6", "drop_bypass_rules", "flush100", "flush102",
                        "delete_tun", "kill"}
  <2>1. host'.laid = host.laid
    BY <1>1, <1>10, AfterLaid
  <2> QED
    BY <1>10, <2>1
<1> QED
  BY <1>3, <1>4, <1>5, <1>6, <1>7, <1>8, <1>9, <1>10

\* The kinds of items, apart.
LEMMA Kinds ==
    /\ \A i \in Pins4 : i \notin Fixed /\ i \notin Pins6
    /\ \A i \in Footing : i \in Pins4 \/ i \in {"rule4.bypass", "phys.default"}
    /\ "low" \notin Footing /\ "high" \notin Footing
    /\ {"low", "high", "dns.rule", "dns.route", "black.low", "black.high", "rule4.bypass", "phys.default"} \subseteq LaidByRouteUp
    /\ Pins4 \subseteq LaidByRouteUp
BY FixedItems DEF Footing, LaidByRouteUp, ThroughTun, Blackholes, Rules4, Rules6, Table100

\* A step keeps the footing under the default routes.
LEMMA StepRouteInv == ASSUME Typed, Shape, RouteInv, Step PROVE RouteInv'
<1> DEFINE c == Head(cmds)
<1>1. c \in CommandSet /\ phase' = phase /\ calls' = calls /\ cmds # <<>>
  BY StepRuns DEF request
<1>2. c.do = "drop" => c.what \in Fixed \ (Table100 \cup Table102)
  BY <1>1 DEF CommandSet
<1> HIDE DEF c
<1>3. ASSUME Settled PROVE Ordered(cmds) /\ \E name \in CallNames : \A x \in Range(cmds) : Part(name, x)
  BY <1>1, <1>3, OneCall DEF Settled, Attended, Shape
<1>4. ASSUME Settled, "high" \in host'.laid, NEW i \in Pins4 PROVE i \in host'.laid
  <2>1. CASE c.do = "lay" /\ c.what = "high"
    <3>1. i \in host.laid \/ LaysIn(cmds, i)
      BY <1>4, <2>1, StepAhead DEF RouteInv, Footing, L, Laying, c
    <3>2. ~LaysIn(cmds', i) /\ c.what # i
      BY <1>3, <1>4, <2>1, StepOrderByName, Kinds, FixedItems DEF Footing, c
    <3>3. i \in host.laid
      BY <3>1, <3>2, StepAhead DEF c
    <3> QED
      BY <2>1, <3>3, StepLaid DEF Goes, c
  <2>2. CASE "high" \in host.laid
    <3>1. i \in host.laid
      BY <1>4, <2>2 DEF RouteInv, L
    <3>2. c.do # "unpin4"
      <4>1. SUFFICES ASSUME c.do = "unpin4" PROVE FALSE
        OBVIOUS
      <4>2. DropsIn(cmds, "high")
        BY <1>4, <2>2, <4>1, StepAhead DEF RouteInv, L, Does, Dropping, c
      <4>3. ~DropsIn(cmds', "high")
        BY <1>3, <1>4, <4>1, StepOrderByName DEF c
      <4> QED
        BY <4>1, <4>2, <4>3, StepAhead DEF c
    <3> QED
      BY <1>2, <3>1, <3>2, StepLaid, Kinds, FixedItems DEF Goes, c, Table100, Table102, ThroughTun
  <2> QED
    BY <1>4, <2>1, <2>2, StepLaid DEF c
<1>5. ASSUME Settled, "low" \in host'.laid, NEW i \in {"rule4.bypass", "phys.default"} PROVE i \in host'.laid
  <2>1. CASE c.do = "lay" /\ c.what = "low"
    <3>1. i \in host.laid \/ LaysIn(cmds, i)
      BY <1>5, <2>1, StepAhead DEF RouteInv, Footing, L, Laying, c
    <3>2. ~LaysIn(cmds', i) /\ c.what # i
      BY <1>3, <1>5, <2>1, StepOrderByName DEF Footing, c
    <3>3. i \in host.laid
      BY <3>1, <3>2, StepAhead DEF c
    <3> QED
      BY <2>1, <3>3, StepLaid DEF Goes, c
  <2>2. CASE "low" \in host.laid
    <3>1. i \in host.laid /\ ~DropsIn(cmds, "rule4.bypass")
      BY <1>5, <2>2 DEF RouteInv, L, Dropping
    <3>2. c.do \notin {"drop_bypass_rules", "flush100"}
      <4>1. SUFFICES ASSUME c.do \in {"drop_bypass_rules", "flush100"} PROVE FALSE
        OBVIOUS
      <4>2. DropsIn(cmds, "low")
        BY <1>5, <2>2, <4>1, StepAhead DEF RouteInv, L, Does, Dropping, c
      <4>3. ~DropsIn(cmds', "low")
        BY <1>3, <1>5, <4>1, StepOrderByName DEF c
      <4> QED
        BY <4>1, <4>2, <4>3, StepAhead DEF c
    <3>3. c.do = "drop" => c.what # i
      BY <1>2, <3>1, StepAhead DEF Table100, c
    <3> QED
      BY <3>1, <3>2, <3>3, StepLaid, FixedItems DEF Goes, c, Table102, ThroughTun
  <2> QED
    BY <1>5, <2>1, <2>2, StepLaid DEF c
<1>6. ASSUME Settled, LaysIn(cmds', "low") \/ LaysIn(cmds', "high"), NEW i \in Footing PROVE i \in host'.laid \/ LaysIn(cmds', i)
  <2>1. LaysIn(cmds, "low") \/ LaysIn(cmds, "high")
    BY <1>6, StepAhead
  <2>2. i \in host.laid \/ LaysIn(cmds, i)
    BY <1>6, <2>1 DEF RouteInv, L, Laying
  <2>3. LaysIn(cmds, i) => LaysIn(cmds', i) \/ i \in host'.laid
    BY StepAhead, StepLaid DEF c
  <2>4. ASSUME i \in host.laid, Goes(c, i) PROVE LaysIn(cmds', i)
    <3>1. PICK name \in CallNames : \A x \in Range(cmds) : Part(name, x)
      BY <1>3, <1>6
    <3>2. name = "route-up"
      BY <2>1, <3>1, PartByName, Kinds
    <3>3. c.do \notin {"block", "unpin4", "unpin6", "drop_bypass_rules", "flush100", "flush102", "delete_tun", "kill"}
      <4>1. RouteUpPart(c)
        BY <3>1, <3>2, StepRuns DEF Part, c
      <4> QED
        BY <4>1 DEF RouteUpPart
    <3>4. c.do = "drop" /\ c.what = i /\ i = "rule4.bypass"
      BY <1>2, <2>4, <3>3, Kinds, FixedItems DEF Goes, Footing, Table100
    <3>5. DropsIn(cmds, "rule4.bypass")
      BY <3>4, StepAhead DEF c
    <3>6. LaysIn(cmds, "rule4.bypass")
      BY <1>6, <3>5 DEF RouteInv, Dropping, Laying
    <3> QED
      BY <3>4, <3>6, StepAhead DEF c
  <2> QED
    BY <2>2, <2>3, <2>4, StepLaid DEF c
<1>7. ASSUME Settled, DropsIn(cmds', "rule4.bypass") PROVE LaysIn(cmds', "rule4.bypass") /\ "low" \notin host'.laid
  <2>1. LaysIn(cmds, "rule4.bypass") /\ "low" \notin host.laid
    BY <1>7, StepAhead DEF RouteInv, L, Laying, Dropping
  <2>2. ~(c.do = "lay" /\ c.what \in {"rule4.bypass", "low"})
    BY <1>3, <1>7, StepOrderByName DEF c
  <2> QED
    BY <2>1, <2>2, StepAhead, StepLaid DEF c
<1>8. ASSUME Settled, DoesIn(cmds', "drop_bypass_rules") \/ DoesIn(cmds', "flush100") \/ DoesIn(cmds', "unpin4")
      PROVE  ~(c.do = "lay")
  <2>1. PICK name \in CallNames : \A x \in Range(cmds) : Part(name, x)
    BY <1>3, <1>8
  <2>2. name = "route-down"
    BY <1>8, <2>1, StepAhead, PartByName DEF RunByRouteDown
  <2>3. RouteDownPart(c)
    BY <2>1, <2>2, StepRuns DEF Part, c
  <2> QED
    BY <2>3 DEF RouteDownPart
<1>9. ASSUME Settled, DoesIn(cmds', "drop_bypass_rules") \/ DoesIn(cmds', "flush100")
      PROVE  "low" \notin host'.laid \/ DropsIn(cmds', "low")
  <2>1. "low" \notin host.laid \/ DropsIn(cmds, "low")
    BY <1>9, StepAhead DEF RouteInv, L, Does, Dropping
  <2> QED
    BY <1>8, <1>9, <2>1, StepAhead, StepLaid DEF c
<1>10. ASSUME Settled, DoesIn(cmds', "unpin4") PROVE "high" \notin host'.laid \/ DropsIn(cmds', "high")
  <2>1. "high" \notin host.laid \/ DropsIn(cmds, "high")
    BY <1>10, StepAhead DEF RouteInv, L, Does, Dropping
  <2> QED
    BY <1>8, <1>10, <2>1, StepAhead, StepLaid DEF c
<1>11. ASSUME Settled, phase = "working", "route-up" \in Range(calls)
       PROVE  "low" \notin host'.laid \/ DropsIn(cmds', "low") \/ "route-down" \in Range(calls)
  <2>1. "low" \notin host.laid \/ DropsIn(cmds, "low") \/ "route-down" \in Range(calls)
    BY <1>11 DEF RouteInv, L, Dropping, Todo
  <2>2. ~(c.do = "lay" /\ c.what = "low")
    <3>1. PICK name \in CallNames : WorkShape(name)
      BY <1>1, <1>11 DEF Shape, WorkingShape
    <3>2. name # "route-up"
      BY <1>11, <3>1 DEF WorkShape, Todo, CallStage
    <3>3. Part(name, c)
      BY <3>1, StepRuns DEF WorkShape, Ahead, c
    <3> QED
      BY <3>2, <3>3, PartOfCommand, Kinds
  <2> QED
    BY <2>1, <2>2, StepAhead, StepLaid DEF c
<1>12. Settled' <=> Settled
  BY <1>1, StepRuns DEF Settled, Attended
<1> QED
  BY <1>1, <1>4, <1>5, <1>6, <1>7, <1>9, <1>10, <1>11, <1>12 DEF RouteInv, L, Laying, Dropping, Does, Todo


\* A step keeps the types.
LEMMA StepTyped == ASSUME Typed, Step PROVE Typed'
BY StepRuns DEF Typed, TypeOK, HostSet, request

\* A step keeps the shape of what is to come.
LEMMA StepShape == ASSUME Typed, Shape, Step PROVE Shape'
<1>1. /\ Range(cmds') \subseteq Range(cmds) /\ phase' = phase /\ calls' = calls /\ cmds # <<>>
      /\ after' = after /\ asked' = asked /\ req' = req
  BY StepRuns DEF request
<1>2. WorkingShape'
  <2> SUFFICES ASSUME phase = "working"
               PROVE  /\ Staged(calls) /\ (Todo \cap Early # {} => "route-up" \in Todo)
                      /\ ("route-up" \in Todo => "dns-up" \in Todo)
                      /\ \E name \in CallNames : WorkShape(name)'
    BY <1>1 DEF WorkingShape, Todo
  <2>1. PICK name \in CallNames : WorkShape(name)
    BY <1>1 DEF Shape, WorkingShape
  <2>2. WorkShape(name)'
    BY <1>1, <2>1 DEF WorkShape, Ahead, Todo
  <2> QED
    BY <2>2 DEF Shape, WorkingShape
<1>3. EditingShape'
  BY <1>1 DEF Shape, EditingShape, Ahead, Todo
<1>4. StoppingShape'
  <2> SUFFICES ASSUME phase = "stopping"
               PROVE  /\ Todo \subseteq StopNames /\ after \in {"down", "blocked", "refused", "up"}
                      /\ \E name \in StopNames : \A c \in Range(cmds') : Part(name, c)
                      /\ after = "up" => calls = <<>> /\ \A c \in Range(cmds') : Part("killswitch-down", c)
    BY <1>1 DEF StoppingShape, Todo, Ahead
  <2> QED
    BY <1>1 DEF Shape, StoppingShape, Ahead
<1>5. RestShape'
  BY <1>1 DEF Shape, RestShape, Idle, Ahead
<1>6. phase # "recovering" => Ordered(cmds')
  BY StepOrder DEF Shape
<1> QED
  BY <1>1, <1>2, <1>3, <1>4, <1>5, <1>6 DEF Shape

\* The call a command at work belongs to.
LEMMA WorkingName ==
    ASSUME Typed, Shape, phase = "working", cmds # <<>>
    PROVE  \E name \in CallNames : WorkShape(name)
BY DEF Shape, WorkingShape

\* While the block is not verified there is nothing but it to run.
LEMMA BlockingCommands ==
    ASSUME Typed, Shape, Blocking, cmds # <<>>
    PROVE  "killswitch-up" \notin Todo /\ \A c \in Range(cmds) : c.do \in {"block", "verify"}
<1>1. PICK name \in CallNames : WorkShape(name)
  BY WorkingName DEF Blocking
<1>2. "killswitch-up" \notin Todo
  BY <1>1 DEF WorkShape, CallStage, CallNames, Early, SplitNames
<1>3. DoesIn(cmds, "block") \/ DoesIn(cmds, "verify")
  BY <1>2 DEF Blocking, NotBlocked, Does
<1>4. name = "killswitch-up"
  BY <1>1, <1>3, PartByName DEF WorkShape, Ahead
<1> QED
  BY <1>1, <1>2, <1>4 DEF WorkShape, Ahead, Part

\* The phases in which there is a command to run.
LEMMA BusyPhases ==
    ASSUME Typed, Shape, cmds # <<>>
    PROVE  /\ phase \in {"working", "editing", "stopping", "recovering"}
           /\ phase \in {"working", "editing", "stopping"} <=> Attended
BY DEF Typed, TypeOK, Phases, Shape, RestShape, Attended, Idle

\* A step of the daemon is one of a part.
LEMMA StepPart ==
    ASSUME Typed, Shape, Step, NEW c, c = Head(cmds)
    PROVE  /\ phase = "editing" => SplitPart(c)
           /\ phase = "stopping" => \E name \in StopNames : Part(name, c)
           /\ phase = "stopping" /\ after = "up" => Part("killswitch-down", c)
           /\ phase = "recovering" => RecoveryPart(c)
           /\ phase = "working" => \E name \in CallNames : WorkShape(name) /\ Part(name, c)
<1>1. c \in Range(cmds) /\ cmds # <<>>
  BY StepRuns
<1>2. phase = "editing" => SplitPart(c)
  BY <1>1 DEF Shape, EditingShape, Ahead
<1>3. phase = "stopping" => \E name \in StopNames : Part(name, c)
  BY <1>1 DEF Shape, StoppingShape, Ahead
<1>4. phase = "stopping" /\ after = "up" => Part("killswitch-down", c)
  BY <1>1 DEF Shape, StoppingShape, Ahead
<1>5. phase = "recovering" => RecoveryPart(c)
  BY <1>1 DEF Shape, RestShape, Ahead
<1>6. phase = "working" => \E name \in CallNames : WorkShape(name) /\ Part(name, c)
  BY <1>1, WorkingName DEF WorkShape, Ahead
<1> QED
  BY <1>2, <1>3, <1>4, <1>5, <1>6

\* What a stop runs lays nothing.
LEMMA StopLaysNothing ==
    ASSUME NEW name \in StopNames, NEW c, Part(name, c)
    PROVE  c.do \notin {"lay", "block", "verify", "loosen", "start"}
BY DEF StopNames, Part, RouteDownPart, SplitPart

\* By which commands an item goes.
LEMMA GoesByName ==
    ASSUME NEW c \in CommandSet, NEW i, Goes(c, i)
    PROVE  /\ i \in {"nft.ks", "nft.dns", "dns.rule", "black.low"} => c.do = "drop" /\ c.what = i
           /\ i = "rule4.bypass" => c.do = "drop_bypass_rules" \/ (c.do = "drop" /\ c.what = i)
           /\ i \in WithTun => c.do \in {"delete_tun", "kill"} \/ (c.do = "drop" /\ c.what = i)
           /\ i \in Table100 => c.do = "flush100"
           /\ i \in Table102 => c.do = "flush102"
<1>1. c.do = "drop" => c.what \in Fixed \ (Table100 \cup Table102)
  BY DEF CommandSet
<1>2. i \in {"nft.ks", "nft.dns", "dns.rule", "black.low", "rule4.bypass"} \cup WithTun \cup Table100 \cup Table102
        => i \in Fixed /\ i # "ks.lan"
  BY FixedItems DEF WithTun, Table100, Table102
<1>3. i \in Fixed => i \notin Pins4 /\ i \notin Pins6
  BY FixedItems
<1> QED
  BY <1>1, <1>2, <1>3 DEF Goes, WithTun, Table100, Table102, ThroughTun

\* A step keeps the data plane, or the way to it.
LEMMA StepPlaneInv == ASSUME Typed, Shape, PlaneInv, Step PROVE PlaneInv'
<1> DEFINE c == Head(cmds)
<1>1. /\ c \in CommandSet /\ c \in Range(cmds) /\ cmds # <<>> /\ host \in HostSet /\ host' = After(c, host)
      /\ phase' = phase /\ calls' = calls /\ was' = was /\ after' = after
  BY StepRuns DEF request
<1> HIDE DEF c
<1>2. \A i : i \in host.laid => i \in host'.laid \/ Goes(c, i)
  BY StepLaid DEF c
<1>3. Blocking' => Blocking
  BY <1>1, StepAhead DEF Blocking, NotBlocked, Does, Todo
<1>4. c.do # "start" => (host'.xray => host.xray)
  BY <1>1, AfterRest
<1>5. Live \/ (Blocking' /\ was) => Plane'
  <2>1. SUFFICES ASSUME Live \/ (Blocking' /\ was) PROVE Plane'
    OBVIOUS
  <2>2. Plane
    BY <1>3, <2>1 DEF PlaneInv
  <2>3. /\ c.do \notin {"start", "delete_tun", "kill", "drop_bypass_rules", "flush100"}
        /\ c.do = "drop" => c.what \in {"split.rule", "split.bpf", "nft.split", "nft.ks"}
    <3>1. CASE Blocking
      BY <1>1, <3>1, BlockingCommands
    <3>2. CASE phase = "editing"
      BY <1>1, <3>2, StepPart DEF SplitPart, c
    <3>3. CASE phase = "stopping" /\ after = "up"
      BY <1>1, <3>3, StepPart DEF Part, c
    <3>4. phase # "up"
      BY <1>1, BusyPhases
    <3> QED
      BY <1>3, <2>1, <3>1, <3>2, <3>3, <3>4 DEF Live
  <2>4. ASSUME NEW i \in Always \cup WithTun \cup {"nft.dns"} PROVE ~Goes(c, i)
    BY <1>1, <2>3, GoesByName DEF Always, WithTun, Table100
  <2> QED
    BY <1>2, <1>4, <2>2, <2>3, <2>4 DEF Plane, L
<1>6. Blocking' => (was <=> after = "up") /\ after \in {"down", "refused", "up"}
  BY <1>3 DEF PlaneInv
<1>7. ASSUME phase = "working", "route-up" \notin Todo, NEW i \in Always \cup (IF host'.xray THEN WithTun ELSE {})
      PROVE  i \in host'.laid \/ LaysIn(cmds', i)
  <2>1. PICK name \in CallNames : WorkShape(name) /\ Part(name, c)
    BY <1>7, StepPart DEF c
  <2>2. name \notin Early
    BY <1>7, <2>1 DEF WorkShape
  <2>3. c.do \notin {"start", "delete_tun", "kill", "drop_bypass_rules", "flush100"}
    BY <2>1, <2>2, PartOfCommand DEF RunByRouteDown, Early
  <2>4. i \in host.laid \/ LaysIn(cmds, i)
    BY <1>4, <1>7, <2>3 DEF PlaneInv, L, Laying
  <2>5. LaysIn(cmds, i) => LaysIn(cmds', i) \/ i \in host'.laid
    BY StepAhead, StepLaid DEF c
  <2>6. ASSUME i \in host.laid, Goes(c, i) PROVE LaysIn(cmds', i)
    <3>1. c.do = "drop" /\ c.what = i
      BY <1>1, <1>7, <2>3, <2>6, GoesByName DEF Always, WithTun, Table100
    <3>2. i \in {"dns.rule", "rule4.bypass"}
      <4>1. i \notin DroppedByRouteDown
        BY <2>1, <2>2, <3>1, PartOfCommand DEF Early
      <4>2. i # "phys.default"
        BY <1>1, <3>1 DEF CommandSet, Table100
      <4> QED
        BY <1>7, <4>1, <4>2 DEF Always, WithTun, DroppedByRouteDown
    <3>3. LaysIn(cmds, i)
      BY <1>7, <3>1, <3>2, StepAhead DEF PlaneInv, Dropping, Laying, c
    <3> QED
      BY <3>1, <3>3, StepAhead DEF c
  <2> QED
    BY <1>2, <2>4, <2>5, <2>6
<1>8. ASSUME phase = "working", "dns-up" \notin Todo PROVE "nft.dns" \in host'.laid \/ LaysIn(cmds', "nft.dns")
  <2>1. PICK name \in CallNames : WorkShape(name) /\ Part(name, c)
    BY <1>8, StepPart DEF c
  <2>2. name # "dns-down"
    BY <1>8, <2>1 DEF WorkShape, Early
  <2>3. ~Goes(c, "nft.dns")
    BY <1>1, <2>1, <2>2, GoesByName, PartOfCommand
  <2>4. "nft.dns" \in host.laid \/ LaysIn(cmds, "nft.dns")
    BY <1>8 DEF PlaneInv, L, Laying
  <2> QED
    BY <1>2, <2>3, <2>4, StepAhead, StepLaid DEF c
<1>9. ASSUME phase = "working", NEW i \in {"dns.rule", "rule4.bypass"}, DropsIn(cmds', i)
      PROVE  LaysIn(cmds', i) \/ "route-up" \in Todo
  <2>1. LaysIn(cmds, i) \/ "route-up" \in Todo
    BY <1>9, StepAhead DEF PlaneInv, Dropping, Laying
  <2>2. ~(c.do = "lay" /\ c.what = i)
    BY <1>9, StepOrderByName DEF Shape, c
  <2> QED
    BY <2>1, <2>2, StepAhead DEF c
<1> QED
  BY <1>1, <1>5, <1>6, <1>7, <1>8, <1>9 DEF PlaneInv, Live, L, Laying, Dropping, Todo

\* A step keeps what unblocks.
LEMMA StepUnblockInv == ASSUME Typed, Shape, UnblockInv, Step PROVE UnblockInv'
<1> DEFINE c == Head(cmds)
<1>1. /\ c \in CommandSet /\ c \in Range(cmds) /\ cmds # <<>>
      /\ phase' = phase /\ calls' = calls /\ was' = was /\ after' = after /\ asked' = asked /\ req' = req
  BY StepRuns DEF request
<1> HIDE DEF c
<1>2. "nft.ks" \in host'.laid => "nft.ks" \in host.laid \/ c.do = "block" \/ (c.do = "lay" /\ c.what = "nft.ks")
  BY StepLaid DEF c
<1>3. DropsIn(cmds, "nft.ks") => DropsIn(cmds', "nft.ks") \/ "nft.ks" \notin host'.laid
  BY StepAhead, StepLaid DEF c
<1>4. DoesIn(cmds', "block") => DoesIn(cmds, "block")
  BY StepAhead
<1>5. phase = "editing" /\ ~req.ks => "nft.ks" \notin host'.laid
  <2>1. SUFFICES ASSUME phase = "editing", ~req.ks PROVE "nft.ks" \notin host'.laid
    OBVIOUS
  <2>2. SplitPart(c)
    BY <2>1, StepPart DEF c
  <2> QED
    BY <1>2, <2>1, <2>2 DEF UnblockInv, L, SplitPart, Table102
<1>6. phase \notin {"down", "up"}
  BY <1>1, BusyPhases
<1>7. ASSUME phase = "stopping", after = "down" \/ (after = "up" /\ ~req.ks)
      PROVE  "nft.ks" \notin host'.laid \/ DropsIn(cmds', "nft.ks") \/ "killswitch-down" \in Todo
  <2>1. c.do \notin {"block", "lay"}
    BY <1>7, StepPart, StopLaysNothing DEF c
  <2> QED
    BY <1>2, <1>3, <1>7, <2>1 DEF UnblockInv, Unblocking, L, Dropping
<1>8. ASSUME phase = "working", NotBlocked' PROVE NotBlocked /\ c.do \notin {"block", "lay"}
  <2>1. NotBlocked
    BY <1>1, <1>4, <1>8 DEF NotBlocked, Does, Todo
  <2>2. "killswitch-up" \notin Todo /\ c.do \in {"block", "verify"}
    BY <1>1, <1>8, <2>1, BlockingCommands DEF Blocking
  <2>3. DoesIn(cmds', "block")
    BY <1>1, <1>8, <2>2 DEF NotBlocked, Does, Todo
  <2> QED
    BY <1>8, <2>1, <2>2, <2>3, StepOrderByName DEF Shape, c
<1>9. ASSUME phase = "working", NotBlocked', after = "down" \/ (was /\ ~req.ks) PROVE "nft.ks" \notin host'.laid
  BY <1>2, <1>8, <1>9 DEF UnblockInv, L
<1>10. ASSUME phase = "working", ~asked.ks
       PROVE  /\ "nft.ks" \notin host'.laid \/ DropsIn(cmds', "nft.ks") \/ "killswitch-down" \in Todo
              /\ NotBlocked' => "killswitch-down" \in Todo
  <2>1. NotBlocked' => "killswitch-down" \in Todo
    BY <1>8, <1>10 DEF UnblockInv
  <2>2. c.do = "block" => "killswitch-down" \in Todo
    BY <1>1, <1>10 DEF UnblockInv, NotBlocked, Does, DoesIn
  <2>3. ~(c.do = "lay" /\ c.what = "nft.ks")
    BY <1>10, StepPart, PartOfCommand DEF c
  <2>4. "nft.ks" \notin host.laid \/ DropsIn(cmds, "nft.ks") \/ "killswitch-down" \in Todo
    BY <1>10 DEF UnblockInv, Unblocking, L, Dropping
  <2> QED
    BY <1>2, <1>3, <2>1, <2>2, <2>3, <2>4
<1>11. Todo' = Todo
  BY <1>1 DEF Todo
<1> QED
  BY <1>1, <1>5, <1>6, <1>7, <1>9, <1>10, <1>11 DEF UnblockInv, Unblocking, L, Dropping

\* A step keeps the block.
LEMMA StepBlockInv == ASSUME Typed, Shape, BlockInv, Step PROVE BlockInv'
<1> DEFINE c == Head(cmds)
<1>1. /\ c \in CommandSet /\ c \in Range(cmds) /\ cmds # <<>> /\ cmds' \in Seq(CommandSet)
      /\ phase' = phase /\ calls' = calls /\ was' = was /\ after' = after /\ asked' = asked /\ req' = req
  BY StepRuns DEF request
<1> HIDE DEF c
<1>2. "nft.ks" \in host.laid => "nft.ks" \in host'.laid \/ (c.do = "drop" /\ c.what = "nft.ks")
  BY <1>1, StepLaid, GoesByName DEF c
<1>3. c.do = "drop" /\ c.what = "nft.ks" => DropsIn(cmds, "nft.ks")
  BY StepAhead DEF c
<1>4. DropsIn(cmds', "nft.ks") => DropsIn(cmds, "nft.ks")
  BY StepAhead
<1>5. Blocking' => Blocking
  BY <1>1, StepAhead DEF Blocking, NotBlocked, Does, Todo
<1>6. phase \notin {"blocked", "up"} /\ ~(phase = "stopping" /\ after = "up")
  BY <1>1, BusyPhases DEF BlockInv
<1>7. phase = "stopping" /\ after = "blocked" =>
         "nft.ks" \in host'.laid /\ "killswitch-down" \notin Todo /\ ~DropsIn(cmds', "nft.ks")
  BY <1>2, <1>3, <1>4 DEF BlockInv, L, Dropping
<1>8. ASSUME phase = "editing" \/ (Blocking' /\ was), req.ks PROVE "nft.ks" \in host'.laid
  <2>1. "nft.ks" \in host.laid
    BY <1>5, <1>8 DEF BlockInv, Live, L
  <2>2. ~(c.do = "drop" /\ c.what = "nft.ks")
    <3>1. CASE phase = "editing"
      BY <3>1, StepPart DEF SplitPart, c
    <3>2. CASE Blocking
      BY <1>1, <3>2, BlockingCommands
    <3> QED
      BY <1>5, <1>8, <3>1, <3>2
  <2> QED
    BY <1>2, <2>1, <2>2
<1>9. ASSUME phase = "working", ~NotBlocked' PROVE "nft.ks" \in host'.laid \/ (calls = <<>> /\ cmds' = <<>> /\ ~asked.ks)
  <2>1. CASE NotBlocked
    <3>1. c.do = "block"
      BY <1>1, <1>9, <2>1, StepAhead DEF NotBlocked, Does, Todo, c
    <3> QED
      BY <3>1, StepLaid DEF c
  <2>2. CASE ~NotBlocked
    <3>1. "nft.ks" \in host.laid
      BY <1>1, <1>9, <2>2 DEF BlockInv, L, Idle
    <3>2. CASE c.do = "drop" /\ c.what = "nft.ks"
      <4>1. PICK name \in CallNames : WorkShape(name) /\ Part(name, c)
        BY <1>9, StepPart DEF c
      <4>2. name = "killswitch-down"
        BY <3>2, <4>1, PartOfCommand
      <4>3. calls \in Seq(CallNames) /\ Range(calls) = {}
        <5>1. calls \in Seq(CallNames) /\ \A n \in Range(calls) : n \in CallNames
          BY DEF Typed, Range
        <5>2. \A n \in CallNames : ~(CallStage("killswitch-down") < CallStage(n))
          BY DEF CallNames, Early, SplitNames, CallStage
        <5> QED
          BY <4>1, <4>2, <5>1, <5>2 DEF WorkShape, Todo
      <4>4. \A x \in Range(cmds') : x.do = "drop" /\ x.what = "nft.ks"
        BY <4>1, <4>2, StepRuns DEF WorkShape, Ahead, Part
      <4>5. Range(cmds') = {}
        BY <1>9, <3>2, <4>4, StepOrderByName DEF Shape, c, DropsIn
      <4>6. ~asked.ks
        BY <1>3, <1>9, <3>2 DEF BlockInv, Dropping
      <4> QED
        BY <1>1, <4>3, <4>5, <4>6, EmptyRange
    <3> QED
      BY <1>2, <3>1, <3>2
  <2> QED
    BY <2>1, <2>2
<1>10. phase = "working" /\ asked.ks => "killswitch-down" \notin Todo /\ ~DropsIn(cmds', "nft.ks")
  BY <1>4 DEF BlockInv, Dropping
<1>11. Todo' = Todo
  BY <1>1 DEF Todo
<1> QED
  BY <1>1, <1>6, <1>7, <1>8, <1>9, <1>10, <1>11 DEF BlockInv, Live, L, Dropping, Idle

\* A step keeps bare what a stop has removed.
LEMMA StepBareInv == ASSUME Typed, Shape, BareInv, Step PROVE BareInv'
<1> DEFINE c == Head(cmds)
<1>1. /\ c \in CommandSet /\ c \in Range(cmds) /\ cmds # <<>>
      /\ phase' = phase /\ calls' = calls /\ was' = was /\ after' = after
  BY StepRuns DEF request
<1> HIDE DEF c
<1> SUFFICES ASSUME ~host.left PROVE BareInv'
  BY StepRuns DEF BareInv
<1>2. \A i \in Devices \cup {"nft.dns"} : i \in host'.laid => i \in host.laid \/ (c.do = "lay" /\ c.what = i)
  BY StepLaid DEF Devices, Blackholes, c
<1>3. phase \notin {"down", "refused", "blocked"}
  BY <1>1, BusyPhases
<1>4. Blocking' => Blocking
  BY <1>1, StepAhead DEF Blocking, NotBlocked, Does, Todo
<1>5. ASSUME Blocking', ~was PROVE Bare'
  <2>1. Bare /\ c.do \in {"block", "verify"}
    BY <1>1, <1>4, <1>5, BlockingCommands DEF BareInv
  <2> QED
    BY <1>2, <2>1 DEF Bare, L
<1>6. ASSUME phase = "stopping", after # "up"
      PROVE  /\ \A i \in Devices : i \notin host'.laid \/ DropsIn(cmds', i) \/ "route-down" \in Todo
             /\ "nft.dns" \notin host'.laid \/ DropsIn(cmds', "nft.dns") \/ "dns-down" \in Todo
  <2>1. c.do # "lay"
    BY <1>6, StepPart, StopLaysNothing DEF c
  <2>2. \A i : DropsIn(cmds, i) => DropsIn(cmds', i) \/ i \notin host'.laid
    BY StepAhead, StepLaid DEF c
  <2> QED
    BY <1>2, <1>6, <2>1, <2>2 DEF BareInv, L, Dropping
<1> QED
  BY <1>1, <1>3, <1>5, <1>6 DEF BareInv, L, Dropping, Todo

\* A step keeps or restores the value of rp_filter.
LEMMA StepRpInv == ASSUME Typed, Shape, RpInv, Step PROVE RpInv'
<1> DEFINE c == Head(cmds)
<1>1. /\ c \in CommandSet /\ c \in Range(cmds) /\ cmds # <<>> /\ host \in HostSet /\ host' = After(c, host)
      /\ phase' = phase /\ calls' = calls /\ was' = was /\ after' = after /\ crashes' = crashes
  BY StepRuns DEF request
<1> HIDE DEF c
<1> SUFFICES ASSUME crashes = 0 PROVE RpInv'
  BY <1>1 DEF RpInv
<1>2. Settled /\ (RpClean \/ (host.rp = "loose" /\ host.rpFile = "orig"))
  BY DEF RpInv
<1>3. c.do = "loosen" => RpClean
  BY <1>1 DEF RpInv, Does, DoesIn
<1>4. c.do \notin {"loosen", "restore"} => host'.rp = host.rp /\ host'.rpFile = host.rpFile
  BY <1>1, AfterRest
<1>5. c.do = "restore" => RpClean'
  BY <1>1, <1>2, AfterRest DEF RpClean
<1>6. RpClean' \/ (host'.rp = "loose" /\ host'.rpFile = "orig")
  <2>1. CASE c.do = "loosen"
    BY <1>1, <1>3, <2>1, AfterRest DEF RpClean
  <2> QED
    BY <1>2, <1>4, <1>5, <2>1 DEF RpClean
<1>7. RpClean /\ c.do # "loosen" => RpClean'
  BY <1>4, <1>5 DEF RpClean
<1>8. phase \notin {"down", "refused", "blocked"}
  BY <1>1, BusyPhases
<1>9. ASSUME Blocking', ~was PROVE RpClean'
  <2>1. Blocking
    BY <1>1, <1>9, StepAhead DEF Blocking, NotBlocked, Does, Todo
  <2>2. c.do \in {"block", "verify"}
    BY <1>1, <2>1, BlockingCommands
  <2> QED
    BY <1>7, <1>9, <2>1, <2>2 DEF RpInv
<1>10. ASSUME DoesIn(cmds', "loosen") PROVE RpClean'
  <2>1. Ordered(cmds)
    BY <1>2 DEF Shape, Settled, Attended
  <2>2. c.do # "loosen"
    BY <1>10, <2>1, StepOrderByName DEF c
  <2>3. RpClean
    BY <1>10, StepAhead DEF RpInv, Does
  <2> QED
    BY <1>7, <2>2, <2>3
<1>11. ASSUME (phase = "stopping" /\ after # "up") \/ (phase = "working" /\ "route-up" \in Todo)
       PROVE  RpClean' \/ DoesIn(cmds', "restore") \/ "route-down" \in Todo
  <2>1. RpClean \/ DoesIn(cmds, "restore") \/ "route-down" \in Todo
    BY <1>11 DEF RpInv, Restoring, Does
  <2>2. c.do # "loosen"
    <3>1. CASE phase = "stopping"
      BY <3>1, StepPart, StopLaysNothing DEF c
    <3>2. CASE phase = "working" /\ "route-up" \in Todo
      <4>1. PICK name \in CallNames : WorkShape(name) /\ Part(name, c)
        BY <3>2, StepPart DEF c
      <4>2. name # "route-up"
        BY <3>2, <4>1 DEF WorkShape, CallStage
      <4> QED
        BY <4>1, <4>2, PartOfCommand
    <3> QED
      BY <1>11, <3>1, <3>2
  <2> QED
    BY <1>5, <1>7, <2>1, <2>2, StepAhead DEF c
<1>12. Todo' = Todo /\ Settled'
  BY <1>1, <1>2, StepRuns DEF Todo, Settled, Attended
<1> QED
  BY <1>1, <1>6, <1>8, <1>9, <1>10, <1>11, <1>12 DEF RpInv, Restoring, Does

\* The rules and the throws of their tables.
LEMMA ThrownKinds ==
    \A t \in Thrown :
        /\ t[1] \in Rules4 \cup Rules6 \cup {"split.rule"} /\ t[2] \in Table100 \cup Table102
        /\ t[2] \in Table102 <=> t[1] = "split.rule"
        /\ t[2] \in Table100 <=> t[1] \in Rules4 \cup Rules6
        /\ t[1] = "split.rule" => t[2] = "split.throw"
        /\ t[1] \in Items /\ t[1] \notin {"nft.ks", "ks.lan"} /\ t[1] # t[2] /\ t = <<t[1], t[2]>>
BY FixedItems DEF Thrown, Rules4, Rules6, Table100, Table102

\* What is flushed is not laid by the same call, or is laid after.
LEMMA StepFlush ==
    ASSUME Typed, Shape, Step, NEW c, c = Head(cmds)
    PROVE  /\ \A r \in Rules4 \cup Rules6 : ~(DoesIn(cmds, "flush100") /\ LaysIn(cmds, r))
           /\ ~(DoesIn(cmds, "flush100") /\ LaysIn(cmds, "split.rule"))
           /\ \A r \in Rules4 \cup Rules6 : ~(DoesIn(cmds, "flush102") /\ LaysIn(cmds, r))
           /\ c.do = "lay" /\ c.what \in Table102 \cup {"split.rule"} => ~DoesIn(cmds', "flush102")
<1>1. cmds # <<>>
  BY StepRuns
<1>2. CASE phase = "recovering"
  <2>1. \A x \in Range(cmds) : x.do # "lay"
    BY <1>2 DEF Shape, RestShape, RecoveryPart, Ahead
  <2>2. c \in Range(cmds)
    BY StepRuns
  <2> QED
    BY <2>1, <2>2 DEF LaysIn
<1>3. CASE phase # "recovering"
  <2>1. PICK name \in CallNames : \A x \in Range(cmds) : Part(name, x)
    BY <1>1, <1>3, BusyPhases, OneCall
  <2>2. Ordered(cmds)
    BY <1>3 DEF Shape
  <2>3. DoesIn(cmds, "flush100") => name = "route-down"
    BY <2>1, PartByName DEF RunByRouteDown
  <2>4. DoesIn(cmds, "flush102") => name \in SplitNames
    BY <2>1, PartByName
  <2>5. \A r \in Rules4 \cup Rules6 : LaysIn(cmds, r) => name = "route-up"
    BY <2>1, PartByName DEF LaidByRouteUp
  <2>6. LaysIn(cmds, "split.rule") => name \in {"split-up", "split-refresh"}
    BY <2>1, PartByName
  <2>7. c.do = "lay" /\ c.what \in Table102 \cup {"split.rule"} => ~DoesIn(cmds', "flush102")
    BY <2>2, StepOrderByName
  <2> QED
    BY <2>3, <2>4, <2>5, <2>6, <2>7 DEF SplitNames
<1> QED
  BY <1>2, <1>3

\* A step keeps the rules with their throws.
LEMMA StepLanInv == ASSUME Typed, Shape, LanInv, Step PROVE LanInv'
<1> DEFINE c == Head(cmds)
<1>1. /\ c \in CommandSet /\ c \in Range(cmds) /\ cmds # <<>> /\ cmds' = Tail(cmds)
      /\ refusals' = refusals /\ phase' = phase
  BY StepRuns
<1>2. /\ cmds \in Seq(CommandSet) /\ Len(cmds) \in Nat \ {0} /\ Len(Tail(cmds)) = Len(cmds) - 1
      /\ DOMAIN cmds = 1..Len(cmds) /\ DOMAIN Tail(cmds) = 1..Len(Tail(cmds)) /\ c = cmds[1]
      /\ \A k \in 1..Len(Tail(cmds)) : Tail(cmds)[k] = cmds[k + 1]
  BY <1>1, HeadTailProperties, LenProperties, EmptySeq DEF Typed
<1> HIDE DEF c
<1> SUFFICES ASSUME refusals = 0 PROVE LanInv'
  BY <1>1 DEF LanInv
<1>3. \A i : i \in host.laid => i \in host'.laid \/ Goes(c, i)
  BY StepLaid DEF c
<1>4. \A t \in Thrown : t[1] \in host'.laid => t[1] \in host.laid \/ (c.do = "lay" /\ c.what = t[1])
  BY StepLaid, ThrownKinds DEF c
<1>5. \A t \in Thrown : Goes(c, t[2]) => c.do = (IF t[1] = "split.rule" THEN "flush102" ELSE "flush100")
  BY <1>1, GoesByName, ThrownKinds
<1>6. c.do = "lay" => Ordered(cmds)
  BY <1>1 DEF Shape, RestShape, RecoveryPart, Ahead
<1>7. c.do = "lay" => \A i : <<c.what, i>> \in Thrown => ~LaysIn(cmds', i)
  BY <1>6, StepOrderByName DEF c
<1>8. \A i : LaysIn(cmds, i) => LaysIn(cmds', i) \/ i \in host'.laid
  BY StepAhead, StepLaid DEF c
<1>9. ASSUME NEW t \in Thrown, t[1] \in host.laid, t[2] \in host.laid, Goes(c, t[2]) PROVE FALSE
  <2>1. 1 \in DOMAIN cmds /\ c = cmds[1]
    BY <1>2
  <2>2. FlushedAfter(cmds, 1, "flush100", Rules4 \cup Rules6, L) /\ FlushedAfter(cmds, 1, "flush102", {"split.rule"}, L)
    BY <2>1 DEF LanInv, FlushLate
  <2>3. 1..(1 - 1) = {}
    OBVIOUS
  <2>4. /\ c.do = "flush100" => \A r \in Rules4 \cup Rules6 : r \notin L
        /\ c.do = "flush102" => "split.rule" \notin L
    BY <2>1, <2>2, <2>3 DEF FlushedAfter
  <2> QED
    BY <1>5, <1>9, <2>4, ThrownKinds DEF L
<1>10. ASSUME NEW t \in Thrown, t[1] \in host'.laid PROVE t[2] \in host'.laid
  <2>1. CASE c.do = "lay" /\ c.what = t[1]
    <3>1. LaysIn(cmds, t[1])
      BY <2>1, StepAhead DEF c
    <3>2. t[2] \in host.laid \/ LaysIn(cmds, t[2])
      BY <3>1 DEF LanInv, L, Laying
    <3>3. ~LaysIn(cmds', t[2])
      BY <1>7, <2>1, ThrownKinds
    <3>4. t[2] \in host.laid => t[2] \in host'.laid
      BY <1>3, <2>1 DEF Goes
    <3> QED
      BY <1>8, <3>2, <3>3, <3>4
  <2>2. CASE t[1] \in host.laid
    <3>1. t[2] \in host.laid
      BY <2>2 DEF LanInv, L
    <3> QED
      BY <1>3, <1>9, <2>2, <3>1
  <2> QED
    BY <1>4, <1>10, <2>1, <2>2
<1>11. ASSUME NEW t \in Thrown, LaysIn(cmds', t[1]) PROVE t[2] \in host'.laid \/ LaysIn(cmds', t[2])
  <2>1. LaysIn(cmds, t[1])
    BY <1>11, StepAhead
  <2>2. t[2] \in host.laid \/ LaysIn(cmds, t[2])
    BY <2>1 DEF LanInv, L, Laying
  <2>3. ASSUME Goes(c, t[2]) PROVE LaysIn(cmds', t[2])
    <3>1. DoesIn(cmds, c.do) /\ c.do \in {"flush100", "flush102"}
      BY <1>1, <1>5, <2>3 DEF DoesIn
    <3>2. t[1] = "split.rule" /\ c.do = "flush102" /\ t[2] = "split.throw"
      BY <1>5, <2>1, <2>3, <3>1, StepFlush, ThrownKinds
    <3>3. LaysIn(cmds, "split.throw")
      BY <2>1, <3>1, <3>2 DEF LanInv, Laying, Does
    <3> QED
      BY <3>1, <3>2, <3>3, StepAhead DEF c
  <2> QED
    BY <1>3, <1>8, <2>2, <2>3
<1>12. ASSUME LaysIn(cmds', "split.rule"), DoesIn(cmds', "flush102") PROVE LaysIn(cmds', "split.throw")
  <2>1. LaysIn(cmds, "split.throw")
    BY <1>12, StepAhead DEF LanInv, Laying, Does
  <2>2. ~(c.do = "lay" /\ c.what = "split.throw")
    BY <1>12, StepFlush DEF Table102, c
  <2> QED
    BY <2>1, <2>2, StepAhead DEF c
<1>13. ASSUME NEW k \in DOMAIN cmds', NEW d, NEW rules, FlushedAfter(cmds, k + 1, d, rules, L),
              cmds'[k].do = d => \A r \in rules : r \in host'.laid => r \in host.laid
       PROVE  FlushedAfter(cmds', k, d, rules, host'.laid)
  <2> SUFFICES ASSUME cmds'[k].do = d, NEW r \in rules, r \in host'.laid
               PROVE  \E j \in 1..(k - 1) : DropsRule(cmds'[j], r)
    BY DEF FlushedAfter
  <2>1. k \in Nat /\ k <= Len(Tail(cmds)) /\ cmds'[k] = cmds[k + 1]
    BY <1>1, <1>2
  <2>2. PICK j \in 1..((k + 1) - 1) : DropsRule(cmds[j], r)
    BY <1>13, <2>1 DEF FlushedAfter, L
  <2>3. j # 1
    <3>1. ASSUME DropsRule(c, r) PROVE r \notin host'.laid
      BY <3>1, StepLaid DEF DropsRule, c
    <3> QED
      BY <1>2, <2>2, <3>1
  <2>4. j - 1 \in 1..(k - 1) /\ cmds'[j - 1] = cmds[j]
    BY <1>1, <1>2, <2>1, <2>3
  <2> QED
    BY <2>2, <2>4
<1>14. FlushLate(host'.laid, cmds')
  <2> SUFFICES ASSUME NEW k \in DOMAIN cmds'
               PROVE  FlushedAfter(cmds', k, "flush100", Rules4 \cup Rules6, host'.laid)
                      /\ FlushedAfter(cmds', k, "flush102", {"split.rule"}, host'.laid)
    BY DEF FlushLate
  <2>1. k + 1 \in DOMAIN cmds /\ cmds'[k] \in Range(cmds')
    BY <1>1, <1>2 DEF Range
  <2>2. FlushedAfter(cmds, k + 1, "flush100", Rules4 \cup Rules6, L) /\ FlushedAfter(cmds, k + 1, "flush102", {"split.rule"}, L)
    BY <2>1 DEF LanInv, FlushLate
  <2>3. \A d : cmds'[k].do = d => DoesIn(cmds', d) /\ DoesIn(cmds, d)
    BY <2>1, StepAhead DEF DoesIn
  <2>4. \A r \in Rules4 \cup Rules6 \cup {"split.rule"} :
           r \in host'.laid => r \in host.laid \/ (c.do = "lay" /\ c.what = r)
    <3>1. \A r \in Rules4 \cup Rules6 \cup {"split.rule"} : r \notin {"nft.ks", "ks.lan"}
      BY DEF Rules4, Rules6
    <3> QED
      BY <3>1, StepLaid DEF c
  <2>5. c.do = "lay" => LaysIn(cmds, c.what)
    BY StepAhead DEF c
  <2>6. cmds'[k].do = "flush100" => \A r \in Rules4 \cup Rules6 : r \in host'.laid => r \in host.laid
    BY <2>3, <2>4, <2>5, StepFlush
  <2>7. cmds'[k].do = "flush102" => \A r \in {"split.rule"} : r \in host'.laid => r \in host.laid
    BY <2>3, <2>4, StepFlush DEF c
  <2> QED
    BY <1>13, <2>2, <2>6, <2>7
<1> QED
  BY <1>10, <1>11, <1>12, <1>14 DEF LanInv, L, Laying, Does

\* A step lays the physical route of IPv6 only where there is one.
LEMMA StepV6Inv == ASSUME Typed, V6Inv, Step PROVE V6Inv'
<1> DEFINE c == Head(cmds)
<1>1. c \in CommandSet
  BY StepRuns
<1>2. c.do = "lay" /\ c.what = "phys6.default" => HostHasV6
  BY <1>1 DEF CommandSet
<1> HIDE DEF c
<1>3. "phys6.default" \in host'.laid => "phys6.default" \in host.laid \/ (c.do = "lay" /\ c.what = "phys6.default")
  BY StepLaid DEF c
<1> QED
  BY <1>2, <1>3 DEF V6Inv, L

LEMMA StepInv == ASSUME IInv, Step PROVE IInv'
BY StepTyped, StepShape, StepRouteInv, StepPlaneInv, StepUnblockInv, StepBlockInv, StepBareInv, StepRpInv, StepLanInv,
   StepV6Inv DEF IInv

-----------------------------------------------------------------------------
(* The next call.                                                           *)

\* The call whose commands are to be run, and what is still to come after it.
LEMMA CallRuns ==
    ASSUME Typed, NextCall, NEW n, n = Head(calls)
    PROVE  /\ n \in CallNames /\ n \in Todo /\ calls # <<>> /\ Range(cmds) = {}
           /\ calls' \in Seq(CallNames) /\ cmds' \in Seq(CommandSet)
           /\ Todo' \subseteq Todo /\ \A m \in Todo : m = n \/ m \in Todo'
           /\ cmds' = Commands(n, asked) /\ Ordered(cmds') /\ \A l : FlushLate(l, cmds')
           /\ \A c \in Range(cmds') : Part(n, c)
           /\ Staged(calls) => Staged(calls') /\ \A m \in Todo' : CallStage(n) < CallStage(m)
           /\ phase \in {"working", "editing", "stopping"} /\ Attended
           /\ UNCHANGED <<host, phase, was, after, asked, req, saved, crashes, refusals>>
<1>1. calls \in Seq(CallNames) /\ calls # <<>> /\ cmds = <<>> /\ cmds' = Commands(n, asked) /\ calls' = Tail(calls)
      /\ phase \in {"working", "editing", "stopping"} /\ Attended
      /\ UNCHANGED <<host, phase, was, after, asked, req, saved, crashes, refusals>>
  BY DEF NextCall, Typed, AtWork, Attended, request
<1>2. /\ n \in CallNames /\ Tail(calls) \in Seq(CallNames) /\ n \in Range(calls) /\ Range(Tail(calls)) \subseteq Range(calls)
      /\ \A m \in Range(calls) : m = n \/ m \in Range(Tail(calls))
  BY <1>1, HeadAndTail
<1>3. asked.lan \in BOOLEAN
  BY DEF Typed, TypeOK
<1>4. Proper(cmds') /\ (\A l : FlushLate(l, cmds')) /\ \A c \in Range(cmds') : Part(n, c)
  BY <1>1, <1>2, <1>3, CallCommands
<1>5. Range(cmds) = {}
  BY <1>1, ProperEmpty
<1>6. ASSUME Staged(calls) PROVE Staged(Tail(calls)) /\ \A m \in Range(Tail(calls)) : CallStage(n) < CallStage(m)
  <2>1. /\ Len(calls) \in Nat \ {0} /\ Len(Tail(calls)) = Len(calls) - 1
        /\ DOMAIN calls = 1..Len(calls) /\ DOMAIN Tail(calls) = 1..Len(Tail(calls)) /\ n = calls[1]
        /\ \A k \in 1..Len(Tail(calls)) : Tail(calls)[k] = calls[k + 1]
    BY <1>1, HeadTailProperties, LenProperties, EmptySeq
  <2>2. Staged(Tail(calls))
    <3> SUFFICES ASSUME NEW i \in DOMAIN Tail(calls), NEW j \in DOMAIN Tail(calls), i < j
                 PROVE  CallStage(Tail(calls)[i]) < CallStage(Tail(calls)[j])
      BY DEF Staged
    <3>1. i + 1 \in DOMAIN calls /\ j + 1 \in DOMAIN calls /\ i + 1 < j + 1
          /\ Tail(calls)[i] = calls[i + 1] /\ Tail(calls)[j] = calls[j + 1]
      BY <2>1
    <3> QED
      BY <1>6, <3>1 DEF Staged
  <2>3. ASSUME NEW m \in Range(Tail(calls)) PROVE CallStage(n) < CallStage(m)
    <3>1. PICK k \in DOMAIN Tail(calls) : m = Tail(calls)[k]
      BY DEF Range
    <3>2. 1 \in DOMAIN calls /\ k + 1 \in DOMAIN calls /\ 1 < k + 1 /\ m = calls[k + 1]
      BY <2>1, <3>1
    <3> QED
      BY <1>6, <2>1, <3>2 DEF Staged
  <2> QED
    BY <2>2, <2>3
<1> QED
  BY <1>1, <1>2, <1>4, <1>5, <1>6 DEF Todo, Proper

\* A command that lays an item is the one command that does.
LEMMA LayIsCommand ==
    ASSUME NEW s \in Seq(CommandSet), NEW i
    PROVE  LaysIn(s, i) <=> Lay(i) \in Range(s)
<1>1. \A c \in Range(s) : c \in CommandSet
  BY DEF Range
<1>2. ASSUME NEW c \in CommandSet, c.do = "lay", c.what = i PROVE c = Lay(i)
  BY <1>2 DEF CommandSet, Lay
<1> QED
  BY <1>1, <1>2, LayFields DEF LaysIn

\* What a call brings, in the words of the invariant.
LEMMA NextCallBrings ==
    ASSUME Typed, NextCall, NEW n, n = Head(calls)
    PROVE  /\ n = "route-up" => \A i \in Footing \cup Always \cup WithTun : LaysIn(cmds', i)
           /\ n = "route-up" => \A t \in Thrown : LaysIn(cmds', t[1]) => LaysIn(cmds', t[2])
           /\ ~host.left /\ n = "route-down" => (\A i \in Devices : DropsIn(cmds', i)) /\ DoesIn(cmds', "restore")
           /\ n \in {"split-up", "split-refresh"} => LaysIn(cmds', "split.throw")
           /\ n = "dns-up" => LaysIn(cmds', "nft.dns")
           /\ ~host.left /\ n = "dns-down" => DropsIn(cmds', "nft.dns")
           /\ n = "killswitch-down" => DropsIn(cmds', "nft.ks")
           /\ n = "killswitch-up" => DoesIn(cmds', "block")
<1>1. cmds' = Commands(n, asked) /\ cmds' \in Seq(CommandSet)
  BY CallRuns
<1>2. \A i : LaysIn(cmds', i) <=> Lay(i) \in Range(cmds')
  BY <1>1, LayIsCommand
<1>3. \A i : Drop(i) \in Range(cmds') => DropsIn(cmds', i)
  BY DropFields DEF DropsIn
<1>4. Run("restore") \in Range(cmds') => DoesIn(cmds', "restore")
  BY RunFields DEF DoesIn
<1>5. n = "route-up" => \A i \in Footing \cup Always \cup WithTun : LaysIn(cmds', i)
  BY <1>1, <1>2, CallBrings
<1>6. n = "route-up" => \A t \in Thrown : LaysIn(cmds', t[1]) => LaysIn(cmds', t[2])
  BY <1>1, <1>2, CallBrings
<1>7. ~host.left /\ n = "route-down" => (\A i \in Devices : DropsIn(cmds', i)) /\ DoesIn(cmds', "restore")
  BY <1>1, <1>3, <1>4, CallBrings DEF Devices, Blackholes
<1>8. n \in {"split-up", "split-refresh"} => LaysIn(cmds', "split.throw")
  BY <1>1, <1>2, CallBrings
<1>9. n = "dns-up" => LaysIn(cmds', "nft.dns")
  BY <1>1, <1>2, CallBrings
<1>10. (~host.left /\ n = "dns-down" => DropsIn(cmds', "nft.dns")) /\ (n = "killswitch-down" => DropsIn(cmds', "nft.ks"))
  BY <1>1, <1>3, CallBrings
<1>11. n = "killswitch-up" => DoesIn(cmds', "block")
  BY <1>1, CallBrings DEF DoesIn
<1> QED
  BY <1>5, <1>6, <1>7, <1>8, <1>9, <1>10, <1>11

LEMMA NextCallTyped == ASSUME Typed, NextCall PROVE Typed'
BY CallRuns DEF Typed, TypeOK

LEMMA NextCallShape == ASSUME Typed, Shape, NextCall PROVE Shape'
<1>0. PICK n : n = Head(calls)
  OBVIOUS
<1>1. /\ n \in CallNames /\ n \in Todo /\ calls # <<>> /\ Ordered(cmds') /\ \A c \in Range(cmds') : Part(n, c)
      /\ Todo' \subseteq Todo /\ \A m \in Todo : m = n \/ m \in Todo'
      /\ Staged(calls) => Staged(calls') /\ \A m \in Todo' : CallStage(n) < CallStage(m)
      /\ phase \in {"working", "editing", "stopping"} /\ phase' = phase /\ after' = after /\ asked' = asked /\ req' = req
  BY <1>0, CallRuns
<1>2. ASSUME phase = "working"
      PROVE  /\ Staged(calls') /\ (Todo' \cap Early # {} => "route-up" \in Todo')
             /\ ("route-up" \in Todo' => "dns-up" \in Todo') /\ WorkShape(n)'
  <2>1. Staged(calls') /\ \A m \in Todo' : CallStage(n) < CallStage(m)
    BY <1>1, <1>2 DEF Shape, WorkingShape
  <2>2. \A m \in Todo' \cap Early : n # "route-up"
    BY <2>1 DEF Early, CallStage
  <2>3. "route-up" \in Todo' => n # "dns-up"
    BY <2>1 DEF CallStage
  <2>4. (Todo \cap Early # {} => "route-up" \in Todo) /\ ("route-up" \in Todo => "dns-up" \in Todo)
    BY <1>2 DEF Shape, WorkingShape
  <2>5. Todo' \cap Early # {} => "route-up" \in Todo'
    BY <1>1, <2>2, <2>4
  <2>6. "route-up" \in Todo' => "dns-up" \in Todo'
    BY <1>1, <2>3, <2>4
  <2>7. n \in Early => "route-up" \in Todo'
    BY <1>1, <2>4 DEF Early
  <2>8. n \in Early \cup {"route-up"} => "dns-up" \in Todo'
    BY <1>1, <2>4, <2>6, <2>7
  <2> QED
    BY <1>1, <2>1, <2>5, <2>6, <2>7, <2>8 DEF WorkShape, Ahead
<1>3. WorkingShape'
  BY <1>1, <1>2 DEF WorkingShape
<1>4. EditingShape'
  BY <1>1 DEF Shape, EditingShape, Ahead, Part
<1>5. StoppingShape'
  BY <1>1 DEF Shape, StoppingShape, Ahead
<1>6. RestShape'
  BY <1>1 DEF RestShape
<1> QED
  BY <1>1, <1>3, <1>4, <1>5, <1>6 DEF Shape

\* The routes are laid by a connect.
LEMMA RouteUpOfConnect ==
    ASSUME Typed, Shape, NextCall, Head(calls) \in {"route-up", "split-refresh", "dns-up", "killswitch-up", "start"}
    PROVE  phase = "working"
BY CallRuns DEF Shape, EditingShape, StoppingShape, StopNames

LEMMA NextCallBlocking ==
    ASSUME Typed, Shape, NextCall
    PROVE  /\ Blocking' => Blocking
           /\ phase = "working" => (NotBlocked' <=> NotBlocked)
           /\ phase = "working" /\ NotBlocked => Head(calls) # "killswitch-down"
<1> DEFINE n == Head(calls)
<1>1. /\ n \in CallNames /\ n \in Todo /\ Range(cmds) = {} /\ \A c \in Range(cmds') : Part(n, c)
      /\ Todo' \subseteq Todo /\ \A m \in Todo : m = n \/ m \in Todo'
      /\ phase = "working" => \A m \in Todo' : CallStage(n) < CallStage(m)
      /\ phase' = phase
  BY CallRuns DEF Shape, WorkingShape
<1>2. n = "killswitch-up" => DoesIn(cmds', "block")
  BY NextCallBrings
<1> HIDE DEF n
<1>3. DoesIn(cmds', "block") \/ DoesIn(cmds', "verify") => n = "killswitch-up"
  BY <1>1, PartByName
<1>4. ~DoesIn(cmds, "block") /\ ~DoesIn(cmds, "verify")
  BY <1>1 DEF DoesIn
<1>5. "killswitch-up" \in Todo /\ phase = "working" => n # "killswitch-down"
  BY <1>1 DEF CallStage
<1> QED
  BY <1>1, <1>2, <1>3, <1>4, <1>5 DEF Blocking, NotBlocked, Does, n

LEMMA NextCallRouteInv == ASSUME Typed, Shape, RouteInv, NextCall PROVE RouteInv'
<1>0. PICK n : n = Head(calls)
  OBVIOUS
<1>1. /\ n \in CallNames /\ n \in Todo /\ Range(cmds) = {} /\ \A c \in Range(cmds') : Part(n, c)
      /\ Todo' \subseteq Todo /\ \A m \in Todo : m = n \/ m \in Todo'
      /\ phase = "working" => \A m \in Todo' : CallStage(n) < CallStage(m)
      /\ host' = host /\ phase' = phase /\ (Settled' <=> Settled)
  BY <1>0, CallRuns DEF Shape, WorkingShape, Settled, Attended
<1> SUFFICES ASSUME Settled PROVE RouteInv'
  BY <1>1 DEF RouteInv
<1>2. /\ n = "route-up" => phase = "working" /\ \A i \in Footing \cup Always \cup WithTun : LaysIn(cmds', i)
      /\ n = "route-down" => \A i \in Devices : DropsIn(cmds', i)
  BY <1>0, NextCallBrings, RouteUpOfConnect DEF Settled
<1>3. \A i : ~DropsIn(cmds, i)
  BY <1>1 DEF DropsIn
<1>4. ("high" \in L => Pins4 \subseteq L) /\ ("low" \in L => {"rule4.bypass", "phys.default"} \subseteq L)
  BY <1>1 DEF RouteInv
<1>5. LaysIn(cmds', "low") \/ LaysIn(cmds', "high") => \A i \in Footing : LaysIn(cmds', i)
  BY <1>1, <1>2, Kinds, PartByName
<1>6. ASSUME DropsIn(cmds', "rule4.bypass") PROVE LaysIn(cmds', "rule4.bypass") /\ "low" \notin L
  <2>1. n = "route-up"
    BY <1>1, <1>6, PartByName
  <2>2. "low" \notin L \/ "route-down" \in Todo
    BY <1>1, <1>2, <1>3, <2>1 DEF RouteInv, Dropping
  <2>3. "route-down" \notin Todo
    BY <1>1, <1>2, <2>1 DEF CallStage
  <2> QED
    BY <1>2, <2>1, <2>2, <2>3 DEF Footing
<1>7. DoesIn(cmds', "drop_bypass_rules") \/ DoesIn(cmds', "flush100") \/ DoesIn(cmds', "unpin4")
        => DropsIn(cmds', "low") /\ DropsIn(cmds', "high")
  BY <1>1, <1>2, PartByName DEF RunByRouteDown, Devices
<1>8. ASSUME phase = "working", "route-up" \in Todo'
      PROVE  "low" \notin L \/ DropsIn(cmds', "low") \/ "route-down" \in Todo'
  <2>1. "low" \notin L \/ "route-down" \in Todo
    BY <1>1, <1>3, <1>8 DEF RouteInv, Dropping
  <2> QED
    BY <1>1, <1>2, <2>1 DEF Devices
<1> QED
  BY <1>1, <1>4, <1>5, <1>6, <1>7, <1>8 DEF RouteInv, L, Laying, Dropping, Does

LEMMA NextCallPlaneInv == ASSUME Typed, Shape, PlaneInv, NextCall PROVE PlaneInv'
<1>0. PICK n : n = Head(calls)
  OBVIOUS
<1>1. /\ n \in CallNames /\ n \in Todo /\ Range(cmds) = {} /\ \A c \in Range(cmds') : Part(n, c)
      /\ Todo' \subseteq Todo /\ \A m \in Todo : m = n \/ m \in Todo'
      /\ host' = host /\ phase' = phase /\ was' = was /\ after' = after
  BY <1>0, CallRuns
<1>2. /\ n = "route-up" => \A i \in Footing \cup Always \cup WithTun : LaysIn(cmds', i)
      /\ n = "dns-up" => LaysIn(cmds', "nft.dns")
  BY <1>0, NextCallBrings
<1>3. (\A i : ~LaysIn(cmds, i)) /\ Shape' /\ (Blocking' => Blocking)
  BY <1>1, NextCallShape, NextCallBlocking DEF LaysIn
<1>4. Live \/ (Blocking' /\ was) => Plane
  BY <1>3 DEF PlaneInv
<1>5. ASSUME phase = "working", "route-up" \notin Todo', NEW i \in Always \cup (IF host.xray THEN WithTun ELSE {})
      PROVE  i \in L \/ LaysIn(cmds', i)
  BY <1>1, <1>2, <1>3, <1>5 DEF PlaneInv, Laying
<1>6. ASSUME phase = "working", "dns-up" \notin Todo' PROVE "nft.dns" \in L \/ LaysIn(cmds', "nft.dns")
  BY <1>1, <1>2, <1>3, <1>6 DEF PlaneInv, Laying
<1>7. ASSUME phase = "working", NEW i \in {"dns.rule", "rule4.bypass"}, DropsIn(cmds', i)
      PROVE  LaysIn(cmds', i) \/ "route-up" \in Todo'
  <2>1. n \in {"route-up", "route-down"}
    BY <1>1, <1>7, PartByName
  <2>2. CASE n = "route-up"
    BY <1>2, <2>2 DEF Always
  <2>3. CASE n = "route-down"
    <3>1. PICK c \in Range(cmds') : c.do = "drop" /\ c.what = i
      BY <1>7 DEF DropsIn
    <3>2. cmds' # <<>> /\ phase' = "working"
      BY <1>1, <1>7, <3>1, ProperEmpty
    <3>3. PICK name \in CallNames : WorkShape(name)'
      BY <1>3, <3>2 DEF Shape, WorkingShape
    <3>4. name \in {"route-up", "route-down"}
      BY <1>7, <3>3, PartByName DEF WorkShape, Ahead
    <3>5. i = "dns.rule"
      BY <1>1, <1>7, <2>3, PartByName
    <3>6. CASE name = "route-down"
      BY <3>3, <3>6 DEF WorkShape, Early
    <3>7. CASE name = "route-up"
      <4>1. "route-up" \in Todo
        BY <1>1, <1>7, <2>3 DEF Shape, WorkingShape, Early
      <4> QED
        BY <1>1, <2>3, <4>1
    <3> QED
      BY <3>4, <3>6, <3>7
  <2> QED
    BY <2>1, <2>2, <2>3
<1> QED
  BY <1>1, <1>3, <1>4, <1>5, <1>6, <1>7 DEF PlaneInv, Live, Plane, L, Laying, Dropping

LEMMA NextCallUnblockInv == ASSUME Typed, Shape, UnblockInv, NextCall PROVE UnblockInv'
<1>0. PICK n : n = Head(calls)
  OBVIOUS
<1>1. /\ n \in CallNames /\ n \in Todo /\ Range(cmds) = {}
      /\ Todo' \subseteq Todo /\ \A m \in Todo : m = n \/ m \in Todo'
      /\ host' = host /\ phase' = phase /\ was' = was /\ after' = after /\ asked' = asked /\ req' = req
  BY <1>0, CallRuns
<1>2. n = "killswitch-down" => DropsIn(cmds', "nft.ks")
  BY <1>0, NextCallBrings
<1>3. ~DropsIn(cmds, "nft.ks")
  BY <1>1 DEF DropsIn
<1>4. Unblocking => Unblocking'
  BY <1>1, <1>2, <1>3 DEF Unblocking, L, Dropping
<1>5. phase = "working" /\ NotBlocked' => NotBlocked /\ n # "killswitch-down"
  BY <1>0, NextCallBlocking
<1> QED
  BY <1>1, <1>4, <1>5 DEF UnblockInv, L

LEMMA NextCallBlockInv == ASSUME Typed, Shape, BlockInv, NextCall PROVE BlockInv'
<1>0. PICK n : n = Head(calls)
  OBVIOUS
<1>1. /\ n \in CallNames /\ n \in Todo /\ calls # <<>> /\ \A c \in Range(cmds') : Part(n, c)
      /\ Todo' \subseteq Todo /\ phase \in {"working", "editing", "stopping"}
      /\ host' = host /\ phase' = phase /\ was' = was /\ after' = after /\ asked' = asked /\ req' = req
  BY <1>0, CallRuns
<1>2. DropsIn(cmds', "nft.ks") => "killswitch-down" \in Todo
  BY <1>1, PartByName
<1>3. (Blocking' => Blocking) /\ (phase = "working" => (NotBlocked' <=> NotBlocked))
  BY NextCallBlocking
<1>4. ~(phase = "stopping" /\ after = "up")
  BY <1>1 DEF Shape, StoppingShape
<1> QED
  BY <1>1, <1>2, <1>3, <1>4 DEF BlockInv, Live, Idle, L, Dropping

LEMMA NextCallBareInv == ASSUME Typed, Shape, BareInv, NextCall PROVE BareInv'
<1>0. PICK n : n = Head(calls)
  OBVIOUS
<1>1. /\ n \in CallNames /\ n \in Todo /\ Range(cmds) = {} /\ phase \in {"working", "editing", "stopping"}
      /\ Todo' \subseteq Todo /\ \A m \in Todo : m = n \/ m \in Todo'
      /\ host' = host /\ phase' = phase /\ was' = was /\ after' = after
  BY <1>0, CallRuns
<1> SUFFICES ASSUME ~host.left PROVE BareInv'
  BY <1>1 DEF BareInv
<1>2. /\ n = "route-down" => \A i \in Devices : DropsIn(cmds', i)
      /\ n = "dns-down" => DropsIn(cmds', "nft.dns")
  BY <1>0, NextCallBrings
<1>3. \A i : ~DropsIn(cmds, i)
  BY <1>1 DEF DropsIn
<1>4. Blocking' => Blocking
  BY NextCallBlocking
<1>5. ASSUME phase = "stopping", after # "up"
      PROVE  /\ \A i \in Devices : i \notin L \/ DropsIn(cmds', i) \/ "route-down" \in Todo'
             /\ "nft.dns" \notin L \/ DropsIn(cmds', "nft.dns") \/ "dns-down" \in Todo'
  BY <1>1, <1>2, <1>3, <1>5 DEF BareInv, Dropping
<1> QED
  BY <1>1, <1>4, <1>5 DEF BareInv, Bare, L, Dropping

LEMMA NextCallRpInv == ASSUME Typed, Shape, RpInv, NextCall PROVE RpInv'
<1>0. PICK n : n = Head(calls)
  OBVIOUS
<1>1. /\ n \in CallNames /\ n \in Todo /\ Range(cmds) = {} /\ \A c \in Range(cmds') : Part(n, c)
      /\ Todo' \subseteq Todo /\ \A m \in Todo : m = n \/ m \in Todo'
      /\ phase = "working" => \A m \in Todo' : CallStage(n) < CallStage(m)
      /\ phase \in {"working", "editing", "stopping"} /\ (Settled' <=> Settled)
      /\ host' = host /\ phase' = phase /\ was' = was /\ after' = after /\ crashes' = crashes
  BY <1>0, CallRuns DEF Shape, WorkingShape, Settled, Attended
<1> SUFFICES ASSUME crashes = 0, ~host.left PROVE RpInv'
  BY <1>1 DEF RpInv, Settled
<1>2. n = "route-down" => DoesIn(cmds', "restore")
  BY <1>0, NextCallBrings
<1>3. n = "route-up" => phase = "working"
  BY <1>0, RouteUpOfConnect
<1>4. ~DoesIn(cmds, "restore")
  BY <1>1 DEF DoesIn
<1>5. Blocking' => Blocking
  BY NextCallBlocking
<1>6. ASSUME crashes = 0, DoesIn(cmds', "loosen") PROVE RpClean
  <2>1. n = "route-up"
    BY <1>1, <1>6, PartByName
  <2>2. RpClean \/ "route-down" \in Todo
    BY <1>1, <1>3, <1>4, <1>6, <2>1 DEF RpInv, Restoring, Does
  <2>3. "route-down" \notin Todo
    BY <1>1, <1>3, <2>1 DEF CallStage
  <2> QED
    BY <2>2, <2>3
<1>7. Restoring => Restoring'
  BY <1>1, <1>2, <1>4 DEF Restoring, RpClean, Does
<1> QED
  BY <1>1, <1>5, <1>6, <1>7 DEF RpInv, RpClean, Does

LEMMA NextCallLanInv == ASSUME Typed, Shape, LanInv, NextCall PROVE LanInv'
<1>0. PICK n : n = Head(calls)
  OBVIOUS
<1>1. /\ n \in CallNames /\ (\A c \in Range(cmds') : Part(n, c)) /\ (\A l : FlushLate(l, cmds'))
      /\ host' = host /\ refusals' = refusals
  BY <1>0, CallRuns
<1>2. /\ n = "route-up" => \A t \in Thrown : LaysIn(cmds', t[1]) => LaysIn(cmds', t[2])
      /\ n \in {"split-up", "split-refresh"} => LaysIn(cmds', "split.throw")
  BY <1>0, NextCallBrings
<1>3. ASSUME NEW t \in Thrown, LaysIn(cmds', t[1]) PROVE LaysIn(cmds', t[2])
  <2>1. CASE t[1] \in Rules4 \cup Rules6
    <3>1. n = "route-up"
      BY <1>1, <1>3, <2>1, PartByName DEF LaidByRouteUp
    <3> QED
      BY <1>2, <1>3, <3>1
  <2>2. CASE t[1] = "split.rule"
    <3>1. n \in {"split-up", "split-refresh"} /\ t[2] = "split.throw"
      BY <1>1, <1>3, <2>2, PartByName, ThrownKinds
    <3> QED
      BY <1>2, <3>1
  <2> QED
    BY <2>1, <2>2, ThrownKinds
<1>4. LaysIn(cmds', "split.rule") => LaysIn(cmds', "split.throw")
  <2>1. <<"split.rule", "split.throw">> \in Thrown
    BY DEF Thrown
  <2> QED
    BY <1>3, <2>1
<1> QED
  BY <1>1, <1>3, <1>4 DEF LanInv, L, Laying

LEMMA NextCallInv == ASSUME IInv, NextCall PROVE IInv'
<1>1. V6Inv'
  BY CallRuns DEF IInv, V6Inv, L
<1> QED
  BY <1>1, NextCallTyped, NextCallShape, NextCallRouteInv, NextCallPlaneInv, NextCallUnblockInv, NextCallBlockInv,
     NextCallBareInv, NextCallRpInv, NextCallLanInv DEF IInv

-----------------------------------------------------------------------------
(* The other actions.                                                       *)

\* Where there is no command there is nothing to lay, to drop or to do.
LEMMA NoCommands ==
    ASSUME NEW s, s = <<>>
    PROVE  /\ s \in Seq(CommandSet) /\ Range(s) = {} /\ Ordered(s) /\ \A l : FlushLate(l, s)
           /\ \A i : ~LaysIn(s, i) /\ ~DropsIn(s, i) /\ ~DoesIn(s, i)
<1>1. Proper(s) /\ Range(s) = {}
  BY ProperEmpty
<1>2. \A l : FlushLate(l, s)
  BY <1>1, FlushLateIfNone DEF Proper
<1> QED
  BY <1>1, <1>2 DEF Proper, LaysIn, DropsIn, DoesIn

\* What is laid stays together when nothing is about to be done to it.
LEMMA QuietLanInv ==
    ASSUME LanInv, cmds' = <<>>, refusals' = refusals,
           \A t \in Thrown : t[1] \in host'.laid => t[1] \in host.laid,
           \A t \in Thrown : t[2] \in host.laid => t[2] \in host'.laid
    PROVE  LanInv'
BY NoCommands DEF LanInv, L, Laying, Does

\* Phases in which nothing is to come.
LEMMA RestingPhases ==
    ASSUME IInv, phase \in {"down", "refused", "up", "blocked", "dead", "stuck"}
    PROVE  cmds = <<>> /\ calls = <<>>
BY DEF IInv, Shape, RestShape, Idle

LEMMA ConnectInv == ASSUME IInv, NEW r \in Requests, Connect(r) PROVE IInv'
<1>1. /\ cmds = <<>> /\ cmds' = <<>> /\ phase \in Resting /\ phase' = "working"
      /\ was' = (phase = "up") /\ asked' = r /\ req' = req /\ host' = host /\ saved' = saved
      /\ crashes' = crashes /\ refusals' = refusals
      /\ after' = (IF phase \in {"blocked", "refused", "stuck"} THEN "refused" ELSE phase)
      /\ (phase = "stuck" => host.left)
  BY RestingPhases DEF Connect, Resting, IInv, Shape, RestShape
<1>2. /\ calls' \in Seq(CallNames) /\ Staged(calls') /\ {"killswitch-up", "route-up", "dns-up"} \subseteq Todo'
      /\ phase = "up" => {"dns-down", "route-down"} \subseteq Todo'
      /\ "killswitch-down" \in Todo' <=> ~r.ks
  BY ConnectCallsShape DEF Connect, Todo
<1>3. Range(cmds') = {} /\ Ordered(cmds') /\ \A i : ~LaysIn(cmds', i) /\ ~DropsIn(cmds', i) /\ ~DoesIn(cmds', i)
  BY <1>1, NoCommands
<1>4. r \in [ks : BOOLEAN, lan : BOOLEAN, split : Nat]
  BY HostAssumption
<1>5. Typed'
  BY <1>1, <1>2, <1>4, NoCommands DEF IInv, Typed, TypeOK, Phases
<1>6. Shape'
  BY <1>1, <1>2, <1>3 DEF Shape, WorkingShape, EditingShape, StoppingShape, RestShape
<1>7. ~host.left /\ phase # "up" => Bare
  BY <1>1 DEF IInv, BareInv, Resting
<1>8. RouteInv'
  <2>1. ~host.left => "low" \notin L \/ "route-down" \in Todo'
    BY <1>1, <1>2, <1>7 DEF Bare, Devices
  <2>2. Settled' => Settled /\ ~host.left
    BY <1>1 DEF Settled, Attended, Resting
  <2> QED
    BY <1>1, <1>3, <2>1, <2>2 DEF IInv, RouteInv, L, Laying, Dropping, Does
<1>9. PlaneInv'
  <2>1. phase = "up" => Plane
    BY DEF IInv, PlaneInv, Live
  <2>2. (was' <=> after' = "up")
    BY <1>1
  <2> QED
    BY <1>1, <1>2, <1>3, <2>1, <2>2 DEF PlaneInv, Live, Plane, L, Laying, Dropping, Resting
<1>10. UnblockInv'
  <2>1. phase = "down" \/ (phase = "up" /\ ~req.ks) => "nft.ks" \notin L
    BY DEF IInv, UnblockInv
  <2> QED
    BY <1>1, <1>2, <2>1 DEF UnblockInv, Unblocking, L
<1>11. BareInv'
  BY <1>1, <1>7 DEF BareInv, Bare, L, Resting
<1>12. RpInv'
  <2>1. crashes = 0 => Settled' /\ phase # "stuck"
    BY <1>1 DEF IInv, RpInv, Settled, Attended
  <2>2. crashes = 0 /\ phase \in {"down", "refused", "blocked"} => RpClean
    BY DEF IInv, RpInv
  <2> QED
    BY <1>1, <1>2, <1>3, <2>1, <2>2 DEF IInv, RpInv, RpClean, Restoring, Does, Resting
<1>13. LanInv' /\ V6Inv'
  BY <1>1, QuietLanInv DEF IInv, V6Inv, L
<1>14. BlockInv => BlockInv'
  <2>1. BlockInv /\ phase = "up" => (req.ks => "nft.ks" \in L)
    BY DEF BlockInv, Live
  <2>2. NotBlocked'
    BY <1>2 DEF NotBlocked
  <2> QED
    BY <1>1, <1>2, <1>3, <2>1, <2>2 DEF BlockInv, Live, L, Dropping
<1> QED
  BY <1>5, <1>6, <1>8, <1>9, <1>10, <1>11, <1>12, <1>13, <1>14 DEF IInv

\* An edit, or the roll back of one: the data plane is as it is.
LEMMA EditingInv ==
    ASSUME IInv, phase \in {"up", "editing"}, phase' = "editing", cmds' = <<>>,
           calls' \in Seq(CallNames), Range(calls') \subseteq {"split-up", "split-down"},
           asked' \in [ks : BOOLEAN, lan : BOOLEAN, split : Nat], asked'.ks = req.ks,
           UNCHANGED <<host, was, after, req, saved, crashes, refusals>>
    PROVE  IInv'
<1>1. Range(cmds') = {} /\ Ordered(cmds') /\ \A i : ~LaysIn(cmds', i) /\ ~DropsIn(cmds', i) /\ ~DoesIn(cmds', i)
  BY NoCommands
<1>2. Typed'
  BY NoCommands DEF IInv, Typed, TypeOK, Phases
<1>3. Shape'
  BY <1>1 DEF Shape, WorkingShape, EditingShape, StoppingShape, RestShape, Todo, Ahead
<1>4. RouteInv'
  BY <1>1 DEF IInv, RouteInv, L, Laying, Dropping, Does, Settled, Attended
<1>5. PlaneInv'
  BY DEF IInv, PlaneInv, Live, Plane, L, Blocking
<1>6. UnblockInv'
  BY DEF IInv, UnblockInv, L
<1>7. BareInv' /\ V6Inv'
  BY DEF IInv, BareInv, Blocking, V6Inv, L
<1>8. RpInv'
  BY <1>1 DEF IInv, RpInv, RpClean, Settled, Attended, Blocking, Does
<1>9. LanInv'
  BY QuietLanInv DEF IInv
<1>10. BlockInv => BlockInv'
  BY DEF BlockInv, Live, L, Blocking
<1> QED
  BY <1>2, <1>3, <1>4, <1>5, <1>6, <1>7, <1>8, <1>9, <1>10 DEF IInv

LEMMA EditSplitInv == ASSUME IInv, NEW n \in {r.split : r \in Requests}, EditSplit(n) PROVE IInv'
<1>1. phase = "up" /\ phase' = "editing" /\ cmds' = <<>> /\ asked' = [req EXCEPT !.split = n]
      /\ UNCHANGED <<host, was, after, req, saved, crashes, refusals>>
  BY RestingPhases DEF EditSplit
<1>2. n \in Nat
  BY HostAssumption
<1>3. asked' \in [ks : BOOLEAN, lan : BOOLEAN, split : Nat] /\ asked'.ks = req.ks
  BY <1>1, <1>2 DEF IInv, Typed, TypeOK
<1>4. calls' \in Seq(CallNames) /\ Range(calls') \subseteq {"split-up", "split-down"}
  <2> DEFINE a == Only("split-down", n = 0 /\ HasSplit)
             b == Only("split-up", n # 0 /\ ~HasSplit)
  <2>1. a \in Seq(CallNames) /\ Range(a) \subseteq {"split-down"} /\ b \in Seq(CallNames) /\ Range(b) \subseteq {"split-up"}
    BY OnlyCalls DEF CallNames, SplitNames
  <2>2. calls' = a \o b
    BY DEF EditSplit
  <2> HIDE DEF a, b
  <2> QED
    BY <2>1, <2>2, ConcatElements
<1> QED
  BY <1>1, <1>3, <1>4, EditingInv

LEMMA EditFailsInv == ASSUME IInv, EditFails PROVE IInv'
<1>1. phase = "editing" /\ phase' = "editing" /\ cmds' = <<>> /\ asked' = [asked EXCEPT !.split = 0]
      /\ UNCHANGED <<host, was, after, req, saved, crashes, refusals>>
  BY DEF EditFails
<1>2. asked' \in [ks : BOOLEAN, lan : BOOLEAN, split : Nat] /\ asked'.ks = req.ks
  BY <1>1 DEF IInv, Typed, TypeOK, Shape, EditingShape
<1>3. calls' \in Seq(CallNames) /\ Range(calls') \subseteq {"split-up", "split-down"}
  BY OnlyCalls DEF EditFails, CallNames, SplitNames
<1> QED
  BY <1>1, <1>2, <1>3, EditingInv

\* A stop of a live or a blocked connection.
LEMMA StopBegins ==
    ASSUME IInv, phase \in Resting, phase' = "stopping", after' \in {"down", "blocked"},
           calls' \in Seq(CallNames), Range(calls') \subseteq StopNames,
           phase = "up" => {"dns-down", "route-down"} \subseteq Range(calls'),
           after' = "down" => "nft.ks" \notin L \/ "killswitch-down" \in Range(calls'),
           after' = "blocked" => phase = "up" /\ req.ks /\ "killswitch-down" \notin Range(calls'),
           UNCHANGED <<host, was, asked, req, cmds, saved, crashes, refusals>>
    PROVE  IInv'
<1>0. phase = "stuck" => host.left
  BY DEF IInv, Shape, RestShape
<1>1. cmds' = <<>>
  BY RestingPhases DEF Resting
<1>2. Range(cmds') = {} /\ Ordered(cmds') /\ \A i : ~LaysIn(cmds', i) /\ ~DropsIn(cmds', i) /\ ~DoesIn(cmds', i)
  BY <1>1, NoCommands
<1>3. Typed'
  BY <1>1, NoCommands DEF IInv, Typed, TypeOK, Phases
<1>4. Shape'
  <2>1. "route-down" \in StopNames
    BY DEF StopNames
  <2> QED
    BY <1>2, <2>1 DEF Shape, WorkingShape, EditingShape, StoppingShape, RestShape, Todo, Ahead
<1>5. RouteInv'
  BY <1>2, <1>0 DEF IInv, RouteInv, L, Laying, Dropping, Does, Settled, Attended, Resting
<1>6. PlaneInv'
  BY DEF PlaneInv, Live, Blocking
<1>7. UnblockInv'
  BY DEF UnblockInv, Unblocking, L, Todo
<1>8. BareInv'
  <2>1. ~host.left /\ phase # "up" => Bare
    BY <1>0 DEF IInv, BareInv, Resting
  <2> QED
    BY <2>1 DEF BareInv, Bare, Blocking, L, Todo
<1>9. RpInv'
  <2>1. crashes = 0 /\ phase # "up" => RpClean
    BY DEF IInv, RpInv, Resting, Settled, Attended
  <2>2. crashes = 0 => Settled /\ (RpClean \/ (host.rp = "loose" /\ host.rpFile = "orig"))
    BY DEF IInv, RpInv
  <2> QED
    BY <1>2, <2>1, <2>2 DEF RpInv, RpClean, Restoring, Settled, Attended, Blocking, Does, Todo
<1>10. LanInv' /\ V6Inv'
  BY <1>1, QuietLanInv DEF IInv, V6Inv, L
<1>11. BlockInv => BlockInv'
  BY <1>2 DEF BlockInv, Live, L, Blocking, Todo, Dropping
<1> QED
  BY <1>3, <1>4, <1>5, <1>6, <1>7, <1>8, <1>9, <1>10, <1>11 DEF IInv

LEMMA DisconnectInv == ASSUME IInv, Disconnect PROVE IInv'
<1> DEFINE stop == (IF phase = "up" THEN StopCalls(FALSE) ELSE <<>>)
           unblock == <<"killswitch-down">>
<1>1. phase \in Resting /\ phase' = "stopping" /\ after' = "down" /\ calls' = stop \o unblock
      /\ UNCHANGED <<host, was, asked, req, cmds, saved, crashes, refusals>>
  BY DEF Disconnect, Stop, Only
<1>2. stop \in Seq(CallNames) /\ Range(stop) \subseteq StopNames
      /\ (phase = "up" => {"dns-down", "route-down"} \subseteq Range(stop))
  <2>1. CASE phase = "up"
    BY <2>1, StopCallsShape DEF StopNames
  <2>2. CASE phase # "up"
    BY <2>2, NoCalls
  <2> QED
    BY <2>1, <2>2
<1>3. unblock \in Seq(CallNames) /\ Range(unblock) = {"killswitch-down"}
  BY DEF CallNames, Range
<1> HIDE DEF stop, unblock
<1>4. calls' \in Seq(CallNames) /\ Range(calls') = Range(stop) \cup Range(unblock)
  BY <1>1, <1>2, <1>3, ConcatElements
<1>5. Range(calls') \subseteq StopNames /\ "killswitch-down" \in Range(calls')
      /\ (phase = "up" => {"dns-down", "route-down"} \subseteq Range(calls'))
  BY <1>2, <1>3, <1>4 DEF StopNames
<1> QED
  BY <1>1, <1>4, <1>5, StopBegins

LEMMA ReconcileHealthInv == ASSUME IInv, ReconcileHealth PROVE IInv'
<1>1. phase = "up" /\ phase' = "stopping" /\ after' = (IF req.ks THEN "blocked" ELSE "down")
      /\ calls' = StopCalls(FALSE) /\ UNCHANGED <<host, was, asked, req, cmds, saved, crashes, refusals>>
  BY DEF ReconcileHealth
<1>2. /\ calls' \in Seq(CallNames) /\ {"dns-down", "route-down"} \subseteq Range(calls')
      /\ Range(calls') \subseteq {"split-down", "dns-down", "route-down", "terminate"}
  BY <1>1, StopCallsShape
<1>3. ~req.ks => "nft.ks" \notin L
  BY <1>1 DEF IInv, UnblockInv
<1>4. Range(calls') \subseteq StopNames /\ "killswitch-down" \notin Range(calls')
  BY <1>2 DEF StopNames
<1> QED
  BY <1>1, <1>2, <1>3, <1>4, StopBegins DEF Resting

LEMMA EndCommandInv == ASSUME IInv, EndCommand PROVE IInv'
<1>1. /\ phase \in {"working", "editing", "stopping"} /\ cmds = <<>> /\ calls = <<>> /\ cmds' = <<>> /\ calls' = <<>>
      /\ phase' = (IF phase = "stopping" THEN after ELSE "up")
      /\ req' = (IF phase # "stopping" THEN asked ELSE IF after = "down" THEN NoRequest ELSE req)
      /\ asked' = req' /\ was' = FALSE /\ after' = "down" /\ saved' \in BOOLEAN
      /\ host' = host /\ crashes' = crashes /\ refusals' = refusals
  BY DEF EndCommand, AtWork, Idle
<1>2. phase = "stopping" => after \in {"down", "blocked", "refused", "up"}
  BY DEF IInv, Shape, StoppingShape
<1>3. Range(cmds) = {} /\ \A i : ~LaysIn(cmds, i) /\ ~DropsIn(cmds, i) /\ ~DoesIn(cmds, i)
  BY <1>1, NoCommands
<1>4. Range(cmds') = {} /\ Ordered(cmds') /\ \A i : ~LaysIn(cmds', i) /\ ~DropsIn(cmds', i) /\ ~DoesIn(cmds', i)
  BY <1>1, NoCommands
<1>5. Todo = {} /\ calls' \in Seq(CallNames)
  BY <1>1, NoCalls DEF Todo
<1>6. req' \in [ks : BOOLEAN, lan : BOOLEAN, split : Nat]
  BY <1>1 DEF IInv, Typed, TypeOK, NoRequest
<1>7. Typed'
  BY <1>1, <1>2, <1>5, <1>6, NoCommands DEF IInv, Typed, TypeOK, Phases
<1>8. phase' \in {"down", "blocked", "refused", "up"} /\ (Settled' <=> Settled)
  BY <1>1, <1>2 DEF Settled, Attended
<1>9. Shape'
  BY <1>1, <1>4, <1>8 DEF Shape, WorkingShape, EditingShape, StoppingShape, RestShape, Idle
<1>10. RouteInv'
  BY <1>1, <1>4, <1>8 DEF IInv, RouteInv, L, Laying, Dropping, Does
<1>11. PlaneInv'
  <2>1. CASE phase = "working"
    BY <1>1, <1>3, <1>5, <1>8, <2>1 DEF IInv, PlaneInv, Live, Plane, L, Laying, Blocking
  <2>2. CASE phase # "working"
    BY <1>1, <1>8, <2>2 DEF IInv, PlaneInv, Live, Plane, L, Blocking
  <2> QED
    BY <2>1, <2>2
<1>12. UnblockInv'
  <2>1. phase = "stopping" /\ after \in {"down", "up"} => ("nft.ks" \notin L \/ (after = "up" /\ req.ks))
    BY <1>3, <1>5 DEF IInv, UnblockInv, Unblocking, Dropping
  <2>2. phase = "working" => ("nft.ks" \notin L \/ asked.ks)
    BY <1>3, <1>5 DEF IInv, UnblockInv, Unblocking, Dropping
  <2>3. phase = "editing" => ("nft.ks" \notin L \/ asked.ks)
    BY DEF IInv, UnblockInv, Shape, EditingShape
  <2> QED
    BY <1>1, <1>2, <1>8, <2>1, <2>2, <2>3 DEF UnblockInv, L
<1>13. BareInv'
  <2>1. ~host.left /\ phase = "stopping" /\ after # "up" => Bare
    BY <1>3, <1>5 DEF IInv, BareInv, Bare, Dropping
  <2> QED
    BY <1>1, <1>8, <2>1 DEF BareInv, Bare, Blocking, L
<1>14. RpInv'
  <2>1. crashes = 0 /\ phase = "stopping" /\ after # "up" => RpClean
    BY <1>3, <1>5 DEF IInv, RpInv, Restoring, Does
  <2>2. crashes = 0 => Settled /\ (RpClean \/ (host.rp = "loose" /\ host.rpFile = "orig"))
    BY DEF IInv, RpInv
  <2> QED
    BY <1>1, <1>4, <1>8, <2>1, <2>2 DEF RpInv, RpClean, Blocking, Does
<1>15. LanInv' /\ V6Inv'
  BY <1>1, QuietLanInv DEF IInv, V6Inv, L
<1>16. BlockInv => BlockInv'
  <2> SUFFICES ASSUME BlockInv PROVE BlockInv'
    OBVIOUS
  <2>1. phase = "stopping" /\ after = "blocked" => "nft.ks" \in L
    BY DEF BlockInv
  <2>2. phase = "working" => ("nft.ks" \in L \/ ~asked.ks)
    BY <1>3, <1>5 DEF BlockInv, NotBlocked, Does
  <2>3. phase = "editing" => ("nft.ks" \in L \/ ~asked.ks)
    BY DEF IInv, BlockInv, Live, Shape, EditingShape
  <2>4. phase = "stopping" /\ after = "up" => ("nft.ks" \in L \/ ~req.ks)
    BY DEF BlockInv, Live
  <2>5. Todo' = {}
    BY <1>1, NoCalls DEF Todo
  <2> QED
    BY <1>1, <1>2, <1>4, <1>8, <2>1, <2>2, <2>3, <2>4, <2>5 DEF BlockInv, Live, Blocking, L, Dropping
<1> QED
  BY <1>7, <1>9, <1>10, <1>11, <1>12, <1>13, <1>14, <1>15, <1>16 DEF IInv

\* The block fails: what is left of it goes, and the connection is as before.
LEMMA BlockFailsInv == ASSUME IInv, BlockFails PROVE IInv'
<1> DEFINE c == Head(cmds)
<1>1. /\ phase = "working" /\ phase' = "stopping" /\ cmds # <<>> /\ calls' = <<>> /\ c.do \in {"block", "verify"}
      /\ cmds' = (IF c.do = "verify" THEN <<Drop("nft.ks")>> ELSE <<>>)
      /\ ("verify" \in Faults \/ c.do # "verify" \/ ~Possible(c))
      /\ UNCHANGED <<host, was, after, asked, req, saved, crashes, refusals>>
  BY DEF BlockFails, Fails
<1>2. c \in CommandSet /\ c \in Range(cmds)
  BY <1>1, HeadAndTail DEF IInv, Typed
<1>3. "verify" \notin Faults => c.do = "block"
  BY <1>1, <1>2 DEF CommandSet, Possible, ThroughTun
<1> HIDE DEF c
<1>4. Blocking /\ (c.do = "block" => NotBlocked)
  BY <1>1, <1>2 DEF Blocking, NotBlocked, Does, DoesIn
<1>5. (was <=> after = "up") /\ after \in {"down", "refused", "up"}
  BY <1>4 DEF IInv, PlaneInv
<1>6. cmds' \in Seq(CommandSet) /\ Ordered(cmds') /\ (\A x \in Range(cmds') : x.do = "drop" /\ x.what = "nft.ks")
      /\ (c.do = "verify" => DropsIn(cmds', "nft.ks"))
  <2>1. CASE c.do = "verify"
    <3>1. Drop("nft.ks") \in CommandSet
      BY CommandTypes, FixedItems DEF Table100, Table102
    <3>2. Proper(cmds') /\ Range(cmds') = {Drop("nft.ks")}
      BY <1>1, <2>1, <3>1, ProperOne
    <3> QED
      BY <3>2, DropFields DEF Proper, DropsIn
  <2>2. CASE c.do # "verify"
    BY <1>1, <2>2, NoCommands
  <2> QED
    BY <2>1, <2>2
<1>7. \A i : ~LaysIn(cmds', i) /\ (i # "nft.ks" => ~DropsIn(cmds', i)) /\ (i # "drop" => ~DoesIn(cmds', i))
  BY <1>6 DEF LaysIn, DropsIn, DoesIn
<1>8. calls' \in Seq(CallNames) /\ Todo' = {}
  BY <1>1, NoCalls DEF Todo
<1>9. Settled' <=> Settled
  BY <1>1 DEF Settled, Attended
<1>10. Typed'
  BY <1>1, <1>6, <1>8 DEF IInv, Typed, TypeOK, Phases
<1>11. Shape'
  <2>1. \A x \in Range(cmds') : Part("killswitch-down", x)
    BY <1>6 DEF Part
  <2>2. "killswitch-down" \in StopNames
    BY DEF StopNames
  <2> QED
    BY <1>1, <1>5, <1>6, <1>8, <2>1, <2>2 DEF Shape, WorkingShape, EditingShape, StoppingShape, RestShape, Ahead
<1>12. RouteInv'
  BY <1>1, <1>7, <1>9 DEF IInv, RouteInv, L, Laying, Dropping, Does
<1>13. PlaneInv'
  BY <1>1, <1>4, <1>5 DEF IInv, PlaneInv, Live, Plane, L, Blocking
<1>14. UnblockInv'
  <2>1. c.do = "block" /\ (after = "down" \/ (was /\ ~req.ks)) => "nft.ks" \notin L
    BY <1>1, <1>4 DEF IInv, UnblockInv
  <2> QED
    BY <1>1, <1>5, <1>6, <2>1 DEF UnblockInv, Unblocking, L, Dropping
<1>15. BareInv'
  BY <1>1, <1>4, <1>5 DEF IInv, BareInv, Bare, Blocking, L
<1>16. RpInv'
  BY <1>1, <1>4, <1>5, <1>7, <1>9 DEF IInv, RpInv, RpClean, Restoring, Blocking, Does
<1>17. LanInv'
  <2>1. FlushLate(L, cmds')
    BY <1>6, FlushLateIfNone
  <2> QED
    BY <1>1, <1>7, <2>1 DEF IInv, LanInv, L, Laying
<1>18. V6Inv'
  BY <1>1 DEF IInv, V6Inv, L
<1>19. "verify" \notin Faults => BlockInv'
  BY <1>1, <1>3, <1>4, <1>5 DEF IInv, BlockInv, Live, Blocking, L
<1> QED
  BY <1>10, <1>11, <1>12, <1>13, <1>14, <1>15, <1>16, <1>17, <1>18, <1>19 DEF IInv

\* A connect fails later: route-up or the DNS guard is rolled back, and the data plane is stopped.
LEMMA DataPlaneFailsInv == ASSUME IInv, DataPlaneFails PROVE IInv'
<1> DEFINE c == Head(cmds)
           unblock == Only("killswitch-down", ~was /\ ~asked.ks)
<1>1. /\ phase = "working" /\ phase' = "stopping" /\ cmds # <<>> /\ c.do \notin {"block", "verify"}
      /\ cmds' = RouteDown \/ cmds' = <<Drop("nft.dns")>> \/ cmds' = <<>>
      /\ after' = (IF was \/ asked.ks THEN "blocked" ELSE "down") /\ calls' = StopCalls(FALSE) \o unblock
      /\ UNCHANGED <<host, was, asked, req, saved, crashes, refusals>>
  BY DEF DataPlaneFails, Fails
<1>2. c \in Range(cmds)
  BY <1>1, HeadAndTail DEF IInv, Typed
<1> HIDE DEF c
<1>3. ~Blocking
  BY <1>1, <1>2, BlockingCommands DEF IInv
<1>4. unblock \in Seq(CallNames) /\ (\A m \in Range(unblock) : m = "killswitch-down" /\ ~was /\ ~asked.ks)
      /\ (~was /\ ~asked.ks => "killswitch-down" \in Range(unblock))
  BY OnlyCalls DEF CallNames
<1> HIDE DEF unblock
<1>5. calls' \in Seq(CallNames) /\ Todo' = Range(StopCalls(FALSE)) \cup Range(unblock)
  <2>1. StopCalls(FALSE) \in Seq(CallNames)
    BY StopCallsShape
  <2>2. calls' = StopCalls(FALSE) \o unblock
    BY <1>1
  <2> QED
    BY <1>4, <2>1, <2>2, ConcatElements DEF Todo
<1>6. /\ Todo' \subseteq StopNames /\ {"dns-down", "route-down"} \subseteq Todo'
      /\ "killswitch-down" \in Todo' <=> ~was /\ ~asked.ks
  BY <1>4, <1>5, StopCallsShape DEF StopNames
<1>7. \E name \in {"route-down", "dns-down"} : \A x \in Range(cmds') : Part(name, x)
  <2>1. CASE cmds' = RouteDown
    BY <2>1, RouteDownCommands DEF Part
  <2>2. CASE cmds' = <<Drop("nft.dns")>>
    <3>1. Range(cmds') = {Drop("nft.dns")}
      BY <2>2 DEF Range
    <3> QED
      BY <3>1, DropFields DEF Part
  <2>3. CASE cmds' = <<>>
    BY <2>3, NoCommands
  <2> QED
    BY <1>1, <2>1, <2>2, <2>3
<1>8. Proper(cmds') /\ \A l : FlushLate(l, cmds')
  <2>1. CASE cmds' = RouteDown
    BY <2>1, RouteDownCommands
  <2>2. CASE cmds' = <<Drop("nft.dns")>>
    <3>1. Drop("nft.dns") \in CommandSet
      BY CommandTypes, FixedItems DEF Table100, Table102
    <3>2. Proper(cmds') /\ Range(cmds') = {Drop("nft.dns")}
      BY <2>2, <3>1, ProperOne
    <3> QED
      BY <3>2, DropFields, FlushLateIfNone DEF Proper
  <2>3. CASE cmds' = <<>>
    BY <2>3, NoCommands DEF Proper
  <2> QED
    BY <1>1, <2>1, <2>2, <2>3
<1>9. /\ \A d \in {"drop_bypass_rules", "flush100", "unpin4"} : DoesIn(cmds', d) => DropsIn(cmds', "low") /\ DropsIn(cmds', "high")
  <2>1. CASE cmds' = RouteDown
    BY <2>1, RouteDownCommands, DropFields DEF DropsIn
  <2>2. CASE cmds' = <<Drop("nft.dns")>>
    <3>1. Range(cmds') = {Drop("nft.dns")}
      BY <2>2 DEF Range
    <3> QED
      BY <3>1, DropFields DEF DoesIn
  <2>3. CASE cmds' = <<>>
    BY <2>3, NoCommands
  <2> QED
    BY <1>1, <2>1, <2>2, <2>3
<1>10. (\A i : ~LaysIn(cmds', i)) /\ ~DoesIn(cmds', "loosen")
  <2>1. \A x \in Range(cmds') : x.do \notin {"lay", "loosen"}
    BY <1>7, StopLaysNothing DEF StopNames
  <2> QED
    BY <2>1 DEF LaysIn, DoesIn
<1>11. ~DropsIn(cmds', "rule4.bypass") /\ ~DropsIn(cmds', "nft.ks")
  BY <1>7, PartByName DEF CallNames, Early
<1>12. Settled' <=> Settled
  BY <1>1 DEF Settled, Attended
<1>13. Typed'
  <2>1. cmds' \in Seq(CommandSet) /\ phase' \in Phases /\ after' \in Phases
    BY <1>1, <1>8 DEF Phases, Proper
  <2>2. TypeOK'
    BY <1>1, <2>1 DEF IInv, Typed, TypeOK
  <2> QED
    BY <1>5, <2>1, <2>2 DEF Typed
<1>14. Shape'
  BY <1>1, <1>6, <1>7, <1>8 DEF Shape, WorkingShape, EditingShape, StoppingShape, RestShape, Ahead, Proper, StopNames
<1>15. RouteInv'
  BY <1>1, <1>9, <1>10, <1>11, <1>12 DEF IInv, RouteInv, L, Laying, Dropping, Does
<1>16. PlaneInv'
  BY <1>1 DEF PlaneInv, Live, Blocking
<1>17. UnblockInv'
  BY <1>1, <1>6 DEF UnblockInv, Unblocking
<1>18. BareInv'
  BY <1>1, <1>6 DEF BareInv, Blocking
<1>19. RpInv'
  BY <1>1, <1>6, <1>10, <1>12 DEF IInv, RpInv, RpClean, Restoring, Blocking, Does
<1>20. LanInv'
  BY <1>1, <1>8, <1>10 DEF IInv, LanInv, L, Laying
<1>21. V6Inv'
  BY <1>1 DEF IInv, V6Inv, L
<1>22. BlockInv => BlockInv'
  <2>1. BlockInv => "nft.ks" \in L
    BY <1>1, <1>3 DEF BlockInv, Blocking, Idle
  <2> QED
    BY <1>1, <1>6, <1>11, <2>1 DEF BlockInv, Live, Blocking, L, Dropping
<1> QED
  BY <1>13, <1>14, <1>15, <1>16, <1>17, <1>18, <1>19, <1>20, <1>21, <1>22 DEF IInv

\* Xray dies: at most the routes through a device it made go with it.
LEMMA XrayDiesInv == ASSUME IInv, XrayDies PROVE IInv'
<1>1. host' = WithoutXray(host) /\ host \in HostSet
      /\ UNCHANGED <<phase, was, after, asked, req, calls, cmds, saved, crashes, refusals>>
  BY DEF XrayDies, request, IInv, Typed, TypeOK, HostSet
<1>2. /\ host' \in HostSet /\ ~host'.xray /\ host'.rp = host.rp /\ host'.rpFile = host.rpFile /\ host'.left = host.left
      /\ host'.laid \in {host.laid, host.laid \ ThroughTun}
  BY <1>1, XrayEnds
<1>3. host'.laid \subseteq host.laid
      /\ \A i \in Fixed \cup Pins4 \cup Pins6 : i \notin ThroughTun => (i \in host'.laid <=> i \in host.laid)
  BY <1>2
<1>4. \A i \in Footing \cup Always \cup {"nft.dns", "nft.ks"} : i \in Fixed \cup Pins4 \cup Pins6 /\ i \notin ThroughTun
  BY FixedItems DEF Footing, Always, ThroughTun
<1>5. \A i \in Footing \cup Always \cup {"nft.dns", "nft.ks"} : i \in host'.laid <=> i \in host.laid
  BY <1>3, <1>4
<1>6. \A t \in Thrown : t[2] \in host'.laid <=> t[2] \in host.laid
  <2>1. \A t \in Thrown : t[2] \in Fixed /\ t[2] \notin ThroughTun
    BY FixedItems DEF Thrown, ThroughTun
  <2> QED
    BY <1>3, <2>1
<1>7. Typed'
  BY <1>1, <1>2 DEF IInv, Typed, TypeOK, HostSet
<1>8. Shape'
  BY <1>1, <1>2 DEF IInv, Shape, WorkingShape, EditingShape, StoppingShape, RestShape, WorkShape, Ahead, Todo, Idle
<1>9. RouteInv'
  <2>1. \A i \in Pins4 \cup {"rule4.bypass", "phys.default"} : i \in host'.laid <=> i \in host.laid
    BY <1>5 DEF Footing
  <2> QED
    BY <1>1, <1>2, <1>3, <1>5, <2>1 DEF IInv, RouteInv, L, Laying, Dropping, Does, Todo, Settled, Attended
<1>10. PlaneInv'
  <2>1. Plane => Plane'
    BY <1>2, <1>5 DEF Plane, L
  <2>2. (Live' <=> Live) /\ (Blocking' <=> Blocking)
    BY <1>1 DEF Live, Blocking, NotBlocked, Does, Todo
  <2> QED
    BY <1>1, <1>2, <1>5, <2>1, <2>2 DEF IInv, PlaneInv, L, Laying, Dropping, Todo
<1>11. "nft.ks" \in host'.laid <=> "nft.ks" \in host.laid
  BY <1>5
<1>12. UnblockInv'
  BY <1>1, <1>11 DEF IInv, UnblockInv, Unblocking, NotBlocked, L, Dropping, Does, Todo
<1>13. BlockInv => BlockInv'
  BY <1>1, <1>11 DEF BlockInv, Live, Blocking, NotBlocked, L, Dropping, Does, Todo, Idle
<1>14. BareInv'
  <2>1. (Bare => Bare') /\ (Blocking' <=> Blocking)
    BY <1>1, <1>3 DEF Bare, L, Blocking, NotBlocked, Does, Todo
  <2> QED
    BY <1>1, <1>2, <1>3, <2>1 DEF IInv, BareInv, L, Dropping, Todo
<1>15. RpInv'
  BY <1>1, <1>2 DEF IInv, RpInv, RpClean, Restoring, Blocking, NotBlocked, Does, Todo, Settled, Attended
<1>16. LanInv'
  <2>1. FlushLate(L, cmds) => FlushLate(host'.laid, cmds)
    BY <1>3 DEF FlushLate, FlushedAfter, L
  <2> QED
    BY <1>1, <1>3, <1>6, <2>1 DEF IInv, LanInv, L, Laying, Does
<1>17. V6Inv'
  BY <1>3 DEF IInv, V6Inv, L
<1> QED
  BY <1>7, <1>8, <1>9, <1>10, <1>12, <1>13, <1>14, <1>15, <1>16, <1>17 DEF IInv

\* A crash: what the daemon still had to do is forgotten.
LEMMA CrashInv == ASSUME IInv, NEW b \in BOOLEAN, Crash(b) PROVE IInv'
<1> DEFINE h == (IF b THEN WithoutXray(host) ELSE host)
<1>1. /\ phase' = "dead" /\ calls' = <<>> /\ cmds' = <<>> /\ crashes' = crashes + 1 /\ crashes < MaxCrashes
      /\ was' = FALSE /\ after' = "down" /\ asked' = NoRequest /\ req' = NoRequest /\ saved' = saved
      /\ refusals' = refusals /\ host' = [h EXCEPT !.own = {}] /\ host \in HostSet
      /\ crashes \in Nat /\ crashes' \in 0..MaxCrashes
  BY HostAssumption DEF Crash, IInv, Typed, TypeOK, HostSet
<1>2. h \in HostSet /\ h.laid \in {host.laid, host.laid \ ThroughTun}
  BY <1>1, XrayEnds
<1> HIDE DEF h
<1>3. host' \in HostSet /\ host'.laid \in {host.laid, host.laid \ ThroughTun}
  BY <1>1, <1>2 DEF HostSet
<1>4. Range(cmds') = {} /\ Ordered(cmds') /\ calls' \in Seq(CallNames) /\ cmds' \in Seq(CommandSet)
  BY <1>1, NoCommands, NoCalls
<1>5. Typed'
  BY <1>1, <1>3, <1>4 DEF IInv, Typed, TypeOK, HostSet, NoRequest, Phases
<1>6. Shape'
  BY <1>1, <1>4 DEF Shape, WorkingShape, EditingShape, StoppingShape, RestShape, Idle
<1>7. RouteInv'
  <2>1. \A i : ~LaysIn(cmds', i)
    BY <1>1, NoCommands
  <2> QED
    BY <1>1, <2>1 DEF RouteInv, Settled, Attended, Laying
<1>8. PlaneInv' /\ UnblockInv' /\ BareInv' /\ BlockInv'
  BY <1>1 DEF PlaneInv, UnblockInv, BareInv, BlockInv, Live, Blocking
<1>9. RpInv'
  BY <1>1 DEF RpInv
<1>10. LanInv'
  <2>1. \A t \in Thrown : t[2] \notin ThroughTun
    BY DEF Thrown, ThroughTun
  <2> QED
    BY <1>1, <1>3, <2>1, QuietLanInv DEF IInv
<1>11. V6Inv'
  BY <1>3 DEF IInv, V6Inv, L
<1> QED
  BY <1>5, <1>6, <1>7, <1>8, <1>9, <1>10, <1>11 DEF IInv

\* Nothing is said of a host while it is recovered, but of its rules.
LEMMA RecoveringInv ==
    ASSUME IInv, phase \in {"dead", "stuck", "recovering"}, phase' = "recovering", host' = host, calls' = <<>>,
           cmds' \in Seq(CommandSet), \A c \in Range(cmds') : RecoveryPart(c), LanInv',
           refusals' \in 0..MaxRefusals, UNCHANGED <<was, after, asked, req, saved, crashes>>
    PROVE  IInv'
<1>1. Typed'
  BY NoCalls DEF IInv, Typed, TypeOK, Phases
<1>2. Shape'
  BY DEF Shape, WorkingShape, EditingShape, StoppingShape, RestShape, Ahead
<1>3. \A i : ~LaysIn(cmds', i)
  BY DEF LaysIn, RecoveryPart
<1>4. RouteInv' /\ PlaneInv' /\ UnblockInv' /\ BareInv' /\ BlockInv'
  BY <1>3 DEF RouteInv, Settled, Attended, Laying, PlaneInv, UnblockInv, BareInv, BlockInv, Live, Blocking
<1>5. RpInv'
  BY DEF IInv, RpInv, Settled, Attended
<1>6. V6Inv'
  BY DEF IInv, V6Inv, L
<1> QED
  BY <1>1, <1>2, <1>4, <1>5, <1>6 DEF IInv

LEMMA RecoverInv == ASSUME IInv, Recover PROVE IInv'
<1>1. /\ phase \in {"dead", "stuck"} /\ phase' = "recovering" /\ cmds' = RemovalCommands(Inspect(host)) /\ calls' = <<>>
      /\ UNCHANGED <<host, was, after, asked, req, saved, crashes, refusals>>
  BY RestingPhases DEF Recover, request
<1>2. Removing(cmds')
  BY <1>1, RemovalCommandsAreRemoving
<1>3. LanInv'
  <2>1. \A i : ~LaysIn(cmds', i)
    BY <1>2 DEF Removing, RecoveryPart, LaysIn
  <2> QED
    BY <1>1, <1>2, <2>1 DEF IInv, LanInv, L, Laying, Removing
<1>4. refusals' \in 0..MaxRefusals
  BY <1>1 DEF IInv, Typed, TypeOK
<1> QED
  BY <1>1, <1>2, <1>3, <1>4, RecoveringInv DEF Removing

LEMMA RemovalFailsInv == ASSUME IInv, RemovalFails PROVE IInv'
<1>1. /\ phase = "recovering" /\ phase' = phase /\ cmds # <<>> /\ cmds' = Tail(cmds) /\ calls' = calls
      /\ refusals' = refusals + 1 /\ refusals < MaxRefusals
      /\ UNCHANGED <<host, was, after, asked, req, saved, crashes>>
  BY DEF RemovalFails, request
<1>2. calls = <<>> /\ \A c \in Range(cmds) : RecoveryPart(c)
  BY <1>1 DEF IInv, Shape, RestShape, Ahead
<1>3. cmds' \in Seq(CommandSet) /\ Range(cmds') \subseteq Range(cmds)
  BY <1>1, HeadAndTail DEF IInv, Typed
<1>4. refusals \in Nat /\ refusals' \in 0..MaxRefusals /\ refusals' # 0
  BY <1>1, HostAssumption DEF IInv, Typed, TypeOK
<1>5. LanInv'
  BY <1>4 DEF LanInv
<1> QED
  BY <1>1, <1>2, <1>3, <1>4, <1>5, RecoveringInv

\* A recovery ends in Disconnected only when the second inspection finds nothing.
LEMMA EndRecoveryInv == ASSUME IInv, EndRecovery PROVE IInv'
<1>1. /\ phase = "recovering" /\ cmds = <<>> /\ cmds' = <<>> /\ phase' \in {"down", "stuck"} /\ saved' = FALSE
      /\ phase' = "down" => Inspect(host) \ {"process"} = {}
      /\ host' = [host EXCEPT !.left = (phase' = "stuck")] /\ host \in HostSet
      /\ UNCHANGED <<was, after, asked, req, calls, crashes, refusals>>
  BY DEF EndRecovery, request, IInv, Typed, TypeOK, HostSet
<1>2. calls' = <<>> /\ Range(cmds') = {} /\ Ordered(cmds') /\ cmds' \in Seq(CommandSet)
      /\ \A i : ~LaysIn(cmds', i) /\ ~DropsIn(cmds', i) /\ ~DoesIn(cmds', i)
      /\ host' \in HostSet /\ host'.laid = host.laid /\ (phase' = "stuck" => host'.left)
  BY <1>1, NoCommands DEF IInv, Shape, RestShape, HostSet
<1>3. ASSUME phase' = "down" PROVE Bare /\ "nft.ks" \notin L
  <2>1. Inspect(host) \subseteq {"process"}
    BY <1>1, <1>3
  <2>2. L \cap (Rules4 \cup {"low", "high"} \cup Blackholes) = {}
    BY <2>1 DEF Inspect, L
  <2>3. L \cap (NftTables \cup {"split.bpf"}) \subseteq {"process"}
    BY <2>1 DEF Inspect, L
  <2> QED
    BY <2>2, <2>3 DEF Bare, Devices, NftTables
<1>4. Typed'
  <2>1. TypeOK'
    <3>1. saved' \in BOOLEAN /\ phase' \in Phases
      BY <1>1 DEF Phases
    <3>2. TypeOK
      BY DEF IInv, Typed
    <3> QED
      BY <1>1, <1>2, <3>1, <3>2 DEF TypeOK, HostSet
  <2>2. calls' \in Seq(CallNames)
    BY <1>2, NoCalls
  <2> QED
    BY <1>2, <2>1, <2>2 DEF Typed
<1>5. Shape'
  BY <1>1, <1>2 DEF Shape, WorkingShape, EditingShape, StoppingShape, RestShape, Idle
<1>6. RouteInv'
  BY <1>1, <1>2, <1>3 DEF RouteInv, Settled, Attended, Bare, Devices, L, Laying, Dropping, Does
<1>7. PlaneInv' /\ BlockInv'
  BY <1>1 DEF PlaneInv, BlockInv, Live, Blocking
<1>8. UnblockInv' /\ BareInv'
  BY <1>1, <1>2, <1>3 DEF UnblockInv, BareInv, Bare, Blocking, L
<1>9. RpInv'
  BY <1>1 DEF IInv, RpInv, Settled, Attended
<1>10. LanInv' /\ V6Inv'
  BY <1>1, <1>2, QuietLanInv DEF IInv, V6Inv, L
<1> QED
  BY <1>4, <1>5, <1>6, <1>7, <1>8, <1>9, <1>10 DEF IInv

LEMMA InitInv == ASSUME Init PROVE IInv
<1>1. /\ host = CleanHost /\ phase = "down" /\ was = FALSE /\ after = "down" /\ asked = NoRequest /\ req = NoRequest
      /\ calls = <<>> /\ cmds = <<>> /\ saved = FALSE /\ crashes = 0 /\ refusals = 0
  BY DEF Init
<1>2. Range(cmds) = {} /\ Ordered(cmds) /\ calls \in Seq(CallNames) /\ cmds \in Seq(CommandSet)
      /\ (\A i : ~LaysIn(cmds, i) /\ ~DropsIn(cmds, i) /\ ~DoesIn(cmds, i)) /\ \A l : FlushLate(l, cmds)
  BY <1>1, NoCommands, NoCalls
<1>3. Typed
  <2>1. CleanHost \in HostSet
    BY DEF CleanHost, HostSet
  <2>2. NoRequest \in [ks : BOOLEAN, lan : BOOLEAN, split : Nat]
    BY DEF NoRequest
  <2>3. 0 \in 0..MaxCrashes /\ 0 \in 0..MaxRefusals
    BY HostAssumption
  <2> QED
    BY <1>1, <1>2, <2>1, <2>2, <2>3 DEF Typed, TypeOK, HostSet, Phases
<1>4. Shape
  BY <1>1, <1>2 DEF Shape, WorkingShape, EditingShape, StoppingShape, RestShape, Idle
<1>5. L = {} /\ RpClean /\ Settled
  BY <1>1 DEF L, CleanHost, RpClean, Settled, Attended
<1>6. RouteInv /\ PlaneInv /\ UnblockInv /\ BareInv /\ BlockInv /\ V6Inv
  BY <1>1, <1>2, <1>5 DEF RouteInv, PlaneInv, UnblockInv, BareInv, BlockInv, V6Inv, Live, Blocking, Bare, Laying,
                          Dropping, Does
<1>7. RpInv
  BY <1>1, <1>5 DEF RpInv, Does
<1>8. LanInv
  BY <1>2, <1>5 DEF LanInv, Laying
<1> QED
  BY <1>3, <1>4, <1>6, <1>7, <1>8 DEF IInv

LEMMA StutterInv == ASSUME IInv, UNCHANGED vars PROVE IInv'
<1>1. UNCHANGED <<host, phase, was, after, asked, req, calls, cmds, saved, crashes, refusals>>
  BY DEF vars, request
<1>2. Typed' /\ Shape'
  BY <1>1 DEF IInv, Typed, TypeOK, Shape, WorkingShape, EditingShape, StoppingShape, RestShape, WorkShape, Ahead, Todo, Idle
<1>3. RouteInv' /\ V6Inv'
  BY <1>1 DEF IInv, RouteInv, V6Inv, L, Laying, Dropping, Does, Todo, Settled, Attended
<1>4. PlaneInv'
  BY <1>1 DEF IInv, PlaneInv, Live, Plane, Blocking, NotBlocked, L, Laying, Dropping, Does, Todo
<1>5. UnblockInv'
  BY <1>1 DEF IInv, UnblockInv, Unblocking, NotBlocked, L, Dropping, Does, Todo
<1>6. BareInv'
  BY <1>1 DEF IInv, BareInv, Bare, Blocking, NotBlocked, L, Dropping, Does, Todo
<1>7. RpInv'
  BY <1>1 DEF IInv, RpInv, RpClean, Restoring, Blocking, NotBlocked, Does, Todo, Settled, Attended
<1>8. LanInv'
  BY <1>1 DEF IInv, LanInv, L, Laying, Does
<1>9. BlockInv => BlockInv'
  BY <1>1 DEF BlockInv, Live, Blocking, NotBlocked, L, Dropping, Does, Todo, Idle
<1> QED
  BY <1>2, <1>3, <1>4, <1>5, <1>6, <1>7, <1>8, <1>9 DEF IInv

\* The invariant, of every action.
LEMMA NextInv == ASSUME IInv, [Next]_vars PROVE IInv'
<1>1. CASE \E r \in Requests : Connect(r)
  BY <1>1, ConnectInv
<1>2. CASE \E n \in {r.split : r \in Requests} : EditSplit(n)
  BY <1>2, EditSplitInv
<1>3. CASE Disconnect \/ ReconcileHealth \/ NextCall \/ EndCommand \/ Step
  BY <1>3, DisconnectInv, ReconcileHealthInv, NextCallInv, EndCommandInv, StepInv
<1>4. CASE BlockFails \/ DataPlaneFails \/ EditFails \/ XrayDies
  BY <1>4, BlockFailsInv, DataPlaneFailsInv, EditFailsInv, XrayDiesInv
<1>5. CASE \E b \in BOOLEAN : Crash(b)
  BY <1>5, CrashInv
<1>6. CASE Recover \/ RemovalFails \/ EndRecovery
  BY <1>6, RecoverInv, RemovalFailsInv, EndRecoveryInv
<1>7. CASE UNCHANGED vars
  BY <1>7, StutterInv
<1> QED
  BY <1>1, <1>2, <1>3, <1>4, <1>5, <1>6, <1>7 DEF Next

THEOREM Invariance == Spec => []IInv
<1>1. Init => IInv
  BY InitInv
<1>2. IInv /\ [Next]_vars => IInv'
  BY NextInv
<1> QED
  BY <1>1, <1>2, PTL DEF Spec

-----------------------------------------------------------------------------
(* The way of a packet through what is laid.                                *)

\* An IPv4 packet follows the rules for its mark, and the main table else.
LEMMA Routed4 ==
    ASSUME NEW l, NEW p, p.v = 4
    PROVE  LET Else(w) == IF w # "none" THEN w ELSE MainTable4(l, p)
               split == Table(l, p, "split.rule", "split.default", "split.throw")
               bypass == Table(l, p, "rule4.bypass", "phys.default", "phys.throw")
               dial == Table(l, p, "rule4.dial", "phys.default", "phys.throw")
           IN  /\ MarkOf(l, p) = "none" => Routed(l, p) = MainTable4(l, p)
               /\ MarkOf(l, p) = "dns" =>
                     Routed(l, p) = IF {"dns.rule", "dns.route"} \subseteq l THEN "tun" ELSE MainTable4(l, p)
               /\ MarkOf(l, p) = "dial" => Routed(l, p) = Else(dial)
               /\ MarkOf(l, p) = "bypass" => Routed(l, p) = IF split # "none" THEN split ELSE Else(bypass)
<1>1. MainTable(l, p) = MainTable4(l, p)
  BY DEF MainTable
<1> QED
  BY <1>1 DEF Routed, OrElse

\* An IPv6 packet likewise.
LEMMA Routed6 ==
    ASSUME NEW l, NEW p, p.v = 6
    PROVE  LET Else(w) == IF w # "none" THEN w ELSE MainTable6(l, p)
               bypass == Table(l, p, "rule6.bypass", "phys6.default", "phys6.throw")
               dial == Table(l, p, "rule6.dial", "phys6.default", "phys6.throw")
           IN  /\ MarkOf(l, p) \notin {"dial", "bypass"} => Routed(l, p) = MainTable6(l, p)
               /\ MarkOf(l, p) = "dial" => Routed(l, p) = Else(dial)
               /\ MarkOf(l, p) = "bypass" => Routed(l, p) = Else(bypass)
<1>1. MainTable(l, p) = MainTable6(l, p)
  BY DEF MainTable
<1>2. p.v # 4
  OBVIOUS
<1> QED
  BY <1>1, <1>2 DEF Routed, OrElse

\* What the marks and the tables can be.
LEMMA MarksAndTables ==
    ASSUME NEW l, NEW p \in Packets
    PROVE  /\ MarkOf(l, p) \in {"none", "dns", "dial", "bypass"} /\ p.v \in {4, 6}
           /\ MainTable4(l, p) \in {"phys", "tun"} /\ MainTable6(l, p) \in {"phys", "drop"}
           /\ \A rule, default, throw :
                 LET table == Table(l, p, rule, default, throw) IN
                 /\ table \in {"none", "gateway", "phys"}
                 /\ p.to # "lan" => table # "gateway"
                 /\ p.to = "lan" /\ (rule \in l => throw \in l) => table = "none"
                 /\ {rule, default} \subseteq l /\ p.to # "lan" => table = "phys"
                 /\ ~({rule, default} \subseteq l) => table = "none"
<1>1. MarkOf(l, p) \in {"none", "dns", "dial", "bypass"} /\ p.v \in {4, 6}
  BY DEF MarkOf, Packets
<1>2. MainTable4(l, p) \in {"phys", "tun"} /\ MainTable6(l, p) \in {"phys", "drop"}
  BY DEF MainTable4, MainTable6
<1> QED
  BY <1>1, <1>2 DEF Table

-----------------------------------------------------------------------------
(* What holds of the host.                                                  *)

\* The values of the variables (the state of the daemon and of the host).
THEOREM HostTypeOK == Spec => []TypeOK
<1>1. IInv => TypeOK
  BY DEF IInv, Typed
<1> QED
  BY <1>1, Invariance, PTL

\* What Xray sends to its server, marked or not, never enters the tunnel that Xray
\* itself reads: not while the routes are laid, not while they are rolled back or
\* taken down (main.rs:1279, "anti-loop FIRST", and the two dial rules), as long as the
\* last recovery has left nothing behind.
THEOREM NoDialLoop == Spec => [](~host.left => DialsEscapeTun)
<1>1. ASSUME IInv, Settled, NEW p \in Packets, p.from \in {"dial", "unmarked_dial"}, p.to = "server", p.port = "other"
      PROVE  Routed(host.laid, p) # "tun"
  <2>1. MarkOf(L, p) \in {"dial", "none"}
    BY <1>1 DEF MarkOf
  <2>2. MainTable4(L, p) = "phys"
    BY <1>1 DEF IInv, RouteInv, MainTable4, Half
  <2>3. CASE p.v = 4
    BY <2>1, <2>2, <2>3, Routed4, MarksAndTables DEF L
  <2>4. CASE p.v = 6
    BY <2>1, <2>4, Routed6, MarksAndTables DEF L
  <2> QED
    BY <2>3, <2>4, MarksAndTables
<1>2. IInv => (~host.left => DialsEscapeTun)
  BY <1>1 DEF DialsEscapeTun, Dials, Settled
<1> QED
  BY <1>2, Invariance, PTL

\* What is marked for the bypass leaves beside the tunnel at every step of connect,
\* reconnect, edit and disconnect: when route-down has taken the rule of the split with
\* its own, the helper's new one stands in (routing.rs:98, main.rs:1255), as long as the
\* last recovery has left nothing behind.
THEOREM BypassIsKept == Spec => [](~host.left => BypassStaysOut)
<1>1. ASSUME IInv, Settled, NEW p \in Packets, MarkOf(host.laid, p) = "bypass" PROVE Routed(host.laid, p) # "tun"
  <2>1. CASE p.v = 6
    BY <1>1, <2>1, Routed6, MarksAndTables DEF L
  <2>2. CASE p.v = 4
    <3> DEFINE bypass == Table(L, p, "rule4.bypass", "phys.default", "phys.throw")
    <3>1. bypass # "none" \/ MainTable4(L, p) = "phys"
      <4>1. CASE p.to = "lan"
        BY <4>1 DEF MainTable4
      <4>2. CASE p.to = "server"
        BY <1>1, <4>2 DEF IInv, RouteInv, MainTable4, Half
      <4>3. CASE p.to \notin {"lan", "server"}
        <5>1. "low" \in L => bypass = "phys"
          BY <1>1, <4>3, MarksAndTables DEF IInv, RouteInv, L
        <5>2. "low" \notin L => MainTable4(L, p) = "phys"
          BY <4>3 DEF MainTable4, Half
        <5> QED
          BY <5>1, <5>2
      <4> QED
        BY <4>1, <4>2, <4>3
    <3> QED
      BY <1>1, <2>2, <3>1, Routed4, MarksAndTables DEF L
  <2> QED
    BY <2>1, <2>2, MarksAndTables
<1>2. IInv => (~host.left => BypassStaysOut)
  BY <1>1 DEF BypassStaysOut, Settled
<1> QED
  BY <1>2, Invariance, PTL

\* On a whole data plane an ordinary packet for the Internet enters the tunnel or, in
\* IPv6, is dropped, and no DNS leaves beside it.
LEMMA PlaneCarries ==
    ASSUME Plane, NEW p \in Packets
    PROVE  /\ p \in Ordinary /\ host.xray => Path(p) = (IF p.v = 4 THEN "tun" ELSE "drop")
           /\ p.from = "app" /\ p.port \in {"dns", "dot"} => Path(p) # "phys"
<1>1. ASSUME p.from = "app" PROVE MarkOf(L, p) = (IF p.port = "dns" THEN "dns" ELSE "none")
  BY <1>1 DEF MarkOf, Plane
<1>2. ASSUME p \in Ordinary, host.xray, p.v = 4 PROVE Path(p) = "tun"
  <2>1. {"dns.rule", "dns.route", "low"} \subseteq L
    BY <1>2 DEF Plane, Always, WithTun
  <2>2. MainTable4(L, p) = "tun"
    BY <1>2, <2>1 DEF Ordinary, MainTable4, Half
  <2>3. Routed(L, p) = "tun"
    BY <1>1, <1>2, <2>1, <2>2, Routed4 DEF Ordinary
  <2>4. GuardAccepts(L, p, "tun") /\ KillSwitchAccepts(L, p, "tun")
    BY <1>1, <1>2 DEF Ordinary, Packets, GuardAccepts, KillSwitchAccepts
  <2> QED
    BY <2>3, <2>4 DEF Path, PathIn, L
<1>3. ASSUME p \in Ordinary, p.v = 6 PROVE Path(p) = "drop"
  <2>1. MainTable6(L, p) = "drop"
    BY <1>3 DEF Ordinary, MainTable6, Half, Plane, Always
  <2>2. Routed(L, p) = "drop"
    BY <1>1, <1>3, <2>1, Routed6 DEF Ordinary
  <2> QED
    BY <2>2 DEF Path, PathIn, L
<1>4. ASSUME p.from = "app", p.port \in {"dns", "dot"} PROVE Path(p) # "phys"
  <2>1. "nft.dns" \in L
    BY DEF Plane
  <2>2. ~GuardAccepts(L, p, "phys")
    BY <1>1, <1>4 DEF GuardAccepts
  <2> QED
    BY <2>1, <2>2 DEF Path, PathIn, L
<1> QED
  BY <1>2, <1>3, <1>4, MarksAndTables

\* While connected every packet of an ordinary application for the Internet enters the
\* tunnel or, in IPv6, is dropped, and no DNS of it leaves beside the tunnel, whether or
\* not Xray is alive.
THEOREM ConnectedHostCarriesAll == Spec => []ConnectedCarriesAll
<1>1. IInv /\ phase = "up" => Plane
  BY DEF IInv, PlaneInv, Live
<1>2. IInv => ConnectedCarriesAll
  BY <1>1, PlaneCarries DEF ConnectedCarriesAll, Ordinary, Lookups
<1> QED
  BY <1>2, Invariance, PTL

\* With the kill switch in force, and during every reconnect, no packet of an ordinary
\* application for the Internet leaves beside the tunnel (lifecycle.rs
\* reconnect_verifies_block_before_stopping_old_data_plane), provided that a laid block
\* is also found to be laid.
THEOREM HandoverIsCovered ==
    ASSUME "verify" \notin Faults
    PROVE  Spec => []NothingFlashesPast
<1>1. ASSUME "nft.ks" \in L, NEW p \in Ordinary PROVE Path(p) # "phys"
  <2>1. CASE MarkOf(L, p) = "dns"
    <3>1. "nft.dns" \in L /\ p.port = "dns"
      BY <1>1, <2>1 DEF MarkOf, Ordinary
    <3>2. ~GuardAccepts(L, p, "phys")
      BY <2>1, <3>1 DEF GuardAccepts
    <3> QED
      BY <3>1, <3>2 DEF Path, PathIn, L
  <2>2. CASE MarkOf(L, p) = "none"
    <3>1. ~KillSwitchAccepts(L, p, "phys")
      BY <1>1, <2>2 DEF KillSwitchAccepts, Ordinary
    <3> QED
      BY <1>1, <3>1 DEF Path, PathIn, L
  <2>3. MarkOf(L, p) \in {"dns", "none"}
    BY <1>1 DEF MarkOf, Ordinary
  <2> QED
    BY <2>1, <2>2, <2>3
<1>2. ASSUME IInv, Guarded PROVE "nft.ks" \in L \/ (Plane /\ host.xray)
  <2> USE <1>2
  <2>1. BlockInv
    BY DEF IInv
  <2>2. CASE phase = "blocked" \/ (phase = "stopping" /\ after = "blocked")
    BY <2>1, <2>2 DEF BlockInv
  <2>3. CASE phase \in {"up", "editing"} /\ req.ks
    BY <2>1, <2>3 DEF BlockInv, Live
  <2>4. CASE phase = "working" /\ was /\ Blocking
    BY <2>1, <2>4 DEF IInv, PlaneInv, BlockInv, Guarded, L
  <2>5. CASE phase = "working" /\ was /\ ~Blocking /\ "nft.ks" \notin L
    <3>1. calls = <<>> /\ cmds = <<>>
      BY <2>1, <2>5 DEF BlockInv, Blocking, Idle
    <3>2. Todo = {} /\ \A i : ~LaysIn(cmds, i)
      BY <3>1, NoCalls, NoCommands DEF Todo
    <3>3. Plane
      BY <2>5, <3>2 DEF IInv, PlaneInv, Plane, Laying
    <3>4. ~OldTunnelGone
      <4>1. Len(<<>>) = 0 /\ DOMAIN <<>> = 1..Len(<<>>)
        BY EmptySeq, LenProperties
      <4> QED
        BY <3>1, <4>1 DEF OldTunnelGone
    <3> QED
      BY <2>5, <3>3, <3>4 DEF Guarded, L
  <2> QED
    BY <2>2, <2>3, <2>4, <2>5 DEF Guarded, L
<1>3. ASSUME NEW p \in Ordinary, Plane, host.xray PROVE Path(p) # "phys"
  BY <1>3, PlaneCarries DEF Ordinary
<1>4. IInv => NothingFlashesPast
  BY <1>1, <1>2, <1>3 DEF NothingFlashesPast
<1> QED
  BY <1>4, Invariance, PTL

\* A rule to a physical table is in force only while the table throws the local networks
\* back, so no dial or bypassed packet for the LAN is sent to the gateway (main.rs:1238,
\* routing.rs LOCAL_THROWS): at any step, killed or recovered, as long as no removal of
\* a recovery was refused.
THEOREM LanStaysLocal == Spec => [](refusals = 0 => LanIsNotSentToGateway)
<1>1. ASSUME IInv, refusals = 0, NEW p \in Packets, p.to = "lan" PROVE Routed(host.laid, p) # "gateway"
  <2>1. \A t \in Thrown : t[1] \in L => t[2] \in L
    BY <1>1 DEF IInv, LanInv
  <2>2. /\ "rule4.dial" \in L => "phys.throw" \in L
        /\ "rule4.bypass" \in L => "phys.throw" \in L
        /\ "rule6.dial" \in L => "phys6.throw" \in L
        /\ "rule6.bypass" \in L => "phys6.throw" \in L
        /\ "split.rule" \in L => "split.throw" \in L
    BY <2>1 DEF Thrown
  <2>3. CASE p.v = 4
    <3> DEFINE split == Table(L, p, "split.rule", "split.default", "split.throw")
               bypass == Table(L, p, "rule4.bypass", "phys.default", "phys.throw")
               dial == Table(L, p, "rule4.dial", "phys.default", "phys.throw")
    <3>1. split = "none" /\ bypass = "none" /\ dial = "none"
      BY <1>1, <2>2, MarksAndTables
    <3> QED
      BY <1>1, <2>3, <3>1, Routed4, MarksAndTables DEF L
  <2>4. CASE p.v = 6
    <3> DEFINE bypass == Table(L, p, "rule6.bypass", "phys6.default", "phys6.throw")
               dial == Table(L, p, "rule6.dial", "phys6.default", "phys6.throw")
    <3>0. /\ "rule6.bypass" \in L => "phys6.throw" \in L
          /\ "rule6.dial" \in L => "phys6.throw" \in L
      BY <2>2
    <3>1. bypass = "none" /\ dial = "none"
      BY <1>1, <3>0 DEF Table
    <3> QED
      BY <1>1, <2>4, <3>1, Routed6, MarksAndTables DEF L
  <2> QED
    BY <2>3, <2>4, MarksAndTables
<1>2. IInv => (refusals = 0 => LanIsNotSentToGateway)
  BY <1>1 DEF LanIsNotSentToGateway, ToLan
<1> QED
  BY <1>2, Invariance, PTL

\* Without the routes to the device, the holes, the guard and the block, what is left
\* (the marks, the rules and their tables) routes nothing that the main table would not.
LEMMA BareRoutes ==
    ASSUME Bare, LanInv, V6Inv, refusals = 0, NEW p \in Packets
    PROVE  Routed(L, p) = MainTable({}, p)
<1>1. "low" \notin L /\ "high" \notin L /\ "black.low" \notin L /\ "black.high" \notin L /\ "nft.dns" \notin L
  BY DEF Bare, Devices, Blackholes
<1>2. MainTable4(L, p) = "phys" /\ MainTable4({}, p) = "phys"
  BY <1>1 DEF MainTable4, Half
<1>3. MainTable6(L, p) = MainTable6({}, p) /\ MainTable6({}, p) = (IF ~HostHasV6 /\ p.to # "lan" THEN "drop" ELSE "phys")
  BY <1>1 DEF MainTable6, Half
<1>4. MarkOf(L, p) # "dns"
  BY <1>1 DEF MarkOf
<1>5. /\ "rule4.dial" \in L => "phys.throw" \in L
      /\ "rule4.bypass" \in L => "phys.throw" \in L
      /\ "rule6.dial" \in L => "phys6.throw" \in L
      /\ "rule6.bypass" \in L => "phys6.throw" \in L
      /\ "split.rule" \in L => "split.throw" \in L
  BY DEF LanInv, Thrown
<1>6. CASE p.v = 4
  <2> DEFINE split == Table(L, p, "split.rule", "split.default", "split.throw")
             bypass == Table(L, p, "rule4.bypass", "phys.default", "phys.throw")
             dial == Table(L, p, "rule4.dial", "phys.default", "phys.throw")
  <2>1. split \in {"none", "phys"} /\ bypass \in {"none", "phys"} /\ dial \in {"none", "phys"}
    <3>1. CASE p.to = "lan"
      BY <1>5, <3>1, MarksAndTables
    <3>2. CASE p.to # "lan"
      BY <3>2, MarksAndTables
    <3> QED
      BY <3>1, <3>2
  <2>2. Routed(L, p) = "phys"
    BY <1>2, <1>4, <1>6, <2>1, Routed4, MarksAndTables
  <2> QED
    BY <1>2, <1>6, <2>2 DEF MainTable
<1>7. CASE p.v = 6
  <2> DEFINE bypass == Table(L, p, "rule6.bypass", "phys6.default", "phys6.throw")
             dial == Table(L, p, "rule6.dial", "phys6.default", "phys6.throw")
  <2>1. bypass \in {"none", "phys"} /\ dial \in {"none", "phys"}
    <3>1. CASE p.to = "lan"
      BY <1>5, <3>1 DEF Table
    <3>2. CASE p.to # "lan"
      BY <3>2 DEF Table
    <3> QED
      BY <3>1, <3>2
  <2>2. ~HostHasV6 \/ p.to = "lan" => bypass = "none" /\ dial = "none"
    BY <1>5, MarksAndTables DEF V6Inv
  <2>3. Routed(L, p) = MainTable6({}, p)
    BY <1>3, <1>7, <2>1, <2>2, Routed6, MarksAndTables
  <2> QED
    BY <1>7, <2>3 DEF MainTable
<1> QED
  BY <1>6, <1>7, MarksAndTables

\* Disconnected means an untouched host: after a disconnect, a failed connect that was
\* rolled back or a recovery that found nothing left, every packet takes the way it
\* takes on a host the program never ran on, and, unless the daemon was killed,
\* rp_filter has its value back (main.rs:1162, recovery.rs CleanupReport::phase).  What a
\* recovery was refused to remove is excepted.
THEOREM DisconnectedHostIsClean == Spec => [](refusals = 0 => DownIsUntouched)
<1>1. ASSUME IInv, refusals = 0, phase = "down", ~host.left, NEW p \in Packets PROVE Path(p) = CleanPath(p)
  <2>1. Bare /\ LanInv /\ V6Inv /\ "nft.ks" \notin L
    BY <1>1 DEF IInv, BareInv, UnblockInv
  <2>2. Routed(L, p) = MainTable({}, p)
    BY <1>1, <2>1, BareRoutes
  <2>3. Path(p) = MainTable({}, p)
    BY <2>1, <2>2 DEF Path, PathIn, L, Bare
  <2>4. MarkOf({}, p) # "dns" /\ \A r, d, t : Table({}, p, r, d, t) = "none"
    BY DEF MarkOf, Table
  <2>5. Routed({}, p) = MainTable({}, p)
    BY <2>4, Routed4, Routed6, MarksAndTables DEF MainTable
  <2>6. CleanPath(p) = MainTable({}, p)
    BY <2>5 DEF CleanPath, PathIn
  <2> QED
    BY <2>3, <2>6
<1>2. ASSUME IInv, phase = "down", crashes = 0 PROVE host.rp = "orig"
  BY <1>2 DEF IInv, RpInv, RpClean
<1>3. IInv => (refusals = 0 => DownIsUntouched)
  BY <1>1, <1>2 DEF DownIsUntouched
<1> QED
  BY <1>3, Invariance, PTL

\* What the split lays is looked at by bypassed packets only, and for a packet that is
\* marked the table of the split decides as the helper's does.
SplitItems == Table102 \cup {"split.rule", "split.bpf", "nft.split"}
LEMMA SplitIsApart ==
    ASSUME NEW l, NEW m, NEW p \in Packets, p.from # "bypassed",
           \A i : i \notin SplitItems => (i \in l <=> i \in m), {"rule4.bypass", "phys.default"} \subseteq l,
           "split.rule" \in l => "split.throw" \in l, "split.rule" \in m => "split.throw" \in m
    PROVE  PathIn(l, p) = PathIn(m, p)
<1>1. /\ Pins4 \subseteq l <=> Pins4 \subseteq m
      /\ Pins6 \subseteq l <=> Pins6 \subseteq m
  BY PinsAssumption DEF SplitItems, Fixed, Table102, NftTables
<1>2. \A i \in {"low", "high", "black.low", "black.high", "nft.dns", "nft.ks", "ks.lan", "dns.rule", "dns.route",
                "rule4.bypass", "rule4.dial", "rule6.bypass", "rule6.dial", "phys.default", "phys.throw",
                "phys6.default", "phys6.throw"} : i \in l <=> i \in m
  BY DEF SplitItems, Table102
<1>3. MarkOf(l, p) = MarkOf(m, p)
  BY <1>2 DEF MarkOf
<1>4. MainTable4(l, p) = MainTable4(m, p) /\ MainTable6(l, p) = MainTable6(m, p)
  BY <1>1, <1>2 DEF MainTable4, MainTable6, Half
<1>5. /\ Table(l, p, "rule4.bypass", "phys.default", "phys.throw")
           = Table(m, p, "rule4.bypass", "phys.default", "phys.throw")
      /\ Table(l, p, "rule4.dial", "phys.default", "phys.throw")
           = Table(m, p, "rule4.dial", "phys.default", "phys.throw")
      /\ Table(l, p, "rule6.bypass", "phys6.default", "phys6.throw")
           = Table(m, p, "rule6.bypass", "phys6.default", "phys6.throw")
      /\ Table(l, p, "rule6.dial", "phys6.default", "phys6.throw")
           = Table(m, p, "rule6.dial", "phys6.default", "phys6.throw")
  BY <1>2, <1>3 DEF Table
<1>6. Routed(l, p) = Routed(m, p)
  <2>1. CASE p.v = 6
    BY <1>3, <1>4, <1>5, <2>1, Routed6, MarksAndTables
  <2>2. CASE p.v = 4
    <3> DEFINE splitL == Table(l, p, "split.rule", "split.default", "split.throw")
               splitM == Table(m, p, "split.rule", "split.default", "split.throw")
               bypassL == Table(l, p, "rule4.bypass", "phys.default", "phys.throw")
               bypassM == Table(m, p, "rule4.bypass", "phys.default", "phys.throw")
               dialL == Table(l, p, "rule4.dial", "phys.default", "phys.throw")
               dialM == Table(m, p, "rule4.dial", "phys.default", "phys.throw")
               Else(w, s) == IF w # "none" THEN w ELSE MainTable4(s, p)
    <3>1. /\ MarkOf(l, p) = "none" => Routed(l, p) = MainTable4(l, p)
          /\ MarkOf(l, p) = "dns" =>
                Routed(l, p) = IF {"dns.rule", "dns.route"} \subseteq l THEN "tun" ELSE MainTable4(l, p)
          /\ MarkOf(l, p) = "dial" => Routed(l, p) = Else(dialL, l)
          /\ MarkOf(l, p) = "bypass" => Routed(l, p) = IF splitL # "none" THEN splitL ELSE Else(bypassL, l)
      BY <2>2, Routed4
    <3>2. /\ MarkOf(m, p) = "none" => Routed(m, p) = MainTable4(m, p)
          /\ MarkOf(m, p) = "dns" =>
                Routed(m, p) = IF {"dns.rule", "dns.route"} \subseteq m THEN "tun" ELSE MainTable4(m, p)
          /\ MarkOf(m, p) = "dial" => Routed(m, p) = Else(dialM, m)
          /\ MarkOf(m, p) = "bypass" => Routed(m, p) = IF splitM # "none" THEN splitM ELSE Else(bypassM, m)
      BY <2>2, Routed4
    <3>3. bypassL = bypassM /\ dialL = dialM
      BY <1>5
    <3>4. /\ p.to # "lan" => splitL \in {"none", "phys"}
          /\ p.to = "lan" => splitL = "none"
          /\ p.to # "lan" /\ MarkOf(l, p) = "bypass" => bypassL = "phys"
      <4>1. /\ splitL \in {"none", "gateway", "phys"} /\ (p.to # "lan" => splitL # "gateway")
            /\ p.to = "lan" => splitL = "none"
        BY DEF Table
      <4>2. MarkOf(l, p) = "bypass" /\ {"rule4.bypass", "phys.default"} \subseteq l /\ p.to # "lan" => bypassL = "phys"
        BY MarksAndTables
      <4> HIDE DEF splitL, bypassL
      <4> QED
        BY <4>1, <4>2
    <3>5. /\ p.to # "lan" => splitM \in {"none", "phys"}
          /\ p.to = "lan" => splitM = "none"
      <4>1. /\ splitM \in {"none", "gateway", "phys"} /\ (p.to # "lan" => splitM # "gateway")
            /\ p.to = "lan" => splitM = "none"
        BY DEF Table
      <4> HIDE DEF splitM
      <4> QED
        BY <4>1
    <3>6. MarkOf(l, p) \in {"none", "dns", "dial", "bypass"}
      BY MarksAndTables
    <3> HIDE DEF splitL, splitM, bypassL, bypassM, dialL, dialM
    <3>7. CASE MarkOf(l, p) = "bypass"
      BY <1>3, <1>4, <3>1, <3>2, <3>3, <3>4, <3>5, <3>7
    <3>8. CASE MarkOf(l, p) = "dial"
      BY <1>3, <1>4, <3>1, <3>2, <3>3, <3>8
    <3>9. CASE MarkOf(l, p) = "dns"
      BY <1>2, <1>3, <1>4, <3>1, <3>2, <3>9
    <3> QED
      BY <1>3, <1>4, <3>1, <3>2, <3>6, <3>7, <3>8, <3>9
  <2> QED
    BY <2>1, <2>2, MarksAndTables
<1>7. /\ GuardAccepts(l, p, Routed(l, p)) <=> GuardAccepts(m, p, Routed(l, p))
      /\ KillSwitchAccepts(l, p, Routed(l, p)) <=> KillSwitchAccepts(m, p, Routed(l, p))
  BY <1>2, <1>3 DEF GuardAccepts, KillSwitchAccepts
<1> QED
  BY <1>2, <1>6, <1>7 DEF PathIn

\* A step of an edit under which the device stays changes nothing but what the split lays.
LEMMA EditLaysTheSplit ==
    ASSUME IInv, [Next]_vars, phase = "editing", host.tun = host'.tun
    PROVE  \A i : i \notin SplitItems => (i \in host.laid <=> i \in host'.laid)
<1>1. CASE Step
  <2>1. PICK c : c = Head(cmds) /\ host' = After(c, host)
    BY <1>1 DEF Step
  <2>2. c \in CommandSet /\ SplitPart(c) /\ host \in HostSet
    BY <1>1, <2>1, HeadAndTail DEF IInv, Typed, TypeOK, HostSet, Shape, EditingShape, Ahead, Step
  <2>3. CASE c.do = "lay"
    <3>1. After(c, host).laid = host.laid \cup {c.what}
      BY <2>2, <2>3, AfterLaid
    <3>2. c.what \in SplitItems
      BY <2>2, <2>3 DEF SplitPart, SplitItems
    <3> QED
      BY <2>1, <3>1, <3>2
  <2>4. CASE c.do = "drop"
    <3>1. c.what \in {"split.rule", "split.bpf", "nft.split"}
      BY <2>2, <2>4 DEF SplitPart
    <3>2. After(c, host).laid = host.laid \ ({c.what} \cup (IF c.what = "nft.ks" THEN {"ks.lan"} ELSE {}))
      BY <2>2, <2>4, AfterLaid
    <3>3. host'.laid = host.laid \ {c.what}
      BY <2>1, <3>1, <3>2
    <3> QED
      BY <3>1, <3>3 DEF SplitItems
  <2>5. CASE c.do = "flush102"
    <3>1. c \in CommandSet /\ host \in HostSet
      BY <2>2
    <3>2. After(c, host).laid = host.laid \ Table102
      BY <2>5, <3>1, AfterLaid
    <3> QED
      BY <2>1, <3>2 DEF SplitItems
  <2>6. CASE c.do \in {"routed", "unrouted"}
    <3>1. c.do \notin {"lay", "drop", "block", "unpin4", "unpin6", "drop_bypass_rules", "flush100", "flush102",
                      "delete_tun", "kill"}
      BY <2>6
    <3>2. c \in CommandSet /\ host \in HostSet
      BY <2>2
    <3>3. After(c, host).laid = host.laid
      BY <3>1, <3>2, AfterLaid
    <3> QED
      BY <2>1, <3>3
  <2> QED
    BY <2>2, <2>3, <2>4, <2>5, <2>6 DEF SplitPart
<1>2. CASE XrayDies
  <2>1. host \in HostSet /\ host' = WithoutXray(host)
    BY <1>2 DEF IInv, Typed, TypeOK, HostSet, XrayDies
  <2> QED
    BY <2>1, XrayEnds
<1>3. CASE \E b \in BOOLEAN : Crash(b)
  <2>1. host \in HostSet
    BY DEF IInv, Typed, TypeOK, HostSet
  <2>2. /\ host'.laid = host.laid \/ host'.laid = WithoutXray(host).laid
        /\ host'.laid = host.laid \/ host'.tun = WithoutXray(host).tun
    BY <1>3, <2>1, XrayEnds DEF Crash, HostSet
  <2> QED
    BY <2>1, <2>2, XrayEnds
<1>4. CASE NextCall \/ EndCommand \/ EditFails \/ UNCHANGED vars
  BY <1>4 DEF NextCall, EndCommand, EditFails, vars
<1>5. ~((\E r \in Requests : Connect(r)) \/ (\E n \in {r.split : r \in Requests} : EditSplit(n))
         \/ Disconnect \/ ReconcileHealth \/ BlockFails \/ DataPlaneFails \/ Recover \/ RemovalFails \/ EndRecovery)
  BY DEF Connect, EditSplit, Disconnect, Resting, ReconcileHealth, BlockFails, DataPlaneFails, Recover, RemovalFails,
         EndRecovery
<1> QED
  BY <1>1, <1>2, <1>3, <1>4, <1>5 DEF Next

\* Laying and removing the split's routing on a live tunnel changes the way of no packet
\* that is not bypassed, Xray's own direct dials among them (routing.rs:98-106), while no
\* removal of an earlier recovery was refused.
THEOREM EditIsInvisible == Spec /\ [](refusals = 0) => SplitOwnsItsTable
<1>1. ASSUME IInv, IInv', [Next]_vars, refusals = 0, refusals' = 0, phase = "editing", host.tun = host'.tun,
             NEW p \in Packets, p.from # "bypassed"
      PROVE  Path(p)' = Path(p)
  <2>1. \A i : i \notin SplitItems => (i \in host.laid <=> i \in host'.laid)
    BY <1>1, EditLaysTheSplit
  <2>2. {"rule4.bypass", "phys.default"} \subseteq host.laid
    BY <1>1 DEF IInv, PlaneInv, Live, Plane, Always, L
  <2>3. /\ "split.rule" \in host.laid => "split.throw" \in host.laid
        /\ "split.rule" \in host'.laid => "split.throw" \in host'.laid
    <3>1. \A t \in Thrown : t[1] \in host.laid => t[2] \in host.laid
      BY <1>1 DEF IInv, LanInv, L
    <3>2. \A t \in Thrown : t[1] \in host'.laid => t[2] \in host'.laid
      BY <1>1 DEF IInv, LanInv, L
    <3> QED
      BY <3>1, <3>2 DEF Thrown
  <2>4. PathIn(host.laid, p) = PathIn(host'.laid, p)
    BY <1>1, <2>1, <2>2, <2>3, SplitIsApart
  <2> QED
    BY <2>4 DEF Path
<1>2. IInv /\ IInv' /\ [Next]_vars /\ refusals = 0 /\ (refusals = 0)' =>
        [phase = "editing" /\ host.tun = host'.tun =>
            \A p \in Packets : p.from # "bypassed" => Path(p)' = Path(p)]_vars
  BY <1>1
<1> QED
  BY <1>2, Invariance, PTL DEF Spec, SplitOwnsItsTable
=============================================================================
