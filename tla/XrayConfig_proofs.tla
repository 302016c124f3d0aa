-------------------------- MODULE XrayConfig_proofs --------------------------
(***************************************************************************)
(* For every set of entries and splits: where the documents of a connected  *)
(* location send a packet, what it dials, what its probe measures, and that *)
(* the daemon takes what the window let through.                            *)
(***************************************************************************)
EXTENDS XrayConfigProps, Lists_proofs

-----------------------------------------------------------------------------
(* The first rule that matches.                                             *)

NoneIn(rules, packet) == \A k \in DOMAIN rules : ~Matches(rules[k], packet)
First(rules, packet, r) ==
    \E k \in DOMAIN rules :
        rules[k] = r /\ Matches(r, packet) /\ \A j \in 1..(k - 1) : ~Matches(rules[j], packet)

\* The first rule that matches is the one that decides.
LEMMA FirstDecides ==
    ASSUME NEW S, NEW doc, doc.rules \in Seq(S), NEW packet, NEW r, First(doc.rules, packet, r)
    PROVE  Decides(doc, packet) = r
<1> DEFINE P(i) == Matches(doc.rules[i], packet) /\ \A j \in 1..(i - 1) : ~Matches(doc.rules[j], packet)
<1>1. PICK k \in DOMAIN doc.rules : doc.rules[k] = r /\ P(k)
  BY DEF First
<1>2. DOMAIN doc.rules = 1..Len(doc.rules) /\ Len(doc.rules) \in Nat
  BY LenProperties
<1>3. ASSUME NEW i \in DOMAIN doc.rules, P(i) PROVE i = k
  <2>1. i \in Nat /\ k \in Nat /\ 1 <= i /\ 1 <= k
    BY <1>2
  <2>2. ~(i < k)
    BY <1>1, <1>3, <2>1
  <2>3. ~(k < i)
    BY <1>1, <1>3, <2>1
  <2> QED
    BY <2>1, <2>2, <2>3
<1>4. (CHOOSE i \in DOMAIN doc.rules : P(i)) = k
  BY <1>1, <1>3
<1> QED
  BY <1>1, <1>4 DEF Decides

\* If one matches, there is a first.
LEMMA SomeIsFirst ==
    ASSUME NEW S, NEW a \in Seq(S), NEW packet, ~NoneIn(a, packet)
    PROVE  \E r \in ToSet(a) : First(a, packet, r)
<1> DEFINE Hits == {k \in DOMAIN a : Matches(a[k], packet)}
<1>1. DOMAIN a = 1..Len(a) /\ Len(a) \in Nat
  BY LenProperties
<1>2. Hits \in SUBSET Nat /\ Hits # {}
  BY <1>1 DEF NoneIn
<1>3. PICK k \in Hits : \A j \in Hits : k <= j
  BY <1>2, Minimum
<1>4. ASSUME NEW j \in 1..(k - 1) PROVE ~Matches(a[j], packet)
  <2>1. j \in DOMAIN a /\ ~(k <= j)
    BY <1>1, <1>3
  <2> QED
    BY <1>3, <2>1
<1> QED
  BY <1>3, <1>4 DEF First, ToSet

\* What is first in a list is so in a longer one, and after a list without a match.
LEMMA FirstOfBoth ==
    ASSUME NEW S, NEW a \in Seq(S), NEW b \in Seq(S), NEW packet
    PROVE  /\ a \o b \in Seq(S)
           /\ \A r : First(a, packet, r) => First(a \o b, packet, r)
           /\ \A r : NoneIn(a, packet) /\ First(b, packet, r) => First(a \o b, packet, r)
           /\ NoneIn(a, packet) /\ NoneIn(b, packet) => NoneIn(a \o b, packet)
<1> DEFINE c == a \o b
<1>1. /\ Len(a) \in Nat /\ Len(b) \in Nat /\ DOMAIN a = 1..Len(a) /\ DOMAIN b = 1..Len(b)
      /\ c \in Seq(S) /\ Len(c) = Len(a) + Len(b) /\ DOMAIN c = 1..Len(c)
  BY LenProperties, ConcatProperties
<1>2. \A i \in DOMAIN a : i \in DOMAIN c /\ c[i] = a[i]
  BY <1>1, ConcatProperties
<1>3. \A i \in DOMAIN b : Len(a) + i \in DOMAIN c /\ c[Len(a) + i] = b[i]
  BY <1>1, ConcatProperties
<1>4. \A i \in DOMAIN c : i \in DOMAIN a \/ (i - Len(a) \in DOMAIN b /\ i = Len(a) + (i - Len(a)))
  BY <1>1
<1> HIDE DEF c
<1>5. ASSUME NEW r, First(a, packet, r) PROVE First(c, packet, r)
  <2>1. PICK k \in DOMAIN a : a[k] = r /\ Matches(r, packet) /\ \A j \in 1..(k - 1) : ~Matches(a[j], packet)
    BY <1>5 DEF First
  <2>2. \A j \in 1..(k - 1) : j \in DOMAIN a
    BY <1>1
  <2> QED
    BY <1>2, <2>1, <2>2 DEF First
<1>6. ASSUME NEW r, NoneIn(a, packet), First(b, packet, r) PROVE First(c, packet, r)
  <2>1. PICK k \in DOMAIN b : b[k] = r /\ Matches(r, packet) /\ \A j \in 1..(k - 1) : ~Matches(b[j], packet)
    BY <1>6 DEF First
  <2>2. ASSUME NEW j \in 1..(Len(a) + k - 1) PROVE ~Matches(c[j], packet)
    <3>1. CASE j \in DOMAIN a
      BY <1>2, <1>6, <3>1 DEF NoneIn
    <3>2. CASE j \notin DOMAIN a
      <4>1. j - Len(a) \in 1..(k - 1) /\ j - Len(a) \in DOMAIN b /\ j = Len(a) + (j - Len(a))
        BY <1>1, <3>2
      <4> QED
        BY <1>3, <2>1, <4>1
    <3> QED
      BY <3>1, <3>2
  <2>3. Len(a) + k \in DOMAIN c /\ c[Len(a) + k] = r
    BY <1>3, <2>1
  <2> QED
    BY <2>1, <2>2, <2>3 DEF First
<1>7. NoneIn(a, packet) /\ NoneIn(b, packet) => NoneIn(c, packet)
  BY <1>2, <1>3, <1>4 DEF NoneIn
<1> QED
  BY <1>1, <1>5, <1>6, <1>7 DEF c

LEMMA OneRule ==
    ASSUME NEW on, NEW vals, NEW to, NEW packet
    PROVE  LET r == [on |-> on, vals |-> vals, to |-> to]
           IN  /\ Rule(on, vals, to) = <<r>>
               /\ Matches(r, packet) => First(Rule(on, vals, to), packet, r)
               /\ ~Matches(r, packet) => NoneIn(Rule(on, vals, to), packet)
<1> DEFINE r == [on |-> on, vals |-> vals, to |-> to]
<1>1. Rule(on, vals, to) = <<r>>
  BY DEF Rule
<1>2. DOMAIN <<r>> = {1} /\ <<r>>[1] = r
  OBVIOUS
<1> HIDE DEF r
<1> QED
  BY <1>1, <1>2 DEF First, NoneIn, r

-----------------------------------------------------------------------------
(* The rules of a document, one piece after the other.                      *)

Proxied(plan, yes) == IF yes THEN plan.target ELSE To("direct")
DnsPart == Rule("dns", {}, To("dns-out"))
LanPart(s) == IF s.lan THEN Rule("ip", {Lan}, To("direct")) ELSE <<>>
AppPart(s, plan) ==
    IF s.mode = "tun" THEN Rule("process", EnabledApps(s), Proxied(plan, AppsSelective(s))) ELSE <<>>
SitePart(s, plan) == Rule("domain", ListedDomains(s), Proxied(plan, SitesSelective(s)))
ResolverPart(loc, plan) == Rule("ip", UpstreamIps(loc), plan.target)
RestPart(s, plan) == Rule("network", {}, Proxied(plan, DefaultUsesProxy(s)))

\* A part is one rule, or is left out.
LEMMA PartDecides ==
    ASSUME NEW on, NEW vals, NEW to, NEW packet,
           NEW rules, rules = <<>> \/ rules = Rule(on, vals, to)
    PROVE  LET r == [on |-> on, vals |-> vals, to |-> to]
           IN  /\ NoneIn(rules, packet) \/ First(rules, packet, r)
               /\ rules = <<>> \/ ~Matches(r, packet) => NoneIn(rules, packet)
               /\ rules # <<>> /\ Matches(r, packet) => First(rules, packet, r)
               /\ rules \in Seq({r})
<1> DEFINE r == [on |-> on, vals |-> vals, to |-> to]
<1>1. Rule(on, vals, to) = <<r>>
  BY OneRule
<1>2. /\ Matches(r, packet) => First(Rule(on, vals, to), packet, r)
      /\ ~Matches(r, packet) => NoneIn(Rule(on, vals, to), packet)
  BY OneRule
<1>3. NoneIn(<<>>, packet) /\ <<>> \in Seq({r}) /\ <<r>> \in Seq({r}) /\ <<r>> # <<>>
  BY DEF NoneIn
<1> HIDE DEF r
<1> QED
  BY <1>1, <1>2, <1>3 DEF r

\* Where a document sends a packet that is no question to the resolver of the tunnel.
LEMMA RoutesDecide ==
    ASSUME NEW loc, NEW s, NEW plan, plan.rules \in Seq(RawRules),
           NEW packet, ~(packet.user /\ packet.port = "53")
    PROVE  LET r == Decides(BuildXrayConfig(loc, s, plan), packet)
               lan == s.lan /\ packet.ip = Lan
               app == s.mode = "tun" /\ packet.process \in EnabledApps(s)
               site == packet.domain \in ListedDomains(s)
           IN  /\ lan => r.to = To("direct")
               /\ ~lan /\ app => r.to = Proxied(plan, AppsSelective(s))
               /\ ~lan /\ ~app /\ site => r.to = Proxied(plan, SitesSelective(s))
               /\ ~lan /\ ~app /\ ~site =>
                     \/ r \in ToSet(plan.rules)
                     \/ packet.ip \in UpstreamIps(loc) /\ r.to = plan.target
                     \/ packet.ip \notin UpstreamIps(loc) /\ r.to = Proxied(plan, DefaultUsesProxy(s))
<1> DEFINE doc == BuildXrayConfig(loc, s, plan)
           lan == s.lan /\ packet.ip = Lan
           app == s.mode = "tun" /\ packet.process \in EnabledApps(s)
           site == packet.domain \in ListedDomains(s)
           rDns == [on |-> "dns", vals |-> {}, to |-> To("dns-out")]
           rLan == [on |-> "ip", vals |-> {Lan}, to |-> To("direct")]
           rApp == [on |-> "process", vals |-> EnabledApps(s), to |-> Proxied(plan, AppsSelective(s))]
           rSite == [on |-> "domain", vals |-> ListedDomains(s), to |-> Proxied(plan, SitesSelective(s))]
           rResolver == [on |-> "ip", vals |-> UpstreamIps(loc), to |-> plan.target]
           rRest == [on |-> "network", vals |-> {}, to |-> Proxied(plan, DefaultUsesProxy(s))]
           S == RawRules \cup {rDns, rLan, rApp, rSite, rResolver, rRest}
<1>1. /\ ~Matches(rDns, packet)
      /\ Matches(rLan, packet) <=> packet.ip = Lan
      /\ Matches(rApp, packet) <=> packet.process \in EnabledApps(s)
      /\ Matches(rSite, packet) <=> site
      /\ Matches(rResolver, packet) <=> packet.ip \in UpstreamIps(loc)
      /\ Matches(rRest, packet)
  BY DEF Matches
<1>2. /\ DnsPart \in Seq({rDns}) /\ NoneIn(DnsPart, packet)
      /\ SitePart(s, plan) \in Seq({rSite})
      /\ site => First(SitePart(s, plan), packet, rSite)
      /\ ~site => NoneIn(SitePart(s, plan), packet)
      /\ ResolverPart(loc, plan) \in Seq({rResolver})
      /\ packet.ip \in UpstreamIps(loc) => First(ResolverPart(loc, plan), packet, rResolver)
      /\ packet.ip \notin UpstreamIps(loc) => NoneIn(ResolverPart(loc, plan), packet)
      /\ RestPart(s, plan) \in Seq({rRest}) /\ First(RestPart(s, plan), packet, rRest)
  <2>1. \A r : <<r>> \in Seq({r})
    OBVIOUS
  <2>2. /\ DnsPart = <<rDns>> /\ SitePart(s, plan) = <<rSite>>
        /\ ResolverPart(loc, plan) = <<rResolver>> /\ RestPart(s, plan) = <<rRest>>
    BY DEF Rule, DnsPart, SitePart, ResolverPart, RestPart
  <2>3. \A r : (Matches(r, packet) => First(<<r>>, packet, r)) /\ (~Matches(r, packet) => NoneIn(<<r>>, packet))
    <3>1. ASSUME NEW r PROVE DOMAIN <<r>> = {1} /\ <<r>>[1] = r
      OBVIOUS
    <3> QED
      BY <3>1 DEF First, NoneIn
  <2> HIDE DEF rDns, rSite, rResolver, rRest
  <2> QED
    BY <1>1, <2>1, <2>2, <2>3
<1>3. /\ LanPart(s) \in Seq({rLan})
      /\ lan => First(LanPart(s), packet, rLan)
      /\ ~lan => NoneIn(LanPart(s), packet)
  <2>1. LanPart(s) = IF s.lan THEN Rule("ip", {Lan}, To("direct")) ELSE <<>>
    BY DEF LanPart
  <2>2. /\ LanPart(s) \in Seq({rLan})
        /\ LanPart(s) = <<>> \/ ~Matches(rLan, packet) => NoneIn(LanPart(s), packet)
        /\ LanPart(s) # <<>> /\ Matches(rLan, packet) => First(LanPart(s), packet, rLan)
    BY <2>1, PartDecides
  <2>3. s.lan => LanPart(s) # <<>>
    BY <2>1 DEF Rule
  <2>4. ~s.lan => LanPart(s) = <<>>
    BY <2>1
  <2> HIDE DEF rLan
  <2> QED
    BY <1>1, <2>2, <2>3, <2>4
<1>4. /\ AppPart(s, plan) \in Seq({rApp})
      /\ app => First(AppPart(s, plan), packet, rApp)
      /\ ~app => NoneIn(AppPart(s, plan), packet)
  <2>1. AppPart(s, plan) = IF s.mode = "tun"
                           THEN Rule("process", EnabledApps(s), Proxied(plan, AppsSelective(s))) ELSE <<>>
    BY DEF AppPart
  <2>2. /\ AppPart(s, plan) \in Seq({rApp})
        /\ AppPart(s, plan) = <<>> \/ ~Matches(rApp, packet) => NoneIn(AppPart(s, plan), packet)
        /\ AppPart(s, plan) # <<>> /\ Matches(rApp, packet) => First(AppPart(s, plan), packet, rApp)
    BY <2>1, PartDecides
  <2>3. s.mode = "tun" => AppPart(s, plan) # <<>>
    BY <2>1 DEF Rule
  <2>4. s.mode # "tun" => AppPart(s, plan) = <<>>
    BY <2>1
  <2> HIDE DEF rApp
  <2> QED
    BY <1>1, <2>2, <2>3, <2>4
<1> DEFINE upToLan == DnsPart \o LanPart(s)
           upToApps == upToLan \o AppPart(s, plan)
           upToSites == upToApps \o SitePart(s, plan)
           upToProvider == upToSites \o plan.rules
           upToResolver == upToProvider \o ResolverPart(loc, plan)
           all == upToResolver \o RestPart(s, plan)
<1>5. doc.rules = all
  BY DEF BuildXrayConfig, RouteRules, DnsPart, LanPart, AppPart, SitePart, ResolverPart, RestPart, Proxied
<1>6. /\ rDns \in S /\ rLan \in S /\ rApp \in S /\ rSite \in S /\ rResolver \in S /\ rRest \in S
      /\ RawRules \subseteq S
  OBVIOUS
<1>7. /\ rLan.to = To("direct") /\ rApp.to = Proxied(plan, AppsSelective(s))
      /\ rSite.to = Proxied(plan, SitesSelective(s)) /\ rResolver.to = plan.target
      /\ rRest.to = Proxied(plan, DefaultUsesProxy(s))
  OBVIOUS
<1> HIDE DEF doc, S, rDns, rLan, rApp, rSite, rResolver, rRest
<1>8. \A T \in SUBSET S : Seq(T) \subseteq Seq(S)
  BY SeqMonotonic
<1>9. /\ DnsPart \in Seq(S) /\ LanPart(s) \in Seq(S) /\ AppPart(s, plan) \in Seq(S) /\ SitePart(s, plan) \in Seq(S)
      /\ plan.rules \in Seq(S) /\ ResolverPart(loc, plan) \in Seq(S) /\ RestPart(s, plan) \in Seq(S)
  <2>1. {rDns} \in SUBSET S /\ {rLan} \in SUBSET S /\ {rApp} \in SUBSET S /\ {rSite} \in SUBSET S
        /\ {rResolver} \in SUBSET S /\ {rRest} \in SUBSET S /\ RawRules \in SUBSET S
    BY <1>6
  <2> QED
    BY <1>2, <1>3, <1>4, <1>8, <2>1
<1> HIDE DEF upToLan, upToApps, upToSites, upToProvider, upToResolver, all
<1>10. /\ upToLan \in Seq(S)
       /\ \A r : First(LanPart(s), packet, r) => First(upToLan, packet, r)
       /\ ~lan => NoneIn(upToLan, packet)
  BY <1>2, <1>3, <1>9, FirstOfBoth DEF upToLan
<1>11. /\ upToApps \in Seq(S)
       /\ \A r : First(upToLan, packet, r) => First(upToApps, packet, r)
       /\ \A r : ~lan /\ First(AppPart(s, plan), packet, r) => First(upToApps, packet, r)
       /\ ~lan /\ ~app => NoneIn(upToApps, packet)
  BY <1>4, <1>9, <1>10, FirstOfBoth DEF upToApps
<1>12. /\ upToSites \in Seq(S)
       /\ \A r : First(upToApps, packet, r) => First(upToSites, packet, r)
       /\ \A r : ~lan /\ ~app /\ First(SitePart(s, plan), packet, r) => First(upToSites, packet, r)
       /\ ~lan /\ ~app /\ ~site => NoneIn(upToSites, packet)
  BY <1>2, <1>9, <1>11, FirstOfBoth DEF upToSites
<1>13. /\ upToProvider \in Seq(S)
       /\ \A r : First(upToSites, packet, r) => First(upToProvider, packet, r)
       /\ \A r : ~lan /\ ~app /\ ~site /\ First(plan.rules, packet, r) => First(upToProvider, packet, r)
       /\ ~lan /\ ~app /\ ~site /\ NoneIn(plan.rules, packet) => NoneIn(upToProvider, packet)
  BY <1>9, <1>12, FirstOfBoth DEF upToProvider
<1>14. /\ upToResolver \in Seq(S)
       /\ \A r : First(upToProvider, packet, r) => First(upToResolver, packet, r)
       /\ \A r : NoneIn(upToProvider, packet) /\ First(ResolverPart(loc, plan), packet, r)
             => First(upToResolver, packet, r)
       /\ NoneIn(upToProvider, packet) /\ packet.ip \notin UpstreamIps(loc) => NoneIn(upToResolver, packet)
  BY <1>2, <1>9, <1>13, FirstOfBoth DEF upToResolver
<1>15. /\ all \in Seq(S)
       /\ \A r : First(upToResolver, packet, r) => First(all, packet, r)
       /\ \A r : NoneIn(upToResolver, packet) /\ First(RestPart(s, plan), packet, r) => First(all, packet, r)
  BY <1>9, <1>14, FirstOfBoth DEF all
<1>16. ASSUME NEW r, First(all, packet, r) PROVE Decides(doc, packet) = r
  BY <1>5, <1>15, <1>16, FirstDecides
<1>17. lan => Decides(doc, packet) = rLan
  BY <1>3, <1>10, <1>11, <1>12, <1>13, <1>14, <1>15, <1>16
<1>18. ~lan /\ app => Decides(doc, packet) = rApp
  BY <1>4, <1>11, <1>12, <1>13, <1>14, <1>15, <1>16
<1>19. ~lan /\ ~app /\ site => Decides(doc, packet) = rSite
  BY <1>2, <1>12, <1>13, <1>14, <1>15, <1>16
<1>20. ASSUME ~lan, ~app, ~site, ~NoneIn(plan.rules, packet) PROVE Decides(doc, packet) \in ToSet(plan.rules)
  <2>1. PICK r \in ToSet(plan.rules) : First(plan.rules, packet, r)
    BY <1>9, <1>20, SomeIsFirst
  <2> QED
    BY <1>13, <1>14, <1>15, <1>16, <1>20, <2>1
<1>21. ~lan /\ ~app /\ ~site /\ NoneIn(plan.rules, packet) /\ packet.ip \in UpstreamIps(loc)
         => Decides(doc, packet) = rResolver
  BY <1>2, <1>13, <1>14, <1>15, <1>16
<1>22. ~lan /\ ~app /\ ~site /\ NoneIn(plan.rules, packet) /\ packet.ip \notin UpstreamIps(loc)
         => Decides(doc, packet) = rRest
  BY <1>2, <1>13, <1>14, <1>15, <1>16
<1> QED
  BY <1>7, <1>17, <1>18, <1>19, <1>20, <1>21, <1>22 DEF doc

-----------------------------------------------------------------------------
(* What a location and a plan are made of.                                  *)

\* The routing rules a plan keeps are rules of the location's profile.
LEMMA PlanKeepsRules ==
    ASSUME NEW loc, loc.rawProfile # None => loc.rawProfile.rules \in Seq(RawRules),
           NEW plan \in OutboundPlans(loc)
    PROVE  /\ plan.rules \in Seq(RawRules)
           /\ \A r \in ToSet(plan.rules) : loc.rawProfile # None /\ r \in ToSet(loc.rawProfile.rules)
<1>1. ASSUME loc.rawProfile # None, NEW proxies, NEW balancers,
             plan.rules = SafeProviderRules(loc.rawProfile, proxies, balancers)
      PROVE  plan.rules \in Seq(RawRules) /\ \A r \in ToSet(plan.rules) : r \in ToSet(loc.rawProfile.rules)
  <2> DEFINE rules == loc.rawProfile.rules
  <2>1. PICK I \in SUBSET DOMAIN rules : plan.rules = Selection(rules, I)
    BY <1>1 DEF SafeProviderRules
  <2>2. rules \in Seq(RawRules)
    BY <1>1
  <2> HIDE DEF rules
  <2>3. plan.rules \in Seq(RawRules) /\ \A r \in ToSet(plan.rules) : \E i \in I : r = rules[i]
    BY <2>1, <2>2, SelectionIsSeq
  <2>4. \A i \in I : rules[i] \in ToSet(rules)
    BY DEF ToSet
  <2> QED
    BY <2>3, <2>4 DEF rules
<1>2. CASE IsComposite(loc)
  <2>1. loc.rawProfile # None
    BY <1>2 DEF IsComposite
  <2>2. \E proxies, balancers : plan.rules = SafeProviderRules(loc.rawProfile, proxies, balancers)
    BY <1>2 DEF OutboundPlans
  <2> QED
    BY <1>1, <2>1, <2>2
<1>3. CASE ~IsComposite(loc) /\ loc.rawProfile # None
  <2>1. \E proxies, balancers : plan.rules = SafeProviderRules(loc.rawProfile, proxies, balancers)
    BY <1>3 DEF OutboundPlans
  <2> QED
    BY <1>1, <1>3, <2>1
<1>4. CASE ~IsComposite(loc) /\ loc.rawProfile = None
  <2>1. plan.rules = <<>>
    BY <1>4 DEF OutboundPlans
  <2> QED
    BY <2>1 DEF ToSet
<1> QED
  BY <1>2, <1>3, <1>4

\* What a location's fields hold, and how its outbound belongs to its profile.
WellFormed(loc) ==
    /\ loc.rawProfile # None =>
          /\ loc.rawProfile.rules \in Seq(RawRules)
          /\ loc.rawProfile.outbounds \in Seq(RawOutbounds)
          /\ loc.rawProfile.balancers \in Seq(RawBalancers)
          /\ loc.rawOutbound \in ToSet(loc.rawProfile.outbounds)
          /\ loc.rawOutbound # None /\ loc.rawOutbound.proto \in ProxyProtocols
    /\ loc.rawOutbound # None => loc.rawOutbound \in RawOutbounds

\* A location that was imported has the outbounds and rules of its entry.
LEMMA ImportedShape ==
    ASSUME NEW e \in Entries, NEW loc, loc = Import(e), loc # None
    PROVE  WellFormed(loc)
<1>1. CASE e.kind = "link"
  <2>1. loc.rawProfile = None /\ loc.rawOutbound = None
    BY <1>1 DEF Import, ParseProxyUri, ParseVless, ParseTrojan, ParseShadowsocks, ParseVmess, Location
  <2> QED
    BY <2>1 DEF WellFormed
<1>2. CASE e.kind = "outbound"
  <2>1. loc.rawProfile = None /\ loc.rawOutbound = e.outbound
    BY <1>2 DEF Import, ParseOutbound, Location
  <2> QED
    BY <1>2, <2>1, EntriesAssumption DEF WellFormed
<1>3. CASE e.kind = "profile"
  <2> DEFINE listed == e.profile.outbounds
             I == {i \in DOMAIN listed : listed[i].proto \in ProxyProtocols}
             J == {i \in DOMAIN listed : Parses(listed[i])}
  <2>1. /\ listed \in Seq(RawOutbounds) /\ e.profile # None /\ e.profile.rules \in Seq(RawRules)
       /\ e.profile.balancers \in Seq(RawBalancers)
    BY <1>3, EntriesAssumption
  <2>2. Selection(listed, J) # <<>> /\ loc.rawProfile = e.profile /\ loc.rawOutbound = Selection(listed, I)[1]
    <3>1. loc = IF Selection(listed, J) = <<>> THEN None
                ELSE ParseOutbound(Selection(listed, J)[1], Selection(listed, I)[1], e.profile)
      BY <1>3 DEF Import, CollectProfile
    <3>2. \A ob, raw, profile : /\ ParseOutbound(ob, raw, profile).rawProfile = profile
                               /\ ParseOutbound(ob, raw, profile).rawOutbound = raw
      BY DEF ParseOutbound, Location
    <3>3. Selection(listed, J) # <<>> /\ loc = ParseOutbound(Selection(listed, J)[1], Selection(listed, I)[1], e.profile)
      <4> HIDE DEF listed, I, J
      <4> QED
        BY <3>1
    <3> HIDE DEF listed, I, J
    <3> QED
      BY <3>2, <3>3
  <2>3. J \subseteq I
    BY DEF Parses
  <2>4. J # {}
    <3>1. Cardinality({}) = 0
      BY FS_EmptySet
    <3>2. SUFFICES ASSUME J = {} PROVE FALSE
      OBVIOUS
    <3>3. Selection(listed, {}) = <<>>
      BY <3>1 DEF Selection
    <3> QED
      BY <2>2, <3>2, <3>3
  <2> HIDE DEF I, J, listed
  <2>5. I \in SUBSET DOMAIN listed /\ I # {}
    BY <2>3, <2>4 DEF I
  <2>6. \E i \in I : loc.rawOutbound = listed[i]
    BY <2>1, <2>2, <2>5, SelectionIsSeq
  <2>7. loc.rawOutbound \in RawOutbounds
    BY <2>1, <2>2, <2>5, SelectionIsSeq
  <2>8. loc.rawOutbound \in ToSet(listed) /\ loc.rawOutbound.proto \in ProxyProtocols
    BY <2>5, <2>6 DEF ToSet, I
  <2>9. loc.rawOutbound # None
    BY <2>7, NoneAssumption
  <2> QED
    BY <2>1, <2>2, <2>7, <2>8, <2>9 DEF listed, WellFormed
<1>4. CASE e.kind = "edited"
  <2>1. loc.rawProfile = None /\ loc.rawOutbound = None
    BY <1>4 DEF Import, Location
  <2> QED
    BY <2>1 DEF WellFormed
<1> QED
  BY <1>1, <1>2, <1>3, <1>4, EntriesAssumption

-----------------------------------------------------------------------------
(* The inductive invariant: a request was made from an imported location,   *)
(* a split and one of the location's plans.                                 *)

Imported == location # None /\ \E e \in Entries : location = Import(e)

MadeFrom(s, plan) ==
    /\ request.config = BuildXrayConfig(location, s, plan)
    /\ request.serverIps \in ResolveServerIps(location) \ {None}
    /\ request.excluded = IF s.mode = "tun" /\ ~AppsSelective(s) THEN EnabledApps(s) ELSE {}
    /\ request.target = plan.target
    /\ request.split = s

\* What the probe measured had answered, and the probe's target led to it.
Answered ==
    \E up \in SUBSET Tags(request.probe.outbounds) :
        measured \in up /\ measured \in Carriers(request.probe, request.probe.rules[1].to, up)

Accepted ==
    ValidateXrayDocument(request.config, request.split.mode) /\ ValidatePingDocument(request.probe)

PingTags(plan) ==
    PingOutboundTags(plan) \cup {r.to.tag : r \in ToSet(BuildPingConfig(plan).rules)}

ConnectInv ==
    /\ stage \notin {"start", "skipped"} => Imported
    /\ stage \in {"requested", "rejected", "probing", "connected"} =>
          /\ Builds
          /\ \E s \in Splits : \E plan, probed \in OutboundPlans(location) :
                MadeFrom(s, plan) /\ request.probe = BuildConnectionProbeConfig(probed)
    /\ stage = "rejected" => ~Accepted
    /\ stage = "connected" => Answered
    /\ stage = "panicked" => ValidServer(location) /\ ~Builds
    /\ stage = "unmeasurable" =>
          Builds /\ \E plan \in OutboundPlans(location) : ~ValidatePingDocument(BuildPingConfig(plan))
    /\ stage = "pinged" =>
          Builds /\ \E plan \in OutboundPlans(location) : measured \in PingTags(plan)

LEMMA ConnectStep == ASSUME ConnectInv, [Next]_vars PROVE ConnectInv'
<1>1. ASSUME NEW e \in Entries, AddEntry(e) PROVE ConnectInv'
  <2>1. location' = Import(e) /\ stage' = IF location' = None THEN "skipped" ELSE "listed"
    BY <1>1 DEF AddEntry
  <2> QED
    BY <2>1 DEF ConnectInv, Imported
<1>2. ASSUME NEW s \in Splits, VpnConnect(s) PROVE ConnectInv'
  <2>1. /\ stage = "listed" /\ location' = location /\ stage' = "requested" /\ Builds
        /\ \E plan, probed \in OutboundPlans(location), ips \in ResolveServerIps(location) \ {None} :
              request' = [config    |-> BuildXrayConfig(location, s, plan),
                          probe     |-> BuildConnectionProbeConfig(probed),
                          serverIps |-> ips,
                          excluded  |-> IF s.mode = "tun" /\ ~AppsSelective(s)
                                        THEN EnabledApps(s) ELSE {},
                          target    |-> plan.target,
                          split     |-> s]
    BY <1>2 DEF VpnConnect
  <2>2. PICK plan, probed \in OutboundPlans(location) :
              /\ request'.config = BuildXrayConfig(location, s, plan)
              /\ request'.probe = BuildConnectionProbeConfig(probed)
              /\ request'.serverIps \in ResolveServerIps(location) \ {None}
              /\ request'.excluded = IF s.mode = "tun" /\ ~AppsSelective(s) THEN EnabledApps(s) ELSE {}
              /\ request'.target = plan.target
              /\ request'.split = s
    BY <2>1
  <2>3. Imported' /\ Builds'
    BY <2>1 DEF ConnectInv, Imported, Builds
  <2>4. MadeFrom(s, plan)' /\ (request.probe = BuildConnectionProbeConfig(probed))'
    BY <2>1, <2>2 DEF MadeFrom
  <2>5. plan \in OutboundPlans(location)' /\ probed \in OutboundPlans(location)'
    BY <2>1
  <2> QED
    BY <2>1, <2>3, <2>4, <2>5 DEF ConnectInv
<1>3. ASSUME Refused \/ GiveUp \/ Unresolved PROVE ConnectInv'
  <2>1. /\ stage \notin {"start", "skipped"} /\ location' = location
        /\ stage' \in {"refused", "unreached", "unresolved"}
    BY <1>3 DEF Refused, GiveUp, Unresolved
  <2> QED
    BY <2>1 DEF ConnectInv, Imported
<1>4. ASSUME Panics PROVE ConnectInv'
  <2>1. stage = "listed" /\ location' = location /\ stage' = "panicked" /\ ValidServer(location) /\ ~Builds
    BY <1>4 DEF Panics
  <2>2. ~Builds' /\ Imported'
    BY <2>1 DEF ConnectInv, Imported, Builds
  <2> QED
    BY <2>1, <2>2 DEF ConnectInv
<1>5. ASSUME Ping PROVE ConnectInv'
  <2>1. stage = "listed" /\ location' = location /\ Builds
    BY <1>5 DEF Ping
  <2>2. PICK plan \in OutboundPlans(location) :
           \/ stage' = "unmeasurable" /\ ~ValidatePingDocument(BuildPingConfig(plan))
           \/ stage' = "unmeasured"
           \/ stage' = "pinged" /\ measured' \in PingTags(plan)
    BY <1>5 DEF Ping, PingTags
  <2>3. Builds' /\ Imported' /\ plan \in OutboundPlans(location)'
    BY <2>1 DEF ConnectInv, Imported, Builds
  <2> QED
    BY <2>1, <2>2, <2>3 DEF ConnectInv, PingTags
<1>6. ASSUME DaemonRejects \/ DaemonAccepts \/ Probe \/ UNCHANGED vars PROVE ConnectInv'
  <2>1. /\ location' = location /\ request' = request
        /\ \/ stage' = stage /\ measured' = measured
           \/ stage = "requested" /\ stage' = "rejected" /\ ~Accepted
           \/ stage = "requested" /\ stage' = "probing"
           \/ stage = "probing" /\ stage' = "probing"
           \/ stage = "probing" /\ stage' = "connected" /\ Answered'
    <3>1. CASE DaemonRejects
      BY <3>1 DEF DaemonRejects, Accepted
    <3>2. CASE DaemonAccepts
      BY <3>2 DEF DaemonAccepts
    <3>3. CASE Probe
      <4>1. /\ stage = "probing" /\ location' = location /\ request' = request
            /\ \E up \in SUBSET Tags(request.probe.outbounds) :
               \E tag \in Carriers(request.probe, request.probe.rules[1].to, up) :
                  IF tag \in up
                  THEN stage' = "connected" /\ measured' = tag
                  ELSE stage' = stage
        BY <3>3 DEF Probe
      <4>2. PICK up \in SUBSET Tags(request.probe.outbounds) :
               \E tag \in Carriers(request.probe, request.probe.rules[1].to, up) :
                  IF tag \in up THEN stage' = "connected" /\ measured' = tag ELSE stage' = stage
        BY <4>1
      <4>3. PICK tag \in Carriers(request.probe, request.probe.rules[1].to, up) :
                  IF tag \in up THEN stage' = "connected" /\ measured' = tag ELSE stage' = stage
        BY <4>2
      <4>4. tag \in up => Answered'
        BY <4>1, <4>2, <4>3 DEF Answered
      <4> QED
        BY <4>1, <4>3, <4>4
    <3>4. CASE UNCHANGED vars
      BY <3>4 DEF vars
    <3> QED
      BY <1>6, <3>1, <3>2, <3>3, <3>4
  <2>2. (Imported <=> Imported') /\ (Builds <=> Builds') /\ (Accepted <=> Accepted')
        /\ (measured' = measured => (Answered <=> Answered'))
    BY <2>1 DEF Imported, Builds, Accepted, Answered
  <2>3. \A s, plan : MadeFrom(s, plan) <=> MadeFrom(s, plan)'
    BY <2>1 DEF MadeFrom
  <2> QED
    BY <2>1, <2>2, <2>3 DEF ConnectInv
<1>7. ASSUME Again PROVE ConnectInv'
  BY <1>7 DEF Again, ConnectInv
<1> QED
  BY <1>1, <1>2, <1>3, <1>4, <1>5, <1>6, <1>7 DEF Next

LEMMA Invariance == Spec => []ConnectInv
<1>1. Init => ConnectInv
  BY DEF Init, ConnectInv
<1> QED
  BY <1>1, ConnectStep, PTL DEF Spec

\* What is known of a connected location.
LEMMA ConnectedShape ==
    ASSUME ConnectInv, Connected
    PROVE  \E s \in Splits : \E plan \in OutboundPlans(location) :
               /\ MadeFrom(s, plan)
               /\ plan.rules \in Seq(RawRules)
               /\ \A r \in ToSet(plan.rules) :
                     location.rawProfile # None /\ r \in ToSet(location.rawProfile.rules)
<1>1. PICK s \in Splits, plan \in OutboundPlans(location) : MadeFrom(s, plan)
  BY DEF ConnectInv, Connected
<1>2. PICK e \in Entries : location = Import(e) /\ location # None
  BY DEF ConnectInv, Connected, Imported
<1>3. location.rawProfile # None => location.rawProfile.rules \in Seq(RawRules)
  BY <1>2, ImportedShape DEF WellFormed
<1> QED
  BY <1>1, <1>3, PlanKeepsRules

-----------------------------------------------------------------------------
(* The theorems.                                                            *)

\* A connected configuration treats what the user's lists name as they say, and what
\* none of them names by the default, a kept rule of the provider, or the resolver's
\* way; what the daemon takes out of the tunnel Xray sends direct as well
\* (build_route_rules, vpn_connect), for every set of entries and splits.
THEOREM SplitDecides == Spec => []SplitIsHonoured
<1>1. ASSUME ConnectInv PROVE SplitIsHonoured
  <2> SUFFICES ASSUME Connected PROVE SplitIsHonoured
    BY DEF SplitIsHonoured
  <2>1. PICK s \in Splits, plan \in OutboundPlans(location) :
           /\ MadeFrom(s, plan) /\ plan.rules \in Seq(RawRules)
           /\ \A r \in ToSet(plan.rules) :
                 location.rawProfile # None /\ r \in ToSet(location.rawProfile.rules)
    BY <1>1, ConnectedShape
  <2>2. ASSUME NEW p \in Packets
        PROVE  /\ \/ ~Listed(s, p) /\ (FromProvider(p) \/ p.ip \in UpstreamIps(location))
                  \/ Decides(request.config, p).to = IF Wanted(s, p) THEN plan.target ELSE To("direct")
               /\ p.process \in request.excluded => Decides(request.config, p).to = To("direct")
    <3> DEFINE lan == s.lan /\ p.ip = Lan
               app == s.mode = "tun" /\ p.process \in EnabledApps(s)
               site == p.domain \in ListedDomains(s)
    <3>1. p.process # "" /\ p.port = "443" /\ p.port # "53"
      BY DEF Packets
    <3> DEFINE r == Decides(request.config, p)
    <3>2. /\ lan => r.to = To("direct")
          /\ ~lan /\ app => r.to = Proxied(plan, AppsSelective(s))
          /\ ~lan /\ ~app /\ site => r.to = Proxied(plan, SitesSelective(s))
          /\ ~lan /\ ~app /\ ~site =>
                \/ r \in ToSet(plan.rules)
                \/ p.ip \in UpstreamIps(location) /\ r.to = plan.target
                \/ p.ip \notin UpstreamIps(location) /\ r.to = Proxied(plan, DefaultUsesProxy(s))
      <4>1. request.config = BuildXrayConfig(location, s, plan)
        BY <2>1 DEF MadeFrom
      <4>2. ~(p.user /\ p.port = "53")
        BY <3>1
      <4>3. plan.rules \in Seq(RawRules)
        BY <2>1
      <4> QED
        BY <4>1, <4>2, <4>3, RoutesDecide
    <3>3. p.process \in EnabledApps(s) <=> p.process \in s.apps
      BY <3>1 DEF EnabledApps
    <3>4. r \in ToSet(plan.rules) => FromProvider(p)
      BY <2>1 DEF FromProvider, ProviderDecides
    <3>5. Listed(s, p) <=> lan \/ app \/ site
      BY <3>3 DEF Listed
    <3>6. p.process \in request.excluded => app /\ ~AppsSelective(s)
      BY <2>1 DEF MadeFrom
    <3> HIDE DEF r
    <3>7. p.process \in request.excluded => r.to = To("direct")
      BY <3>2, <3>6 DEF Proxied
    <3>8. CASE lan
      <4>1. ~Wanted(s, p)
        BY <3>8 DEF Wanted
      <4> QED
        BY <3>2, <3>7, <3>8, <4>1 DEF r
    <3>9. CASE ~lan /\ app
      <4>1. Wanted(s, p) <=> AppsSelective(s)
        BY <3>3, <3>9 DEF Wanted, AppsSelective
      <4>2. r.to = IF Wanted(s, p) THEN plan.target ELSE To("direct")
        BY <3>2, <3>9, <4>1 DEF Proxied
      <4> QED
        BY <3>7, <4>2 DEF r
    <3>10. CASE ~lan /\ ~app /\ site
      <4>1. Wanted(s, p) <=> SitesSelective(s)
        BY <3>3, <3>10 DEF Wanted, SitesSelective
      <4>2. r.to = IF Wanted(s, p) THEN plan.target ELSE To("direct")
        BY <3>2, <3>10, <4>1 DEF Proxied
      <4> QED
        BY <3>7, <4>2 DEF r
    <3>11. CASE ~lan /\ ~app /\ ~site
      <4>1. Wanted(s, p) <=> DefaultUsesProxy(s)
        BY <3>3, <3>11 DEF Wanted, DefaultUsesProxy, AppsSelective, SitesSelective
      <4>2. ~Listed(s, p)
        BY <3>5, <3>11
      <4>3. \/ FromProvider(p)
            \/ p.ip \in UpstreamIps(location)
            \/ r.to = IF Wanted(s, p) THEN plan.target ELSE To("direct")
        BY <3>2, <3>4, <3>11, <4>1 DEF Proxied
      <4> QED
        BY <3>7, <4>2, <4>3 DEF r
    <3> QED
      BY <3>8, <3>9, <3>10, <3>11
  <2>3. request.split = s /\ request.target = plan.target
    BY <2>1 DEF MadeFrom
  <2> QED
    BY <2>2, <2>3 DEF SplitIsHonoured
<1> QED
  BY <1>1, Invariance, PTL

\* A connection of the resolver goes to an address the resolver's rule names, or to a
\* host.
LEMMA LookupShape ==
    ASSUME NEW loc, NEW p \in Lookups(loc)
    PROVE  /\ p.user = FALSE /\ p.process = None
           /\ p.ip = None \/ (p.domain = None /\ p.ip \in UpstreamIps(loc) /\ p.ip # Lan)
<1> DEFINE servers == SafeDnsServers(loc)
           Of(x) == CASE x = "known"  -> {Lookup(OperatorHost, None), Lookup(None, "known")}
                      [] x = "public" -> {Lookup(None, "public")}
                      [] x = "named"  -> {Lookup(NamedHost, None)}
           Ips(x) == CASE x = "known"  -> {"doh", "known"}
                       [] x = "public" -> {"public"}
                       [] x = "named"  -> HostIps(loc, x) \ {Lan}
<1>1. \A domain, ip : LET q == Lookup(domain, ip)
                     IN  q.user = FALSE /\ q.process = None /\ q.domain = domain /\ q.ip = ip
  BY DEF Lookup
<1>2. CASE servers = {}
  <2>1. p = Lookup(OperatorHost, None)
    BY <1>2 DEF Lookups
  <2> QED
    BY <1>1, <2>1
<1>3. CASE servers # {}
  <2>1. Lookups(loc) = UNION {Of(x) : x \in servers} /\ UpstreamIps(loc) = UNION {Ips(x) : x \in servers}
    BY <1>3 DEF Lookups, UpstreamIps
  <2>2. servers \subseteq {"known", "public", "named"}
    BY DEF SafeDnsServers
  <2> HIDE DEF servers
  <2>3. PICK x \in servers : p \in Of(x)
    BY <2>1
  <2>4. CASE x = "known"
    <3>1. p = Lookup(OperatorHost, None) \/ p = Lookup(None, "known")
      BY <2>3, <2>4
    <3>2. "known" \in UpstreamIps(loc)
      BY <2>1, <2>4
    <3> QED
      BY <1>1, <3>1, <3>2 DEF Lan
  <2>5. CASE x = "public"
    <3>1. p = Lookup(None, "public")
      BY <2>3, <2>5
    <3>2. "public" \in UpstreamIps(loc)
      BY <2>1, <2>5
    <3> QED
      BY <1>1, <3>1, <3>2 DEF Lan
  <2>6. CASE x = "named"
    <3>1. p = Lookup(NamedHost, None)
      BY <2>3, <2>6
    <3> QED
      BY <1>1, <3>1
  <2> QED
    BY <2>2, <2>4, <2>5, <2>6
<1> QED
  BY <1>2, <1>3

\* What the resolver asks by address takes the way of the proxied traffic whatever the
\* split says, and what it asks by host name goes direct only where the split sends that
\* name direct, unless a kept rule of the provider decides (build_dns_plan,
\* build_route_rules), for every set of entries and splits.
THEOREM ResolverIsProxied == Spec => []ResolverStaysInside
<1>1. ASSUME ConnectInv PROVE ResolverStaysInside
  <2> SUFFICES ASSUME Connected, NEW p \in Lookups(location)
               PROVE  \/ Decides(request.config, p).to = request.target
                      \/ FromProvider(p)
                      \/ p.ip = None /\ ~Wanted(request.split, p)
    BY DEF ResolverStaysInside
  <2>1. PICK s \in Splits, plan \in OutboundPlans(location) :
           /\ MadeFrom(s, plan) /\ plan.rules \in Seq(RawRules)
           /\ \A r \in ToSet(plan.rules) :
                 location.rawProfile # None /\ r \in ToSet(location.rawProfile.rules)
    BY <1>1, ConnectedShape
  <2> DEFINE r == Decides(request.config, p)
             lan == s.lan /\ p.ip = Lan
             site == p.domain \in ListedDomains(s)
  <2>2. /\ p.user = FALSE /\ p.process = None
        /\ p.ip = None \/ (p.domain = None /\ p.ip \in UpstreamIps(location) /\ p.ip # Lan)
    BY LookupShape
  <2>3. p.process \notin EnabledApps(s) /\ p.process \notin s.apps
    BY <2>2, SplitsAssumption DEF EnabledApps
  <2>4. p.domain = None => ~site
    BY SplitsAssumption
  <2>5. /\ lan => r.to = To("direct")
        /\ ~lan /\ site => r.to = Proxied(plan, SitesSelective(s))
        /\ ~lan /\ ~site =>
              \/ r \in ToSet(plan.rules)
              \/ p.ip \in UpstreamIps(location) /\ r.to = plan.target
              \/ p.ip \notin UpstreamIps(location) /\ r.to = Proxied(plan, DefaultUsesProxy(s))
    <3>1. request.config = BuildXrayConfig(location, s, plan)
      BY <2>1 DEF MadeFrom
    <3> QED
      BY <2>1, <2>2, <2>3, <3>1, RoutesDecide
  <2>6. r \in ToSet(plan.rules) => FromProvider(p)
    BY <2>1 DEF FromProvider, ProviderDecides
  <2>7. request.target = plan.target /\ request.split = s
    BY <2>1 DEF MadeFrom
  <2>8. Wanted(s, p) <=> IF lan THEN FALSE ELSE IF site THEN SitesSelective(s) ELSE DefaultUsesProxy(s)
    BY <2>3 DEF Wanted, DefaultUsesProxy, AppsSelective, SitesSelective
  <2> HIDE DEF r, lan, site
  <2>9. CASE p.ip = None
    <3>1. CASE ~Wanted(s, p)
      BY <2>7, <2>9, <3>1
    <3>2. CASE Wanted(s, p)
      BY <2>5, <2>6, <2>7, <2>8, <3>2 DEF Proxied, r
    <3> QED
      BY <3>1, <3>2
  <2>10. CASE p.ip # None
    <3>1. ~lan /\ ~site /\ p.ip \in UpstreamIps(location)
      BY <2>2, <2>4, <2>10 DEF lan
    <3> QED
      BY <2>5, <2>6, <2>7, <3>1 DEF r
  <2> QED
    BY <2>9, <2>10
<1> QED
  BY <1>1, Invariance, PTL

\* What ob dials is an outbound of the provider's, or the location's own host.
ComesFrom(loc, ob) ==
    \E raw \in Outbounds(loc) \cup {FieldOutbound(loc)} :
        /\ raw \notin Outbounds(loc) => Outbounds(loc) = {}
        /\ ob.peers = raw.peers /\ ob.proto = raw.proto
        /\ ob.marked \/ ob.proto = "wireguard"

LEMMA DialComesFrom ==
    ASSUME NEW loc, NEW raw \in Outbounds(loc) \cup {FieldOutbound(loc)}, NEW tag,
           raw \notin Outbounds(loc) => Outbounds(loc) = {}
    PROVE  ComesFrom(loc, Dial(raw, tag))
BY DEF ComesFrom, Dial, Lower

LEMMA PlanComesFrom ==
    ASSUME NEW loc,
           WellFormed(loc),
           NEW plan \in OutboundPlans(loc)
    PROVE  \E S : plan.proxies \in Seq(S) /\ \A ob \in S : ComesFrom(loc, ob)
<1>1. CASE IsComposite(loc)
  <2> DEFINE outs == loc.rawProfile.outbounds
             dials == [i \in DOMAIN outs |-> Dial(outs[i], ProviderTag(outs[i], i))]
             S == {dials[i] : i \in DOMAIN outs}
             I == {i \in DOMAIN outs : Lower(outs[i].proto) \in ProxyProtocols}
  <2>1. loc.rawProfile # None
    BY <1>1 DEF IsComposite
  <2>2. plan.proxies = Selection(dials, I)
    BY <1>1 DEF OutboundPlans, ProviderProxies
  <2>3. dials \in Seq(S) /\ I \in SUBSET DOMAIN dials
    <3>1. outs \in Seq(RawOutbounds)
      BY <2>1 DEF WellFormed
    <3>2. DOMAIN outs = 1..Len(outs) /\ Len(outs) \in Nat
      BY <3>1, LenProperties
    <3>3. dials \in [1..Len(outs) -> S]
      BY <3>2
    <3> QED
      BY <3>2, <3>3, SeqDef
  <2>4. ASSUME NEW i \in DOMAIN outs PROVE ComesFrom(loc, dials[i])
    <3>1. outs[i] \in Outbounds(loc)
      BY <2>1 DEF Outbounds, ToSet
    <3> QED
      BY <3>1, DialComesFrom
  <2>5. \A ob \in S : ComesFrom(loc, ob)
    BY <2>4
  <2> HIDE DEF dials, S, I
  <2>6. plan.proxies \in Seq(S)
    BY <2>2, <2>3, SelectionIsSeq
  <2> QED
    BY <2>5, <2>6
<1>2. CASE ~IsComposite(loc)
  <2> DEFINE raw == IF loc.rawOutbound # None THEN loc.rawOutbound ELSE FieldOutbound(loc)
  <2>1. plan.proxies = <<Dial(raw, "proxy")>>
    BY <1>2 DEF OutboundPlans, SingleOutbound
  <2>2. /\ raw \in Outbounds(loc) \cup {FieldOutbound(loc)}
        /\ raw \notin Outbounds(loc) => Outbounds(loc) = {}
    BY DEF Outbounds, WellFormed
  <2> HIDE DEF raw
  <2>3. ComesFrom(loc, Dial(raw, "proxy"))
    BY <2>2, DialComesFrom
  <2>4. plan.proxies \in Seq({Dial(raw, "proxy")})
    BY <2>1
  <2> QED
    BY <2>3, <2>4
<1> QED
  BY <1>1, <1>2

\* A resolution that succeeds has every address of one answer for each endpoint.
LEMMA AnswersArePinned ==
    ASSUME NEW loc, NEW ips \in ResolveServerIps(loc) \ {None}, NEW host \in ServerEndpoints(loc)
    PROVE  \E answer \in Answers(host) \ {{}} : answer \subseteq ips
<1> DEFINE hosts == ServerEndpoints(loc)
           All(f) == UNION {f[h] : h \in hosts}
<1>1. PICK f \in {f \in [hosts -> UNION {Answers(h) : h \in hosts}] : \A h \in hosts : f[h] \in Answers(h)} :
         ips = IF \E h \in hosts : f[h] = {} THEN None
               ELSE IF Cardinality(All(f)) > MaxServerIps THEN None
               ELSE All(f)
  BY DEF ResolveServerIps
<1>2. (\A h \in hosts : f[h] # {}) /\ ips = All(f)
  BY <1>1
<1>3. f[host] \in Answers(host) \ {{}} /\ f[host] \subseteq All(f)
  BY <1>1, <1>2
<1> QED
  BY <1>2, <1>3

\* Whatever an outbound of a connected configuration may dial is dialled with the mark or
\* pinned outside the TUN at every address its endpoint had, except what NotPinned says of
\* WireGuard (server_endpoints, resolve_server_ips, outbound_plan), for every set of entries
\* and splits and whatever the resolver answers.
THEOREM DialsAreKeptOut == Spec => []EveryDialEscapesTun
<1>1. ASSUME ConnectInv PROVE EveryDialEscapesTun
  <2> SUFFICES ASSUME Connected, NEW ob \in ToSet(request.config.outbounds), NEW i \in DOMAIN ob.peers
               PROVE  ob.marked \/ Pinned(ob.peers[i]) \/ NotPinned(ob, i)
    BY DEF EveryDialEscapesTun
  <2>1. PICK s \in Splits, plan \in OutboundPlans(location) : MadeFrom(s, plan)
    BY <1>1 DEF ConnectInv, Connected
  <2>2. PICK e \in Entries : location = Import(e) /\ location # None
    BY <1>1 DEF ConnectInv, Connected, Imported
  <2>3. WellFormed(location)
    BY <2>2, ImportedShape
  <2>4. Outbounds(location) \subseteq RawOutbounds
    BY <2>3, ElementOfSeq, LenProperties DEF Outbounds, ToSet, WellFormed
  <2>6. PICK S : plan.proxies \in Seq(S) /\ \A x \in S : ComesFrom(location, x)
    BY <2>3, PlanComesFrom
  <2>7. ComesFrom(location, ob)
    <3> DEFINE own == <<System("direct", "freedom"), System("dns-out", "dns"), System("block", "blackhole")>>
               proxies == plan.proxies
    <3>1. request.config.outbounds = proxies \o own
      BY <2>1 DEF MadeFrom, BuildXrayConfig
    <3>2. Len(own) = 3 /\ \A k \in 1..3 : own[k].peers = <<>>
      BY DEF System
    <3>3. DOMAIN (proxies \o own) = 1..(Len(proxies) + Len(own))
          /\ \A j \in 1..(Len(proxies) + Len(own)) :
                (proxies \o own)[j] = IF j <= Len(proxies) THEN proxies[j] ELSE own[j - Len(proxies)]
      OBVIOUS
    <3>4. Len(proxies) \in Nat /\ \A j \in 1..Len(proxies) : proxies[j] \in S
      BY <2>6, ElementOfSeq, LenProperties
    <3> HIDE DEF own, proxies
    <3>5. PICK j \in 1..(Len(proxies) + 3) : ob = (proxies \o own)[j]
      BY <3>1, <3>2, <3>3 DEF ToSet
    <3>6. CASE j <= Len(proxies)
      BY <2>6, <3>2, <3>3, <3>4, <3>5, <3>6
    <3>7. CASE ~(j <= Len(proxies))
      <4>1. j - Len(proxies) \in 1..3
        BY <3>4, <3>5, <3>7
      <4>2. ob = own[j - Len(proxies)]
        BY <3>2, <3>3, <3>5, <3>7
      <4>3. ob.peers = <<>>
        BY <3>2, <4>1, <4>2
      <4> QED
        BY <4>3
    <3> QED
      BY <3>6, <3>7
  <2>8. PICK raw \in Outbounds(location) \cup {FieldOutbound(location)} :
           /\ raw \notin Outbounds(location) => Outbounds(location) = {}
           /\ ob.peers = raw.peers /\ ob.proto = raw.proto
           /\ ob.marked \/ ob.proto = "wireguard"
    BY <2>7 DEF ComesFrom
  <2>9. \A host \in ServerEndpoints(location) : Pinned(host)
    BY <2>1, AnswersArePinned DEF MadeFrom, Pinned
  <2>10. CASE raw \in Outbounds(location)
    <3>1. raw.peers \in Seq(STRING)
      BY <2>4, <2>10 DEF RawOutbounds
    <3>2. i = 1 \/ i > 1
      BY <2>8, <3>1
    <3>3. Parses(raw) => raw.peers[1] \in ServerEndpoints(location)
      BY <2>10 DEF ServerEndpoints
    <3> QED
      BY <2>8, <2>9, <2>10, <3>2, <3>3 DEF NotPinned
  <2>11. CASE raw \notin Outbounds(location)
    <3>1. raw.peers = <<location.host>>
      BY <2>11 DEF FieldOutbound
    <3>2. i = 1 /\ ob.peers[1] = location.host
      BY <2>8, <3>1
    <3>3. ServerEndpoints(location) = {location.host}
      BY <2>8, <2>11 DEF ServerEndpoints
    <3> QED
      BY <2>9, <3>2, <3>3
  <2> QED
    BY <2>10, <2>11
<1> QED
  BY <1>1, Invariance, PTL

-----------------------------------------------------------------------------
(* What every plan of an accepted location is like.                         *)

SoundPlan(plan) ==
    /\ \E S : plan.proxies \in Seq(S)
    /\ plan.proxies # <<>> /\ ~Duplicates(plan.proxies)
    /\ \A ob \in ToSet(plan.proxies) : ob.tag \notin SystemTags /\ (ob.marked \/ ob.proto = "wireguard")
    /\ plan.balancers \in Seq(RawBalancers)
    /\ \A b \in ToSet(plan.balancers) : b.tag # None /\ b.selects \cap Tags(plan.proxies) # {}
    /\ \/ plan.target.kind = "outbound" /\ plan.target.tag \in Tags(plan.proxies)
       \/ plan.target.kind = "balancer" /\ plan.target.tag \in BalancerTags(plan.balancers)

\* A profile's proxied traffic has a target of the profile.
LEMMA TargetIsKnown ==
    ASSUME NEW profile, profile.rules \in Seq(RawRules), NEW S, ProviderProxies(profile) \in Seq(S),
           ProviderProxies(profile) # <<>>, NEW t \in Targets(profile)
    PROVE  \/ t.kind = "outbound" /\ t.tag \in Tags(ProviderProxies(profile))
           \/ t.kind = "balancer" /\ t.tag \in BalancerTags(profile.balancers)
<1> DEFINE proxies == ProviderProxies(profile)
           Known(r) == \/ r.to.kind = "balancer" /\ r.to.tag \in BalancerTags(profile.balancers)
                       \/ r.to.kind = "outbound" /\ r.to.tag \in Tags(proxies)
           known == {i \in DOMAIN profile.rules : Known(profile.rules[i])}
           last == CHOOSE i \in known : \A j \in known : j <= i
<1>1. Targets(profile) = IF known # {} THEN {profile.rules[last].to}
                         ELSE IF BalancerTags(profile.balancers) # {}
                              THEN {Balanced(b) : b \in BalancerTags(profile.balancers)}
                              ELSE {To(proxies[1].tag)}
  BY DEF Targets
<1>2. CASE known # {}
  <2>1. DOMAIN profile.rules = 1..Len(profile.rules) /\ Len(profile.rules) \in Nat
    BY LenProperties
  <2>2. last \in known
    BY <1>2, <2>1, LastPlace
  <2>3. t = profile.rules[last].to
    BY <1>1, <1>2
  <2>4. Known(profile.rules[last])
    BY <2>2
  <2> QED
    BY <2>3, <2>4
<1>3. CASE known = {} /\ BalancerTags(profile.balancers) # {}
  BY <1>1, <1>3 DEF Balanced
<1>4. CASE known = {} /\ BalancerTags(profile.balancers) = {}
  <2>1. t = To(proxies[1].tag)
    BY <1>1, <1>4
  <2>2. 1 \in DOMAIN proxies
    BY LenProperties, EmptySeq
  <2> QED
    BY <2>1, <2>2 DEF To, Tags, ToSet
<1> QED
  BY <1>2, <1>3, <1>4

LEMMA PlanIsSound ==
    ASSUME NEW loc, WellFormed(loc), loc.rawProfile # None => ~PlanFails(loc),
           NEW plan \in OutboundPlans(loc)
    PROVE  SoundPlan(plan)
<1>1. PICK S : plan.proxies \in Seq(S) /\ \A ob \in S : ComesFrom(loc, ob)
  BY PlanComesFrom
<1>2. \A ob \in ToSet(plan.proxies) : ob.marked \/ ob.proto = "wireguard"
  <2>1. ToSet(plan.proxies) \subseteq S
    BY <1>1, ElementOfSeq, LenProperties DEF ToSet
  <2> QED
    BY <1>1, <2>1 DEF ComesFrom
<1>3. CASE IsComposite(loc)
  <2> DEFINE profile == loc.rawProfile
  <2>1. profile # None /\ ProviderProxiesOk(profile) /\ BalancersOk(profile)
    BY <1>3 DEF IsComposite, PlanFails
  <2>2. plan.proxies = ProviderProxies(profile) /\ plan.balancers = profile.balancers
        /\ plan.target \in Targets(profile)
    BY <1>3 DEF OutboundPlans
  <2>3. profile.rules \in Seq(RawRules) /\ profile.balancers \in Seq(RawBalancers)
    BY <2>1 DEF WellFormed
  <2> HIDE DEF profile
  <2>4. /\ plan.proxies # <<>> /\ ~Duplicates(plan.proxies)
        /\ \A ob \in ToSet(plan.proxies) : ob.tag \notin SystemTags
    BY <2>1, <2>2 DEF ProviderProxiesOk
  <2>5. \A b \in ToSet(plan.balancers) : b.tag # None /\ b.selects \cap Tags(plan.proxies) # {}
    BY <2>1, <2>2 DEF BalancersOk
  <2>6. \/ plan.target.kind = "outbound" /\ plan.target.tag \in Tags(plan.proxies)
        \/ plan.target.kind = "balancer" /\ plan.target.tag \in BalancerTags(plan.balancers)
    BY <1>1, <2>2, <2>3, <2>4, TargetIsKnown
  <2> QED
    BY <1>1, <1>2, <2>2, <2>3, <2>4, <2>5, <2>6 DEF SoundPlan
<1>4. CASE ~IsComposite(loc)
  <2>1. plan.proxies = <<SingleOutbound(loc)>> /\ plan.balancers = <<>> /\ plan.target = To("proxy")
    BY <1>4 DEF OutboundPlans
  <2>2. SingleOutbound(loc).tag = "proxy"
    BY DEF SingleOutbound, Dial
  <2>3. ToSet(plan.proxies) = {SingleOutbound(loc)} /\ ToSet(plan.balancers) = {}
    BY <2>1 DEF ToSet
  <2>4. plan.proxies # <<>> /\ ~Duplicates(plan.proxies) /\ plan.balancers \in Seq(RawBalancers)
    BY <2>1 DEF Duplicates
  <2>5. plan.target.kind = "outbound" /\ plan.target.tag \in Tags(plan.proxies)
    BY <2>1, <2>2, <2>3 DEF To, Tags
  <2>6. "proxy" \notin SystemTags
    BY DEF SystemTags
  <2> QED
    BY <1>1, <1>2, <2>2, <2>3, <2>4, <2>5, <2>6 DEF SoundPlan
<1> QED
  BY <1>3, <1>4

\* What follows the proxies in the two kinds of document.
FollowedBySystem(outs, proxies) ==
    LET n == Len(proxies)
    IN  /\ n \in Nat /\ Len(outs) = n + 3 /\ DOMAIN outs = 1..(n + 3)
        /\ \A i \in 1..n : outs[i] = proxies[i]
        /\ outs[n + 1] = System("direct", "freedom")
        /\ outs[n + 2] = System("dns-out", "dns")
        /\ outs[n + 3] = System("block", "blackhole")

LEMMA ConfigOutbounds ==
    ASSUME NEW loc, NEW s, NEW plan, \E S : plan.proxies \in Seq(S)
    PROVE  FollowedBySystem(BuildXrayConfig(loc, s, plan).outbounds, plan.proxies)
<1> DEFINE outs == BuildXrayConfig(loc, s, plan).outbounds
           n == Len(plan.proxies)
<1> DEFINE proxies == plan.proxies
           own == <<System("direct", "freedom"), System("dns-out", "dns"), System("block", "blackhole")>>
<1>1. outs = proxies \o own
  BY DEF BuildXrayConfig
<1> HIDE DEF outs
<1>2. n \in Nat
  BY LenProperties
<1>3. Len(own) = 3 /\ own[1] = System("direct", "freedom") /\ own[2] = System("dns-out", "dns")
      /\ own[3] = System("block", "blackhole")
  OBVIOUS
<1>4. DOMAIN outs = 1..(Len(proxies) + Len(own)) /\ Len(outs) = Len(proxies) + Len(own)
      /\ \A j \in 1..(Len(proxies) + Len(own)) :
            outs[j] = IF j <= Len(proxies) THEN proxies[j] ELSE own[j - Len(proxies)]
  BY <1>1, <1>2, <1>3
<1> HIDE DEF own, proxies, n
<1>5. DOMAIN outs = 1..(n + 3) /\ Len(outs) = n + 3
      /\ \A j \in 1..(n + 3) : outs[j] = IF j <= n THEN proxies[j] ELSE own[j - n]
  BY <1>3, <1>4 DEF proxies, n
<1>6. \A i \in 1..n : outs[i] = plan.proxies[i]
  BY <1>2, <1>5 DEF proxies
<1>7. ASSUME NEW k \in 1..3 PROVE outs[n + k] = own[k]
  <2>1. n + k \in 1..(n + 3) /\ ~(n + k <= n) /\ (n + k) - n = k
    BY <1>2
  <2>2. outs[n + k] = own[(n + k) - n]
    BY <1>5, <2>1
  <2> QED
    BY <2>1, <2>2
<1> QED
  BY <1>2, <1>3, <1>5, <1>6, <1>7 DEF FollowedBySystem, outs, n

LEMMA ProbeOutbounds ==
    ASSUME NEW S, NEW proxies \in Seq(S)
    PROVE  LET outs == Append(proxies, System("direct", "freedom"))
               n    == Len(proxies)
           IN  /\ n \in Nat /\ Len(outs) = n + 1 /\ DOMAIN outs = 1..(n + 1)
               /\ \A i \in 1..n : outs[i] = proxies[i]
               /\ outs[n + 1] = System("direct", "freedom")
               /\ Tags(outs) = Tags(proxies) \cup {"direct"}
<1> DEFINE outs == Append(proxies, System("direct", "freedom"))
           n == Len(proxies)
<1>1. n \in Nat /\ DOMAIN proxies = 1..n
  BY LenProperties
<1>2. /\ Len(outs) = n + 1 /\ DOMAIN outs = 1..(n + 1)
      /\ \A i \in 1..n : outs[i] = proxies[i]
      /\ outs[n + 1] = System("direct", "freedom")
  BY <1>1
<1> HIDE DEF outs, n
<1>3. ToSet(outs) = ToSet(proxies) \cup {System("direct", "freedom")}
  <2>1. \A i \in 1..(n + 1) : i \in 1..n \/ i = n + 1
    BY <1>1
  <2>2. \A i \in 1..n : i \in 1..(n + 1)
    BY <1>1
  <2>3. n + 1 \in 1..(n + 1)
    BY <1>1
  <2> QED
    BY <1>1, <1>2, <2>1, <2>2, <2>3 DEF ToSet
<1>4. System("direct", "freedom").tag = "direct"
  BY DEF System
<1>5. Tags(outs) = Tags(proxies) \cup {"direct"}
  BY <1>3, <1>4 DEF Tags
<1> QED
  BY <1>1, <1>2, <1>5 DEF outs, n

-----------------------------------------------------------------------------
(* The probe and the ping.                                                  *)

LEMMA FirstTaggedIsOne ==
    ASSUME NEW S, NEW balancers \in Seq(S), NEW tag \in BalancerTags(balancers)
    PROVE  FirstTagged(balancers, tag) \in ToSet(balancers)
<1> DEFINE Tagged == {i \in DOMAIN balancers : balancers[i].tag = tag}
           P(i) == balancers[i].tag = tag /\ \A j \in 1..(i - 1) : balancers[j].tag # tag
<1>1. DOMAIN balancers = 1..Len(balancers) /\ Len(balancers) \in Nat
  BY LenProperties
<1>2. Tagged \in SUBSET Nat /\ Tagged # {}
  BY <1>1 DEF BalancerTags, ToSet
<1>3. PICK k \in Tagged : \A i \in Tagged : k <= i
  BY <1>2, Minimum
<1>4. ASSUME NEW j \in 1..(k - 1) PROVE balancers[j].tag # tag
  <2>1. j \in DOMAIN balancers /\ ~(k <= j)
    BY <1>1, <1>3
  <2> QED
    BY <1>3, <2>1
<1>5. k \in DOMAIN balancers /\ P(k)
  BY <1>3, <1>4
<1>6. (CHOOSE i \in DOMAIN balancers : P(i)) \in DOMAIN balancers
  BY <1>5
<1> QED
  BY <1>6 DEF FirstTagged, ToSet

\* Balancers that stay among the proxies.
StayInside(balancers) ==
    \A b \in ToSet(balancers) : b.fallback \notin SystemTags /\ b.selects \cap SystemTags = {}

\* What answered a probe is a proxy.
LEMMA AnswersAreProxies ==
    ASSUME NEW plan, SoundPlan(plan), StayInside(plan.balancers), NEW doc,
           doc.outbounds = Append(plan.proxies, System("direct", "freedom")),
           doc.balancers = plan.balancers,
           NEW up \in SUBSET Tags(doc.outbounds), NEW tag \in up, tag \in Carriers(doc, plan.target, up)
    PROVE  tag \in Tags(plan.proxies) \ SystemTags
<1>1. \A x \in Tags(plan.proxies) : x \notin SystemTags
  BY DEF SoundPlan, Tags
<1>2. Tags(doc.outbounds) = Tags(plan.proxies) \cup {"direct"}
  BY ProbeOutbounds DEF SoundPlan
<1>3. tag \notin SystemTags => tag \in Tags(plan.proxies)
  BY <1>2 DEF SystemTags
<1>4. CASE plan.target.kind = "outbound"
  <2>1. plan.target.tag \in Tags(plan.proxies)
    BY <1>4 DEF SoundPlan
  <2>2. tag = plan.target.tag
    BY <1>4 DEF Carriers
  <2> QED
    BY <1>1, <2>1, <2>2
<1>5. CASE plan.target.kind # "outbound"
  <2> DEFINE b == FirstTagged(plan.balancers, plan.target.tag)
             chosen == b.selects \cap Tags(doc.outbounds)
  <2>1. plan.target.tag \in BalancerTags(plan.balancers)
    BY <1>5 DEF SoundPlan
  <2>2. b \in ToSet(plan.balancers)
    BY <2>1, FirstTaggedIsOne DEF SoundPlan
  <2>3. Carriers(doc, plan.target, up) =
           IF chosen \cap up # {} THEN chosen \cap up
           ELSE IF b.fallback # None THEN {b.fallback} ELSE chosen
    BY <1>5 DEF Carriers
  <2>4. tag \in b.selects \/ tag = b.fallback
    <3> HIDE DEF b
    <3> QED
      BY <2>3
  <2>5. tag \notin SystemTags
    BY <2>2, <2>4 DEF StayInside
  <2> QED
    BY <1>3, <2>5
<1> QED
  BY <1>4, <1>5

\* What carried a probe may carry the running configuration's traffic.
LEMMA AnswersCarry ==
    ASSUME NEW doc, NEW config, config.balancers = doc.balancers, NEW to,
           NEW up, NEW tag \in up, tag \in Carriers(doc, to, up), tag \in Tags(config.outbounds)
    PROVE  tag \in Carriers(config, to, {tag})
<1>1. CASE to.kind = "outbound"
  BY <1>1 DEF Carriers
<1>2. CASE to.kind # "outbound"
  <2> DEFINE b == FirstTagged(doc.balancers, to.tag)
             chosen == b.selects \cap Tags(doc.outbounds)
             chosen2 == b.selects \cap Tags(config.outbounds)
  <2>1. Carriers(doc, to, up) =
           IF chosen \cap up # {} THEN chosen \cap up
           ELSE IF b.fallback # None THEN {b.fallback} ELSE chosen
    BY <1>2 DEF Carriers
  <2>2. Carriers(config, to, {tag}) =
           IF chosen2 \cap {tag} # {} THEN chosen2 \cap {tag}
           ELSE IF b.fallback # None THEN {b.fallback} ELSE chosen2
    BY <1>2 DEF Carriers
  <2> HIDE DEF b
  <2>3. CASE tag \in b.selects
    BY <2>2, <2>3
  <2>4. CASE tag \notin b.selects
    <3>1. b.fallback # None /\ tag = b.fallback
      BY <2>1, <2>4
    <3>2. chosen2 \cap {tag} = {}
      BY <2>4
    <3> QED
      BY <2>2, <3>1, <3>2
  <2> QED
    BY <2>3, <2>4
<1> QED
  BY <1>1, <1>2

\* Whatever a ping measures is a proxy of its plan.
LEMMA PingsMeasureProxies ==
    ASSUME NEW plan, SoundPlan(plan)
    PROVE  PingTags(plan) \subseteq Tags(plan.proxies)
<1>1. PICK S : plan.proxies \in Seq(S)
  BY DEF SoundPlan
<1>2. DOMAIN plan.proxies = 1..Len(plan.proxies)
  BY <1>1, LenProperties
<1>3. ASSUME NEW r \in ToSet(BuildPingConfig(plan).rules) PROVE r.to.tag \in Tags(plan.proxies)
  <2> DEFINE n == Len(plan.proxies)
             Inbound(i) == "socks-in-" \o ToString(i - 1)
             rules == [i \in 1..n |-> Rule("inbound", {Inbound(i)}, To(plan.proxies[i].tag))[1]]
  <2>1. BuildPingConfig(plan).rules = rules
    BY DEF BuildPingConfig
  <2>2. PICK i \in 1..n : r = rules[i]
    BY <2>1 DEF ToSet
  <2>3. \A on, vals, to : Rule(on, vals, to)[1].to = to
    BY DEF Rule
  <2>4. r.to.tag = plan.proxies[i].tag
    BY <2>2, <2>3 DEF To
  <2> QED
    BY <1>2, <2>4 DEF Tags, ToSet
<1>4. PingOutboundTags(plan) \subseteq Tags(plan.proxies)
  BY DEF PingOutboundTags, SoundPlan
<1> QED
  BY <1>3, <1>4 DEF PingTags

\* Two calls of outbound_plan agree but for the target, and on that as well when the
\* profile leaves no choice.
LEMMA PlansAgree ==
    ASSUME NEW loc, NEW plan \in OutboundPlans(loc), NEW probed \in OutboundPlans(loc)
    PROVE  /\ plan.proxies = probed.proxies /\ plan.balancers = probed.balancers
           /\ ~AnyBalancer(loc) => plan.target = probed.target
           /\ ~LeavesProxies(loc) => StayInside(plan.balancers)
<1>1. CASE IsComposite(loc)
  <2>1. /\ plan.proxies = probed.proxies
        /\ plan.balancers = loc.rawProfile.balancers /\ probed.balancers = loc.rawProfile.balancers
        /\ plan.target \in Targets(loc.rawProfile) /\ probed.target \in Targets(loc.rawProfile)
    BY <1>1 DEF OutboundPlans
  <2>2. loc.rawProfile # None
    BY <1>1 DEF IsComposite
  <2> QED
    BY <2>1, <2>2 DEF AnyBalancer, LeavesProxies, StayInside
<1>2. CASE ~IsComposite(loc)
  <2>1. /\ plan.proxies = probed.proxies /\ plan.target = probed.target
        /\ plan.balancers = <<>> /\ probed.balancers = <<>>
    BY <1>2 DEF OutboundPlans
  <2> QED
    BY <2>1 DEF StayInside, ToSet
<1> QED
  BY <1>1, <1>2

\* A location is connected after one of its proxies answered, one the running
\* configuration may use; a ping measures a proxy too (run_validation_egress_probe,
\* proxy_get_ping), for every set of entries and splits.
THEOREM ProbeIsTheRoute == Spec => []ProbeFollowsRoute
<1>1. ASSUME ConnectInv PROVE ProbeFollowsRoute
  <2>1. ASSUME stage \in {"connected", "pinged"}
        PROVE  \A plan \in OutboundPlans(location) : SoundPlan(plan)
    <3>1. PICK e \in Entries : location = Import(e) /\ location # None
      BY <1>1, <2>1 DEF ConnectInv, Imported
    <3>2. WellFormed(location)
      BY <3>1, ImportedShape
    <3>3. location.rawProfile # None => ~PlanFails(location)
      BY <1>1, <2>1 DEF ConnectInv, Builds, ValidServer
    <3> QED
      BY <3>2, <3>3, PlanIsSound
  <2>2. ASSUME Connected, ~LeavesProxies(location)
        PROVE  /\ measured \in Tags(request.config.outbounds) \ SystemTags
               /\ ~AnyBalancer(location) =>
                     \E up \in SUBSET Tags(request.config.outbounds) :
                         measured \in Carriers(request.config, request.target, up)
    <3>1. PICK s \in Splits, plan \in OutboundPlans(location), probed \in OutboundPlans(location) :
             MadeFrom(s, plan) /\ request.probe = BuildConnectionProbeConfig(probed)
      BY <1>1, <2>2 DEF ConnectInv, Connected
    <3> DEFINE probe == request.probe
               config == request.config
    <3>2. /\ probe.outbounds = Append(probed.proxies, System("direct", "freedom"))
          /\ probe.balancers = probed.balancers
          /\ probe.rules[1].to = probed.target
      BY <3>1 DEF BuildConnectionProbeConfig, Rule
    <3>3. config.balancers = plan.balancers /\ request.target = plan.target
          /\ config = BuildXrayConfig(location, s, plan)
      BY <3>1 DEF MadeFrom, BuildXrayConfig
    <3>4. SoundPlan(plan) /\ SoundPlan(probed)
      BY <2>1, <2>2 DEF Connected
    <3>5. /\ plan.proxies = probed.proxies /\ plan.balancers = probed.balancers
          /\ ~AnyBalancer(location) => plan.target = probed.target
          /\ StayInside(probed.balancers)
      BY <2>2, PlansAgree
    <3>6. PICK up \in SUBSET Tags(probe.outbounds) :
             measured \in up /\ measured \in Carriers(probe, probed.target, up)
      BY <1>1, <2>2, <3>2 DEF ConnectInv, Connected, Answered
    <3> HIDE DEF probe, config
    <3>7. measured \in Tags(probed.proxies) \ SystemTags
      BY <3>2, <3>4, <3>5, <3>6, AnswersAreProxies
    <3>8. Tags(plan.proxies) \subseteq Tags(config.outbounds)
      <4>1. PICK S : plan.proxies \in Seq(S)
        BY <3>4 DEF SoundPlan
      <4>2. PICK n : n = Len(plan.proxies)
        OBVIOUS
      <4>3. config.outbounds = BuildXrayConfig(location, s, plan).outbounds
        BY <3>3
      <4>4. /\ n \in Nat /\ DOMAIN config.outbounds = 1..(n + 3)
            /\ \A i \in 1..n : config.outbounds[i] = plan.proxies[i]
        <5>1. FollowedBySystem(config.outbounds, plan.proxies)
          BY <4>1, <4>3, ConfigOutbounds
        <5> QED
          BY <4>2, <5>1 DEF FollowedBySystem
      <4>5. DOMAIN plan.proxies = 1..n
        BY <4>1, <4>2, LenProperties
      <4>6. \A i \in 1..n : i \in 1..(n + 3)
        BY <4>4
      <4>7. ToSet(plan.proxies) \subseteq ToSet(config.outbounds)
        BY <4>4, <4>5, <4>6 DEF ToSet
      <4> QED
        BY <4>7 DEF Tags
    <3>9. measured \in Tags(config.outbounds)
      BY <3>5, <3>7, <3>8
    <3>10. ~AnyBalancer(location) => measured \in Carriers(config, request.target, {measured})
      BY <3>2, <3>3, <3>5, <3>6, <3>9, AnswersCarry
    <3>11. {measured} \in SUBSET Tags(config.outbounds)
      BY <3>9
    <3> QED
      BY <3>7, <3>9, <3>10, <3>11 DEF config
  <2>3. ASSUME stage = "pinged" PROVE measured \notin SystemTags
    <3>1. PICK plan \in OutboundPlans(location) : measured \in PingTags(plan)
      BY <1>1, <2>3 DEF ConnectInv
    <3>2. SoundPlan(plan)
      BY <2>1, <2>3
    <3>3. measured \in Tags(plan.proxies)
      BY <3>1, <3>2, PingsMeasureProxies
    <3> QED
      BY <3>2, <3>3 DEF SoundPlan, Tags
  <2> QED
    BY <2>2, <2>3 DEF ProbeFollowsRoute
<1> QED
  BY <1>1, Invariance, PTL

-----------------------------------------------------------------------------
(* What the daemon accepts.                                                 *)

\* A plan without anything that only the daemon refuses.
PlainPlan(plan) ==
    /\ \A ob \in ToSet(plan.proxies) : ob.proto \in ProxyProtocols /\ ob.names = "nothing"
    /\ Len(plan.proxies) <= MaxServerIps
    /\ Len(plan.balancers) <= MaxServerIps
    /\ ~Duplicates(plan.balancers) /\ "" \notin BalancerTags(plan.balancers)

LEMMA ConfigIsAccepted ==
    ASSUME NEW loc, NEW s, NEW plan, SoundPlan(plan), PlainPlan(plan)
    PROVE  ValidateXrayDocument(BuildXrayConfig(loc, s, plan), s.mode)
<1> DEFINE doc == BuildXrayConfig(loc, s, plan)
           outs == doc.outbounds
           proxies == plan.proxies
           n == Len(proxies)
           places == {i \in DOMAIN outs : outs[i].proto \in ProxyProtocols}
<1>1. /\ n \in Nat /\ Len(outs) = n + 3 /\ DOMAIN outs = 1..(n + 3)
      /\ \A i \in 1..n : outs[i] = proxies[i]
      /\ outs[n + 1] = System("direct", "freedom")
      /\ outs[n + 2] = System("dns-out", "dns")
      /\ outs[n + 3] = System("block", "blackhole")
  <2>1. FollowedBySystem(outs, proxies)
    BY ConfigOutbounds DEF SoundPlan
  <2> HIDE DEF outs, proxies
  <2> QED
    BY <2>1 DEF FollowedBySystem
<1>2. doc.inbounds = <<IF s.mode = "tun" THEN "tun-in" ELSE "socks-in">>
  BY DEF BuildXrayConfig
<1>3. /\ DOMAIN proxies = 1..n /\ n # 0
      /\ \A i \in 1..n : proxies[i] \in ToSet(proxies)
  <2>1. PICK S : proxies \in Seq(S)
    BY DEF SoundPlan
  <2>2. DOMAIN proxies = 1..n /\ n # 0
    BY <2>1, LenProperties, EmptySeq DEF SoundPlan
  <2> QED
    BY <2>2 DEF ToSet
<1>4. \A i \in 1..n : /\ proxies[i].tag \notin SystemTags
                      /\ proxies[i].proto \in ProxyProtocols /\ proxies[i].names = "nothing"
  BY <1>3 DEF SoundPlan, PlainPlan
<1>5. \A i, j \in 1..n : i # j => proxies[i].tag # proxies[j].tag
  BY <1>3 DEF SoundPlan, Duplicates
<1>6. n <= MaxServerIps
  BY DEF PlainPlan
<1> HIDE DEF outs, doc, n, proxies
<1>7. \A i \in 1..(n + 3) : i \in 1..n \/ i = n + 1 \/ i = n + 2 \/ i = n + 3
  BY <1>1
<1>8. /\ outs[n + 1].tag = "direct" /\ outs[n + 1].proto = "freedom" /\ outs[n + 1].names = "nothing"
      /\ outs[n + 2].tag = "dns-out" /\ outs[n + 2].proto = "dns" /\ outs[n + 2].names = "nothing"
      /\ outs[n + 3].tag = "block" /\ outs[n + 3].proto = "blackhole" /\ outs[n + 3].names = "nothing"
  BY <1>1 DEF System
<1>9. places = 1..n
  <2>1. "freedom" \notin ProxyProtocols /\ "dns" \notin ProxyProtocols /\ "blackhole" \notin ProxyProtocols
    BY DEF ProxyProtocols
  <2>2. \A i \in 1..n : i \in 1..(n + 3)
    BY <1>1
  <2> QED
    BY <1>1, <1>4, <1>7, <1>8, <2>1, <2>2
<1>10. Cardinality(places) = n
  <2>1. Cardinality(1..n) = n
    BY <1>1, FS_Interval
  <2> QED
    BY <1>9, <2>1
<1>11. ~Duplicates(outs)
  <2> SUFFICES ASSUME NEW i \in 1..(n + 3), NEW j \in 1..(n + 3), i # j
               PROVE  outs[i].tag # outs[j].tag
    BY <1>1 DEF Duplicates
  <2>1. "direct" \in SystemTags /\ "dns-out" \in SystemTags /\ "block" \in SystemTags
    BY DEF SystemTags
  <2>2. \A k \in 1..n : outs[k].tag \notin SystemTags
    BY <1>1, <1>4
  <2>3. CASE i \in 1..n /\ j \in 1..n
    BY <1>1, <1>5, <2>3
  <2>4. CASE i \in 1..n /\ j \notin 1..n
    BY <1>7, <1>8, <2>1, <2>2, <2>4
  <2>5. CASE i \notin 1..n /\ j \in 1..n
    BY <1>7, <1>8, <2>1, <2>2, <2>5
  <2>6. CASE i \notin 1..n /\ j \notin 1..n
    BY <1>7, <1>8, <2>6
  <2> QED
    BY <2>3, <2>4, <2>5, <2>6
<1>12. /\ \E ob \in ToSet(outs) : ob.tag = "direct" /\ ob.proto = "freedom"
       /\ \E ob \in ToSet(outs) : ob.tag = "dns-out" /\ ob.proto = "dns"
       /\ \E ob \in ToSet(outs) : ob.tag = "block" /\ ob.proto = "blackhole"
  <2>1. n + 1 \in DOMAIN outs /\ n + 2 \in DOMAIN outs /\ n + 3 \in DOMAIN outs
    BY <1>1
  <2> QED
    BY <1>8, <2>1 DEF ToSet
<1>13. NamesNoFile(outs)
  BY <1>1, <1>4, <1>7, <1>8 DEF NamesNoFile, ToSet
<1>14. n \in 1..MaxServerIps
  BY <1>1, <1>3, <1>6, MaxServerIpsAssumption
<1>15. \A own \in {<<"direct", "freedom">>, <<"dns-out", "dns">>, <<"block", "blackhole">>} :
          \E ob \in ToSet(outs) : ob.tag = own[1] /\ ob.proto = own[2]
  BY <1>12
<1> QED
  BY <1>1, <1>2, <1>10, <1>11, <1>13, <1>14, <1>15 DEF ValidateXrayDocument, doc, outs

\* A document with the plan's proxies and rules that lead to them.
LEMMA ProbeIsAccepted ==
    ASSUME NEW plan, SoundPlan(plan), PlainPlan(plan), NEW doc,
           doc.outbounds = Append(plan.proxies, System("direct", "freedom")),
           doc.balancers \in {<<>>, plan.balancers},
           Len(doc.inbounds) \in 1..MaxServerIps, Len(doc.rules) = Len(doc.inbounds),
           \A r \in ToSet(doc.rules) :
              \/ r.to.kind = "outbound" /\ r.to.tag \in Tags(plan.proxies)
              \/ r.to.kind = "balancer" /\ r.to.tag \in BalancerTags(doc.balancers)
    PROVE  ValidatePingDocument(doc)
<1> DEFINE outs == doc.outbounds
           n == Len(plan.proxies)
           proxies == {outs[i] : i \in 1..(Len(outs) - 1)}
           tags == {ob.tag : ob \in proxies}
<1>1. /\ n \in Nat /\ Len(outs) = n + 1 /\ DOMAIN outs = 1..(n + 1)
      /\ \A i \in 1..n : outs[i] = plan.proxies[i]
      /\ outs[n + 1] = System("direct", "freedom")
  BY ProbeOutbounds DEF SoundPlan
<1>2. DOMAIN plan.proxies = 1..n /\ n # 0
  <2>1. PICK S : plan.proxies \in Seq(S)
    BY DEF SoundPlan
  <2> QED
    BY <2>1, LenProperties, EmptySeq DEF SoundPlan
<1>3. n <= MaxServerIps
  BY DEF PlainPlan
<1> HIDE DEF outs, n
<1>4. proxies = ToSet(plan.proxies)
  <2>1. Len(outs) - 1 = n
    BY <1>1
  <2> QED
    BY <1>1, <1>2, <2>1 DEF ToSet
<1>5. tags = Tags(plan.proxies)
  BY <1>4 DEF Tags
<1>6. Len(outs) \in 2..(MaxServerIps + 1) /\ outs[Len(outs)].proto = "freedom"
  BY <1>1, <1>2, <1>3, MaxServerIpsAssumption DEF System
<1>7. ~Duplicates(outs)
  <2> SUFFICES ASSUME NEW i \in 1..(n + 1), NEW j \in 1..(n + 1), i # j
               PROVE  outs[i].tag # outs[j].tag
    BY <1>1 DEF Duplicates
  <2>1. outs[n + 1].tag = "direct" /\ "direct" \in SystemTags
    BY <1>1 DEF System, SystemTags
  <2>2. \A k \in 1..n : outs[k].tag \notin SystemTags
    BY <1>1, <1>2 DEF SoundPlan, ToSet
  <2>3. \A k, l \in 1..n : k # l => outs[k].tag # outs[l].tag
    <3>1. \A k, l \in 1..n : k # l => plan.proxies[k].tag # plan.proxies[l].tag
      BY <1>2 DEF SoundPlan, Duplicates
    <3> QED
      BY <1>1, <3>1
  <2>4. \A k \in 1..(n + 1) : k \in 1..n \/ k = n + 1
    BY <1>1
  <2> QED
    BY <2>1, <2>2, <2>3, <2>4
<1>8. \A ob \in proxies : ob.proto \in ProxyProtocols /\ (ob.marked \/ ob.proto = "wireguard")
  BY <1>4 DEF SoundPlan, PlainPlan
<1>9. NamesNoFile(outs)
  <2>1. \A k \in 1..(n + 1) : k \in 1..n \/ k = n + 1
    BY <1>1
  <2>2. \A k \in 1..n : outs[k].names = "nothing"
    BY <1>1, <1>2 DEF PlainPlan, ToSet
  <2>3. outs[n + 1].names = "nothing"
    BY <1>1 DEF System
  <2> QED
    BY <1>1, <2>1, <2>2, <2>3 DEF NamesNoFile, ToSet
<1>10. /\ Len(doc.balancers) <= MaxServerIps /\ ~Duplicates(doc.balancers)
       /\ \A b \in ToSet(doc.balancers) : b.tag \notin {None, ""} /\ b.selects \cap tags # {}
  <2>1. CASE doc.balancers = <<>>
    <3>1. Len(<<>>) = 0 /\ 0 <= MaxServerIps
      BY MaxServerIpsAssumption
    <3> QED
      BY <2>1, <3>1 DEF Duplicates, ToSet
  <2>2. CASE doc.balancers = plan.balancers
    <3>1. \A b \in ToSet(plan.balancers) : b.tag # ""
      BY DEF PlainPlan, SoundPlan, BalancerTags
    <3> QED
      BY <1>5, <2>2, <3>1 DEF SoundPlan, PlainPlan
  <2> QED
    BY <2>1, <2>2
<1> HIDE DEF proxies
<1> QED
  BY <1>5, <1>6, <1>7, <1>8, <1>9, <1>10 DEF ValidatePingDocument, outs, proxies

\* The proxies of a profile that the window accepts.
LEMMA ProviderProxiesShape ==
    ASSUME NEW profile, profile.outbounds \in Seq(RawOutbounds), ProviderProxiesOk(profile)
    PROVE  /\ \A ob \in ToSet(ProviderProxies(profile)) :
                 \E raw \in ToSet(profile.outbounds) :
                    ob.proto = raw.proto /\ ob.names = raw.names /\ Sanitizes(raw)
           /\ \A raw \in ToSet(profile.outbounds) :
                 raw.proto \in ProxyProtocols => Sanitizes(raw)
<1> DEFINE outs == profile.outbounds
           dials == [i \in DOMAIN outs |-> Dial(outs[i], ProviderTag(outs[i], i))]
           S == {dials[i] : i \in DOMAIN outs}
           I == {i \in DOMAIN outs : Lower(outs[i].proto) \in ProxyProtocols}
           proxies == ProviderProxies(profile)
<1>1. proxies = Selection(dials, I)
  BY DEF ProviderProxies
<1>2. dials \in Seq(S) /\ I \in SUBSET DOMAIN dials
  <2>1. DOMAIN outs = 1..Len(outs) /\ Len(outs) \in Nat
    BY LenProperties
  <2>2. dials \in [1..Len(outs) -> S]
    BY <2>1
  <2> QED
    BY <2>1, <2>2, SeqDef
<1>3. \A i \in DOMAIN outs : dials[i].proto = outs[i].proto /\ dials[i].names = outs[i].names
  BY DEF Dial
<1>4. \A ob \in ToSet(proxies) : Sanitizes(ob)
  BY DEF ProviderProxiesOk
<1>5. \A i \in I : i \in DOMAIN outs /\ outs[i] \in ToSet(outs)
  BY DEF ToSet
<1>6. \A raw \in ToSet(outs) : \E i \in DOMAIN outs : raw = outs[i]
  BY DEF ToSet
<1>7. ASSUME NEW i \in DOMAIN outs, outs[i].proto \in ProxyProtocols PROVE i \in I
  BY <1>7 DEF Lower, ProxyProtocols
<1> HIDE DEF dials, S, I, proxies
<1>8. /\ \A ob \in ToSet(proxies) : \E i \in I : ob = dials[i]
      /\ \A i \in I : dials[i] \in ToSet(proxies)
  BY <1>1, <1>2, SelectionIsSeq, SelectionKeeps
<1>9. \A i \in I : Sanitizes(outs[i])
  BY <1>3, <1>4, <1>5, <1>8 DEF Sanitizes
<1> QED
  BY <1>2, <1>3, <1>5, <1>6, <1>7, <1>8, <1>9 DEF proxies

\* A sanitized outbound that only names what the daemon reads as well is plain.
LEMMA SanitizedIsPlain ==
    ASSUME NEW raw \in RawOutbounds, Sanitizes(raw), raw.names # "path", raw.proto = Lower(raw.proto)
    PROVE  raw.proto \in ProxyProtocols /\ raw.names = "nothing"
BY DEF RawOutbounds, Sanitizes

\* What the window accepts and the daemon is not stricter about.
LEMMA PlanIsPlain ==
    ASSUME NEW loc, WellFormed(loc), ValidServer(loc),
           loc.rawProfile = None => SingleOutboundBuilds(loc),
           ~DaemonIsStricter(loc), NEW plan \in OutboundPlans(loc)
    PROVE  PlainPlan(plan)
<1>1. \A ob \in Outbounds(loc) : Sanitizes(ob) => ob.names # "path" /\ ob.proto = Lower(ob.proto)
  BY DEF DaemonIsStricter, Sanitizes
<1>2. CASE IsComposite(loc)
  <2> DEFINE profile == loc.rawProfile
  <2>1. profile # None
    BY <1>2 DEF IsComposite
  <2>2. ProviderProxiesOk(profile)
    BY <2>1 DEF ValidServer, PlanFails
  <2>3. plan.proxies = ProviderProxies(profile) /\ plan.balancers = profile.balancers
    BY <1>2 DEF OutboundPlans
  <2>4. profile.outbounds \in Seq(RawOutbounds) /\ Outbounds(loc) = ToSet(profile.outbounds)
    BY <2>1 DEF WellFormed, Outbounds
  <2>5. /\ ~(Len(ProviderProxies(profile)) > MaxServerIps) /\ ~(Len(profile.balancers) > MaxServerIps)
        /\ ~Duplicates(profile.balancers) /\ "" \notin BalancerTags(profile.balancers)
    BY <2>1 DEF DaemonIsStricter
  <2>6. profile.balancers \in Seq(RawBalancers)
    BY <2>1 DEF WellFormed
  <2> HIDE DEF profile
  <2>7. ASSUME NEW ob \in ToSet(plan.proxies) PROVE ob.proto \in ProxyProtocols /\ ob.names = "nothing"
    <3>1. PICK raw \in ToSet(profile.outbounds) :
             ob.proto = raw.proto /\ ob.names = raw.names /\ Sanitizes(raw)
      BY <2>2, <2>3, <2>4, ProviderProxiesShape
    <3>2. raw \in RawOutbounds
      BY <2>4, ElementOfSeq, LenProperties DEF ToSet
    <3> QED
      BY <1>1, <2>4, <3>1, <3>2, SanitizedIsPlain
  <2>8. Len(plan.proxies) <= MaxServerIps /\ Len(plan.balancers) <= MaxServerIps
    <3>1. \E S : plan.proxies \in Seq(S)
      BY PlanComesFrom
    <3>2. PICK n \in Nat, m \in Nat : n = Len(plan.proxies) /\ m = Len(plan.balancers)
      BY <2>3, <2>6, <3>1, LenProperties
    <3>3. ~(n > MaxServerIps) /\ ~(m > MaxServerIps)
      BY <2>3, <2>5, <3>2
    <3>4. n <= MaxServerIps /\ m <= MaxServerIps
      BY <3>3, MaxServerIpsAssumption
    <3> QED
      BY <3>2, <3>4
  <2> QED
    BY <2>3, <2>5, <2>7, <2>8 DEF PlainPlan
<1>3. CASE ~IsComposite(loc)
  <2> DEFINE ob == SingleOutbound(loc)
  <2>1. plan.proxies = <<ob>> /\ plan.balancers = <<>>
    BY <1>3 DEF OutboundPlans
  <2>2. ob.proto \in ProxyProtocols /\ ob.names = "nothing"
    <3>1. CASE loc.rawOutbound # None
      <4> DEFINE raw == loc.rawOutbound
      <4>1. raw \in RawOutbounds /\ ob.proto = raw.proto /\ ob.names = raw.names
        BY <3>1 DEF WellFormed, SingleOutbound, Dial
      <4>2. raw \in Outbounds(loc)
        BY <3>1 DEF WellFormed, Outbounds
      <4>3. Sanitizes(raw)
        <5>1. CASE loc.rawProfile = None
          BY <3>1, <5>1 DEF SingleOutboundBuilds
        <5>2. CASE loc.rawProfile # None
          <6>1. ProviderProxiesOk(loc.rawProfile)
            BY <5>2 DEF ValidServer, PlanFails
          <6>2. /\ loc.rawProfile.outbounds \in Seq(RawOutbounds)
                /\ raw \in ToSet(loc.rawProfile.outbounds) /\ raw.proto \in ProxyProtocols
            BY <5>2 DEF WellFormed
          <6> QED
            BY <6>1, <6>2, ProviderProxiesShape
        <5> QED
          BY <5>1, <5>2
      <4> HIDE DEF raw, ob
      <4> QED
        BY <1>1, <4>1, <4>2, <4>3, SanitizedIsPlain
    <3>2. CASE loc.rawOutbound = None
      <4>1. loc.rawProfile = None
        BY <3>2 DEF WellFormed
      <4>2. loc.protocol \in ProxyProtocols
        BY <3>2, <4>1 DEF ValidServer
      <4> QED
        BY <3>2, <4>2 DEF SingleOutbound, Dial, FieldOutbound
    <3> QED
      BY <3>1, <3>2
  <2> HIDE DEF ob
  <2>3. ToSet(plan.proxies) = {ob} /\ Len(plan.proxies) = 1
    BY <2>1 DEF ToSet
  <2>4. ToSet(plan.balancers) = {} /\ Len(plan.balancers) = 0 /\ ~Duplicates(plan.balancers)
    BY <2>1 DEF ToSet, Duplicates
  <2>5. "" \notin BalancerTags(plan.balancers)
    BY <2>4 DEF BalancerTags
  <2>6. 1 <= MaxServerIps /\ 0 <= MaxServerIps
    BY MaxServerIpsAssumption
  <2>7. Len(plan.proxies) <= MaxServerIps /\ Len(plan.balancers) <= MaxServerIps
    BY <2>3, <2>4, <2>6
  <2> QED
    BY <2>2, <2>3, <2>4, <2>5, <2>7 DEF PlainPlan
<1> QED
  BY <1>2, <1>3

\* The two documents a location is measured with.
LEMMA MeasuringIsAccepted ==
    ASSUME NEW plan, SoundPlan(plan), PlainPlan(plan)
    PROVE  /\ ValidatePingDocument(BuildConnectionProbeConfig(plan))
           /\ ValidatePingDocument(BuildPingConfig(plan))
<1>1. PICK S : plan.proxies \in Seq(S)
  BY DEF SoundPlan
<1>2. PICK n \in Nat : n = Len(plan.proxies)
  BY <1>1, LenProperties
<1>3. n \in 1..MaxServerIps /\ 1 \in 1..MaxServerIps /\ DOMAIN plan.proxies = 1..n
  <2>1. DOMAIN plan.proxies = 1..n /\ n # 0
    BY <1>1, <1>2, LenProperties, EmptySeq DEF SoundPlan
  <2>2. n <= MaxServerIps
    BY <1>2 DEF PlainPlan
  <2> QED
    BY <2>1, <2>2, MaxServerIpsAssumption
<1>4. \A i \in 1..n : plan.proxies[i].tag \in Tags(plan.proxies)
  BY <1>3 DEF Tags, ToSet
<1>5. \A on, vals, to : /\ Rule(on, vals, to) = <<[on |-> on, vals |-> vals, to |-> to]>>
                        /\ Rule(on, vals, to)[1].to = to
  BY DEF Rule
<1>6. ValidatePingDocument(BuildConnectionProbeConfig(plan))
  <2> DEFINE doc == BuildConnectionProbeConfig(plan)
             r == [on |-> "inbound", vals |-> {"socks-in-0"}, to |-> plan.target]
  <2>1. /\ doc.outbounds = Append(plan.proxies, System("direct", "freedom"))
        /\ doc.balancers = plan.balancers
        /\ doc.inbounds = <<"socks-in-0">> /\ doc.rules = <<r>>
    BY DEF BuildConnectionProbeConfig, Rule
  <2>2. r.to = plan.target
    OBVIOUS
  <2> HIDE DEF doc, r
  <2>3. ToSet(doc.rules) = {r} /\ Len(doc.inbounds) = 1 /\ Len(doc.rules) = 1
    BY <2>1 DEF ToSet
  <2>4. \A q \in ToSet(doc.rules) :
           \/ q.to.kind = "outbound" /\ q.to.tag \in Tags(plan.proxies)
           \/ q.to.kind = "balancer" /\ q.to.tag \in BalancerTags(doc.balancers)
    BY <2>1, <2>2, <2>3 DEF SoundPlan
  <2>5. ValidatePingDocument(doc)
    BY <1>3, <2>1, <2>3, <2>4, ProbeIsAccepted
  <2> QED
    BY <2>5 DEF doc
<1>7. ValidatePingDocument(BuildPingConfig(plan))
  <2> DEFINE doc == BuildPingConfig(plan)
             Inbound(i) == "socks-in-" \o ToString(i - 1)
             inbounds == [i \in 1..n |-> Inbound(i)]
             rules == [i \in 1..n |-> Rule("inbound", {Inbound(i)}, To(plan.proxies[i].tag))[1]]
  <2>1. /\ doc.outbounds = Append(plan.proxies, System("direct", "freedom"))
        /\ doc.balancers = <<>>
        /\ doc.inbounds = inbounds /\ doc.rules = rules
    BY <1>2 DEF BuildPingConfig
  <2>2. \A i \in 1..n : rules[i].to = To(plan.proxies[i].tag)
    BY <1>5
  <2>3. Len(inbounds) = n /\ Len(rules) = n /\ DOMAIN rules = 1..n
    OBVIOUS
  <2> HIDE DEF doc, inbounds, rules
  <2>4. \A q \in ToSet(doc.rules) : q.to.kind = "outbound" /\ q.to.tag \in Tags(plan.proxies)
    <3>1. \A q \in ToSet(doc.rules) : \E i \in 1..n : q = rules[i]
      BY <2>1, <2>3 DEF ToSet
    <3>2. \A tag : To(tag).kind = "outbound" /\ To(tag).tag = tag
      BY DEF To
    <3>3. \A i \in 1..n : rules[i].to.kind = "outbound" /\ rules[i].to.tag \in Tags(plan.proxies)
      BY <1>4, <2>2, <3>2
    <3> QED
      BY <3>1, <3>3
  <2>5. ValidatePingDocument(doc)
    BY <1>3, <2>1, <2>3, <2>4, ProbeIsAccepted
  <2> QED
    BY <2>5 DEF doc
<1> QED
  BY <1>6, <1>7

\* What the daemon thinks of the documents of a location it is not stricter about.
LEMMA DaemonAgrees ==
    ASSUME Imported, Builds, ~DaemonIsStricter(location),
           NEW s, NEW plan \in OutboundPlans(location)
    PROVE  /\ ValidateXrayDocument(BuildXrayConfig(location, s, plan), s.mode)
           /\ ValidatePingDocument(BuildConnectionProbeConfig(plan))
           /\ ValidatePingDocument(BuildPingConfig(plan))
<1>1. WellFormed(location)
  BY ImportedShape DEF Imported
<1>2. /\ ValidServer(location)
      /\ location.rawProfile = None => SingleOutboundBuilds(location)
      /\ location.rawProfile # None => ~PlanFails(location)
  BY DEF Builds, ValidServer
<1>3. SoundPlan(plan)
  BY <1>1, <1>2, PlanIsSound
<1>4. PlainPlan(plan)
  BY <1>1, <1>2, PlanIsPlain
<1> QED
  BY <1>3, <1>4, ConfigIsAccepted, MeasuringIsAccepted

\* What the window accepts is built, unless it is a single outbound that names a file;
\* the daemon takes the documents of what was built, unless DaemonIsStricter says why
\* not; and a location of its own fields that is dialled as plain TCP was meant to be
\* (validate_server, build_xray_config, validate_ping_document), for every set of
\* entries and splits.
THEOREM AcceptedConnects == Spec => []AcceptedIsConnectable
<1>1. ASSUME ConnectInv PROVE AcceptedIsConnectable
  <2>1. ASSUME stage = "panicked"
        PROVE  location.rawProfile = None /\ location.rawOutbound.names = "file"
    <3>1. ValidServer(location) /\ ~Builds
      BY <1>1, <2>1 DEF ConnectInv
    <3>2. location.rawProfile = None /\ ~SingleOutboundBuilds(location)
      BY <3>1 DEF Builds
    <3>3. location.rawOutbound # None /\ ~Sanitizes(location.rawOutbound)
      BY <3>2 DEF SingleOutboundBuilds
    <3>4. Lower(location.rawOutbound.proto) \in ProxyProtocols
      BY <3>1, <3>2, <3>3 DEF ValidServer
    <3> QED
      BY <3>2, <3>3, <3>4 DEF Sanitizes
  <2>2. ASSUME stage = "rejected", ~DaemonIsStricter(location) PROVE FALSE
    <3>1. Imported /\ Builds /\ ~Accepted
      BY <1>1, <2>2 DEF ConnectInv
    <3>2. PICK s \in Splits, plan \in OutboundPlans(location), probed \in OutboundPlans(location) :
             MadeFrom(s, plan) /\ request.probe = BuildConnectionProbeConfig(probed)
      BY <1>1, <2>2 DEF ConnectInv
    <3>3. ValidateXrayDocument(request.config, request.split.mode)
      BY <1>1, <2>2, <3>1, <3>2, DaemonAgrees DEF MadeFrom
    <3>4. ValidatePingDocument(request.probe)
      BY <1>1, <2>2, <3>1, <3>2, DaemonAgrees
    <3> QED
      BY <3>1, <3>3, <3>4 DEF Accepted
  <2>3. ASSUME stage = "unmeasurable", ~DaemonIsStricter(location) PROVE FALSE
    <3>1. Imported /\ Builds
      BY <1>1, <2>3 DEF ConnectInv
    <3>2. PICK plan \in OutboundPlans(location) : ~ValidatePingDocument(BuildPingConfig(plan))
      BY <1>1, <2>3 DEF ConnectInv
    <3> QED
      BY <1>1, <2>3, <3>1, <3>2, DaemonAgrees
  <2>4. ASSUME Connected, Outbounds(location) = {}, request.config.outbounds[1].network = "tcp"
        PROVE  location.transport \in {"", "raw", "tcp"}
    <3>1. Imported /\ Builds
      BY <1>1, <2>4 DEF ConnectInv, Connected
    <3>2. PICK s \in Splits, plan \in OutboundPlans(location) : MadeFrom(s, plan)
      BY <1>1, <2>4 DEF ConnectInv, Connected
    <3>3. WellFormed(location)
      BY <3>1, ImportedShape DEF Imported
    <3>4. location.rawProfile = None /\ location.rawOutbound = None
      <4>1. location.rawProfile # None => location.rawOutbound \in Outbounds(location)
        BY <3>3 DEF WellFormed, Outbounds
      <4>2. location.rawProfile = None
        BY <2>4, <4>1
      <4> QED
        BY <2>4, <4>2 DEF Outbounds
    <3>5. plan.proxies = <<Dial(FieldOutbound(location), "proxy")>>
      BY <3>4 DEF OutboundPlans, IsComposite, SingleOutbound
    <3>6. request.config.outbounds[1] = Dial(FieldOutbound(location), "proxy")
      <4> DEFINE ob == Dial(FieldOutbound(location), "proxy")
                 outs == BuildXrayConfig(location, s, plan).outbounds
      <4>1. plan.proxies \in Seq({ob}) /\ Len(plan.proxies) = 1 /\ plan.proxies[1] = ob
        <5> HIDE DEF ob
        <5> QED
          BY <3>5 DEF ob
      <4>2. FollowedBySystem(outs, plan.proxies)
        BY <4>1, ConfigOutbounds
      <4> HIDE DEF ob, outs
      <4>3. outs[1] = ob
        BY <4>1, <4>2 DEF FollowedBySystem
      <4> QED
        BY <3>2, <4>3 DEF MadeFrom, ob, outs
    <3>7. location.protocol \in ProxyProtocols
      BY <3>1, <3>4 DEF Builds, ValidServer
    <3>8. CASE location.protocol = "wireguard"
      <4>1. request.config.outbounds[1].network = None
        BY <3>6, <3>8 DEF Dial, FieldOutbound, Lower
      <4> QED
        BY <2>4, <4>1, NoneAssumption
    <3>9. CASE location.protocol # "wireguard"
      <4>1. location.transport \in Transports
        BY <3>1, <3>4, <3>9 DEF Builds, ValidServer
      <4>2. Lower(location.protocol) # "wireguard"
        BY <3>9 DEF Lower
      <4>3. XrayNetwork(location.transport) = "tcp"
        BY <2>4, <3>6, <4>2 DEF Dial, FieldOutbound
      <4> QED
        BY <4>1, <4>3 DEF Transports, XrayNetwork
    <3> QED
      BY <3>8, <3>9
  <2> QED
    BY <2>1, <2>2, <2>3, <2>4 DEF AcceptedIsConnectable
<1> QED
  BY <1>1, Invariance, PTL
=============================================================================
