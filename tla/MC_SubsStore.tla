---------------------------- MODULE MC_SubsStore ----------------------------
(* A provider that moves its location to another endpoint, renames it or      *)
(* fails, one that redirects, and a pasted configuration of the same endpoint. *)
EXTENDS SubsStoreProps

At(key, label) == [key |-> key, label |-> label]
Line(location) == [is |-> "location", key |-> location.key, label |-> location.label]
JSON(header, location) == [json |-> TRUE, header |-> header, lines |-> <<Line(location)>>]
URIs(location) ==
    [json |-> FALSE, header |-> "none",
     lines |-> <<[is |-> "comment"], [is |-> "interval", says |-> "hours"], [is |-> "broken"],
                 Line(location), [is |-> "interval", says |-> "zero"]>>]
Hop(addresses, gives, body) == [resolves |-> addresses, gives |-> gives, body |-> body]
Redirects(n) == [i \in 1..n |-> Hop({"public"}, "redirect", Failed)]
Serves(body) == <<Hop({"public"}, "body", body)>>

MCProvider ==
    "https" :> {Serves(JSON("hours", At("k1", "A"))),
                Redirects(1) \o Serves(URIs(At("k2", "B"))),
                Redirects(2) \o Serves(JSON("hours", At("k3", "D"))),
                Redirects(1) \o <<Hop({"public", "private"}, "body", JSON("hours", At("k3", "D")))>>,
                <<Hop({"public"}, "error", Failed)>>}
MCPasted == "text" :> JSON("none", At("k1", "A"))
MCDrafts == {At("k2", "A")}
=============================================================================
