---------------------------- MODULE MC_HostNetwork ----------------------------
(* A dual-stack host, a location with an address of each family, and           *)
(* requests with and without the kill switch, the LAN and excluded applications. *)
EXTENDS HostNetworkProps

Asked(ks, lan, split) == [ks |-> ks, lan |-> lan, split |-> split]
SomeRequests == {Asked(FALSE, FALSE, 0), Asked(TRUE, TRUE, 1)}
AllFaults == {"setup", "recovery"}
==============================================================================
