--------------------------- MODULE MC_Lifecycle ---------------------------
(* Fault assumptions of the runs of Lifecycle.                              *)
EXTENDS LifecycleProps

\* A host on which everything works.
NoFaults == {}

\* Everything the host can do to the daemon, except to lose or hide the hold
\* block after its installation.
AllButVerify == FaultKinds \ {"verify"}

\* Any refusal and any failure on the way up; teardown works.
FailuresOfConnect ==
    {"validate", "install", "verify", "start", "route_up", "split_up",
     "dns_up", "dns_guard", "check"}

\* One kind of failure at a time.
OnlyVerify == {"verify"}
OnlyRouteDown == {"route_down"}
OnlyMidcrash == {"midcrash"}
=============================================================================
