\* What the daemon leaves on the host when connecting may fail anywhere.
CONSTANTS
    Procs = {p1, p2}
    Apps = {a, b}
    Faults <- FailuresOfConnect
    None = None
SPECIFICATION FairSpec
INVARIANTS
    HostStateIsOwned
    DisconnectedIsTornDown
    SplitIsInForce
    RestTracesXray
PROPERTIES
    RestartLeavesNothing
    DeadTunnelIsNoticed
