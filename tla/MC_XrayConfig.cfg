SPECIFICATION Spec
CONSTANTS
    None = None
    Entries <- MCEntries
    Splits <- MCSplits
    MaxServerIps = 2
    Resolves <- MCResolves
INVARIANTS
    SplitIsHonoured
    ResolverStaysInside
    AcceptedIsConnectable
    ProbeFollowsRoute
    EveryDialEscapesTun
