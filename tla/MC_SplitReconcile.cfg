\* Processes that fork, execute, are sandboxed and exit under a live split.
CONSTANTS
    Pids = {p1, p2}
    Names = {a}
    Ids = {s}
    None = None
    MaxOwned = 1
    Deaths = 1
    Commands = 2
    Faults <- AllButThread
SPECIFICATION FairSpec
INVARIANTS
    TypeOK
    RecordIsCurrent
PROPERTIES
    StaleRulesMoveNobody
    SandboxIsNotCut
    CommandEnds
    ListedIsBypassed
CHECK_DEADLOCK FALSE
