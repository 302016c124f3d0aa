CONSTANTS
    Pids = {p1, p2}
    Names = {}
    Ids = {s, t}
    None = None
    MaxOwned = 1
    Deaths = 0
    Commands = 3
    Faults <- NoFaults
SPECIFICATION Spec
INVARIANTS
    OnlyListedGoDirect
CHECK_DEADLOCK FALSE
