CONSTANTS
    Procs = {p1, p2}
    Apps = {a}
    Faults <- OnlyVerify
    None = None
SPECIFICATION Spec
INVARIANTS
    KillSwitchHolds
