CONSTANTS
    Procs = {p1, p2}
    Apps = {a}
    Faults <- OnlyMidcrash
    None = None
SPECIFICATION Spec
PROPERTIES
    RestartLeavesNothing
