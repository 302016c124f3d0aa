CONSTANTS
    Procs = {p1, p2}
    Apps = {a}
    Faults <- OnlyRouteDown
    None = None
SPECIFICATION Spec
PROPERTIES
    DisconnectOkMeansEmpty
