CONSTANTS
    Procs = {p1, p2}
    Apps = {a}
    Faults <- NoFaults
    None = None
SPECIFICATION Spec
PROPERTIES
    KillSwitchSurvivesRestart
