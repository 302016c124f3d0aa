\* The promise of the kill switch under every failure but one.
CONSTANTS
    Procs = {p1, p2}
    Apps = {a}
    Faults <- AllButVerify
    None = None
SPECIFICATION Spec
INVARIANTS
    TypeOK
    KillSwitchHolds
    BlockingIsBlocked
    HandoverIsGuarded
    ConnectedHasDataPlane
PROPERTIES
    KeepsPromise
