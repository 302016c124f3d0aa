---------------------------- MODULE KillSwitch ----------------------------
(***************************************************************************)
(* What the connection machinery promises about the traffic of an ordinary  *)
(* application, told without the machinery.  The traffic leaves the host    *)
(* directly, through the tunnel, or not at all.  Under protection it never  *)
(* leaves directly, and the step that ends the protection does not expose   *)
(* it either: only a running daemon ends it, or the start of a new one.     *)
(***************************************************************************)
VARIABLES
    path,       \* "direct", "tunnel" or "blocked"
    wish,       \* the user's kill switch is on
    swapping,   \* one data plane is being replaced by another
    running     \* there is a daemon

vars == <<path, wish, swapping, running>>

Paths == {"direct", "tunnel", "blocked"}

Protected == wish \/ swapping

Init == path = "direct" /\ wish = FALSE /\ swapping = FALSE /\ running = TRUE

\* The daemon, the user, Xray or the kernel moves the traffic or the protection.
Move ==
    /\ running /\ running'
    /\ path' \in Paths /\ wish' \in BOOLEAN /\ swapping' \in BOOLEAN
    /\ Protected \/ Protected' => path' # "direct"

\* The daemon is killed: what it had put in place stays.
Die ==
    /\ running /\ ~running'
    /\ ~swapping' /\ UNCHANGED <<path, wish>>

\* Without a daemon tunnels may still break.
Drift ==
    /\ ~running /\ UNCHANGED <<running, wish, swapping>>
    /\ path' \in Paths
    /\ Protected => path' # "direct"

\* A new daemon takes what it finds off the host.
Restart ==
    /\ ~running
    /\ running' \in BOOLEAN /\ path' \in Paths /\ ~wish' /\ ~swapping'

Next == Move \/ Die \/ Drift \/ Restart

Spec == Init /\ [][Next]_vars
=============================================================================
