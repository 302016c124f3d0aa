------------------------- MODULE MC_SplitReconcile -------------------------
(* Fault assumptions of the runs of SplitReconcile.                          *)
EXTENDS SplitReconcileProps

\* Everything but the loss of the reconciler's thread, which nothing reports.
AllButThread == FaultKinds \ {"thread"}
NoFaults == {}
=============================================================================
