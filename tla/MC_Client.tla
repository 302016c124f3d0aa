------------------------------- MODULE MC_Client -------------------------------
(* Presses and edits, one poll in flight, and a daemon that may die.          *)
EXTENDS ClientOrder

OnePoll == {9}
AllFaults == FaultNames
================================================================================
