------------------------------- MODULE Lists -------------------------------
(***************************************************************************)
(* Filters of lists, as the window's and the backend's code use them.      *)
(***************************************************************************)
EXTENDS Integers, FiniteSets

\* The elements of s at the given places, in their order.
Selection(s, places) ==
    [n \in 1..Cardinality(places) |->
        s[CHOOSE i \in places : Cardinality({j \in places : j <= i}) = n]]
=============================================================================
