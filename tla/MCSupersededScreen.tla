------------------------- MODULE MCSupersededScreen -------------------------
(***************************************************************************)
(* SupersededScreen with two goroutines of one process.                    *)
(***************************************************************************)
EXTENDS SupersededScreen

CONSTANTS p1, troll

OneProcess == [t \in Threads |-> p1]
ExactNames == [n \in Names |-> n]
=============================================================================
