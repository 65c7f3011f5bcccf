----------------------------- MODULE MCAccounts -----------------------------
(***************************************************************************)
(* Accounts for TLC: two addresses, one of them typed in two ways.           *)
(* Goroutines are interchangeable, and so are tokens.                      *)
(***************************************************************************)
EXTENDS Accounts, TLC

CONSTANTS zork, Zork, flood

AsTyped == {zork, Zork, flood}
LowerCase == [a \in AsTyped |-> IF a = Zork THEN zork ELSE a]

Symmetry == Permutations(Threads) \cup Permutations(Links)
=============================================================================
