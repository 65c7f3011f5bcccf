--------------------------- MODULE MCGameService ---------------------------
(***************************************************************************)
(* GameService for TLC: which process a goroutine runs in, how the names   *)
(* of saves compare, and the symmetries of the model values.               *)
(***************************************************************************)
EXTENDS GameRefinement, TLC

CONSTANTS p1, p2, t1, t2, troll, Troll, house

OneProcess == [t \in Threads |-> p1]
TwoProcesses == [t \in Threads |-> IF t = t1 THEN p1 ELSE p2]

\* With OneProcess, all goroutines are alike.
ThreadSymmetry == Permutations(Threads)

\* With TwoProcesses, the goroutines of p2 are alike, and so are the users.
ProcessSymmetry == Permutations(Threads \ {t1}) \cup Permutations(Users)

\* "troll" and "Troll" are one name: to both comparisons where they differ in an
\* ASCII letter, to EqualFold alone where they differ in a letter outside ASCII.
CaseOfNames == [n \in Names |-> IF n = Troll THEN troll ELSE n]
ExactNames == [n \in Names |-> n]
=============================================================================
