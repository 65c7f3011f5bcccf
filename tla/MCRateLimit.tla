----------------------------- MODULE MCRateLimit -----------------------------
(***************************************************************************)
(* RateLimit for TLC: one client, one proxy that names it or does not,     *)
(* three addresses of which a table of two has no room for the third.      *)
(***************************************************************************)
EXTENDS RateLimit, TLC

CONSTANTS client, proxy, other, troll, Troll, house, flood

BucketOf == [e \in {troll, Troll, house, flood} |-> IF e = Troll THEN troll ELSE e]
Bursts == [l \in Limiters |-> IF l = "source" THEN 2 ELSE 1]
Refills == [l \in Limiters |-> IF l = "source" THEN 1 ELSE 2]
HeadersSent == {<<>>, <<other, Garbage>>, <<other, proxy, Blank>>}
RelaysPassed == {<<>>, <<Blank, proxy>>}

Symmetry == Permutations(Threads) \cup Permutations({house, flood})
=============================================================================
