-------------------------- MODULE SupersededScreen --------------------------
(***************************************************************************)
(* GameService with a history variable: which turns were issued against a  *)
(* screen that a restart or a restore has replaced since.  A turn is       *)
(* issued when it is submitted, by a player looking at the game as it is   *)
(* stored at that moment.                                                  *)
(***************************************************************************)
EXTENDS GameService

VARIABLE superseded     \* goroutines whose turn was issued against a replaced screen

\* The turns that have been issued for a game and not yet loaded it.
Issued(g) == {t \in Threads : pc[t] \in {"lock", "load"} /\ req[t].op = "play" /\ req[t].game = g}

\* The games whose screen this step replaces with an earlier one.
Replaced ==
    {g \in GameIds : \E t \in Threads :
        /\ pc[t] = "store" /\ req[t].op \in {"restart", "restore"} /\ req[t].game = g
        /\ games'[g] # games[g]}

HInit == Init /\ superseded = {}

HNext ==
    /\ Next
    /\ superseded' = {t \in superseded \cup UNION {Issued(g) : g \in Replaced} : pc'[t] # "idle"}

HSpec == HInit /\ [][HNext]_<<vars, superseded>>

\* "A restart is a write like any other and a turn issued against the screen it
\* replaced is refused rather than replayed" (Service.Restart in session.go).
StaleTurnRefused ==
    [][\A t \in superseded : pc[t] = "store" /\ pc'[t] # pc[t] => games' = games]_<<vars, superseded>>
=============================================================================
