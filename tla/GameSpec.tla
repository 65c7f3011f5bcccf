------------------------------ MODULE GameSpec ------------------------------
(***************************************************************************)
(* What the game service promises a player, with no versions, no screens   *)
(* apart from states, no lock and no steps in between: a game is a story   *)
(* and the commands that have been played in it, a save is a name for      *)
(* those commands at some moment, and every operation happens at once.     *)
(*                                                                         *)
(* The one exception is a restore.  It picks its save first and goes back  *)
(* to it afterwards; in between, the save may be deleted, which takes      *)
(* nothing away from the restore, but the game itself does not move.       *)
(***************************************************************************)
EXTENDS Naturals, Sequences

CONSTANTS Users, Stories, Commands, Names, NoCase, GameIds, SaveIds, NoRow

VARIABLES
    game,       \* game[g]: its user, its story, the commands played, whether it is over
    save,       \* save[s]: its game, its name, the commands played when it was made
    picked      \* the saves that restores under way have picked

vars == <<game, save, picked>>

Init ==
    /\ game = [g \in GameIds |-> NoRow]
    /\ save = [s \in SaveIds |-> NoRow]
    /\ picked = {}

\* The game is somebody's, and no restore of it is under way.
Settled(g) == game[g] # NoRow /\ \A p \in picked : p.game # g

\* A new game takes an identifier nothing has and disturbs nothing else.
Begin(g, user, story, over) ==
    /\ game[g] = NoRow
    /\ game' = [game EXCEPT ![g] = [user |-> user, story |-> story, played |-> << >>, over |-> over]]
    /\ UNCHANGED <<save, picked>>

\* A turn adds its command to the ones played, unless the story is over.
Turn(g, cmd, over) ==
    /\ Settled(g)
    /\ ~game[g].over
    /\ game' = [game EXCEPT ![g].played = Append(@, cmd), ![g].over = over]
    /\ UNCHANGED <<save, picked>>

\* A restart forgets them.  The saves are kept.
Restart(g, over) ==
    /\ Settled(g)
    /\ game' = [game EXCEPT ![g].played = << >>, ![g].over = over]
    /\ UNCHANGED <<save, picked>>

\* A save remembers the game as it is, in the place of one with the same name.
Save(g, s, name) ==
    /\ Settled(g)
    /\ ~game[g].over
    /\ \/ save[s] = NoRow
       \/ save[s].game = g /\ NoCase[save[s].name] = NoCase[name]
    /\ save' = [save EXCEPT ![s] = [game |-> g, name |-> name, played |-> game[g].played]]
    /\ UNCHANGED <<game, picked>>

\* A restore picks one of the game's saves ...
Pick(s) ==
    /\ save[s] # NoRow
    /\ Settled(save[s].game)
    /\ picked' = picked \cup {[game |-> save[s].game, played |-> save[s].played]}
    /\ UNCHANGED <<game, save>>

\* ... and takes the game back to it, even one that was over ...
Restore(p) ==
    /\ p \in picked
    /\ game' = [game EXCEPT ![p.game].played = p.played, ![p.game].over = FALSE]
    /\ picked' = picked \ {p}
    /\ UNCHANGED save

\* ... or never gets to it.
GiveUp == picked' \subseteq picked /\ UNCHANGED <<game, save>>

\* A game goes with its saves.
Delete(g) ==
    /\ Settled(g)
    /\ game' = [game EXCEPT ![g] = NoRow]
    /\ save' = [s \in SaveIds |-> IF save[s] # NoRow /\ save[s].game = g THEN NoRow ELSE save[s]]
    /\ UNCHANGED picked

DeleteSave(s) ==
    /\ save[s] # NoRow
    /\ save' = [save EXCEPT ![s] = NoRow]
    /\ UNCHANGED <<game, picked>>

Next ==
    \/ \E g \in GameIds, over \in BOOLEAN :
        \/ \E u \in Users, st \in Stories : Begin(g, u, st, over)
        \/ \E c \in Commands : Turn(g, c, over)
        \/ Restart(g, over)
    \/ \E g \in GameIds, s \in SaveIds, n \in Names : Save(g, s, n)
    \/ \E s \in SaveIds : Pick(s) \/ DeleteSave(s)
    \/ \E p \in picked : Restore(p)
    \/ \E g \in GameIds : Delete(g)
    \/ GiveUp

Spec == Init /\ [][Next]_vars
=============================================================================
