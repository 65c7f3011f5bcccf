--------------------------- MODULE GameRefinement ---------------------------
(***************************************************************************)
(* GameService in one process implements GameSpec.  The commands played    *)
(* are the ones that led to the stored state, which is what the next turn  *)
(* goes on from; a story that is over has no state, and then they are the  *)
(* ones on the screen.                                                     *)
(***************************************************************************)
EXTENDS GameService

\* No such row is no row of GameSpec either.
ASSUME AbsenceAssumption ==
    NoRow \notin [user : Users, story : Stories, played : Seq(Commands), over : BOOLEAN]
                    \cup [game : GameIds, name : Names, played : Seq(Commands)]

PlayedSoFar(row) == IF row.state = NoState THEN row.screen ELSE row.state.path

game ==
    [g \in GameIds |->
        IF games[g] = NoRow THEN NoRow
        ELSE [user |-> games[g].user, story |-> games[g].story,
              played |-> PlayedSoFar(games[g]), over |-> games[g].halted]]

save ==
    [s \in SaveIds |->
        IF saves[s] = NoRow THEN NoRow
        ELSE [game |-> saves[s].game, name |-> saves[s].name, played |-> saves[s].state.path]]

picked ==
    {[game |-> Game(t), played |-> snap[t].state.path] :
        t \in {u \in Threads : pc[u] = "store" /\ req[u].op = "restore"}}

Abstract == INSTANCE GameSpec

\* Every operation of the service, taken apart into its transactions and run
\* beside any other, has the effect of one step of GameSpec or none: no turn is
\* lost or played twice, a save holds the game as it was, a restore goes back to
\* a save the game had, a restart keeps the saves, and a crash or a failure
\* between two steps leaves a game as if the request had never been made.
ImplementsGameSpec == Abstract!Spec
=============================================================================
