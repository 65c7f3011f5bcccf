------------------------------ MODULE GameStore ------------------------------
(***************************************************************************)
(* The games and saves tables (src/internal/database, src/migrations) and  *)
(* the statements that read and write them, as operators on a table.       *)
(*                                                                         *)
(* A machine state is the story it was written from and the commands that  *)
(* led to it; the engine never looks further back than that.  A screen     *)
(* (transcript and status line) is the commands it shows the outcome of.   *)
(* The lines this application adds about a save are left out of it.        *)
(***************************************************************************)
EXTENDS Naturals, Sequences, FiniteSets

CONSTANTS
    Users,      \* the owners of games
    Stories,    \* story keys: the SHA-256 of a story file
    Commands,   \* the lines a player types
    Names,      \* the names of saves, as CleanSaveName leaves them
    NoCase,     \* NoCase[n]: what n is compared as under COLLATE NOCASE
    Fold,       \* Fold[n]: what n is compared as by strings.EqualFold
    GameIds,    \* the rowids the games table hands out
    SaveIds,    \* the rowids the saves table hands out
    MaxSaves,   \* MaxSavesPerGame
    NoRow,      \* no such row
    NoState     \* SQL NULL in games.state

ASSUME RowAssumption == GameIds \subseteq Nat \ {0} /\ SaveIds \subseteq Nat \ {0}

\* NOCASE folds the ASCII letters and EqualFold every letter that has a case.
ASSUME FoldAssumption ==
    /\ NoCase \in [Names -> Names]
    /\ Fold \in [Names -> Names]
    /\ \A m, n \in Names : NoCase[m] = NoCase[n] => Fold[m] = Fold[n]

ASSUME LimitAssumption == MaxSaves \in Nat

State == [story : Stories, path : Seq(Commands)]

GameRow ==
    [user : Users, story : Stories, state : State \cup {NoState}, screen : Seq(Commands),
     turn : Nat, version : Nat, halted : BOOLEAN]

SaveRow ==
    [game : GameIds, name : Names, story : Stories, state : State, screen : Seq(Commands),
     turn : Nat]

ASSUME NullAssumption == NoRow \notin GameRow \cup SaveRow /\ NoState \notin State

----------------------------------------------------------------------------
\* The rowid SQLite gives the next row: one more than the largest in use.  A
\* table without AUTOINCREMENT gives an identifier out again after a delete.
IsNextRow(table, id) ==
    /\ \A i \in DOMAIN table : table[i] # NoRow => i < id
    /\ id = 1 \/ \E i \in DOMAIN table : table[i] # NoRow /\ id = i + 1

\* Mutant: the owner is left out of the WHERE clause.
OwnsAnybodys(games, user, g) == games[g] # NoRow

\* ... WHERE id = ? AND user_id = ?
Owns(games, user, g) == games[g] # NoRow /\ games[g].user = user

\* ... WHERE id = ? AND game_id = ?
InGame(saves, g, s) == saves[s] # NoRow /\ saves[s].game = g

SavesOf(saves, g) == {s \in DOMAIN saves : InGame(saves, g, s)}

\* What the opening of a story leaves to be stored: a fresh state, or none if
\* the story ended itself at once.
Opening(story, over) ==
    [state |-> IF over THEN NoState ELSE [story |-> story, path |-> << >>],
     screen |-> << >>, turn |-> 0, halted |-> over]

\* INSERT INTO games ...
Inserted(user, story, new) ==
    [user |-> user, story |-> story, state |-> new.state, screen |-> new.screen,
     turn |-> new.turn, version |-> 1, halted |-> new.halted]

\* Mutant: the UPDATE is not conditional on the version that was read.
MatchesAnyVersion(games, user, g, version) == Owns(games, user, g)

\* UPDATE games SET ... WHERE id = ? AND user_id = ? AND version = ?: does it match?
Matches(games, user, g, version) == Owns(games, user, g) /\ games[g].version = version

\* Mutant: the turn count is left out of the SET.
UpdatedButTurn(row, new) ==
    [row EXCEPT !.state = new.state, !.screen = new.screen, !.halted = new.halted, !.version = @ + 1]

\* ... and the row it leaves.  The owner and the story key are not in its SET.
Updated(row, new) ==
    [user |-> row.user, story |-> row.story, state |-> new.state, screen |-> new.screen,
     turn |-> new.turn, version |-> row.version + 1, halted |-> new.halted]

\* Mutant: foreign keys are not enforced, so the cascade does nothing.
NotCascaded(saves, g) == saves

\* DELETE FROM games, and ON DELETE CASCADE.
Cascaded(saves, g) ==
    [s \in DOMAIN saves |-> IF InGame(saves, g, s) THEN NoRow ELSE saves[s]]

\* Mutants: the name is looked up in every game, or without COLLATE NOCASE.
NamedAnywhere(saves, g, name) ==
    {s \in DOMAIN saves : saves[s] # NoRow /\ NoCase[saves[s].name] = NoCase[name]}
NamedExactly(saves, g, name) == {s \in SavesOf(saves, g) : saves[s].name = name}

\* The rows saveIDByName finds under a name.
Named(saves, g, name) == {s \in SavesOf(saves, g) : NoCase[saves[s].name] = NoCase[name]}

\* The row a session is saved as.
Snapshot(g, name, row) ==
    [game |-> g, name |-> name, story |-> row.story, state |-> row.state,
     screen |-> row.screen, turn |-> row.turn]
=============================================================================
