----------------------- MODULE GameRefinement_proofs -----------------------
(***************************************************************************)
(* Proof that GameService in one process implements GameSpec, for any      *)
(* users, stories, commands, names, identifiers, goroutines and any bound  *)
(* on the requests.                                                        *)
(***************************************************************************)
EXTENDS GameRefinement, GameSaves_proofs

----------------------------------------------------------------------------
\* What GameSpec sees of a row: the screen of a faithful one shows what was played.
ShownGame(row) ==
    IF row = NoRow THEN NoRow
    ELSE [user |-> row.user, story |-> row.story, played |-> row.screen, over |-> row.halted]

ShownSave(row) ==
    IF row = NoRow THEN NoRow ELSE [game |-> row.game, name |-> row.name, played |-> row.screen]

LEMMA ScreenShows ==
    ASSUME NEW row \in GameRow, Faithful(row)
    PROVE  PlayedSoFar(row) = row.screen
BY DEF PlayedSoFar, Faithful, GameRow

LEMMA GameSeen ==
    ASSUME Inv PROVE game = [g \in GameIds |-> ShownGame(games[g])]
<1>1. ASSUME NEW g \in GameIds, games[g] # NoRow PROVE PlayedSoFar(games[g]) = games[g].screen
  BY <1>1, ScreenShows DEF Inv, Shape, TypeOK, AllFaithful, ScreenMatchesState
<1> QED
  BY <1>1 DEF game, ShownGame

LEMMA GameSeenNext ==
    ASSUME Inv' PROVE game' = [g \in GameIds |-> ShownGame(games'[g])]
<1>1. ASSUME NEW g \in GameIds, games'[g] # NoRow PROVE PlayedSoFar(games'[g]) = games'[g].screen
  <2>1. games'[g] \in GameRow /\ Faithful(games'[g])
    BY <1>1 DEF Inv, Shape, TypeOK, AllFaithful, ScreenMatchesState, Faithful
  <2> QED
    BY <2>1, ScreenShows
<1>2. \A g \in GameIds : PlayedSoFar(games[g])' = PlayedSoFar(games'[g])
  BY DEF PlayedSoFar
<1> QED
  BY <1>1, <1>2 DEF game, ShownGame

LEMMA SaveSeen ==
    ASSUME Inv PROVE save = [s \in SaveIds |-> ShownSave(saves[s])]
<1>1. ASSUME NEW s \in SaveIds, saves[s] # NoRow PROVE saves[s].state.path = saves[s].screen
  BY <1>1 DEF Inv, AllFaithful, ScreenMatchesState, FaithfulSave
<1> QED
  BY <1>1 DEF save, ShownSave

LEMMA SaveSeenNext ==
    ASSUME Inv' PROVE save' = [s \in SaveIds |-> ShownSave(saves'[s])]
<1>1. ASSUME NEW s \in SaveIds, saves'[s] # NoRow PROVE saves'[s].state.path = saves'[s].screen
  BY <1>1 DEF Inv, AllFaithful, ScreenMatchesState, FaithfulSave
<1> QED
  BY <1>1 DEF save, ShownSave

\* A row that is there is there for GameSpec.
LEMMA ShownThere ==
    /\ \A row \in GameRow : ShownGame(row) # NoRow
    /\ \A row \in SaveRow : ShownSave(row) # NoRow
<1>1. ASSUME NEW row \in GameRow PROVE ShownGame(row) # NoRow
  <2>1. [user |-> row.user, story |-> row.story, played |-> row.screen, over |-> row.halted]
            \in [user : Users, story : Stories, played : Seq(Commands), over : BOOLEAN]
    BY DEF GameRow
  <2> QED
    BY <2>1, AbsenceAssumption, NullAssumption DEF ShownGame
<1>2. ASSUME NEW row \in SaveRow PROVE ShownSave(row) # NoRow
  <2>1. [game |-> row.game, name |-> row.name, played |-> row.screen]
            \in [game : GameIds, name : Names, played : Seq(Commands)]
    BY DEF SaveRow
  <2> QED
    BY <2>1, AbsenceAssumption, NullAssumption DEF ShownSave
<1> QED
  BY <1>1, <1>2

----------------------------------------------------------------------------
\* The goroutines whose restores have picked their save, and what they picked.
Picks(u) == pc[u] = "store" /\ req[u].op = "restore"
PickedBy(u) == [game |-> Game(u), played |-> snap[u].state.path]

LEMMA PickedSeen == \A p : p \in picked <=> \E u \in Threads : Picks(u) /\ p = PickedBy(u)
BY DEF picked, Picks, PickedBy

LEMMA PickedSeenNext == \A p : p \in picked' <=> \E u \in Threads : Picks(u)' /\ p = PickedBy(u)'
BY DEF picked, Picks, PickedBy

\* One goroutine at a time is past the lock of a game.
LEMMA OneHolder ==
    ASSUME OneProcessOnly, Inv, NEW t \in Threads, NEW u \in Threads,
           pc[t] \in LockedPCs, pc[u] \in LockedPCs, Game(t) = Game(u)
    PROVE  t = u
<1>1. Key(t) = Key(u)
  BY DEF Key, OneProcessOnly
<1> QED
  BY <1>1 DEF Inv, Shape, HoldsLock

LEMMA IsSettled ==
    ASSUME OneProcessOnly, Inv, NEW t \in Threads, pc[t] \in LockedPCs, ~Picks(t),
           Game(t) \in GameIds, games[Game(t)] # NoRow
    PROVE  Abstract!Settled(Game(t))
<1>1. game[Game(t)] # NoRow
  BY GameSeen, ShownThere DEF Inv, Shape, TypeOK
<1>2. ASSUME NEW u \in Threads, Picks(u) PROVE PickedBy(u).game # Game(t)
  BY <1>2, OneHolder DEF Picks, PickedBy, LockedPCs
<1> QED
  BY <1>1, <1>2, PickedSeen DEF Abstract!Settled

\* A goroutine that writes, or picks a save, leaves the others alone.
LEMMA Alone ==
    ASSUME Inv, NEW t \in Threads, Writes(t) \/ LoadSave(t), NEW u \in Threads, u # t
    PROVE  pc'[u] = pc[u] /\ req'[u] = req[u] /\ snap'[u] = snap[u]
BY DEF Writes, Create, Store, Note, CreateSave, Delete, DeleteDoomed, Finish, LoadSave, Proceed, Inv, Shape, TypeOK

LEMMA PickedKept ==
    ASSUME Inv, NEW t \in Threads, Writes(t), ~Picks(t)
    PROVE  picked' = picked
<1>1. ~Picks(t)'
  BY DEF Writes, Create, Store, Note, CreateSave, Delete, DeleteDoomed, Finish, Inv, Shape, TypeOK, Picks
<1>2. ASSUME NEW u \in Threads, u # t PROVE (Picks(u)' <=> Picks(u)) /\ PickedBy(u)' = PickedBy(u)
  BY <1>2, Alone DEF Picks, PickedBy, Game
<1> QED
  BY <1>1, <1>2, PickedSeen, PickedSeenNext

LEMMA PickedUsed ==
    ASSUME OneProcessOnly, Inv, NEW t \in Threads, Store(t), Picks(t)
    PROVE  PickedBy(t) \in picked /\ picked' = picked \ {PickedBy(t)}
<1>1. ~Picks(t)'
  BY DEF Store, Finish, Inv, Shape, TypeOK, Picks
<1>2. ASSUME NEW u \in Threads, u # t
      PROVE  (Picks(u)' <=> Picks(u)) /\ PickedBy(u)' = PickedBy(u) /\ (Picks(u) => PickedBy(u) # PickedBy(t))
  <2>1. (Picks(u)' <=> Picks(u)) /\ PickedBy(u)' = PickedBy(u)
    BY <1>2, Alone DEF Writes, Picks, PickedBy, Game
  <2>2. Picks(u) => Game(u) # Game(t)
    BY <1>2, OneHolder DEF Picks, LockedPCs
  <2>3. PickedBy(u).game = Game(u) /\ PickedBy(t).game = Game(t)
    BY DEF PickedBy
  <2> QED
    BY <2>1, <2>2, <2>3
<1> QED
  BY <1>1, <1>2, PickedSeen, PickedSeenNext

----------------------------------------------------------------------------
\* A step that only writes to one game.
LEMMA OneGameSeen ==
    ASSUME Inv, Inv', NEW g \in GameIds, \A h \in GameIds \ {g} : games'[h] = games[h]
    PROVE  game' = [game EXCEPT ![g] = ShownGame(games'[g])]
BY GameSeen, GameSeenNext

LEMMA OneSaveSeen ==
    ASSUME Inv, Inv', NEW s \in SaveIds, \A r \in SaveIds \ {s} : saves'[r] = saves[r]
    PROVE  save' = [save EXCEPT ![s] = ShownSave(saves'[s])]
BY SaveSeen, SaveSeenNext

LEMMA SavesSame == ASSUME saves' = saves PROVE save' = save
BY DEF save

LEMMA GamesSame == ASSUME games' = games PROVE game' = game
BY DEF game, PlayedSoFar

LEMMA CreateBegins ==
    ASSUME Inv, Inv', NEW t \in Threads, Create(t)
    PROVE  Abstract!Next
<1>1. PICK g \in GameIds, over \in BOOLEAN :
        /\ IsNextRow(games, g)
        /\ games' = [games EXCEPT ![g] = Inserted(User(t), req[t].story, Opening(req[t].story, over))]
  BY DEF Create
<1>2. User(t) \in Users /\ req[t].story \in Stories
  BY DEF Inv, Shape, AtStage, Create, NewRequest, User
<1>3. games[g] = NoRow /\ game[g] = NoRow
  <2>1. GameIds \in SUBSET Nat /\ games \in [GameIds -> GameRow \cup {NoRow}]
    BY RowAssumption DEF Inv, Shape, TypeOK
  <2>2. games[g] = NoRow
    BY <1>1, <2>1, NextRowFree
  <2> QED
    BY <2>2, GameSeen DEF ShownGame
<1>4. \A h \in GameIds \ {g} : games'[h] = games[h]
  BY <1>1 DEF Inv, Shape, TypeOK
<1>5. games'[g] = Inserted(User(t), req[t].story, Opening(req[t].story, over)) /\ games'[g] # NoRow
  <2>1. games'[g] = Inserted(User(t), req[t].story, Opening(req[t].story, over))
    BY <1>1 DEF Inv, Shape, TypeOK
  <2>2. Inserted(User(t), req[t].story, Opening(req[t].story, over)) \in GameRow
    BY <1>2, OpeningType DEF Inserted, GameRow
  <2> QED
    BY <2>1, <2>2, NullAssumption
<1>6. ShownGame(games'[g]) = [user |-> User(t), story |-> req[t].story, played |-> << >>, over |-> over]
  BY <1>5 DEF ShownGame, Inserted, Opening
<1>7. game' = [game EXCEPT ![g] = [user |-> User(t), story |-> req[t].story, played |-> << >>, over |-> over]]
  BY <1>4, <1>6, OneGameSeen
<1>8. UNCHANGED <<save, picked>>
  <2>1. picked' = picked
    BY PickedKept DEF Create, Writes, Picks
  <2>2. save' = save
    BY SavesSame DEF Create
  <2> QED
    BY <2>1, <2>2
<1>9. Abstract!Begin(g, User(t), req[t].story, over)
  BY <1>3, <1>7, <1>8 DEF Abstract!Begin
<1> QED
  BY <1>2, <1>9 DEF Abstract!Next

\* What a conditional write leaves of the row it matched.
LEMMA UpdateSeen ==
    ASSUME Inv, Inv', NEW g \in GameIds, games[g] # NoRow, NEW new,
           games' = [games EXCEPT ![g] = Updated(games[g], new)], Updated(games[g], new) \in GameRow
    PROVE  /\ game' = [game EXCEPT ![g].played = new.screen, ![g].over = new.halted]
           /\ game[g] = [user |-> games[g].user, story |-> games[g].story,
                         played |-> games[g].screen, over |-> games[g].halted]
<1>1. games'[g] = Updated(games[g], new) /\ \A h \in GameIds \ {g} : games'[h] = games[h]
  BY DEF Inv, Shape, TypeOK
<1>2. /\ DOMAIN game = GameIds
      /\ game[g] = [user |-> games[g].user, story |-> games[g].story,
                    played |-> games[g].screen, over |-> games[g].halted]
  BY GameSeen DEF ShownGame
<1>3. Updated(games[g], new) # NoRow
  BY NullAssumption
<1>4. ShownGame(games'[g]) =
        [user |-> games[g].user, story |-> games[g].story, played |-> new.screen, over |-> new.halted]
  <2>1. ShownGame(Updated(games[g], new)) =
            [user |-> games[g].user, story |-> games[g].story, played |-> new.screen, over |-> new.halted]
    BY <1>3 DEF ShownGame, Updated
  <2> QED
    BY <1>1, <2>1
<1>5. [game[g] EXCEPT !.played = new.screen] =
        [user |-> games[g].user, story |-> games[g].story, played |-> new.screen, over |-> games[g].halted]
  BY <1>2
<1>6. [[user |-> games[g].user, story |-> games[g].story, played |-> new.screen, over |-> games[g].halted]
            EXCEPT !.over = new.halted]
        = ShownGame(games'[g])
  BY <1>4
<1>7. [game EXCEPT ![g].played = new.screen, ![g].over = new.halted]
        = [game EXCEPT ![g] = [[game[g] EXCEPT !.played = new.screen] EXCEPT !.over = new.halted]]
  BY <1>2
<1>8. game' = [game EXCEPT ![g] = ShownGame(games'[g])]
  BY <1>1, OneGameSeen
<1> QED
  BY <1>2, <1>5, <1>6, <1>7, <1>8

\* What a request that writes to a game knows of it.
LEMMA HasGame ==
    ASSUME Inv, LockCoversCycle, NEW t \in Threads, pc[t] \in CopyPCs
    PROVE  /\ Game(t) \in GameIds /\ games[Game(t)] = copy[t] /\ games[Game(t)] \in GameRow
           /\ games[Game(t)] # NoRow /\ Faithful(copy[t])
<1>1. Game(t) \in GameIds
  BY RequestFields DEF Inv, Shape, AtStage, CopyPCs, NameRequest, SaveIdRequest, Game
<1>2. copy[t] \in GameRow /\ games[Game(t)] = copy[t]
  BY DEF Inv, Shape, HasLoaded, LockCoversCycle
<1> QED
  BY <1>1, <1>2, NullAssumption DEF Inv, AllFaithful

LEMMA StoreImplements ==
    ASSUME OneProcessOnly, Inv, Inv', LockCoversCycle, NEW t \in Threads, Store(t)
    PROVE  Abstract!Next
<1> DEFINE g == Game(t)
<1>1. pc[t] = "store" /\ g \in GameIds /\ games[g] = copy[t] /\ games[g] \in GameRow /\ games[g] # NoRow
  BY HasGame DEF Store, CopyPCs
<1>2. PICK over \in BOOLEAN :
        /\ req[t].op = "restore" => ~over
        /\ games' = [games EXCEPT ![g] = Updated(@, Outcome(t, over))]
  BY DEF Store
<1>3. Updated(games[g], Outcome(t, over)) \in GameRow
  <2>1. Inv /\ (req[t].op = "play" => copy[t].state # NoState)
    BY <1>1, NullAssumption DEF Inv, Shape, HasLoaded, AllFaithful, Faithful, CopyPCs
  <2> QED
    BY <1>1, <2>1, OutcomeType, UpdatedType DEF Inv
<1>4. /\ game' = [game EXCEPT ![g].played = Outcome(t, over).screen, ![g].over = Outcome(t, over).halted]
      /\ game[g] = [user |-> games[g].user, story |-> games[g].story,
                    played |-> games[g].screen, over |-> games[g].halted]
  BY <1>1, <1>2, <1>3, UpdateSeen
<1>5. save' = save
  BY SavesSame DEF Store
<1>6. Writes(t) /\ pc[t] \in LockedPCs
  BY <1>1 DEF Writes, LockedPCs
<1>7. CASE req[t].op = "play"
  <2>1. Outcome(t, over).screen = Append(games[g].screen, req[t].cmd) /\ Outcome(t, over).halted = over
    BY <1>1, <1>7 DEF Outcome, Played
  <2>2. ~Picks(t)
    BY <1>7 DEF Picks
  <2>3. Abstract!Settled(g) /\ picked' = picked
    BY <1>1, <1>6, <2>2, IsSettled, PickedKept
  <2>4. ~game[g].over /\ game[g].played = games[g].screen
    BY <1>1, <1>4, <1>7 DEF Inv, Shape, HasLoaded, CopyPCs
  <2>5. req[t].cmd \in Commands
    BY <1>1, <1>7, RequestFields DEF Inv, Shape, AtStage
  <2>6. game' = [game EXCEPT ![g].played = Append(@, req[t].cmd), ![g].over = over]
    BY <1>4, <2>1, <2>4
  <2>7. Abstract!Turn(g, req[t].cmd, over)
    BY <1>5, <2>3, <2>4, <2>6 DEF Abstract!Turn
  <2> QED
    BY <1>1, <2>5, <2>7 DEF Abstract!Next
<1>8. CASE req[t].op = "restart"
  <2>1. Outcome(t, over).screen = << >> /\ Outcome(t, over).halted = over
    BY <1>8 DEF Outcome, Opening
  <2>2. ~Picks(t)
    BY <1>8 DEF Picks
  <2>3. Abstract!Settled(g) /\ picked' = picked
    BY <1>1, <1>6, <2>2, IsSettled, PickedKept
  <2>4. Abstract!Restart(g, over)
    BY <1>4, <1>5, <2>1, <2>3 DEF Abstract!Restart
  <2> QED
    BY <1>1, <2>4 DEF Abstract!Next
<1>9. CASE req[t].op = "restore"
  <2>1. Outcome(t, over).screen = snap[t].screen /\ Outcome(t, over).halted = FALSE
    BY <1>9 DEF Outcome, Restored
  <2>2. snap[t].screen = snap[t].state.path
    BY <1>1, <1>9, NullAssumption DEF Inv, Shape, HasLoaded, AllFaithful, FaithfulSave
  <2>3. Picks(t)
    BY <1>1, <1>9 DEF Picks
  <2>4. PickedBy(t) \in picked /\ picked' = picked \ {PickedBy(t)}
    BY <2>3, PickedUsed
  <2>5. PickedBy(t).game = g /\ PickedBy(t).played = snap[t].screen
    BY <2>2 DEF PickedBy
  <2>6. Abstract!Restore(PickedBy(t))
    BY <1>4, <1>5, <2>1, <2>4, <2>5 DEF Abstract!Restore
  <2> QED
    BY <2>4, <2>6 DEF Abstract!Next
<1> QED
  BY <1>1, <1>7, <1>8, <1>9 DEF Inv, Shape, AtStage

\* The note about a save changes nothing GameSpec sees.
LEMMA NoteStutters ==
    ASSUME Inv, Inv', LockCoversCycle, NEW t \in Threads, Note(t)
    PROVE  UNCHANGED <<game, save, picked>>
<1>1. Game(t) \in GameIds /\ games[Game(t)] = copy[t] /\ games[Game(t)] # NoRow /\ games[Game(t)] \in GameRow
  BY HasGame DEF Note, CopyPCs
<1>2. games'[Game(t)] = Updated(games[Game(t)], games[Game(t)]) /\ \A h \in GameIds \ {Game(t)} : games'[h] = games[h]
  BY <1>1 DEF Note, Inv, Shape, TypeOK
<1>3. games'[Game(t)] # NoRow
  BY <1>1, <1>2, NoteWrites, NullAssumption DEF Inv, Shape, TypeOK
<1>4. ShownGame(games'[Game(t)]) = ShownGame(games[Game(t)])
  BY <1>1, <1>2, <1>3 DEF ShownGame, Updated
<1>5. \A h \in GameIds : ShownGame(games'[h]) = ShownGame(games[h])
  BY <1>2, <1>4
<1>6. game' = game
  BY <1>5, GameSeen, GameSeenNext
<1>7. save' = save /\ picked' = picked
  <2>1. ~Picks(t) /\ Writes(t) /\ saves' = saves
    BY DEF Note, Picks, Writes
  <2> QED
    BY <2>1, SavesSame, PickedKept
<1> QED
  BY <1>6, <1>7

LEMMA CreateSaveImplements ==
    ASSUME OneProcessOnly, Inv, Inv', LockCoversCycle, NEW t \in Threads, CreateSave(t)
    PROVE  Abstract!Next
<1> DEFINE g == Game(t)
           row == Snapshot(g, req[t].name, copy[t])
<1>1. pc[t] = "createSave" /\ g \in GameIds /\ games[g] = copy[t] /\ games[g] # NoRow /\ Faithful(copy[t])
  BY HasGame DEF CreateSave, CopyPCs
<1>2. PICK s \in SaveIds : SaveTarget(t, s) /\ saves' = [saves EXCEPT ![s] = row]
  BY DEF CreateSave
<1>3. row # NoRow /\ req[t].name \in Names
  BY <1>1, SnapshotRow
<1>4. saves'[s] = row /\ \A r \in SaveIds \ {s} : saves'[r] = saves[r]
  BY <1>2 DEF Inv, Shape, TypeOK
<1>5. game[g].played = copy[t].screen /\ game[g].over = copy[t].halted
  BY <1>1, GameSeen DEF ShownGame
<1>6. ~copy[t].halted
  BY <1>1 DEF Inv, Shape, AtStage, HasLoaded, CopyPCs, Faithful
<1>7. ShownSave(row) = [game |-> g, name |-> req[t].name, played |-> game[g].played]
  BY <1>3, <1>5 DEF ShownSave, Snapshot
<1>8. save' = [save EXCEPT ![s] = [game |-> g, name |-> req[t].name, played |-> game[g].played]]
  BY <1>4, <1>7, OneSaveSeen
<1>9. save[s] = NoRow \/ (save[s].game = g /\ NoCase[save[s].name] = NoCase[req[t].name])
  <2>1. SaveIds \in SUBSET Nat /\ saves \in [SaveIds -> SaveRow \cup {NoRow}]
    BY RowAssumption DEF Inv, Shape, TypeOK
  <2>2. IsNextRow(saves, s) => saves[s] = NoRow
    BY <2>1, NextRowFree
  <2>3. saves[s] = NoRow \/ (saves[s].game = g /\ NoCase[saves[s].name] = NoCase[req[t].name])
    BY <1>2, <2>2 DEF SaveTarget, Named, SavesOf, InGame
  <2>4. save[s] = ShownSave(saves[s])
    BY SaveSeen
  <2> QED
    BY <2>3, <2>4 DEF ShownSave
<1>10. Abstract!Settled(g) /\ picked' = picked
  <2>1. ~Picks(t) /\ Writes(t) /\ pc[t] \in LockedPCs
    BY <1>1 DEF Picks, Writes, LockedPCs
  <2> QED
    BY <1>1, <2>1, IsSettled, PickedKept
<1>11. game' = game
  BY GamesSame DEF CreateSave
<1>12. Abstract!Save(g, s, req[t].name)
  BY <1>5, <1>6, <1>8, <1>9, <1>10, <1>11 DEF Abstract!Save
<1> QED
  BY <1>1, <1>3, <1>12 DEF Abstract!Next

LEMMA DeleteImplements ==
    ASSUME OneProcessOnly, Inv, Inv', NEW t \in Threads, Delete(t)
    PROVE  Abstract!Next
<1> DEFINE g == Game(t)
<1>1. pc[t] = "delete" /\ g \in GameIds /\ games[g] # NoRow
  BY DEF Delete, Owns, Inv, Shape, AtStage, GameRequest, Game
<1>2. Abstract!Settled(g) /\ picked' = picked
  <2>1. ~Picks(t) /\ Writes(t) /\ pc[t] \in LockedPCs
    BY <1>1 DEF Picks, Writes, LockedPCs
  <2> QED
    BY <1>1, <2>1, IsSettled, PickedKept
<1>3. game' = [game EXCEPT ![g] = NoRow]
  <2>1. games'[g] = NoRow /\ \A h \in GameIds \ {g} : games'[h] = games[h]
    BY <1>1 DEF Delete, Inv, Shape, TypeOK
  <2>2. ShownGame(games'[g]) = NoRow
    BY <2>1 DEF ShownGame
  <2> QED
    BY <1>1, <2>1, <2>2, OneGameSeen
<1>4. save' = [s \in SaveIds |-> IF save[s] # NoRow /\ save[s].game = g THEN NoRow ELSE save[s]]
  <2>1. ASSUME NEW s \in SaveIds
        PROVE  ShownSave(saves'[s]) = IF save[s] # NoRow /\ save[s].game = g THEN NoRow ELSE save[s]
    <3>1. saves'[s] = IF InGame(saves, g, s) THEN NoRow ELSE saves[s]
      BY DEF Delete, Cascaded, Inv, Shape, TypeOK
    <3>2. save[s] = ShownSave(saves[s]) /\ (saves[s] # NoRow => save[s] # NoRow)
      BY SaveSeen, ShownThere DEF Inv, Shape, TypeOK
    <3>3. saves[s] # NoRow => save[s].game = saves[s].game
      BY <3>2 DEF ShownSave
    <3> QED
      BY <3>1, <3>2, <3>3 DEF InGame, ShownSave
  <2> QED
    BY <2>1, SaveSeenNext
<1>5. Abstract!Delete(g)
  BY <1>2, <1>3, <1>4 DEF Abstract!Delete
<1> QED
  BY <1>1, <1>5 DEF Abstract!Next

LEMMA DeleteDoomedImplements ==
    ASSUME Inv, Inv', NEW t \in Threads, DeleteDoomed(t)
    PROVE  Abstract!Next
<1> DEFINE s == req[t].save
<1>1. s \in SaveIds /\ saves[s] # NoRow
  BY DEF DeleteDoomed, InGame, Inv, Shape, AtStage, SaveIdRequest
<1>2. save[s] # NoRow
  BY <1>1, SaveSeen, ShownThere DEF Inv, Shape, TypeOK
<1>3. save' = [save EXCEPT ![s] = NoRow]
  <2>1. saves'[s] = NoRow /\ \A r \in SaveIds \ {s} : saves'[r] = saves[r]
    BY <1>1 DEF DeleteDoomed, Inv, Shape, TypeOK
  <2>2. ShownSave(saves'[s]) = NoRow
    BY <2>1 DEF ShownSave
  <2> QED
    BY <1>1, <2>1, <2>2, OneSaveSeen
<1>4. UNCHANGED <<game, picked>>
  <2>1. ~Picks(t) /\ Writes(t) /\ games' = games
    BY DEF DeleteDoomed, Picks, Writes
  <2> QED
    BY <2>1, GamesSame, PickedKept
<1>5. Abstract!DeleteSave(s)
  BY <1>2, <1>3, <1>4 DEF Abstract!DeleteSave
<1> QED
  BY <1>1, <1>5 DEF Abstract!Next

\* A restore picks its save when it has read it.
LEMMA LoadSaveImplements ==
    ASSUME OneProcessOnly, Inv, Inv', LockCoversCycle, NEW t \in Threads, LoadSave(t)
    PROVE  Abstract!Next
<1> DEFINE s == req[t].save
<1>1. /\ pc[t] = "readSave" /\ Game(t) \in GameIds /\ games[Game(t)] # NoRow
      /\ s \in SaveIds /\ saves[s] # NoRow /\ saves[s].game = Game(t) /\ req[t].op = "restore"
  BY HasGame DEF LoadSave, InGame, CopyPCs, Inv, Shape, AtStage, SaveIdRequest
<1>2. /\ save[s] # NoRow /\ save[s].game = Game(t) /\ save[s].played = saves[s].screen
  <2>1. save[s] = ShownSave(saves[s]) /\ save[s] # NoRow
    BY <1>1, SaveSeen, ShownThere DEF Inv, Shape, TypeOK
  <2> QED
    BY <1>1, <2>1 DEF ShownSave
<1>3. Abstract!Settled(save[s].game)
  <2>1. ~Picks(t) /\ pc[t] \in LockedPCs
    BY <1>1 DEF Picks, LockedPCs
  <2> QED
    BY <1>1, <1>2, <2>1, IsSettled
<1>4. Picks(t)' /\ PickedBy(t)' = [game |-> save[s].game, played |-> save[s].played]
  <2>1. pc'[t] = "store" /\ req'[t] = req[t] /\ snap'[t] = saves[s]
    BY DEF LoadSave, Proceed, Inv, Shape, TypeOK
  <2>2. saves[s].state.path = saves[s].screen
    BY <1>1 DEF Inv, AllFaithful, ScreenMatchesState, FaithfulSave
  <2> QED
    BY <1>1, <1>2, <2>1, <2>2 DEF Picks, PickedBy, Game
<1>5. ASSUME NEW u \in Threads, u # t PROVE (Picks(u)' <=> Picks(u)) /\ PickedBy(u)' = PickedBy(u)
  BY <1>5, Alone DEF Picks, PickedBy, Game
<1>6. ~Picks(t)
  BY <1>1 DEF Picks
<1>7. picked' = picked \cup {[game |-> save[s].game, played |-> save[s].played]}
  BY <1>4, <1>5, <1>6, PickedSeen, PickedSeenNext
<1>8. UNCHANGED <<game, save>>
  BY GamesSame, SavesSame DEF LoadSave, Proceed, tables
<1>9. Abstract!Pick(s)
  BY <1>2, <1>3, <1>7, <1>8 DEF Abstract!Pick
<1> QED
  BY <1>1, <1>9 DEF Abstract!Next

\* Any other step gives up what it had picked, or changes nothing GameSpec sees.
LEMMA OtherSteps ==
    ASSUME Inv, [Next]_vars, UNCHANGED tables, \A u \in Threads : ~LoadSave(u)
    PROVE  Abstract!Next
<1>1. ASSUME NEW u \in Threads, Picks(u)' PROVE Picks(u) /\ PickedBy(u)' = PickedBy(u)
  <2>1. UNCHANGED <<pc[u], req[u], snap[u], copy[u]>>
    BY <1>1, SnapKept DEF Picks
  <2> QED
    BY <1>1, <2>1 DEF Picks, PickedBy, Game
<1>2. picked' \subseteq picked
  BY <1>1, PickedSeen, PickedSeenNext
<1>3. UNCHANGED <<game, save>>
  BY GamesSame, SavesSame DEF tables
<1> QED
  BY <1>2, <1>3 DEF Abstract!GiveUp, Abstract!Next

\* Every operation of the service in one process, taken apart into its transactions
\* and run beside any other, has the effect of one step of GameSpec or none (Play,
\* Restart, Restore, Save, Delete, DeleteSave and NewGame of internal/game).
THEOREM Implements ==
    ASSUME OneProcessOnly PROVE Spec => ImplementsGameSpec
<1>1. Init => Abstract!Init
  <2> SUFFICES ASSUME Init PROVE Abstract!Init
    OBVIOUS
  <2>1. game = [g \in GameIds |-> NoRow] /\ save = [s \in SaveIds |-> NoRow]
    BY DEF Init, game, save
  <2>2. picked = {}
    BY DEF Init, picked
  <2> QED
    BY <2>1, <2>2 DEF Abstract!Init
<1>2. ASSUME Inv, Inv', LockCoversCycle, [Next]_vars PROVE [Abstract!Next]_(Abstract!vars)
  <2>1. ASSUME NEW t \in Threads, Writes(t) PROVE [Abstract!Next]_(Abstract!vars)
    <3>1. CASE Note(t)
      BY <1>2, <3>1, NoteStutters DEF Abstract!vars
    <3>2. CASE ~Note(t)
      BY <1>2, <2>1, <3>2, CreateBegins, StoreImplements, CreateSaveImplements, DeleteImplements,
         DeleteDoomedImplements DEF Writes
    <3> QED
      BY <3>1, <3>2
  <2>2. ASSUME NEW t \in Threads, LoadSave(t) PROVE Abstract!Next
    BY <1>2, <2>2, LoadSaveImplements
  <2>3. CASE UNCHANGED tables
    BY <1>2, <2>2, <2>3, OtherSteps
  <2> QED
    BY <1>2, <2>1, <2>3, Writers
<1>3. Spec => []LockCoversCycle
  BY LockCovers
<1> QED
  BY <1>1, <1>2, <1>3, Invariance, PTL DEF Spec, Abstract!Spec, ImplementsGameSpec
=============================================================================
