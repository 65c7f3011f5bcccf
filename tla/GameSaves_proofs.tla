-------------------------- MODULE GameSaves_proofs --------------------------
(***************************************************************************)
(* More proofs about GameService: the saves of a game, the stories of the  *)
(* states that are stored, whose requests write what, and that no lock is  *)
(* left behind.                                                            *)
(***************************************************************************)
EXTENDS GameService_proofs, FiniteSetTheorems

----------------------------------------------------------------------------
\* The steps that write to a table.
Writes(t) ==
    Create(t) \/ Store(t) \/ Note(t) \/ CreateSave(t) \/ Delete(t) \/ DeleteDoomed(t)

LEMMA Writers ==
    ASSUME [Next]_vars
    PROVE  UNCHANGED tables \/ \E t \in Threads : Writes(t)
BY DEF Next, Submit, Lock, Unlock, Step, Load, CreateSaveLost, OwnsGame, Find, LoadSave, LoadDoomed, Fail,
       Proceed, Crash, Quiet, vars, tables, Writes

\* The rowid of a new row is one no row has.
LEMMA NextRowFree ==
    ASSUME NEW S \in SUBSET Nat, NEW R, NEW table \in [S -> R], NEW id \in S, IsNextRow(table, id)
    PROVE  table[id] = NoRow
<1>1. table[id] # NoRow => id < id
  BY DEF IsNextRow
<1> QED
  BY <1>1

\* A save that is written is of the game that was saved, under the name asked for.
LEMMA SnapshotRow ==
    ASSUME Inv, NEW t \in Threads, pc[t] = "createSave"
    PROVE  LET row == Snapshot(Game(t), req[t].name, copy[t]) IN
           /\ Game(t) \in GameIds /\ req[t].name \in Names
           /\ row \in SaveRow /\ row # NoRow /\ row.game = Game(t) /\ row.name = req[t].name
<1>1. Game(t) \in GameIds /\ req[t].name \in Names
  BY DEF Inv, Shape, AtStage, NameRequest, Game
<1>2. Snapshot(Game(t), req[t].name, copy[t]) \in SaveRow
  BY SnapshotType DEF Inv
<1> QED
  BY <1>1, <1>2, NullAssumption DEF Snapshot

----------------------------------------------------------------------------
\* No save outlives its game; a game's saves are finitely many, no more than there
\* may be, and of different names.
NoOrphans == \A s \in SaveIds : saves[s] # NoRow => games[saves[s].game] # NoRow

Limited(g) ==
    IsFiniteSet(SavesOf(saves, g)) /\ Cardinality(SavesOf(saves, g)) <= MaxSaves

NamedApart(g) ==
    \A r, s \in SavesOf(saves, g) : NoCase[saves[r].name] = NoCase[saves[s].name] => r = s

SaveInv == NoOrphans /\ \A g \in GameIds : Limited(g) /\ NamedApart(g)

LEMMA SaveInvSound == SaveInv => SavesSound
BY DEF SaveInv, NoOrphans, Limited, NamedApart, SavesSound

LEMMA SaveInvInit == Init => SaveInv
<1> SUFFICES ASSUME Init PROVE SaveInv
  OBVIOUS
<1>1. ASSUME NEW g \in GameIds PROVE SavesOf(saves, g) = {}
  BY DEF Init, SavesOf, InGame
<1>2. ASSUME NEW g \in GameIds PROVE Limited(g)
  <2>1. IsFiniteSet({}) /\ Cardinality({}) = 0
    BY FS_EmptySet
  <2> QED
    BY <1>1, <2>1, LimitAssumption DEF Limited
<1> QED
  BY <1>1, <1>2 DEF SaveInv, NoOrphans, NamedApart, Init

\* Where saves only go away, what is left is as it was.
LEMMA SavesGo ==
    ASSUME Inv, Inv', NEW g \in GameIds, Limited(g), NamedApart(g),
           \A s \in SaveIds : saves'[s] = saves[s] \/ saves'[s] = NoRow
    PROVE  Limited(g)' /\ NamedApart(g)'
<1>1. DOMAIN saves = SaveIds /\ DOMAIN saves' = SaveIds
  BY DEF Inv, Shape, TypeOK
<1>2. SavesOf(saves', g) \in SUBSET SavesOf(saves, g)
  BY <1>1 DEF SavesOf, InGame
<1>3. /\ IsFiniteSet(SavesOf(saves', g))
      /\ Cardinality(SavesOf(saves', g)) <= Cardinality(SavesOf(saves, g))
  BY <1>2, FS_Subset DEF Limited
<1>4. Cardinality(SavesOf(saves', g)) \in Nat /\ Cardinality(SavesOf(saves, g)) \in Nat
  BY <1>3, FS_CardinalityType DEF Limited
<1>5. Limited(g)'
  BY <1>3, <1>4, LimitAssumption DEF Limited
<1>6. \A s \in SavesOf(saves', g) : saves'[s] = saves[s] /\ s \in SavesOf(saves, g)
  BY <1>1 DEF SavesOf, InGame
<1> QED
  BY <1>5, <1>6 DEF NamedApart

\* CreateSave replaces the save of that name or adds one where there is room.
LEMMA SaveAdded ==
    ASSUME Inv, Inv', SaveInv, NEW t \in Threads, CreateSave(t), NEW g \in GameIds
    PROVE  Limited(g)' /\ NamedApart(g)'
<1> DEFINE row == Snapshot(Game(t), req[t].name, copy[t])
           taken == Named(saves, Game(t), req[t].name)
<1>1. PICK s \in SaveIds : SaveTarget(t, s) /\ saves' = [saves EXCEPT ![s] = row]
  BY DEF CreateSave
<1>2. DOMAIN saves = SaveIds /\ DOMAIN saves' = SaveIds /\ \A r \in SaveIds : saves'[r] = IF r = s THEN row ELSE saves[r]
  BY <1>1 DEF Inv, Shape, TypeOK
<1>3. Game(t) \in GameIds /\ row # NoRow /\ row.game = Game(t) /\ row.name = req[t].name
  BY SnapshotRow DEF CreateSave
<1> HIDE DEF row
<1>4. \/ s \in taken
      \/ taken = {} /\ Cardinality(SavesOf(saves, Game(t))) < MaxSaves /\ saves[s] = NoRow
  <2>1. SaveIds \in SUBSET Nat /\ saves \in [SaveIds -> SaveRow \cup {NoRow}]
    BY RowAssumption DEF Inv, Shape, TypeOK
  <2>2. IsNextRow(saves, s) => saves[s] = NoRow
    BY <2>1, NextRowFree
  <2> QED
    BY <1>1, <2>2 DEF SaveTarget
<1>5. Limited(g) /\ NamedApart(g)
  BY DEF SaveInv
<1>6. CASE g # Game(t)
  <2>1. saves[s] = NoRow \/ saves[s].game = Game(t)
    BY <1>4 DEF Named, SavesOf, InGame
  <2>2. SavesOf(saves', g) = SavesOf(saves, g) /\ s \notin SavesOf(saves, g)
    BY <1>2, <1>3, <1>6, <2>1 DEF SavesOf, InGame
  <2>3. Limited(g)'
    BY <1>5, <2>2 DEF Limited
  <2>4. \A r \in SavesOf(saves, g) : saves'[r] = saves[r]
    BY <1>2, <2>2 DEF SavesOf
  <2> QED
    BY <1>5, <2>2, <2>3, <2>4 DEF NamedApart
<1>7. CASE g = Game(t)
  <2>1. SavesOf(saves', g) = SavesOf(saves, g) \cup {s}
    BY <1>2, <1>3, <1>7 DEF SavesOf, InGame
  <2>2. Limited(g)'
    <3>1. IsFiniteSet(SavesOf(saves, g)) /\ Cardinality(SavesOf(saves, g)) \in Nat
      BY <1>5, FS_CardinalityType DEF Limited
    <3>2. /\ IsFiniteSet(SavesOf(saves, g) \cup {s})
          /\ Cardinality(SavesOf(saves, g) \cup {s}) =
                IF s \in SavesOf(saves, g) THEN Cardinality(SavesOf(saves, g)) ELSE Cardinality(SavesOf(saves, g)) + 1
      BY <3>1, FS_AddElement
    <3>3. s \in taken => s \in SavesOf(saves, g)
      BY <1>7 DEF Named
    <3>4. Cardinality(SavesOf(saves, g) \cup {s}) <= MaxSaves
      BY <1>4, <1>5, <1>7, <3>1, <3>2, <3>3, LimitAssumption DEF Limited
    <3> QED
      BY <2>1, <3>2, <3>4 DEF Limited
  <2>3. ASSUME NEW r \in SavesOf(saves, g), r # s, NoCase[saves[r].name] = NoCase[req[t].name] PROVE FALSE
    <3>1. r \in taken
      BY <1>7, <2>3 DEF Named
    <3>2. s \in taken
      BY <1>4, <3>1
    <3> QED
      BY <1>5, <1>7, <2>3, <3>2 DEF Named, NamedApart
  <2>4. ASSUME NEW q \in SavesOf(saves', g), NEW r \in SavesOf(saves', g),
               NoCase[saves'[q].name] = NoCase[saves'[r].name]
        PROVE  q = r
    <3>1. q \in SaveIds /\ r \in SaveIds
      BY <1>2 DEF SavesOf
    <3>2. CASE q = s /\ r # s
      BY <1>2, <1>3, <2>1, <2>3, <2>4, <3>1, <3>2
    <3>3. CASE q # s /\ r = s
      BY <1>2, <1>3, <2>1, <2>3, <2>4, <3>1, <3>3
    <3>4. CASE q # s /\ r # s
      BY <1>2, <1>5, <2>1, <2>4, <3>1, <3>4 DEF NamedApart
    <3> QED
      BY <3>2, <3>3, <3>4
  <2> QED
    BY <2>2, <2>4 DEF NamedApart
<1> QED
  BY <1>6, <1>7

\* Games stay unless they are deleted.
LEMMA GamesStay ==
    ASSUME Inv, Inv', NEW t \in Threads, Create(t) \/ Store(t) \/ Note(t), NEW g \in GameIds, games[g] # NoRow
    PROVE  games'[g] # NoRow /\ games'[g].user = games[g].user /\ games'[g].story = games[g].story
<1>1. CASE Create(t)
  <2>1. PICK h \in GameIds : IsNextRow(games, h) /\ \A i \in GameIds \ {h} : games'[i] = games[i]
    BY <1>1 DEF Create, Inv, Shape, TypeOK
  <2>2. GameIds \in SUBSET Nat /\ games \in [GameIds -> GameRow \cup {NoRow}]
    BY RowAssumption DEF Inv, Shape, TypeOK
  <2>3. games[h] = NoRow
    BY <2>1, <2>2, NextRowFree
  <2> QED
    BY <2>1, <2>3
<1>2. CASE Store(t) \/ Note(t)
  <2>1. PICK new : /\ games' = [games EXCEPT ![Game(t)] = Updated(games[Game(t)], new)]
                   /\ Updated(games[Game(t)], new) \in GameRow
    BY <1>2, StoreWrites, NoteWrites DEF Inv
  <2>2. games'[g] = games[g] \/ (g = Game(t) /\ games'[g] = Updated(games[g], new))
    BY <2>1 DEF Inv, Shape, TypeOK
  <2> QED
    BY <2>1, <2>2, NullAssumption DEF Updated
<1> QED
  BY <1>1, <1>2

LEMMA SaveInvStep ==
    ASSUME Inv, Inv', SaveInv, [Next]_vars
    PROVE  SaveInv'
<1>1. CASE UNCHANGED tables
  BY <1>1 DEF tables, SaveInv, NoOrphans, Limited, NamedApart
<1>2. ASSUME NEW t \in Threads, Writes(t) PROVE SaveInv'
  <2>1. ASSUME NEW g \in GameIds PROVE Limited(g)' /\ NamedApart(g)'
    <3>1. CASE CreateSave(t)
      BY <3>1, SaveAdded
    <3>2. CASE ~CreateSave(t)
      <4>1. \A s \in SaveIds : saves'[s] = saves[s] \/ saves'[s] = NoRow
        BY <1>2, <3>2 DEF Writes, Create, Store, Note, Delete, DeleteDoomed, Cascaded, Inv, Shape, TypeOK
      <4> QED
        BY <4>1, SavesGo DEF SaveInv
    <3> QED
      BY <3>1, <3>2
  <2>2. NoOrphans'
    <3> SUFFICES ASSUME NEW s \in SaveIds, saves'[s] # NoRow
                 PROVE  games'[saves'[s].game] # NoRow
      BY DEF NoOrphans
    <3>1. CASE Create(t) \/ Store(t) \/ Note(t)
      <4>1. saves' = saves /\ saves[s].game \in GameIds
        BY <3>1 DEF Create, Store, Note, Inv, Shape, TypeOK, SaveRow
      <4> QED
        BY <3>1, <4>1, GamesStay DEF SaveInv, NoOrphans
    <3>2. CASE CreateSave(t)
      <4>1. saves'[s] = saves[s] \/ saves'[s] = Snapshot(Game(t), req[t].name, copy[t])
        BY <3>2 DEF CreateSave, Inv, Shape, TypeOK
      <4>2. games' = games /\ games[Game(t)] # NoRow /\ Snapshot(Game(t), req[t].name, copy[t]).game = Game(t)
        BY <3>2 DEF CreateSave, Owns, Snapshot
      <4> QED
        BY <4>1, <4>2 DEF SaveInv, NoOrphans
    <3>3. CASE Delete(t)
      <4>1. saves'[s] = saves[s] /\ saves[s].game # Game(t) /\ saves[s].game \in GameIds
        BY <3>3 DEF Delete, Cascaded, InGame, Inv, Shape, TypeOK, SaveRow
      <4> QED
        BY <3>3, <4>1 DEF Delete, SaveInv, NoOrphans, Inv, Shape, TypeOK
    <3>4. CASE DeleteDoomed(t)
      <4>1. games' = games /\ saves'[s] = saves[s]
        BY <3>4 DEF DeleteDoomed, Inv, Shape, TypeOK
      <4> QED
        BY <4>1 DEF SaveInv, NoOrphans
    <3> QED
      BY <1>2, <3>1, <3>2, <3>3, <3>4 DEF Writes
  <2> QED
    BY <2>1, <2>2 DEF SaveInv
<1> QED
  BY <1>1, <1>2, Writers

\* The saves of every game are sound with any number of processes and whatever
\* fails between two statements: CreateSave looks the name up, counts and writes in
\* one transaction, and deleting a game takes its saves along in one statement.
THEOREM SavesAreSound == Spec => []SavesSound
<1>1. Spec => []SaveInv
  BY SaveInvInit, SaveInvStep, Invariance, PTL DEF Spec
<1> QED
  BY <1>1, SaveInvSound, PTL

----------------------------------------------------------------------------
\* While a request has a copy of its session, the row is there and of the story
\* the copy is of: in one process because the lock covers the cycle, in several
\* as long as no game is deleted.
SameStory ==
    \A t \in Threads : pc[t] \in CopyPCs =>
        games[Game(t)] # NoRow /\ games[Game(t)].story = copy[t].story

LEMMA CycleSameStory ==
    ASSUME Inv, LockCoversCycle PROVE SameStory
BY NullAssumption DEF Inv, Shape, HasLoaded, LockCoversCycle, SameStory

LEMMA SameStoryStep ==
    ASSUME Inv, Inv', NoDeletes, SameStory, [Next]_vars
    PROVE  SameStory'
<1> SUFFICES ASSUME NEW u \in Threads, pc'[u] \in CopyPCs
             PROVE  games'[Game(u)'] # NoRow /\ games'[Game(u)'].story = copy'[u].story
  BY DEF SameStory
<1>1. CASE Reloaded(u)
  BY <1>1 DEF Reloaded, Game
<1>2. CASE Keeps(u)
  <2>1. Game(u)' = Game(u) /\ copy'[u] = copy[u] /\ games[Game(u)] # NoRow /\ games[Game(u)].story = copy[u].story
    BY <1>2 DEF Keeps, Game, SameStory
  <2>2. Game(u) \in GameIds
    BY <1>2, RequestFields DEF Keeps, Inv, Shape, AtStage, CopyPCs, NameRequest, SaveIdRequest, Game
  <2>3. ASSUME NEW t \in Threads, Writes(t) PROVE games' = games \/ Create(t) \/ Store(t) \/ Note(t)
    BY <2>3 DEF Writes, CreateSave, Delete, DeleteDoomed, NoDeletes
  <2>4. games'[Game(u)] # NoRow /\ games'[Game(u)].story = games[Game(u)].story
    BY <2>1, <2>2, <2>3, GamesStay, Writers DEF tables
  <2> QED
    BY <2>1, <2>4
<1> QED
  BY <1>1, <1>2, CopyKept

\* The state of a row that is not over is of the row's story.
RowFits(row) == ~row.halted => row.state.story = row.story

\* Not only what is stored fits its story, but also what requests have loaded.
CopiesFit == \A t \in Threads : pc[t] \in CopyPCs => RowFits(copy[t])

SnapsFit ==
    \A t \in Threads : pc[t] = "store" /\ req[t].op = "restore" => snap[t].state.story = copy[t].story

Fits == StatesFitTheirStory /\ CopiesFit /\ SnapsFit

\* A request that is about to go back to a save has just read it, or stands still.
LEMMA SnapKept ==
    ASSUME Inv, [Next]_vars, NEW u \in Threads, pc'[u] = "store", req'[u].op = "restore"
    PROVE  LoadSave(u) \/ UNCHANGED <<pc[u], req[u], snap[u], copy[u]>>
<1>1. ASSUME NEW t \in Threads, NEW r \in Request, Submit(t, r) PROVE UNCHANGED <<pc[u], req[u], snap[u], copy[u]>>
  BY <1>1 DEF Submit, Entry, Inv, Shape, TypeOK
<1>2. ASSUME NEW t \in Threads, Lock(t) \/ Unlock(t) PROVE UNCHANGED <<pc[u], req[u], snap[u], copy[u]>>
  BY <1>2 DEF Lock, Locked, Unlock, Inv, Shape, TypeOK
<1>3. ASSUME NEW t \in Threads, Step(t) PROVE LoadSave(u) \/ UNCHANGED <<pc[u], req[u], snap[u], copy[u]>>
  <2>1. CASE t # u
    BY <1>3, <2>1 DEF Step, Create, Load, Store, CreateSave, CreateSaveLost, Note, OwnsGame, Find, LoadSave, Delete,
       LoadDoomed, DeleteDoomed, Fail, Finish, Proceed, Inv, Shape, TypeOK
  <2>2. CASE t = u
    <3>1. ~Finish(u)
      BY DEF Finish, Inv, Shape, TypeOK
    <3>2. ~Load(u)
      BY DEF Load, Loaded, Proceed, Inv, Shape, TypeOK
    <3>3. ~CreateSave(u) /\ ~CreateSaveLost(u) /\ ~OwnsGame(u) /\ ~Find(u) /\ ~LoadDoomed(u)
      BY DEF CreateSave, CreateSaveLost, OwnsGame, Owned, Find, LoadDoomed, Proceed, Inv, Shape, TypeOK
    <3> QED
      BY <1>3, <2>2, <3>1, <3>2, <3>3 DEF Step, Create, Store, Note, Delete, DeleteDoomed, Fail
  <2> QED
    BY <2>1, <2>2
<1>4. ASSUME NEW p \in Processes, Crash(p) PROVE UNCHANGED <<pc[u], req[u], snap[u], copy[u]>>
  BY <1>4 DEF Crash
<1>5. UNCHANGED vars => UNCHANGED <<pc[u], req[u], snap[u], copy[u]>>
  BY DEF vars
<1> QED
  BY <1>1, <1>2, <1>3, <1>4, <1>5 DEF Next, Quiet

\* What requests load fits if the tables do.
LEMMA LoadsFit ==
    ASSUME Inv, Inv', Fits, [Next]_vars
    PROVE  CopiesFit' /\ SnapsFit'
<1>1. ASSUME NEW u \in Threads, pc'[u] \in CopyPCs PROVE RowFits(copy'[u])
  <2>1. CASE Reloaded(u)
    <3>1. Game(u) \in GameIds
      BY <2>1, RequestFields DEF Reloaded, Inv, Shape, AtStage, Game
    <3> QED
      BY <2>1, <3>1 DEF Reloaded, Fits, StatesFitTheirStory, RowFits
  <2>2. CASE Keeps(u)
    BY <2>2 DEF Keeps, Fits, CopiesFit
  <2> QED
    BY <1>1, <2>1, <2>2, CopyKept
<1>2. ASSUME NEW u \in Threads, pc'[u] = "store", req'[u].op = "restore"
      PROVE  snap'[u].state.story = copy'[u].story
  <2>1. CASE LoadSave(u)
    <3>1. req[u].save \in SaveIds
      BY <2>1 DEF LoadSave, Inv, Shape, AtStage, SaveIdRequest
    <3>2. /\ saves[req[u].save] # NoRow /\ saves[req[u].save].story = copy[u].story
          /\ snap'[u] = saves[req[u].save] /\ copy'[u] = copy[u]
      BY <2>1 DEF LoadSave, InGame, Inv, Shape, TypeOK
    <3> QED
      BY <3>1, <3>2 DEF Fits, StatesFitTheirStory
  <2>2. CASE UNCHANGED <<pc[u], req[u], snap[u], copy[u]>>
    BY <1>2, <2>2 DEF Fits, SnapsFit
  <2> QED
    BY <1>2, <2>1, <2>2, SnapKept
<1> QED
  BY <1>1, <1>2 DEF CopiesFit, SnapsFit, RowFits

\* What a turn, a restart or a restore stores is a state of the copy's story.
LEMMA OutcomeFits ==
    ASSUME Inv, Fits, NEW t \in Threads, Store(t), NEW over \in BOOLEAN, req[t].op = "restore" => ~over
    PROVE  ~Outcome(t, over).halted => Outcome(t, over).state.story = copy[t].story
<1>1. req[t].op \in {"play", "restore", "restart"}
  BY DEF Store, Inv, Shape, AtStage
<1>2. CASE req[t].op = "play"
  BY <1>2 DEF Outcome, Played
<1>3. CASE req[t].op = "restart"
  BY <1>3 DEF Outcome, Opening
<1>4. CASE req[t].op = "restore"
  BY <1>4 DEF Outcome, Restored, Store, Fits, SnapsFit
<1> QED
  BY <1>1, <1>2, <1>3, <1>4

LEMMA GamesFit ==
    ASSUME Inv, Fits, SameStory, NEW t \in Threads, Writes(t), NEW g \in GameIds, games'[g] # NoRow
    PROVE  RowFits(games'[g])
<1>1. CASE games'[g] = games[g]
  BY <1>1 DEF Fits, StatesFitTheirStory, RowFits
<1>2. CASE Create(t)
  BY <1>1, <1>2 DEF Create, Inserted, Opening, RowFits, Inv, Shape, TypeOK
<1>3. CASE Store(t)
  <2>1. PICK over \in BOOLEAN :
          /\ req[t].op = "restore" => ~over
          /\ games' = [games EXCEPT ![Game(t)] = Updated(@, Outcome(t, over))]
    BY <1>3 DEF Store
  <2>2. games[Game(t)].story = copy[t].story
    BY <1>3 DEF Store, SameStory, CopyPCs
  <2>3. games'[g] = games[g] \/ games'[g] = Updated(games[Game(t)], Outcome(t, over))
    BY <2>1 DEF Inv, Shape, TypeOK
  <2>4. ~Outcome(t, over).halted => Outcome(t, over).state.story = copy[t].story
    BY <1>3, <2>1, OutcomeFits
  <2> QED
    BY <1>1, <2>2, <2>3, <2>4 DEF Updated, RowFits
<1>4. CASE Note(t)
  <2>1. games[Game(t)].story = copy[t].story /\ RowFits(copy[t])
    BY <1>4 DEF Note, SameStory, CopyPCs, Fits, CopiesFit
  <2>2. games'[g] = games[g] \/ games'[g] = Updated(games[Game(t)], copy[t])
    BY <1>4 DEF Note, Inv, Shape, TypeOK
  <2> QED
    BY <1>1, <2>1, <2>2 DEF Updated, RowFits
<1>5. CASE CreateSave(t) \/ Delete(t) \/ DeleteDoomed(t)
  BY <1>1, <1>5 DEF CreateSave, Delete, DeleteDoomed, Inv, Shape, TypeOK
<1> QED
  BY <1>2, <1>3, <1>4, <1>5 DEF Writes

\* A save is of the story of its game.
SaveFits(s) ==
    /\ saves[s].state.story = saves[s].story
    /\ games[saves[s].game] # NoRow => games[saves[s].game].story = saves[s].story

LEMMA SavesFit ==
    ASSUME Inv, Inv', SaveInv, Fits, SameStory, NEW t \in Threads, Writes(t), NEW s \in SaveIds, saves'[s] # NoRow
    PROVE  SaveFits(s)'
<1>1. ASSUME saves'[s] = saves[s]
      PROVE  /\ SaveFits(s) /\ games[saves[s].game] # NoRow /\ saves[s].game \in GameIds
  BY <1>1 DEF Fits, StatesFitTheirStory, SaveFits, SaveInv, NoOrphans, Inv, Shape, TypeOK, SaveRow
<1>2. CASE Create(t) \/ Store(t) \/ Note(t)
  <2>1. saves'[s] = saves[s]
    BY <1>2 DEF Create, Store, Note
  <2>2. games'[saves[s].game].story = games[saves[s].game].story
    BY <1>1, <1>2, <2>1, GamesStay
  <2> QED
    BY <1>1, <2>1, <2>2 DEF SaveFits
<1>3. CASE CreateSave(t)
  <2>1. games' = games /\ (saves'[s] = saves[s] \/ saves'[s] = Snapshot(Game(t), req[t].name, copy[t]))
    BY <1>3 DEF CreateSave, Inv, Shape, TypeOK
  <2>2. CASE saves'[s] = Snapshot(Game(t), req[t].name, copy[t])
    <3>1. saves'[s].game = Game(t) /\ saves'[s].story = copy[t].story /\ saves'[s].state = copy[t].state
      BY <2>2 DEF Snapshot
    <3>2. games[Game(t)].story = copy[t].story /\ RowFits(copy[t])
      BY <1>3 DEF CreateSave, CopyPCs, SameStory, Fits, CopiesFit
    <3>3. ~copy[t].halted
      BY <1>3, NullAssumption DEF CreateSave, CopyPCs, Inv, Shape, AtStage, HasLoaded, AllFaithful, Faithful
    <3> QED
      BY <2>1, <3>1, <3>2, <3>3 DEF SaveFits, RowFits
  <2> QED
    BY <1>1, <2>1, <2>2 DEF SaveFits
<1>4. CASE Delete(t)
  <2>1. saves'[s] = saves[s]
    BY <1>4 DEF Delete, Cascaded, Inv, Shape, TypeOK
  <2>2. games'[saves[s].game] \in {NoRow, games[saves[s].game]}
    BY <1>1, <1>4, <2>1 DEF Delete, Inv, Shape, TypeOK
  <2> QED
    BY <1>1, <2>1, <2>2 DEF SaveFits
<1>5. CASE DeleteDoomed(t)
  <2>1. games' = games /\ saves'[s] = saves[s]
    BY <1>5 DEF DeleteDoomed, Inv, Shape, TypeOK
  <2> QED
    BY <1>1, <2>1 DEF SaveFits
<1> QED
  BY <1>2, <1>3, <1>4, <1>5 DEF Writes

LEMMA FitsStep ==
    ASSUME Inv, Inv', SaveInv, SameStory, Fits, [Next]_vars
    PROVE  Fits'
<1>1. StatesFitTheirStory'
  <2>1. CASE UNCHANGED tables
    BY <2>1 DEF tables, Fits, StatesFitTheirStory
  <2>2. ASSUME NEW t \in Threads, Writes(t) PROVE StatesFitTheirStory'
    <3>1. \A g \in GameIds : games'[g] # NoRow => RowFits(games'[g])
      BY <2>2, GamesFit
    <3>2. \A s \in SaveIds : saves'[s] # NoRow => SaveFits(s)'
      BY <2>2, SavesFit
    <3> QED
      BY <3>1, <3>2 DEF StatesFitTheirStory, RowFits, SaveFits
  <2> QED
    BY <2>1, <2>2, Writers
<1> QED
  BY <1>1, LoadsFit DEF Fits

\* Every stored state is of the story its row names, and every save of the story of
\* its game, through turns, restarts, restores, saves, deletes and identifiers that
\* are handed out again: in one process, or in several where no game is deleted.
\* (Sessions.Update sets the state but not the story key, so this rests on the row being
\* of the story the state was worked out from.)
THEOREM StoriesFit ==
    ASSUME OneProcessOnly \/ "delete" \notin Ops
    PROVE  Spec => []StatesFitTheirStory
<1>1. Spec => []SameStory
  <2>1. CASE OneProcessOnly
    <3>1. Spec => []LockCoversCycle
      BY <2>1, LockCovers
    <3>2. Inv /\ LockCoversCycle => SameStory
      BY CycleSameStory
    <3> QED
      BY <3>1, <3>2, Invariance, PTL
  <2>2. CASE "delete" \notin Ops
    <3>1. Init => NoDeletes /\ SameStory
      BY DEF Init, NoDeletes, SameStory, CopyPCs
    <3>2. ASSUME Inv, Inv', NoDeletes, SameStory, [Next]_vars PROVE (NoDeletes /\ SameStory)'
      BY <2>2, <3>2, NoDeletesStep, SameStoryStep
    <3> QED
      BY <3>1, <3>2, Invariance, PTL DEF Spec
  <2> QED
    BY <2>1, <2>2
<1>2. Spec => []SaveInv
  BY SaveInvInit, SaveInvStep, Invariance, PTL DEF Spec
<1>3. Init => Fits
  BY DEF Init, Fits, StatesFitTheirStory, CopiesFit, SnapsFit, CopyPCs
<1>4. Spec => []Fits
  BY <1>1, <1>2, <1>3, FitsStep, Invariance, PTL DEF Spec
<1>5. Fits => StatesFitTheirStory
  BY DEF Fits
<1> QED
  BY <1>4, <1>5, PTL

----------------------------------------------------------------------------
\* A request to delete a save has been found to be of the game's owner, ...
DoomedOwned ==
    \A t \in Threads : pc[t] \in {"readDoomed", "deleteDoomed"} => Owns(games, User(t), Game(t))

\* ... or there is none.
NoDoomed == \A t \in Threads : pc[t] \notin {"loadDoomed", "readDoomed", "deleteDoomed"}

\* A request at those steps has just been found to be, or stands there already.
LEMMA DoomedKept ==
    ASSUME Inv, [Next]_vars, NEW u \in Threads, pc'[u] \in {"readDoomed", "deleteDoomed"}
    PROVE  /\ req'[u] = req[u] /\ pc[u] \in {"loadDoomed", "readDoomed", "deleteDoomed"}
           /\ pc[u] = "loadDoomed" => OwnsGame(u)
<1>1. ASSUME NEW t \in Threads, NEW r \in Request, Submit(t, r) PROVE UNCHANGED <<pc[u], req[u]>>
  BY <1>1 DEF Submit, Entry, Inv, Shape, TypeOK
<1>2. ASSUME NEW t \in Threads, Lock(t) \/ Unlock(t) PROVE UNCHANGED <<pc[u], req[u]>>
  BY <1>2 DEF Lock, Locked, Unlock, Inv, Shape, TypeOK
<1>3. ASSUME NEW t \in Threads, Step(t) PROVE UNCHANGED <<pc[u], req[u]>> \/ OwnsGame(u) \/ LoadDoomed(u)
  <2>1. CASE t # u
    BY <1>3, <2>1 DEF Step, Create, Load, Store, CreateSave, CreateSaveLost, Note, OwnsGame, Find, LoadSave, Delete,
       LoadDoomed, DeleteDoomed, Fail, Finish, Proceed, Inv, Shape, TypeOK
  <2>2. CASE t = u
    <3>1. ~Finish(u)
      BY DEF Finish, Inv, Shape, TypeOK
    <3>2. ~Load(u)
      BY DEF Load, Loaded, Proceed, Inv, Shape, TypeOK
    <3>3. ~CreateSave(u) /\ ~CreateSaveLost(u) /\ ~Find(u) /\ ~LoadSave(u)
      BY DEF CreateSave, CreateSaveLost, Find, LoadSave, Proceed, Inv, Shape, TypeOK
    <3> QED
      BY <1>3, <2>2, <3>1, <3>2, <3>3 DEF Step, Create, Store, Note, Delete, DeleteDoomed, Fail
  <2> QED
    BY <2>1, <2>2
<1>4. ASSUME NEW p \in Processes, Crash(p) PROVE UNCHANGED <<pc[u], req[u]>>
  BY <1>4 DEF Crash
<1>5. UNCHANGED vars => UNCHANGED <<pc[u], req[u]>>
  BY DEF vars
<1>6. OwnsGame(u) => pc[u] = "loadDoomed" /\ req'[u] = req[u]
  BY DEF OwnsGame, Owned, Proceed, Inv, Shape, TypeOK
<1>7. LoadDoomed(u) => pc[u] = "readDoomed" /\ req'[u] = req[u]
  BY DEF LoadDoomed
<1> QED
  BY <1>1, <1>2, <1>3, <1>4, <1>5, <1>6, <1>7 DEF Next, Quiet

LEMMA DoomedStep ==
    ASSUME Inv, Inv', NoDeletes, DoomedOwned, [Next]_vars
    PROVE  DoomedOwned'
<1> SUFFICES ASSUME NEW u \in Threads, pc'[u] \in {"readDoomed", "deleteDoomed"}
             PROVE  Owns(games', User(u)', Game(u)')
  BY DEF DoomedOwned
<1>1. User(u)' = User(u) /\ Game(u)' = Game(u) /\ pc[u] \in {"loadDoomed", "readDoomed", "deleteDoomed"}
  BY DoomedKept DEF User, Game
<1>2. Owns(games, User(u), Game(u))
  BY <1>1, DoomedKept DEF OwnsGame, DoomedOwned
<1>3. Game(u) \in GameIds
  BY <1>1 DEF Inv, Shape, AtStage, SaveIdRequest, Game
<1>4. ASSUME NEW t \in Threads, Writes(t) PROVE games' = games \/ Create(t) \/ Store(t) \/ Note(t)
  BY <1>4 DEF Writes, CreateSave, Delete, DeleteDoomed, NoDeletes
<1>5. games'[Game(u)] # NoRow /\ games'[Game(u)].user = games[Game(u)].user
  BY <1>2, <1>3, <1>4, GamesStay, Writers DEF tables, Owns
<1> QED
  BY <1>1, <1>2, <1>5 DEF Owns

LEMMA NoDoomedStep ==
    ASSUME "deleteSave" \notin Ops, Inv, NoDoomed, [Next]_vars
    PROVE  NoDoomed'
<1> SUFFICES ASSUME NEW u \in Threads, pc'[u] \in {"loadDoomed", "readDoomed", "deleteDoomed"}
             PROVE  FALSE
  BY DEF NoDoomed
<1>1. pc'[u] = "loadDoomed" /\ pc'[u] # pc[u]
  BY DoomedKept DEF NoDoomed
<1>2. ASSUME NEW t \in Threads, NEW r \in Request, r.op \in Ops, Submit(t, r) PROVE FALSE
  BY <1>1, <1>2 DEF Submit, Entry, Inv, Shape, TypeOK
<1>3. ASSUME NEW t \in Threads, Lock(t) \/ Unlock(t) PROVE FALSE
  BY <1>1, <1>3 DEF Lock, Locked, Unlock, Inv, Shape, TypeOK
<1>4. ASSUME NEW t \in Threads, Step(t) PROVE FALSE
  <2>1. t = u
    BY <1>1, <1>4 DEF Step, Create, Load, Store, CreateSave, CreateSaveLost, Note, OwnsGame, Find, LoadSave, Delete,
       LoadDoomed, DeleteDoomed, Fail, Finish, Proceed, Inv, Shape, TypeOK
  <2>2. ~Finish(u)
    BY <1>1 DEF Finish, Inv, Shape, TypeOK
  <2>3. ~Load(u) /\ ~OwnsGame(u)
    BY <1>1 DEF Load, Loaded, OwnsGame, Owned, Proceed, Inv, Shape, TypeOK
  <2>4. ~CreateSave(u) /\ ~CreateSaveLost(u) /\ ~Find(u) /\ ~LoadSave(u) /\ ~LoadDoomed(u)
    BY <1>1 DEF CreateSave, CreateSaveLost, Find, LoadSave, LoadDoomed, Proceed, Inv, Shape, TypeOK
  <2> QED
    BY <1>4, <2>1, <2>2, <2>3, <2>4 DEF Step, Create, Store, Note, Delete, DeleteDoomed, Fail
<1>5. ASSUME NEW p \in Processes, Crash(p) PROVE FALSE
  BY <1>1, <1>5 DEF Crash
<1>6. ~UNCHANGED vars
  BY <1>1 DEF vars
<1> QED
  BY <1>2, <1>3, <1>4, <1>5, <1>6 DEF Next, Quiet

\* A request that ends, or goes on, moves.
LEMMA WritersMove ==
    ASSUME Inv, NEW t \in Threads, Writes(t)
    PROVE  pc'[t] # pc[t]
<1>1. ASSUME Finish(t), pc[t] \in BusyPCs PROVE pc'[t] # pc[t]
  BY <1>1 DEF Finish, BusyPCs, LockedPCs, Inv, Shape, TypeOK
<1>2. CASE CreateSave(t)
  BY <1>2 DEF CreateSave, Inv, Shape, TypeOK
<1> QED
  BY <1>1, <1>2 DEF Writes, Create, Store, Note, Delete, DeleteDoomed, BusyPCs, LockedPCs

LEMMA GameOfOwner ==
    ASSUME Inv, NEW t \in Threads, Writes(t), NEW g \in GameIds, games[g] # NoRow, games'[g] # games[g]
    PROVE  User(t) = games[g].user
<1>1. CASE Create(t)
  <2>1. PICK h \in GameIds : IsNextRow(games, h) /\ \A i \in GameIds \ {h} : games'[i] = games[i]
    BY <1>1 DEF Create, Inv, Shape, TypeOK
  <2>2. GameIds \in SUBSET Nat /\ games \in [GameIds -> GameRow \cup {NoRow}]
    BY RowAssumption DEF Inv, Shape, TypeOK
  <2>3. games[h] = NoRow
    BY <2>1, <2>2, NextRowFree
  <2> QED
    BY <2>1, <2>3
<1>2. CASE Store(t) \/ Note(t) \/ Delete(t)
  <2>1. Owns(games, User(t), Game(t))
    BY <1>2 DEF Store, Note, Delete, Matches
  <2>2. g = Game(t)
    BY <1>2 DEF Store, Note, Delete, Inv, Shape, TypeOK
  <2> QED
    BY <2>1, <2>2 DEF Owns
<1>3. CASE CreateSave(t) \/ DeleteDoomed(t)
  BY <1>3 DEF CreateSave, DeleteDoomed
<1> QED
  BY <1>1, <1>2, <1>3 DEF Writes

LEMMA SaveOfOwner ==
    ASSUME Inv, DoomedOwned \/ NoDoomed, NEW t \in Threads, Writes(t),
           NEW s \in SaveIds, saves[s] # NoRow, saves'[s] # saves[s]
    PROVE  User(t) = games[saves[s].game].user
<1>1. CASE Create(t) \/ Store(t) \/ Note(t)
  BY <1>1 DEF Create, Store, Note
<1>2. CASE CreateSave(t)
  <2>1. PICK r \in SaveIds : SaveTarget(t, r) /\ \A q \in SaveIds \ {r} : saves'[q] = saves[q]
    BY <1>2 DEF CreateSave, Inv, Shape, TypeOK
  <2>2. SaveIds \in SUBSET Nat /\ saves \in [SaveIds -> SaveRow \cup {NoRow}]
    BY RowAssumption DEF Inv, Shape, TypeOK
  <2>3. IsNextRow(saves, s) => saves[s] = NoRow
    BY <2>2, NextRowFree
  <2>4. saves[s].game = Game(t)
    BY <2>1, <2>3 DEF SaveTarget, Named, SavesOf, InGame
  <2> QED
    BY <1>2, <2>4 DEF CreateSave, Owns
<1>3. CASE Delete(t)
  <2>1. saves[s].game = Game(t)
    BY <1>3 DEF Delete, Cascaded, InGame, Inv, Shape, TypeOK
  <2> QED
    BY <1>3, <2>1 DEF Delete, Owns
<1>4. CASE DeleteDoomed(t)
  <2>1. saves[s].game = Game(t)
    BY <1>4 DEF DeleteDoomed, InGame, Inv, Shape, TypeOK
  <2> QED
    BY <1>4, <2>1 DEF DeleteDoomed, DoomedOwned, NoDoomed, Owns
<1> QED
  BY <1>1, <1>2, <1>3, <1>4 DEF Writes

\* A game and its saves are written by requests of the user the game belongs to and
\* by nobody else's, with any number of processes, as long as games and single saves
\* are not both deleted: DeleteSave asks whose the game is in one statement and
\* deletes in another, and in between the game may have become somebody else's.
THEOREM OwnersWrite ==
    ASSUME "delete" \notin Ops \/ "deleteSave" \notin Ops
    PROVE  Spec => OnlyOwnersWrite
<1> DEFINE A == /\ \A g \in GameIds : games[g] # NoRow /\ games'[g] # games[g] =>
                    \E t \in Threads : pc'[t] # pc[t] /\ User(t) = games[g].user
                /\ \A s \in SaveIds : saves[s] # NoRow /\ saves'[s] # saves[s] =>
                    \E t \in Threads : pc'[t] # pc[t] /\ User(t) = games[saves[s].game].user
<1>1. ASSUME Inv, DoomedOwned \/ NoDoomed, [Next]_vars PROVE A
  <2>1. CASE UNCHANGED tables
    BY <2>1 DEF tables
  <2>2. ASSUME NEW t \in Threads, Writes(t) PROVE A
    BY <1>1, <2>2, WritersMove, GameOfOwner, SaveOfOwner
  <2> QED
    BY <1>1, <2>1, <2>2, Writers
<1>2. Spec => [](DoomedOwned \/ NoDoomed)
  <2>1. CASE "delete" \notin Ops
    <3>1. Init => NoDeletes /\ DoomedOwned
      BY DEF Init, NoDeletes, DoomedOwned
    <3>2. ASSUME Inv, Inv', NoDeletes, DoomedOwned, [Next]_vars PROVE (NoDeletes /\ DoomedOwned)'
      BY <2>1, <3>2, NoDeletesStep, DoomedStep
    <3> QED
      BY <3>1, <3>2, Invariance, PTL DEF Spec
  <2>2. CASE "deleteSave" \notin Ops
    <3>1. Init => NoDoomed
      BY DEF Init, NoDoomed
    <3>2. ASSUME Inv, NoDoomed, [Next]_vars PROVE NoDoomed'
      BY <2>2, <3>2, NoDoomedStep
    <3> QED
      BY <3>1, <3>2, Invariance, PTL DEF Spec
  <2> QED
    BY <2>1, <2>2
<1> QED
  BY <1>1, <1>2, Invariance, PTL DEF Spec, OnlyOwnersWrite

----------------------------------------------------------------------------
\* After the step, whoever holds the lock k is at work on that session.
HeldNext(k) ==
    pc'[owner'[k]] \in LockedPCs /\ <<procOf[owner'[k]], req'[owner'[k]].game>> = k

\* Every action leaves a held lock with a goroutine that will unlock it.
LEMMA LocksHeldStep ==
    ASSUME Inv, LocksAreHeld, [Next]_vars
    PROVE  LocksAreHeld'
<1> SUFFICES ASSUME NEW k \in Processes \X GameIds, owner'[k] # NoThread
             PROVE  HeldNext(k)
  BY DEF LocksAreHeld, HeldNext, Key, Game
<1> DEFINE u == owner[k]
<1>1. u # NoThread => u \in Threads /\ pc[u] \in LockedPCs /\ Key(u) = k
  BY DEF LocksAreHeld, Inv, Shape, TypeOK
<1>2. ASSUME u # NoThread, owner'[k] = u, pc'[u] = pc[u], req'[u] = req[u]
      PROVE  HeldNext(k)
  BY <1>1, <1>2 DEF HeldNext, Key, Game
<1> HIDE DEF u
<1>3. ASSUME NEW t \in Threads, NEW r \in Request, Submit(t, r)
      PROVE  HeldNext(k)
  <2>1. owner'[k] = u /\ u # NoThread /\ u # t
    BY <1>1, <1>3 DEF Submit, LockedPCs, u
  <2> QED
    BY <1>1, <1>2, <1>3, <2>1 DEF Submit, Inv, Shape, TypeOK
<1>4. ASSUME NEW t \in Threads, Lock(t)
      PROVE  HeldNext(k)
  <2>1. owner' = [owner EXCEPT ![Key(t)] = t] /\ req' = req /\ pc' = [pc EXCEPT ![t] = Locked(req[t].op)]
    BY <1>4 DEF Lock, Locks!Acquire
  <2>2. CASE k = Key(t)
    <3>1. owner'[k] = t
      BY <2>1, <2>2 DEF Inv, Shape, TypeOK
    <3>2. Locked(req[t].op) \in LockedPCs
      BY DEF Locked, LockedPCs
    <3> QED
      BY <2>1, <2>2, <3>1, <3>2 DEF HeldNext, Key, Game, Inv, Shape, TypeOK
  <2>3. CASE k # Key(t)
    <3>1. owner'[k] = u /\ u # NoThread
      BY <2>1, <2>3 DEF u, Inv, Shape, TypeOK
    <3>2. u # t
      BY <1>1, <1>4, <3>1 DEF Lock, LockedPCs
    <3> QED
      BY <1>1, <1>2, <2>1, <3>1, <3>2 DEF Inv, Shape, TypeOK
  <2> QED
    BY <2>2, <2>3
<1>5. ASSUME NEW t \in Threads, Unlock(t)
      PROVE  HeldNext(k)
  <2>1. owner' = [owner EXCEPT ![Key(t)] = NoThread]
    BY <1>5 DEF Unlock, Locks!Release
  <2>2. k # Key(t) /\ owner'[k] = u /\ u # NoThread
    BY <2>1 DEF u, Inv, Shape, TypeOK
  <2>3. u # t
    BY <1>1, <2>2
  <2> QED
    BY <1>1, <1>2, <1>5, <2>2, <2>3 DEF Unlock, Inv, Shape, TypeOK
<1>6. ASSUME NEW t \in Threads, Step(t)
      PROVE  HeldNext(k)
  <2>1. owner'[k] = u /\ u # NoThread
    BY <1>6 DEF Step, Create, Load, Store, CreateSave, CreateSaveLost, Note, OwnsGame, Find, LoadSave, Delete,
       LoadDoomed, DeleteDoomed, Fail, Finish, Proceed, u
  <2>2. CASE t # u
    BY <1>1, <1>2, <1>6, <2>1, <2>2 DEF Step, Create, Load, Store, CreateSave, CreateSaveLost, Note, OwnsGame, Find,
       LoadSave, Delete, LoadDoomed, DeleteDoomed, Fail, Finish, Proceed, Inv, Shape, TypeOK
  <2>3. CASE t = u
    <3>1. pc[t] \in LockedPCs /\ Key(t) = k
      BY <1>1, <2>1, <2>3
    <3>2. CASE Finish(t)
      BY <2>1, <2>3, <3>1, <3>2 DEF Finish, LockedPCs, HeldNext, Key, Game, Inv, Shape, TypeOK
    <3>3. CASE Load(t) \/ OwnsGame(t)
      BY <2>1, <2>3, <3>1, <3>3 DEF Load, Loaded, OwnsGame, Owned, Proceed, LockedPCs, HeldNext, Key, Game, Inv, Shape, TypeOK
    <3>4. CASE CreateSave(t) \/ CreateSaveLost(t) \/ LoadSave(t)
      BY <2>1, <2>3, <3>1, <3>4 DEF CreateSave, CreateSaveLost, LoadSave, Proceed, LockedPCs, HeldNext, Key, Game, Inv, Shape, TypeOK
    <3>5. CASE Find(t)
      <4>1. pc'[t] = "load" /\ req'[t].game = Game(t)
        BY <3>5 DEF Find, Proceed, Inv, Shape, TypeOK
      <4> QED
        BY <2>1, <2>3, <3>1, <4>1 DEF LockedPCs, HeldNext, Key, Game
    <3>6. ~LoadDoomed(t)
      BY <3>1 DEF LoadDoomed, LockedPCs
    <3> QED
      BY <1>6, <3>2, <3>3, <3>4, <3>5, <3>6 DEF Step, Create, Store, Note, Delete, DeleteDoomed, Fail
  <2> QED
    BY <2>2, <2>3
<1>7. ASSUME NEW p \in Processes, Crash(p)
      PROVE  HeldNext(k)
  <2>1. k[1] # p /\ owner'[k] = u /\ u # NoThread
    BY <1>7 DEF Crash, u
  <2>2. procOf[u] # p
    BY <1>1, <2>1 DEF Key
  <2> QED
    BY <1>1, <1>2, <1>7, <2>1, <2>2 DEF Crash
<1>8. CASE UNCHANGED vars
  <2>1. owner'[k] = u /\ u # NoThread /\ pc' = pc /\ req' = req
    BY <1>8 DEF vars, u
  <2> QED
    BY <1>1, <1>2, <2>1
<1> QED
  BY <1>3, <1>4, <1>5, <1>6, <1>7, <1>8 DEF Next, Quiet

\* Every lock that is taken belongs to a goroutine between its lock and its deferred
\* unlock of that session, in any number of processes: the error paths of Play, save,
\* restore, Restart and Delete give it up like the others.
THEOREM NoLockIsLeft == Spec => []LocksAreHeld
<1>1. Init => LocksAreHeld
  BY DEF Init, Locks!Init, LocksAreHeld
<1> QED
  BY <1>1, LocksHeldStep, Invariance, PTL DEF Spec
=============================================================================
