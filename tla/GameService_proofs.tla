------------------------- MODULE GameService_proofs -------------------------
(***************************************************************************)
(* Proofs about GameService, for any users, stories, commands, names,      *)
(* identifiers, goroutines, processes and any bound on the requests.       *)
(***************************************************************************)
EXTENDS GameService, TLAPS

----------------------------------------------------------------------------
\* Which requests can be at which step.
AtStage(t) ==
    /\ pc[t] = "create" => req[t] \in NewRequest
    /\ pc[t] \in {"loadDoomed", "readDoomed", "deleteDoomed"} => req[t] \in SaveIdRequest
    /\ pc[t] = "lock" => req[t] \in Request \ NewRequest /\ req[t].op # "deleteSave"
    /\ pc[t] \in {"find", "list"} => req[t] \in NameRequest
    /\ pc[t] = "load" => req[t] \in Request \ NewRequest /\ req[t].op \in {"play", "save", "restore", "restart"}
    /\ pc[t] \in {"loadSave", "readSave"} => req[t] \in SaveIdRequest /\ req[t].op = "restore"
    /\ pc[t] = "store" => req[t] \in Request \ NewRequest /\ req[t].op \in {"play", "restore", "restart"}
    /\ pc[t] \in {"createSave", "note"} => req[t] \in NameRequest /\ req[t].op = "save"
    /\ pc[t] = "delete" => req[t] \in GameRequest
    /\ pc[t] = "unlock" => req[t] \in Request \ NewRequest

\* What a request has loaded by then.
HasLoaded(t) ==
    /\ pc[t] \in CopyPCs =>
        /\ copy[t] \in GameRow
        /\ req[t].op = "play" => ~copy[t].halted
        /\ req[t].op = "save" => copy[t].state # NoState
    /\ pc[t] = "store" /\ req[t].op = "restore" => snap[t] \in SaveRow

\* A goroutine past its lock step is the one its session's lock belongs to.
HoldsLock(t) == pc[t] \in LockedPCs => owner[Key(t)] = t

\* The tables' rows are faithful (ScreenMatchesState), and so is what was loaded.
AllFaithful ==
    /\ ScreenMatchesState
    /\ \A t \in Threads :
        /\ copy[t] # NoRow => Faithful(copy[t])
        /\ snap[t] # NoRow => FaithfulSave(snap[t])

Shape ==
    /\ TypeOK
    /\ \A t \in Threads : AtStage(t) /\ HasLoaded(t) /\ HoldsLock(t)

----------------------------------------------------------------------------
\* The fields of a request, by its kind.
LEMMA RequestFields ==
    ASSUME NEW r \in Request
    PROVE  /\ r.op \in {"new", "play", "save", "restore", "restoreNamed", "restart", "delete", "deleteSave"}
           /\ r.user \in Users
           /\ r \notin NewRequest => r.game \in GameIds
           /\ r.op = "new" <=> r \in NewRequest
           /\ r.op = "play" => r \in PlayRequest /\ r.cmd \in Commands
           /\ r.op \in {"save", "restoreNamed"} => r \in NameRequest /\ r.name \in Names
           /\ r.op \in {"restore", "deleteSave"} => r \in SaveIdRequest /\ r.save \in SaveIds
           /\ r.op \in {"restart", "delete"} => r \in GameRequest
BY DEF Request, NewRequest, PlayRequest, NameRequest, SaveIdRequest, GameRequest

\* The row an UPDATE leaves is a row if what it sets has the types of columns.
LEMMA UpdatedType ==
    ASSUME NEW row \in GameRow, NEW new,
           new.state \in State \cup {NoState}, new.screen \in Seq(Commands),
           new.turn \in Nat, new.halted \in BOOLEAN
    PROVE  Updated(row, new) \in GameRow
BY DEF Updated, GameRow

LEMMA OpeningType ==
    ASSUME NEW story \in Stories, NEW over \in BOOLEAN
    PROVE  LET new == Opening(story, over) IN
           /\ new.state \in State \cup {NoState} /\ new.screen \in Seq(Commands)
           /\ new.turn \in Nat /\ new.halted \in BOOLEAN
BY DEF Opening, State

LEMMA PlayedType ==
    ASSUME NEW row \in GameRow, ~row.halted, row.state # NoState, NEW cmd \in Commands, NEW over \in BOOLEAN
    PROVE  LET new == Played(row, cmd, over) IN
           /\ new.state \in State \cup {NoState} /\ new.screen \in Seq(Commands)
           /\ new.turn \in Nat /\ new.halted \in BOOLEAN
<1>1. row.state \in State /\ row.screen \in Seq(Commands) /\ row.turn \in Nat /\ row.story \in Stories
  BY DEF GameRow
<1>2. row.state.path \in Seq(Commands)
  BY <1>1 DEF State
<1>3. Append(row.state.path, cmd) \in Seq(Commands) /\ Append(row.screen, cmd) \in Seq(Commands)
  BY <1>1, <1>2
<1>4. QED
  BY <1>1, <1>3 DEF Played, State

LEMMA RestoredType ==
    ASSUME NEW save \in SaveRow
    PROVE  LET new == Restored(save) IN
           /\ new.state \in State \cup {NoState} /\ new.screen \in Seq(Commands)
           /\ new.turn \in Nat /\ new.halted \in BOOLEAN
BY DEF Restored, SaveRow

----------------------------------------------------------------------------
\* Ending a request, when the tables it leaves are tables.
LEMMA FinishShape ==
    ASSUME Shape, NEW t \in Threads, pc[t] \in BusyPCs, Finish(t),
           games' \in [GameIds -> GameRow \cup {NoRow}], saves' \in [SaveIds -> SaveRow \cup {NoRow}]
    PROVE  Shape'
<1>1. TypeOK'
  BY DEF Shape, TypeOK, Finish, PCs, BusyPCs
<1>2. ASSUME NEW u \in Threads, u # t PROVE AtStage(u)' /\ HasLoaded(u)' /\ HoldsLock(u)'
  <2>1. pc'[u] = pc[u] /\ req'[u] = req[u] /\ copy'[u] = copy[u] /\ snap'[u] = snap[u] /\ owner' = owner
    BY <1>2 DEF Shape, TypeOK, Finish
  <2>2. QED
    BY <2>1 DEF Shape, AtStage, HasLoaded, HoldsLock, Key, Game
<1>3. AtStage(t)' /\ HasLoaded(t)' /\ HoldsLock(t)'
  <2>1. CASE pc[t] \in LockedPCs
    <3>1. pc'[t] = "unlock" /\ req'[t] = req[t] /\ owner' = owner
      BY <2>1 DEF Shape, TypeOK, Finish
    <3>2. req[t] \in Request \ NewRequest
      BY <2>1 DEF Shape, TypeOK, AtStage, BusyPCs, LockedPCs, Request, NewRequest, NameRequest, SaveIdRequest, GameRequest
    <3>3. QED
      BY <2>1, <3>1, <3>2 DEF Shape, AtStage, HasLoaded, HoldsLock, Key, Game, CopyPCs
  <2>2. CASE pc[t] \notin LockedPCs
    <3>1. pc'[t] = "idle"
      BY <2>2 DEF Shape, TypeOK, Finish
    <3>2. QED
      BY <3>1 DEF AtStage, HasLoaded, HoldsLock, CopyPCs, LockedPCs
  <2>3. QED
    BY <2>1, <2>2
<1>4. QED
  BY <1>1, <1>2, <1>3 DEF Shape

\* Going on to a further step, with the lock and the tables as they are.
LEMMA OthersKept ==
    ASSUME Shape, NEW t \in Threads, NEW u \in Threads, u # t,
           pc'[u] = pc[u], req'[u] = req[u], copy'[u] = copy[u], snap'[u] = snap[u], owner' = owner
    PROVE  AtStage(u)' /\ HasLoaded(u)' /\ HoldsLock(u)'
BY DEF Shape, AtStage, HasLoaded, HoldsLock, Key, Game

LEMMA InitShape == Init => Shape
<1> SUFFICES ASSUME Init PROVE Shape
  OBVIOUS
<1>1. TypeOK
  BY DEF Init, TypeOK, PCs, Locks!Init
<1>2. QED
  BY <1>1 DEF Init, Shape, AtStage, HasLoaded, HoldsLock, CopyPCs, LockedPCs

LEMMA SubmitShape ==
    ASSUME Shape, NEW t \in Threads, NEW r \in Request, Submit(t, r)
    PROVE  Shape'
<1>1. Entry(r.op) \in {"create", "loadDoomed", "lock"}
  BY DEF Entry
<1>2. TypeOK'
  BY <1>1 DEF Shape, TypeOK, Submit, PCs, BusyPCs, tables
<1>3. ASSUME NEW u \in Threads, u # t PROVE AtStage(u)' /\ HasLoaded(u)' /\ HoldsLock(u)'
  BY <1>3, OthersKept DEF Shape, TypeOK, Submit
<1>4. pc'[t] = Entry(r.op) /\ req'[t] = r
  BY DEF Shape, TypeOK, Submit
<1>5. AtStage(t)' /\ HasLoaded(t)' /\ HoldsLock(t)'
  BY <1>1, <1>4, RequestFields DEF AtStage, HasLoaded, HoldsLock, Entry, CopyPCs, LockedPCs
<1>6. QED
  BY <1>2, <1>3, <1>5 DEF Shape

LEMMA LockShape ==
    ASSUME Shape, NEW t \in Threads, Lock(t)
    PROVE  Shape'
<1>1. req[t] \in Request \ NewRequest /\ Game(t) \in GameIds /\ Key(t) \in Processes \X GameIds
  BY RequestFields, ThreadAssumption DEF Shape, AtStage, Lock, Game, Key
<1>2. Locked(req[t].op) \in {"find", "delete", "load"}
  BY DEF Locked
<1>3. TypeOK'
  BY <1>1, <1>2 DEF Shape, TypeOK, Lock, Locks!Acquire, PCs, BusyPCs, LockedPCs, tables
<1>4. ASSUME NEW u \in Threads, u # t PROVE AtStage(u)' /\ HasLoaded(u)' /\ HoldsLock(u)'
  <2>1. pc'[u] = pc[u] /\ req'[u] = req[u] /\ copy'[u] = copy[u] /\ snap'[u] = snap[u]
    BY <1>4 DEF Shape, TypeOK, Lock
  <2>2. AtStage(u)' /\ HasLoaded(u)'
    BY <2>1 DEF Shape, AtStage, HasLoaded
  <2>3. Key(u)' = Key(u)
    BY <2>1 DEF Key, Game
  <2>4. pc[u] \in LockedPCs => owner[Key(u)] # NoThread
    BY <1>4, ThreadAssumption DEF Shape, HoldsLock
  <2>5. owner[Key(t)] = NoThread /\ owner' = [owner EXCEPT ![Key(t)] = t]
    BY DEF Lock, Locks!Acquire
  <2>6. HoldsLock(u)'
    BY <1>1, <2>1, <2>3, <2>4, <2>5 DEF Shape, TypeOK, HoldsLock
  <2>7. QED
    BY <2>2, <2>6
<1>5. pc'[t] = Locked(req[t].op) /\ req' = req /\ owner' = [owner EXCEPT ![Key(t)] = t]
  BY DEF Shape, TypeOK, Lock, Locks!Acquire
<1>6. HoldsLock(t)'
  BY <1>1, <1>5 DEF Shape, TypeOK, HoldsLock, Key, Game
<1>7. req[t].op \notin {"new", "deleteSave"}
  BY <1>1, RequestFields DEF Shape, AtStage, Lock
<1>8. AtStage(t)' /\ HasLoaded(t)'
  BY <1>1, <1>7, <1>2, <1>5, RequestFields DEF AtStage, HasLoaded, Locked, CopyPCs
<1>9. QED
  BY <1>3, <1>4, <1>6, <1>8 DEF Shape

LEMMA UnlockShape ==
    ASSUME Shape, NEW t \in Threads, Unlock(t)
    PROVE  Shape'
<1>1. Key(t) \in Processes \X GameIds /\ owner[Key(t)] = t
  BY RequestFields, ThreadAssumption DEF Shape, AtStage, HoldsLock, Unlock, Game, Key, LockedPCs
<1>2. TypeOK'
  BY <1>1 DEF Shape, TypeOK, Unlock, Locks!Release, PCs, tables
<1>3. ASSUME NEW u \in Threads, u # t PROVE AtStage(u)' /\ HasLoaded(u)' /\ HoldsLock(u)'
  <2>1. pc'[u] = pc[u] /\ req'[u] = req[u] /\ copy'[u] = copy[u] /\ snap'[u] = snap[u]
    BY <1>3 DEF Shape, TypeOK, Unlock
  <2>2. AtStage(u)' /\ HasLoaded(u)'
    BY <2>1 DEF Shape, AtStage, HasLoaded
  <2>3. Key(u)' = Key(u)
    BY <2>1 DEF Key, Game
  <2>4. owner' = [owner EXCEPT ![Key(t)] = NoThread]
    BY DEF Unlock, Locks!Release
  <2>5. HoldsLock(u)'
    BY <1>1, <1>3, <2>1, <2>3, <2>4 DEF Shape, TypeOK, HoldsLock
  <2>6. QED
    BY <2>2, <2>5
<1>4. pc'[t] = "idle"
  BY DEF Shape, TypeOK, Unlock
<1>5. AtStage(t)' /\ HasLoaded(t)' /\ HoldsLock(t)'
  BY <1>4 DEF AtStage, HasLoaded, HoldsLock, CopyPCs, LockedPCs
<1>6. QED
  BY <1>2, <1>3, <1>5 DEF Shape

LEMMA FailShape ==
    ASSUME Shape, NEW t \in Threads, Fail(t)
    PROVE  Shape'
BY FinishShape DEF Fail, tables, Shape, TypeOK

LEMMA CreateShape ==
    ASSUME Shape, NEW t \in Threads, Create(t)
    PROVE  Shape'
<1>1. req[t] \in NewRequest /\ User(t) \in Users /\ req[t].story \in Stories
  BY DEF Shape, AtStage, Create, NewRequest, User
<1>2. PICK g \in GameIds, over \in BOOLEAN :
         games' = [games EXCEPT ![g] = Inserted(User(t), req[t].story, Opening(req[t].story, over))]
  BY DEF Create
<1>3. Inserted(User(t), req[t].story, Opening(req[t].story, over)) \in GameRow
  BY <1>1, OpeningType DEF Inserted, GameRow
<1>4. games' \in [GameIds -> GameRow \cup {NoRow}] /\ saves' \in [SaveIds -> SaveRow \cup {NoRow}]
  BY <1>2, <1>3 DEF Create, Shape, TypeOK
<1>5. QED
  BY <1>4, FinishShape DEF Create, BusyPCs

LEMMA LoadShape ==
    ASSUME Shape, NEW t \in Threads, Load(t)
    PROVE  Shape'
<1>1. req[t] \in Request /\ req[t] \notin NewRequest /\ Game(t) \in GameIds
      /\ req[t].op \in {"play", "save", "restore", "restart"}
  BY RequestFields DEF Shape, AtStage, Load, Game
<1>2. games[Game(t)] \in GameRow
  BY <1>1 DEF Shape, TypeOK, Load, Owns
<1>3. pc' = [pc EXCEPT ![t] = Loaded(req[t].op)] /\ copy' = [copy EXCEPT ![t] = games[Game(t)]]
      /\ UNCHANGED <<games, saves, owner, req, snap, submitted>>
  BY DEF Load, Proceed, tables
<1>4. Loaded(req[t].op) \in {"loadSave", "createSave", "store"}
  BY DEF Loaded
<1>5. TypeOK'
  BY <1>2, <1>3, <1>4 DEF Shape, TypeOK, PCs, BusyPCs, LockedPCs
<1>6. ASSUME NEW u \in Threads, u # t PROVE AtStage(u)' /\ HasLoaded(u)' /\ HoldsLock(u)'
  BY <1>3, <1>6, OthersKept DEF Shape, TypeOK
<1>7. pc'[t] = Loaded(req[t].op) /\ req'[t] = req[t] /\ copy'[t] = games[Game(t)]
  BY <1>3 DEF Shape, TypeOK
<1>8. AtStage(t)'
  BY <1>1, <1>4, <1>7, RequestFields DEF AtStage, Loaded
<1>9. HasLoaded(t)'
  BY <1>1, <1>2, <1>4, <1>7 DEF HasLoaded, Loaded, CopyPCs, Load, Over
<1>10. HoldsLock(t)'
  BY <1>3, <1>7 DEF Shape, HoldsLock, Key, Game, Load, LockedPCs
<1>11. QED
  BY <1>5, <1>6, <1>8, <1>9, <1>10 DEF Shape

\* What a turn, a restart or a restore is about to store has the types of columns.
LEMMA OutcomeType ==
    ASSUME Shape, NEW t \in Threads, pc[t] = "store", NEW over \in BOOLEAN,
           req[t].op = "play" => copy[t].state # NoState
    PROVE  LET new == Outcome(t, over) IN
           /\ new.state \in State \cup {NoState} /\ new.screen \in Seq(Commands)
           /\ new.turn \in Nat /\ new.halted \in BOOLEAN
<1>1. copy[t] \in GameRow /\ copy[t].story \in Stories
  BY DEF Shape, HasLoaded, CopyPCs, GameRow
<1>2. req[t] \in Request /\ req[t].op \in {"play", "restore", "restart"}
  BY DEF Shape, AtStage
<1>3. CASE req[t].op = "play"
  <2>1. Outcome(t, over) = Played(copy[t], req[t].cmd, over)
    BY <1>3 DEF Outcome
  <2>2. req[t].cmd \in Commands /\ ~copy[t].halted /\ copy[t].state # NoState
    BY <1>2, <1>3, RequestFields DEF Shape, HasLoaded, CopyPCs
  <2>3. QED
    BY <1>1, <2>1, <2>2, PlayedType
<1>4. CASE req[t].op = "restart"
  <2>1. Outcome(t, over) = Opening(copy[t].story, over)
    BY <1>4 DEF Outcome
  <2>2. QED
    BY <1>1, <2>1, OpeningType
<1>5. CASE req[t].op = "restore"
  <2>1. Outcome(t, over) = Restored(snap[t]) /\ snap[t] \in SaveRow
    BY <1>5 DEF Outcome, Shape, HasLoaded
  <2>2. QED
    BY <2>1, RestoredType
<1>6. QED
  BY <1>2, <1>3, <1>4, <1>5

\* Store and Note write a row, in the place of a row.
LEMMA StoreWrites ==
    ASSUME Shape, AllFaithful, NEW t \in Threads, Store(t)
    PROVE  /\ Game(t) \in GameIds /\ games[Game(t)] \in GameRow
           /\ \E new : /\ games' = [games EXCEPT ![Game(t)] = Updated(games[Game(t)], new)]
                       /\ Updated(games[Game(t)], new) \in GameRow
<1>1. Game(t) \in GameIds /\ games[Game(t)] \in GameRow
  BY RequestFields DEF Shape, TypeOK, AtStage, Store, Matches, Owns, Game
<1>2. req[t].op = "play" => copy[t].state # NoState
  BY NullAssumption DEF Shape, HasLoaded, AllFaithful, Faithful, Store, CopyPCs
<1>3. PICK over \in BOOLEAN : games' = [games EXCEPT ![Game(t)] = Updated(@, Outcome(t, over))]
  BY DEF Store
<1>4. Updated(games[Game(t)], Outcome(t, over)) \in GameRow
  BY <1>1, <1>2, OutcomeType, UpdatedType DEF Store
<1>5. QED
  BY <1>1, <1>3, <1>4

LEMMA NoteWrites ==
    ASSUME Shape, NEW t \in Threads, Note(t)
    PROVE  /\ Game(t) \in GameIds /\ games[Game(t)] \in GameRow
           /\ \E new : /\ games' = [games EXCEPT ![Game(t)] = Updated(games[Game(t)], new)]
                       /\ Updated(games[Game(t)], new) \in GameRow
<1>1. Game(t) \in GameIds /\ games[Game(t)] \in GameRow /\ copy[t] \in GameRow
  BY RequestFields DEF Shape, TypeOK, AtStage, HasLoaded, Note, Matches, Owns, Game, NameRequest, CopyPCs
<1>2. /\ copy[t].state \in State \cup {NoState} /\ copy[t].screen \in Seq(Commands)
      /\ copy[t].turn \in Nat /\ copy[t].halted \in BOOLEAN
  BY <1>1 DEF GameRow
<1>3. Updated(games[Game(t)], copy[t]) \in GameRow
  BY <1>1, <1>2, UpdatedType
<1>4. QED
  BY <1>1, <1>3 DEF Note

LEMMA StoreShape ==
    ASSUME Shape, AllFaithful, NEW t \in Threads, Store(t) \/ Note(t)
    PROVE  Shape'
<1>1. games' \in [GameIds -> GameRow \cup {NoRow}] /\ saves' \in [SaveIds -> SaveRow \cup {NoRow}]
  BY StoreWrites, NoteWrites DEF Store, Note, Shape, TypeOK
<1>2. pc[t] \in BusyPCs /\ Finish(t)
  BY DEF Store, Note, BusyPCs, LockedPCs
<1>3. QED
  BY <1>1, <1>2, FinishShape

\* The row CreateSave writes is a row of the saves table.
LEMMA SnapshotType ==
    ASSUME Shape, NEW t \in Threads, pc[t] = "createSave"
    PROVE  Snapshot(Game(t), req[t].name, copy[t]) \in SaveRow
<1>1. Game(t) \in GameIds /\ req[t].name \in Names
  BY DEF Shape, AtStage, NameRequest, Game
<1>2. copy[t] \in GameRow /\ copy[t].state \in State
  BY DEF Shape, AtStage, HasLoaded, CopyPCs, GameRow
<1>3. QED
  BY <1>1, <1>2 DEF Snapshot, SaveRow, GameRow

LEMMA CreateSaveShape ==
    ASSUME Shape, NEW t \in Threads, CreateSave(t) \/ CreateSaveLost(t)
    PROVE  Shape'
<1>1. pc' = [pc EXCEPT ![t] = "note"] /\ pc[t] = "createSave"
      /\ UNCHANGED <<games, owner, req, copy, snap, submitted>>
  BY DEF CreateSave, CreateSaveLost, Proceed, tables
<1>2. saves' \in [SaveIds -> SaveRow \cup {NoRow}]
  BY <1>1, SnapshotType DEF CreateSave, CreateSaveLost, Proceed, tables, Shape, TypeOK
<1>3. TypeOK'
  BY <1>1, <1>2 DEF Shape, TypeOK, PCs, BusyPCs, LockedPCs
<1>4. ASSUME NEW u \in Threads, u # t PROVE AtStage(u)' /\ HasLoaded(u)' /\ HoldsLock(u)'
  BY <1>1, <1>4, OthersKept DEF Shape, TypeOK
<1>5. pc'[t] = "note"
  BY <1>1 DEF Shape, TypeOK
<1>6. AtStage(t)' /\ HasLoaded(t)' /\ HoldsLock(t)'
  BY <1>1, <1>5 DEF Shape, AtStage, HasLoaded, HoldsLock, Key, Game, CopyPCs, LockedPCs
<1>7. QED
  BY <1>3, <1>4, <1>6 DEF Shape

LEMMA OwnsGameShape ==
    ASSUME Shape, NEW t \in Threads, OwnsGame(t)
    PROVE  Shape'
<1>1. UNCHANGED <<games, saves, owner, req, copy, snap, submitted>>
  BY DEF OwnsGame, Proceed, tables
<1>2. \/ pc[t] = "find" /\ pc' = [pc EXCEPT ![t] = "list"]
      \/ pc[t] = "loadSave" /\ pc' = [pc EXCEPT ![t] = "readSave"]
      \/ pc[t] = "loadDoomed" /\ pc' = [pc EXCEPT ![t] = "readDoomed"]
  BY DEF OwnsGame, Proceed, Owned
<1>3. TypeOK'
  BY <1>1, <1>2 DEF Shape, TypeOK, PCs, BusyPCs, LockedPCs
<1>4. ASSUME NEW u \in Threads, u # t PROVE AtStage(u)' /\ HasLoaded(u)' /\ HoldsLock(u)'
  BY <1>1, <1>2, <1>4, OthersKept DEF Shape, TypeOK
<1>5. AtStage(t)' /\ HasLoaded(t)'
  BY <1>1, <1>2 DEF Shape, TypeOK, AtStage, HasLoaded, CopyPCs
<1>6. HoldsLock(t)'
  BY <1>1, <1>2 DEF Shape, TypeOK, HoldsLock, Key, Game, LockedPCs
<1>7. QED
  BY <1>3, <1>4, <1>5, <1>6 DEF Shape

LEMMA FindShape ==
    ASSUME Shape, NEW t \in Threads, Find(t)
    PROVE  Shape'
<1>1. Game(t) \in GameIds /\ User(t) \in Users /\ pc[t] = "list"
  BY DEF Shape, AtStage, NameRequest, Game, User, Find
<1>2. PICK s \in SaveIds :
         req' = [req EXCEPT ![t] = [op |-> "restore", user |-> User(t), game |-> Game(t), save |-> s]]
  BY DEF Find, SavesOf, Shape, TypeOK
<1>3. pc' = [pc EXCEPT ![t] = "load"] /\ UNCHANGED <<games, saves, owner, copy, snap, submitted>>
  BY DEF Find, Proceed, tables
<1>4. req'[t] = [op |-> "restore", user |-> User(t), game |-> Game(t), save |-> s] /\ pc'[t] = "load"
  BY <1>2, <1>3 DEF Shape, TypeOK
<1>5. req'[t] \in SaveIdRequest /\ req'[t].op = "restore" /\ req'[t].game = Game(t)
  BY <1>1, <1>4 DEF SaveIdRequest
<1>6. req'[t] \in Request \ NewRequest
  BY <1>5 DEF Request, NewRequest
<1>7. TypeOK'
  <2>1. req' \in [Threads -> Request \cup {NoRequest}]
    BY <1>2, <1>4, <1>6 DEF Shape, TypeOK
  <2>2. QED
    BY <1>3, <2>1 DEF Shape, TypeOK, PCs, BusyPCs, LockedPCs
<1>8. ASSUME NEW u \in Threads, u # t PROVE AtStage(u)' /\ HasLoaded(u)' /\ HoldsLock(u)'
  BY <1>2, <1>3, <1>8, OthersKept DEF Shape, TypeOK
<1>9. AtStage(t)' /\ HasLoaded(t)' /\ HoldsLock(t)'
  BY <1>1, <1>3, <1>4, <1>5, <1>6 DEF Shape, AtStage, HasLoaded, HoldsLock, Key, Game, CopyPCs, LockedPCs
<1>10. QED
  BY <1>7, <1>8, <1>9 DEF Shape

LEMMA LoadSaveShape ==
    ASSUME Shape, NEW t \in Threads, LoadSave(t) \/ LoadDoomed(t)
    PROVE  Shape'
<1>1. req[t] \in SaveIdRequest /\ req[t].save \in SaveIds
  BY DEF Shape, AtStage, SaveIdRequest, LoadSave, LoadDoomed
<1>2. saves[req[t].save] \in SaveRow
  BY <1>1 DEF Shape, TypeOK, LoadSave, LoadDoomed, InGame
<1>3. snap' = [snap EXCEPT ![t] = saves[req[t].save]] /\ UNCHANGED <<games, saves, owner, req, copy, submitted>>
  BY DEF LoadSave, LoadDoomed, Proceed, tables
<1>4. \/ pc[t] = "readSave" /\ pc' = [pc EXCEPT ![t] = "store"]
      \/ pc[t] = "readDoomed" /\ pc' = [pc EXCEPT ![t] = "deleteDoomed"]
  BY DEF LoadSave, LoadDoomed, Proceed
<1>5. TypeOK'
  BY <1>2, <1>3, <1>4 DEF Shape, TypeOK, PCs, BusyPCs, LockedPCs
<1>6. ASSUME NEW u \in Threads, u # t PROVE AtStage(u)' /\ HasLoaded(u)' /\ HoldsLock(u)'
  BY <1>3, <1>4, <1>6, OthersKept DEF Shape, TypeOK
<1>7. AtStage(t)'
  BY <1>1, <1>3, <1>4 DEF Shape, TypeOK, AtStage, Request, NewRequest, SaveIdRequest
<1>8. HasLoaded(t)'
  BY <1>2, <1>3, <1>4 DEF Shape, TypeOK, AtStage, HasLoaded, CopyPCs
<1>9. HoldsLock(t)'
  BY <1>3, <1>4 DEF Shape, TypeOK, HoldsLock, Key, Game, LockedPCs
<1>10. QED
  BY <1>5, <1>6, <1>7, <1>8, <1>9 DEF Shape

LEMMA DeleteShape ==
    ASSUME Shape, NEW t \in Threads, Delete(t) \/ DeleteDoomed(t)
    PROVE  Shape'
<1>1. games' \in [GameIds -> GameRow \cup {NoRow}] /\ saves' \in [SaveIds -> SaveRow \cup {NoRow}]
  BY DEF Shape, TypeOK, Delete, DeleteDoomed, Cascaded
<1>2. pc[t] \in BusyPCs
  BY DEF Delete, DeleteDoomed, BusyPCs, LockedPCs
<1>3. QED
  BY <1>1, <1>2, FinishShape DEF Delete, DeleteDoomed

LEMMA CrashShape ==
    ASSUME Shape, NEW p \in Processes, Crash(p)
    PROVE  Shape'
<1>1. TypeOK'
  BY ThreadAssumption DEF Shape, TypeOK, Crash, PCs, tables
<1>2. ASSUME NEW u \in Threads, procOf[u] = p PROVE AtStage(u)' /\ HasLoaded(u)' /\ HoldsLock(u)'
  BY <1>2 DEF Crash, AtStage, HasLoaded, HoldsLock, CopyPCs, LockedPCs
<1>3. ASSUME NEW u \in Threads, procOf[u] # p PROVE AtStage(u)' /\ HasLoaded(u)' /\ HoldsLock(u)'
  <2>1. pc'[u] = pc[u] /\ req'[u] = req[u] /\ copy'[u] = copy[u] /\ snap'[u] = snap[u]
    BY <1>3 DEF Crash
  <2>2. AtStage(u)' /\ HasLoaded(u)'
    BY <2>1 DEF Shape, AtStage, HasLoaded
  <2>3. pc[u] \in LockedPCs => Key(u) \in Processes \X GameIds
    BY RequestFields, ThreadAssumption DEF Shape, AtStage, Key, Game, LockedPCs, NameRequest, SaveIdRequest, GameRequest
  <2>4. Key(u)' = Key(u) /\ Key(u)[1] # p
    BY <1>3, <2>1 DEF Key, Game
  <2>5. HoldsLock(u)'
    BY <2>1, <2>3, <2>4 DEF Shape, HoldsLock, Crash
  <2>6. QED
    BY <2>2, <2>5
<1>4. QED
  BY <1>1, <1>2, <1>3 DEF Shape

LEMMA StutterShape == ASSUME Shape, UNCHANGED vars PROVE Shape'
BY DEF Shape, vars, TypeOK, AtStage, HasLoaded, HoldsLock, Key, Game

----------------------------------------------------------------------------
\* A game's opening, a turn of a faithful session and the restore of a faithful
\* save are faithful, and a faithful session is saved as a faithful save.
LEMMA OpeningFaithful ==
    ASSUME NEW story \in Stories, NEW over \in BOOLEAN
    PROVE  Faithful(Opening(story, over))
<1>1. [story |-> story, path |-> << >>] \in State
  BY DEF State
<1>2. [story |-> story, path |-> << >>] # NoState
  BY <1>1, NullAssumption
<1>3. QED
  BY <1>2 DEF Opening, Faithful

LEMMA PlayedFaithful ==
    ASSUME NEW row \in GameRow, Faithful(row), ~row.halted, NEW cmd \in Commands, NEW over \in BOOLEAN
    PROVE  Faithful(Played(row, cmd, over))
<1>1. row.state \in State /\ row.screen \in Seq(Commands) /\ row.story \in Stories
      /\ row.state.path = row.screen /\ row.turn = Len(row.screen)
  BY DEF GameRow, Faithful
<1>2. Append(row.screen, cmd) \in Seq(Commands) /\ Len(Append(row.screen, cmd)) = Len(row.screen) + 1
  BY <1>1
<1>3. [story |-> row.story, path |-> Append(row.screen, cmd)] \in State
  BY <1>1, <1>2 DEF State
<1>4. [story |-> row.story, path |-> Append(row.screen, cmd)] # NoState
  BY <1>3, NullAssumption
<1>5. Played(row, cmd, over) =
        [state |-> IF over THEN NoState ELSE [story |-> row.story, path |-> Append(row.screen, cmd)],
         screen |-> Append(row.screen, cmd), turn |-> Len(row.screen) + 1, halted |-> over]
  BY <1>1 DEF Played
<1>6. QED
  BY <1>2, <1>4, <1>5 DEF Faithful

LEMMA RestoredFaithful ==
    ASSUME NEW save \in SaveRow, FaithfulSave(save)
    PROVE  Faithful(Restored(save))
<1>1. save.state \in State /\ save.state # NoState
  BY NullAssumption DEF SaveRow
<1>2. QED
  BY <1>1 DEF Restored, Faithful, FaithfulSave

LEMMA SnapshotFaithful ==
    ASSUME NEW row \in GameRow, Faithful(row), row.state # NoState, NEW g, NEW name
    PROVE  FaithfulSave(Snapshot(g, name, row))
<1>1. ~row.halted /\ row.state.path = row.screen /\ row.turn = Len(row.screen)
  BY DEF Faithful, GameRow
<1>2. QED
  BY <1>1 DEF Snapshot, FaithfulSave

\* Writing a row changes its version and nothing Faithful looks at.
LEMMA UpdatedFaithful ==
    ASSUME NEW row, NEW new, Faithful(new)
    PROVE  Faithful(Updated(row, new))
BY DEF Updated, Faithful

LEMMA InsertedFaithful ==
    ASSUME NEW user, NEW story, NEW new, Faithful(new)
    PROVE  Faithful(Inserted(user, story, new))
BY DEF Inserted, Faithful

LEMMA OutcomeFaithful ==
    ASSUME Shape, AllFaithful, NEW t \in Threads, pc[t] = "store", NEW over \in BOOLEAN
    PROVE  Faithful(Outcome(t, over))
<1>1. copy[t] \in GameRow /\ copy[t] # NoRow /\ copy[t].story \in Stories /\ Faithful(copy[t])
  BY NullAssumption DEF Shape, HasLoaded, CopyPCs, GameRow, AllFaithful
<1>2. req[t] \in Request /\ req[t].op \in {"play", "restore", "restart"}
  BY DEF Shape, AtStage
<1>3. CASE req[t].op = "play"
  <2>1. Outcome(t, over) = Played(copy[t], req[t].cmd, over)
    BY <1>3 DEF Outcome
  <2>2. req[t].cmd \in Commands /\ ~copy[t].halted
    BY <1>2, <1>3, RequestFields DEF Shape, HasLoaded, CopyPCs
  <2>3. QED
    BY <1>1, <2>1, <2>2, PlayedFaithful
<1>4. CASE req[t].op = "restart"
  <2>1. Outcome(t, over) = Opening(copy[t].story, over)
    BY <1>4 DEF Outcome
  <2>2. QED
    BY <1>1, <2>1, OpeningFaithful
<1>5. CASE req[t].op = "restore"
  <2>1. Outcome(t, over) = Restored(snap[t]) /\ snap[t] \in SaveRow /\ snap[t] # NoRow
    BY <1>5, NullAssumption DEF Outcome, Shape, HasLoaded
  <2>2. QED
    BY <2>1, RestoredFaithful DEF AllFaithful
<1>6. QED
  BY <1>2, <1>3, <1>4, <1>5

\* A step keeps everything faithful if the rows it writes are, and what its
\* goroutine loads comes from the tables.
LEMMA FaithfulStep ==
    ASSUME Shape, AllFaithful,
           \A g \in GameIds : games'[g] = games[g] \/ games'[g] = NoRow \/ Faithful(games'[g]),
           \A s \in SaveIds : saves'[s] = saves[s] \/ saves'[s] = NoRow \/ FaithfulSave(saves'[s]),
           \A u \in Threads : copy'[u] = copy[u] \/ copy'[u] = NoRow \/ \E g \in GameIds : copy'[u] = games[g],
           \A u \in Threads : snap'[u] = snap[u] \/ snap'[u] = NoRow \/ \E s \in SaveIds : snap'[u] = saves[s]
    PROVE  AllFaithful'
<1>1. \A g \in GameIds : games'[g] # NoRow => Faithful(games'[g])
  BY DEF AllFaithful, ScreenMatchesState
<1>2. \A s \in SaveIds : saves'[s] # NoRow => FaithfulSave(saves'[s])
  BY DEF AllFaithful, ScreenMatchesState
<1>3. \A u \in Threads : copy'[u] # NoRow => Faithful(copy'[u])
  BY DEF AllFaithful, ScreenMatchesState
<1>4. \A u \in Threads : snap'[u] # NoRow => FaithfulSave(snap'[u])
  BY DEF AllFaithful, ScreenMatchesState
<1>5. QED
  BY <1>1, <1>2, <1>3, <1>4 DEF AllFaithful, ScreenMatchesState, Faithful, FaithfulSave

\* Nothing a request loaded survives its end.
LEMMA FinishLoads ==
    ASSUME Shape, NEW t \in Threads, Finish(t)
    PROVE  /\ \A u \in Threads : copy'[u] = copy[u] \/ copy'[u] = NoRow
           /\ \A u \in Threads : snap'[u] = snap[u] \/ snap'[u] = NoRow
BY DEF Shape, TypeOK, Finish

LEMMA StepFaithful ==
    ASSUME Shape, AllFaithful, NEW t \in Threads, Step(t)
    PROVE  AllFaithful'
<1>1. CASE Create(t)
  <2>1. PICK g \in GameIds, over \in BOOLEAN :
           games' = [games EXCEPT ![g] = Inserted(User(t), req[t].story, Opening(req[t].story, over))]
    BY <1>1 DEF Create
  <2>2. Faithful(Inserted(User(t), req[t].story, Opening(req[t].story, over)))
    BY <1>1, OpeningFaithful, InsertedFaithful DEF Shape, AtStage, Create, NewRequest
  <2>3. \A h \in GameIds : games'[h] = games[h] \/ Faithful(games'[h])
    BY <2>1, <2>2 DEF Shape, TypeOK
  <2>4. QED
    BY <1>1, <2>3, FaithfulStep, FinishLoads DEF Create
<1>2. CASE Load(t)
  <2>1. Game(t) \in GameIds
    BY <1>2, RequestFields DEF Shape, AtStage, Load, Game
  <2>2. \A u \in Threads : copy'[u] = copy[u] \/ \E g \in GameIds : copy'[u] = games[g]
    BY <1>2, <2>1 DEF Shape, TypeOK, Load
  <2>3. UNCHANGED <<games, saves, snap>>
    BY <1>2 DEF Load, Proceed, tables
  <2>4. QED
    BY <2>2, <2>3, FaithfulStep
<1>3. CASE Store(t)
  <2>1. PICK over \in BOOLEAN : games' = [games EXCEPT ![Game(t)] = Updated(@, Outcome(t, over))]
    BY <1>3 DEF Store
  <2>2. Faithful(Updated(games[Game(t)], Outcome(t, over)))
    BY <1>3, OutcomeFaithful, UpdatedFaithful DEF Store
  <2>3. \A h \in GameIds : games'[h] = games[h] \/ Faithful(games'[h])
    BY <2>1, <2>2 DEF Shape, TypeOK
  <2>4. QED
    BY <1>3, <2>3, FaithfulStep, FinishLoads DEF Store
<1>4. CASE CreateSave(t)
  <2>1. copy[t] \in GameRow /\ Faithful(copy[t]) /\ copy[t].state # NoState
    BY <1>4, NullAssumption DEF Shape, AtStage, HasLoaded, CopyPCs, AllFaithful, CreateSave
  <2>2. FaithfulSave(Snapshot(Game(t), req[t].name, copy[t]))
    BY <2>1, SnapshotFaithful
  <2>3. \A s \in SaveIds : saves'[s] = saves[s] \/ FaithfulSave(saves'[s])
    BY <1>4, <2>2 DEF CreateSave, Shape, TypeOK
  <2>4. UNCHANGED <<games, copy, snap>>
    BY <1>4 DEF CreateSave
  <2>5. QED
    BY <2>3, <2>4, FaithfulStep
<1>5. CASE CreateSaveLost(t)
  BY <1>5, FaithfulStep DEF CreateSaveLost, Proceed, tables
<1>6. CASE Note(t)
  <2>1. Faithful(copy[t])
    BY <1>6, NullAssumption DEF Shape, HasLoaded, CopyPCs, AllFaithful, Note
  <2>2. Faithful(Updated(games[Game(t)], copy[t]))
    BY <2>1, UpdatedFaithful
  <2>3. \A h \in GameIds : games'[h] = games[h] \/ Faithful(games'[h])
    BY <1>6, <2>2 DEF Note, Shape, TypeOK
  <2>4. QED
    BY <1>6, <2>3, FaithfulStep, FinishLoads DEF Note
<1>7. CASE OwnsGame(t) \/ Find(t)
  BY <1>7, FaithfulStep DEF OwnsGame, Find, Proceed, tables
<1>8. CASE LoadSave(t) \/ LoadDoomed(t)
  <2>1. req[t].save \in SaveIds
    BY <1>8 DEF Shape, AtStage, SaveIdRequest, LoadSave, LoadDoomed
  <2>2. \A u \in Threads : snap'[u] = snap[u] \/ \E s \in SaveIds : snap'[u] = saves[s]
    BY <1>8, <2>1 DEF Shape, TypeOK, LoadSave, LoadDoomed
  <2>3. UNCHANGED <<games, saves, copy>>
    BY <1>8 DEF LoadSave, LoadDoomed, Proceed, tables
  <2>4. QED
    BY <2>2, <2>3, FaithfulStep
<1>9. CASE Delete(t)
  <2>1. \A g \in GameIds : games'[g] = games[g] \/ games'[g] = NoRow
    BY <1>9 DEF Delete, Shape, TypeOK
  <2>2. \A s \in SaveIds : saves'[s] = saves[s] \/ saves'[s] = NoRow
    BY <1>9 DEF Delete, Cascaded, Shape, TypeOK
  <2>3. QED
    BY <1>9, <2>1, <2>2, FaithfulStep, FinishLoads DEF Delete
<1>10. CASE DeleteDoomed(t)
  <2>1. \A s \in SaveIds : saves'[s] = saves[s] \/ saves'[s] = NoRow
    BY <1>10 DEF DeleteDoomed, Shape, TypeOK
  <2>2. QED
    BY <1>10, <2>1, FaithfulStep, FinishLoads DEF DeleteDoomed
<1>11. CASE Fail(t)
  BY <1>11, FaithfulStep, FinishLoads DEF Fail, tables
<1>12. QED
  BY <1>1, <1>2, <1>3, <1>4, <1>5, <1>6, <1>7, <1>8, <1>9, <1>10, <1>11 DEF Step

----------------------------------------------------------------------------
\* The invariant everything else rests on.
Inv == Shape /\ AllFaithful

LEMMA InitInv == Init => Inv
<1>1. Init => AllFaithful
  BY DEF Init, AllFaithful, ScreenMatchesState
<1>2. QED
  BY <1>1, InitShape DEF Inv

LEMMA NextInv == ASSUME Inv, [Next]_vars PROVE Inv'
<1>1. ASSUME NEW t \in Threads, NEW r \in Request, Submit(t, r) PROVE Inv'
  <2>1. AllFaithful'
    BY <1>1, FaithfulStep DEF Inv, Submit, tables
  <2>2. QED
    BY <1>1, <2>1, SubmitShape DEF Inv
<1>2. ASSUME NEW t \in Threads, Lock(t) PROVE Inv'
  <2>1. AllFaithful'
    BY <1>2, FaithfulStep DEF Inv, Lock, tables
  <2>2. QED
    BY <1>2, <2>1, LockShape DEF Inv
<1>3. ASSUME NEW t \in Threads, Unlock(t) PROVE Inv'
  <2>1. AllFaithful'
    BY <1>3, FaithfulStep DEF Inv, Unlock, tables
  <2>2. QED
    BY <1>3, <2>1, UnlockShape DEF Inv
<1>4. ASSUME NEW t \in Threads, Step(t) PROVE Inv'
  <2>1. Shape'
    BY <1>4, CreateShape, LoadShape, StoreShape, CreateSaveShape, OwnsGameShape, FindShape,
       LoadSaveShape, DeleteShape, FailShape DEF Inv, Step
  <2>2. QED
    BY <1>4, <2>1, StepFaithful DEF Inv
<1>5. ASSUME NEW p \in Processes, Crash(p) PROVE Inv'
  <2>1. AllFaithful'
    BY <1>5, FaithfulStep DEF Inv, Crash, tables
  <2>2. QED
    BY <1>5, <2>1, CrashShape DEF Inv
<1>6. CASE UNCHANGED vars
  <2>1. AllFaithful'
    BY <1>6, FaithfulStep DEF Inv, vars
  <2>2. QED
    BY <1>6, <2>1, StutterShape DEF Inv
<1>7. QED
  BY <1>1, <1>2, <1>3, <1>4, <1>5, <1>6 DEF Next, Quiet

\* Requests stay at the steps their kind has, with what those steps need.
THEOREM Invariance == Spec => []Inv
BY InitInv, NextInv, PTL DEF Spec

\* Every reachable state of the service and its tables is well typed; above all,
\* no row that is not over is ever stored without a state.
THEOREM TypeCorrect == Spec => []TypeOK
BY Invariance, PTL DEF Inv, Shape

\* State, screen and turn count of every game and every save stay in step, with
\* any number of processes and whatever fails or crashes.
THEOREM ScreensFaithful == Spec => []ScreenMatchesState
BY Invariance, PTL DEF Inv, AllFaithful

----------------------------------------------------------------------------
\* Only a goroutine past its lock step writes to a game that exists, to the game
\* it locked, and unless it deletes the game it takes the version one further.
WritesGame(t, g) ==
    /\ pc[t] \in {"store", "note", "delete"}
    /\ Game(t) = g
    /\ pc'[t] = "unlock"
    /\ pc[t] # "delete" => games'[g] \in GameRow /\ games'[g].version = games[g].version + 1

LEMMA GameWriters ==
    ASSUME Inv, Inv', [Next]_vars, NEW g \in GameIds, games[g] # NoRow, games'[g] # games[g]
    PROVE  \E t \in Threads : WritesGame(t, g)
<1>1. ASSUME NEW t \in Threads, Create(t) PROVE FALSE
  <2>1. PICK h \in GameIds : IsNextRow(games, h) /\ \A i \in GameIds \ {h} : games'[i] = games[i]
    BY <1>1 DEF Create, Inv, Shape, TypeOK
  <2>2. h = g
    BY <2>1
  <2>3. g < g
    BY <2>1, <2>2 DEF IsNextRow, Inv, Shape, TypeOK
  <2>4. QED
    BY <2>3, RowAssumption
<1>2. ASSUME NEW t \in Threads, Store(t) \/ Note(t) PROVE WritesGame(t, g)
  <2>1. pc[t] \in {"store", "note"} /\ pc'[t] = "unlock"
    BY <1>2 DEF Store, Note, Finish, LockedPCs, Inv, Shape, TypeOK
  <2>2. PICK new : /\ games' = [games EXCEPT ![Game(t)] = Updated(games[Game(t)], new)]
                   /\ Updated(games[Game(t)], new) \in GameRow
    BY <1>2, StoreWrites, NoteWrites DEF Inv
  <2>3. Game(t) = g
    BY <2>2 DEF Inv, Shape, TypeOK
  <2>4. games'[g] = Updated(games[g], new) /\ games'[g] \in GameRow
    BY <2>2, <2>3 DEF Inv, Shape, TypeOK
  <2>5. games'[g].version = games[g].version + 1
    BY <2>4 DEF Updated
  <2>6. QED
    BY <2>1, <2>3, <2>4, <2>5 DEF WritesGame
<1>3. ASSUME NEW t \in Threads, Delete(t) PROVE WritesGame(t, g)
  BY <1>3 DEF Delete, Finish, LockedPCs, Inv, Shape, TypeOK, WritesGame
<1>4. ASSUME games' = games PROVE FALSE
  BY <1>4
<1>5. ASSUME NEW t \in Threads, Step(t) PROVE WritesGame(t, g)
  BY <1>1, <1>2, <1>3, <1>4, <1>5 DEF Step, Load, CreateSave, CreateSaveLost, OwnsGame, Find, LoadSave, LoadDoomed,
     DeleteDoomed, Fail, Proceed, tables
<1>6. ASSUME NEW t \in Threads, NEW r \in Request, Submit(t, r) PROVE FALSE
  BY <1>4, <1>6 DEF Submit, tables
<1>7. ASSUME NEW t \in Threads, Lock(t) \/ Unlock(t) PROVE FALSE
  BY <1>4, <1>7 DEF Lock, Unlock, tables
<1>8. ASSUME NEW p \in Processes, Crash(p) PROVE FALSE
  BY <1>4, <1>8 DEF Crash, tables
<1>9. ~UNCHANGED vars
  BY <1>4 DEF vars
<1>10. QED
  BY <1>5, <1>6, <1>7, <1>8, <1>9 DEF Next, Quiet

\* A goroutine that has a copy of its session after a step has just loaded it, or
\* has the copy and the request it had before.
Reloaded(u) == pc[u] = "load" /\ games' = games /\ copy'[u] = games[Game(u)] /\ copy'[u] # NoRow /\ req'[u] = req[u]
Keeps(u) == pc[u] \in CopyPCs /\ copy'[u] = copy[u] /\ req'[u] = req[u]

LEMMA CopyKept ==
    ASSUME Inv, [Next]_vars, NEW u \in Threads, pc'[u] \in CopyPCs
    PROVE  Reloaded(u) \/ Keeps(u)
<1>1. ASSUME UNCHANGED <<pc[u], copy[u], req[u]>> PROVE Keeps(u)
  BY <1>1 DEF Keeps
<1>2. ASSUME NEW t \in Threads, NEW r \in Request, Submit(t, r) PROVE Keeps(u)
  BY <1>1, <1>2 DEF Submit, Entry, CopyPCs, Inv, Shape, TypeOK
<1>3. ASSUME NEW t \in Threads, Lock(t) PROVE Keeps(u)
  BY <1>1, <1>3 DEF Lock, Locked, CopyPCs, Inv, Shape, TypeOK
<1>4. ASSUME NEW t \in Threads, Unlock(t) PROVE Keeps(u)
  BY <1>1, <1>4 DEF Unlock, CopyPCs, Inv, Shape, TypeOK
<1>5. ASSUME NEW t \in Threads, Step(t) PROVE Reloaded(u) \/ Keeps(u)
  <2>1. ASSUME t # u PROVE Keeps(u)
    BY <1>1, <1>5, <2>1 DEF Step, Create, Load, Store, CreateSave, CreateSaveLost, Note, OwnsGame, Owned, Find, LoadSave, Delete,
       LoadDoomed, DeleteDoomed, Fail, Finish, Proceed, Inv, Shape, TypeOK
  <2>2. ASSUME Finish(u) PROVE FALSE
    BY <2>2 DEF Finish, CopyPCs, Inv, Shape, TypeOK
  <2>3. ASSUME Load(u) PROVE Reloaded(u)
    BY <2>3 DEF Load, Owns, Proceed, tables, Reloaded, Inv, Shape, TypeOK
  <2>4. ASSUME OwnsGame(u) \/ LoadSave(u) \/ CreateSave(u) \/ CreateSaveLost(u) PROVE Keeps(u)
    BY <2>4 DEF OwnsGame, Owned, LoadSave, CreateSave, CreateSaveLost, Proceed, CopyPCs, Keeps, Inv, Shape, TypeOK
  <2>5. ~Find(u) /\ ~LoadDoomed(u)
    BY DEF Find, LoadDoomed, Proceed, CopyPCs, Inv, Shape, TypeOK
  <2>6. QED
    BY <1>5, <2>1, <2>2, <2>3, <2>4, <2>5 DEF Step, Create, Store, Note, Delete, DeleteDoomed, Fail
<1>6. ASSUME NEW p \in Processes, Crash(p) PROVE Keeps(u)
  BY <1>1, <1>6 DEF Crash, CopyPCs
<1>7. CASE UNCHANGED vars
  BY <1>1, <1>7 DEF vars
<1>8. QED
  BY <1>2, <1>3, <1>4, <1>5, <1>6, <1>7 DEF Next, Quiet

----------------------------------------------------------------------------
\* Every goroutine runs in one process.
OneProcessOnly == \A t, u \in Threads : procOf[t] = procOf[u]

LEMMA CycleStep ==
    ASSUME OneProcessOnly, Inv, Inv', LockCoversCycle, [Next]_vars
    PROVE  LockCoversCycle'
<1> SUFFICES ASSUME NEW u \in Threads, pc'[u] \in CopyPCs
             PROVE  games'[Game(u)'] = copy'[u]
  BY DEF LockCoversCycle
<1>1. CASE Reloaded(u)
  BY <1>1 DEF Reloaded, Game
<1>2. CASE Keeps(u)
  <2>1. games[Game(u)] = copy[u] /\ Game(u)' = Game(u)
    BY <1>2 DEF Keeps, LockCoversCycle, Game
  <2>2. copy[u] # NoRow /\ Game(u) \in GameIds
    BY <1>2, RequestFields, NullAssumption DEF Keeps, Inv, Shape, HasLoaded, AtStage, CopyPCs, NameRequest, SaveIdRequest, Game
  <2>3. ASSUME NEW t \in Threads, WritesGame(t, Game(u)) PROVE FALSE
    <3>1. Key(t) = Key(u)
      BY <2>3 DEF WritesGame, OneProcessOnly, Key
    <3>2. owner[Key(t)] = t /\ owner[Key(u)] = u
      BY <1>2, <2>3 DEF WritesGame, Keeps, Inv, Shape, HoldsLock, LockedPCs, CopyPCs
    <3>3. pc'[u] = "unlock"
      BY <2>3, <3>1, <3>2 DEF WritesGame
    <3>4. QED
      BY <3>3 DEF CopyPCs
  <2>4. games'[Game(u)] = games[Game(u)]
    BY <2>1, <2>2, <2>3, GameWriters
  <2>5. QED
    BY <1>2, <2>1, <2>4 DEF Keeps
<1>3. QED
  BY <1>1, <1>2, CopyKept

\* One process on its database: between the Load of a cycle and its write the row
\* does not change, because every other writer of it waits for the same lock.
THEOREM LockCovers ==
    ASSUME OneProcessOnly PROVE Spec => []LockCoversCycle
<1>1. Init => LockCoversCycle
  BY DEF Init, LockCoversCycle, CopyPCs
<1>2. QED
  BY <1>1, CycleStep, Invariance, PTL DEF Spec

----------------------------------------------------------------------------
\* Where no game is deleted no identifier is handed out twice, so that an
\* unchanged version means an unchanged row, whoever else writes.
NoDeletes == \A t \in Threads : pc[t] # "delete" /\ (pc[t] = "lock" => req[t].op # "delete")

VersionsTell ==
    \A t \in Threads : pc[t] \in CopyPCs =>
        LET row == games[Game(t)] IN
        /\ row # NoRow
        /\ row.version >= copy[t].version
        /\ row.version = copy[t].version => row = copy[t]

LEMMA NoDeletesStep ==
    ASSUME "delete" \notin Ops, Inv, NoDeletes, [Next]_vars
    PROVE  NoDeletes'
<1> SUFFICES ASSUME NEW u \in Threads
             PROVE  pc'[u] # "delete" /\ (pc'[u] = "lock" => req'[u].op # "delete")
  BY DEF NoDeletes
<1>1. ASSUME UNCHANGED <<pc[u], req[u]>> PROVE pc'[u] # "delete" /\ (pc'[u] = "lock" => req'[u].op # "delete")
  BY <1>1 DEF NoDeletes
<1>2. ASSUME NEW t \in Threads, NEW r \in Request, r.op \in Ops, Submit(t, r)
      PROVE  pc'[u] # "delete" /\ (pc'[u] = "lock" => req'[u].op # "delete")
  BY <1>1, <1>2 DEF Submit, Entry, Inv, Shape, TypeOK
<1>3. ASSUME NEW t \in Threads, Lock(t)
      PROVE  pc'[u] # "delete" /\ (pc'[u] = "lock" => req'[u].op # "delete")
  BY <1>1, <1>3 DEF Lock, Locked, NoDeletes, Inv, Shape, TypeOK
<1>4. ASSUME NEW t \in Threads, Unlock(t) \/ Step(t)
      PROVE  pc'[u] # "delete" /\ (pc'[u] = "lock" => req'[u].op # "delete")
  <2>1. CASE t = u
    <3>1. pc'[u] \notin {"delete", "lock"}
      BY <1>4, <2>1 DEF Unlock, Step, Create, Load, Loaded, Store, CreateSave, CreateSaveLost, Note, OwnsGame, Owned, Find, LoadSave,
         Delete, LoadDoomed, DeleteDoomed, Fail, Finish, Proceed, Inv, Shape, TypeOK
    <3>2. QED
      BY <3>1
  <2>2. CASE t # u
    BY <1>1, <1>4, <2>2 DEF Unlock, Step, Create, Load, Store, CreateSave, CreateSaveLost, Note, OwnsGame, Owned, Find, LoadSave,
       Delete, LoadDoomed, DeleteDoomed, Fail, Finish, Proceed, Inv, Shape, TypeOK
  <2>3. QED
    BY <2>1, <2>2
<1>5. ASSUME NEW p \in Processes, Crash(p)
      PROVE  pc'[u] # "delete" /\ (pc'[u] = "lock" => req'[u].op # "delete")
  BY <1>1, <1>5 DEF Crash
<1>6. CASE UNCHANGED vars
  BY <1>1, <1>6 DEF vars
<1>7. QED
  BY <1>2, <1>3, <1>4, <1>5, <1>6 DEF Next, Quiet

LEMMA VersionsStep ==
    ASSUME Inv, Inv', NoDeletes, VersionsTell, [Next]_vars
    PROVE  VersionsTell'
<1> SUFFICES ASSUME NEW u \in Threads, pc'[u] \in CopyPCs
             PROVE  LET row == games'[Game(u)'] IN
                    /\ row # NoRow
                    /\ row.version >= copy'[u].version
                    /\ row.version = copy'[u].version => row = copy'[u]
  BY DEF VersionsTell
<1>1. CASE Reloaded(u)
  <2>1. copy'[u] \in GameRow
    BY <1>1 DEF Reloaded, Inv, Shape, TypeOK
  <2>2. copy'[u].version \in Nat
    BY <2>1 DEF GameRow
  <2>3. QED
    BY <1>1, <2>2 DEF Reloaded, Game
<1>2. CASE Keeps(u)
  <2> DEFINE row == games[Game(u)]
  <2>1. Game(u)' = Game(u) /\ copy'[u] = copy[u]
    BY <1>2 DEF Keeps, Game
  <2>2. row # NoRow /\ row.version >= copy[u].version /\ (row.version = copy[u].version => row = copy[u])
    BY <1>2 DEF Keeps, VersionsTell
  <2>3. copy[u] \in GameRow /\ Game(u) \in GameIds
    BY <1>2, RequestFields DEF Keeps, Inv, Shape, HasLoaded, AtStage, CopyPCs, NameRequest, SaveIdRequest, Game
  <2>4. row \in GameRow
    BY <2>2, <2>3 DEF Inv, Shape, TypeOK
  <2>5. row.version \in Nat /\ copy[u].version \in Nat
    BY <2>3, <2>4 DEF GameRow
  <2>6. CASE games'[Game(u)] # row
    <3>1. PICK t \in Threads : WritesGame(t, Game(u))
      BY <2>2, <2>3, <2>6, GameWriters
    <3>2. games'[Game(u)] \in GameRow /\ games'[Game(u)].version = row.version + 1
      BY <3>1 DEF WritesGame, NoDeletes
    <3>3. games'[Game(u)].version > copy[u].version
      BY <2>2, <2>5, <3>2
    <3>4. QED
      BY <2>1, <2>5, <3>2, <3>3, NullAssumption
  <2>7. QED
    BY <2>1, <2>2, <2>6
<1>3. QED
  BY <1>1, <1>2, CopyKept

\* What a goroutine that writes at the end of a turn or a save overwrites.
LEMMA StoreOrNote ==
    ASSUME Inv, [Next]_vars, NEW t \in Threads, pc[t] \in {"store", "note"}, games' # games, pc'[t] # pc[t]
    PROVE  Matches(games, User(t), Game(t), copy[t].version)
<1>1. ASSUME NEW u \in Threads, Step(u) PROVE Matches(games, User(t), Game(t), copy[t].version)
  <2>1. u = t
    BY <1>1 DEF Step, Create, Load, Store, CreateSave, CreateSaveLost, Note, OwnsGame, Owned, Find, LoadSave, Delete,
       LoadDoomed, DeleteDoomed, Fail, Finish, Proceed, Inv, Shape, TypeOK
  <2>2. QED
    BY <1>1, <2>1 DEF Step, Create, Load, Store, CreateSave, CreateSaveLost, Note, OwnsGame, Owned, Find, LoadSave, Delete,
       LoadDoomed, DeleteDoomed, Fail, tables
<1>2. QED
  BY <1>1 DEF Next, Submit, Lock, Unlock, Crash, Quiet, vars, tables

\* A turn, restart, restore or note that is written overwrites the row it was
\* worked out from: in one process because the lock covers the cycle, in several
\* because the version is part of the UPDATE's condition, as long as no game is
\* deleted (a deleted game's identifier, and its version 1, are handed out again).
THEOREM ConditionalWrite ==
    ASSUME OneProcessOnly \/ "delete" \notin Ops
    PROVE  Spec => OverwritesWhatItRead
<1>1. CASE OneProcessOnly
  <2>1. ASSUME LockCoversCycle, [Next]_vars
        PROVE  [\A t \in Threads :
                  pc[t] \in {"store", "note"} /\ games' # games /\ pc'[t] # pc[t] => games[Game(t)] = copy[t]]_vars
    BY <2>1 DEF LockCoversCycle, CopyPCs
  <2>2. Spec => []LockCoversCycle
    BY <1>1, LockCovers
  <2>3. QED
    BY <2>1, <2>2, PTL DEF Spec, OverwritesWhatItRead
<1>2. CASE "delete" \notin Ops
  <2>1. Init => NoDeletes /\ VersionsTell
    BY DEF Init, NoDeletes, VersionsTell, CopyPCs
  <2>2. ASSUME Inv, Inv', NoDeletes, VersionsTell, [Next]_vars PROVE (NoDeletes /\ VersionsTell)'
    BY <1>2, <2>2, NoDeletesStep, VersionsStep
  <2>3. ASSUME Inv, VersionsTell, [Next]_vars
        PROVE  [\A t \in Threads :
                  pc[t] \in {"store", "note"} /\ games' # games /\ pc'[t] # pc[t] => games[Game(t)] = copy[t]]_vars
    <3> SUFFICES ASSUME NEW t \in Threads, pc[t] \in {"store", "note"}, games' # games, pc'[t] # pc[t]
                 PROVE  games[Game(t)] = copy[t]
      OBVIOUS
    <3>1. Matches(games, User(t), Game(t), copy[t].version)
      BY <2>3, StoreOrNote
    <3>2. QED
      BY <2>3, <3>1 DEF Matches, VersionsTell, CopyPCs
  <2>4. QED
    BY <2>1, <2>2, <2>3, Invariance, PTL DEF Spec, OverwritesWhatItRead
<1>3. QED
  BY <1>1, <1>2
=============================================================================
