----------------------------- MODULE GameService -----------------------------
(***************************************************************************)
(* The game service (src/internal/game) over its database                  *)
(* (src/internal/database): every request that writes, statement by        *)
(* statement, from any number of goroutines in any number of zorkd         *)
(* processes on one database file.                                         *)
(*                                                                         *)
(* A request is a goroutine with a program counter.  Between two steps of  *)
(* one request any other may run: a step is one transaction of the         *)
(* database (a statement, or the one explicit transaction, CreateSave's),  *)
(* together with what the goroutine then works out on its own.             *)
(* The per-session lock is KeyedLock, one lock table per process.          *)
(*                                                                         *)
(* Reads that write nothing (Session, Games, Saves) and the questions a    *)
(* bare SAVE, RESTORE or RESTART is answered with change none of this.     *)
(***************************************************************************)
EXTENDS GameStore

CONSTANTS
    Threads,        \* the goroutines that serve requests
    Processes,      \* the zorkd processes on this database
    procOf,         \* procOf[t]: the process a goroutine runs in
    Ops,            \* the operations clients ask for
    MaxRequests,    \* bound: how many requests are ever submitted
    NoThread, NoRequest

ASSUME ThreadAssumption == NoThread \notin Threads /\ procOf \in [Threads -> Processes]

VARIABLES
    games,      \* the games table
    saves,      \* the saves table
    owner,      \* who holds a session's lock in a process
    pc,         \* the next step of a goroutine's request
    req,        \* the request
    copy,       \* the session it loaded
    snap,       \* the save it loaded
    submitted   \* how many requests there have been

tables == <<games, saves>>
vars == <<games, saves, owner, pc, req, copy, snap, submitted>>

Locks == INSTANCE KeyedLock WITH Keys <- Processes \X GameIds

NewRequest == [op : {"new"}, user : Users, story : Stories]
PlayRequest == [op : {"play"}, user : Users, game : GameIds, cmd : Commands]
NameRequest == [op : {"save", "restoreNamed"}, user : Users, game : GameIds, name : Names]
SaveIdRequest == [op : {"restore", "deleteSave"}, user : Users, game : GameIds, save : SaveIds]
GameRequest == [op : {"restart", "delete"}, user : Users, game : GameIds]
Request == NewRequest \cup PlayRequest \cup NameRequest \cup SaveIdRequest \cup GameRequest

ASSUME RequestAssumption == NoRequest \notin Request

\* Mutant: Delete does not lock the session.
EntryDeleteUnlocked(op) ==
    CASE op = "new" -> "create"
      [] op = "deleteSave" -> "loadDoomed"
      [] op = "delete" -> "delete"
      [] OTHER -> "lock"

\* Where the steps of a request start.  NewGame and DeleteSave take no lock.
Entry(op) ==
    CASE op = "new" -> "create"
      [] op = "deleteSave" -> "loadDoomed"
      [] OTHER -> "lock"

\* The first step once the session is locked.
Locked(op) ==
    CASE op = "restoreNamed" -> "find"
      [] op = "delete" -> "delete"
      [] OTHER -> "load"

\* The step after the session is loaded.
Loaded(op) ==
    CASE op = "restore" -> "loadSave"
      [] op = "save" -> "createSave"
      [] OTHER -> "store"

\* The step after ownsGame has found the game to be the caller's.
Owned(step) ==
    CASE step = "find" -> "list"
      [] step = "loadSave" -> "readSave"
      [] step = "loadDoomed" -> "readDoomed"

\* A goroutine at one of these holds its session's lock ...
LockedPCs ==
    {"find", "list", "load", "loadSave", "readSave", "store", "createSave", "note", "delete", "unlock"}
\* ... at these it has a copy of the session ...
CopyPCs == {"loadSave", "readSave", "store", "createSave", "note"}
\* ... and at these it is in the middle of a request that can fail.
BusyPCs == (LockedPCs \ {"unlock"}) \cup {"create", "loadDoomed", "readDoomed", "deleteDoomed"}
PCs == BusyPCs \cup {"idle", "lock", "unlock"}

User(t) == req[t].user
Game(t) == req[t].game
Key(t) == <<procOf[t], Game(t)>>

Init ==
    /\ games = [g \in GameIds |-> NoRow]
    /\ saves = [s \in SaveIds |-> NoRow]
    /\ Locks!Init
    /\ pc = [t \in Threads |-> "idle"]
    /\ req = [t \in Threads |-> NoRequest]
    /\ copy = [t \in Threads |-> NoRow]
    /\ snap = [t \in Threads |-> NoRow]
    /\ submitted = 0

----------------------------------------------------------------------------
\* A client's request reaches the service.
Submit(t, r) ==
    /\ pc[t] = "idle"
    /\ submitted < MaxRequests
    /\ submitted' = submitted + 1
    /\ pc' = [pc EXCEPT ![t] = Entry(r.op)]
    /\ req' = [req EXCEPT ![t] = r]
    /\ UNCHANGED <<tables, owner, copy, snap>>

\* s.locks.lock(sessionID)
Lock(t) ==
    /\ pc[t] = "lock"
    /\ Locks!Acquire(t, Key(t))
    /\ pc' = [pc EXCEPT ![t] = Locked(req[t].op)]
    /\ UNCHANGED <<tables, req, copy, snap, submitted>>

\* The deferred unlock, and the answer.
Unlock(t) ==
    /\ pc[t] = "unlock"
    /\ Locks!Release(t, Key(t))
    /\ pc' = [pc EXCEPT ![t] = "idle"]
    /\ req' = [req EXCEPT ![t] = NoRequest]
    /\ UNCHANGED <<tables, copy, snap, submitted>>

\* Mutant: a request returns without giving its lock up.
FinishLocked(t) ==
    /\ copy' = [copy EXCEPT ![t] = NoRow]
    /\ snap' = [snap EXCEPT ![t] = NoRow]
    /\ pc' = [pc EXCEPT ![t] = "idle"]
    /\ req' = [req EXCEPT ![t] = NoRequest]
    /\ UNCHANGED <<owner, submitted>>

\* The request has done all it does: what is left is to give up the lock, or
\* nothing if it never took one.
Finish(t) ==
    /\ copy' = [copy EXCEPT ![t] = NoRow]
    /\ snap' = [snap EXCEPT ![t] = NoRow]
    /\ IF pc[t] \in LockedPCs
       THEN pc' = [pc EXCEPT ![t] = "unlock"] /\ UNCHANGED req
       ELSE pc' = [pc EXCEPT ![t] = "idle"] /\ req' = [req EXCEPT ![t] = NoRequest]
    /\ UNCHANGED <<owner, submitted>>

\* On to the request's next step, with nothing written.
Proceed(t, step) ==
    /\ pc' = [pc EXCEPT ![t] = step]
    /\ UNCHANGED <<tables, owner, submitted>>

\* A step fails and nothing is written: the engine faults or runs out of time,
\* the story is no longer in the library, a statement fails or is interrupted,
\* the row asked for is not there.
Fail(t) ==
    /\ pc[t] \in BusyPCs
    /\ Finish(t)
    /\ UNCHANGED tables

----------------------------------------------------------------------------
\* Service.NewGame: run the opening and insert the row.
Create(t) ==
    /\ pc[t] = "create"
    /\ \E g \in GameIds, over \in BOOLEAN :
        /\ IsNextRow(games, g)
        /\ games' = [games EXCEPT ![g] = Inserted(User(t), req[t].story, Opening(req[t].story, over))]
    /\ Finish(t)
    /\ UNCHANGED saves

\* Mutant: save does not look whether there is a state to write.
OverForTurns(op, row) == op = "play" /\ row.halted

\* What Play and save refuse to go on with: a story that has ended.
Over(op, row) ==
    \/ op = "play" /\ row.halted
    \/ op = "save" /\ row.state = NoState

\* Store.Load, and the checks made on what it returned.
Load(t) ==
    /\ pc[t] = "load"
    /\ Owns(games, User(t), Game(t))
    /\ ~Over(req[t].op, games[Game(t)])
    /\ copy' = [copy EXCEPT ![t] = games[Game(t)]]
    /\ Proceed(t, Loaded(req[t].op))
    /\ UNCHANGED <<req, snap>>

\* What a turn leaves to be stored.  The engine restores the state into a
\* machine of the session's story and refuses one written from another.
Played(row, cmd, over) ==
    [state |-> IF over THEN NoState ELSE [story |-> row.story, path |-> Append(row.state.path, cmd)],
     screen |-> Append(row.screen, cmd), turn |-> row.turn + 1, halted |-> over]

\* What a restore leaves to be stored: the save's state and the screen with it.
Restored(save) ==
    [state |-> save.state, screen |-> save.screen, turn |-> save.turn, halted |-> FALSE]

\* What the request's write would store, one outcome or the other.
Outcome(t, over) ==
    CASE req[t].op = "play" -> Played(copy[t], req[t].cmd, over)
      [] req[t].op = "restart" -> Opening(copy[t].story, over)
      [] req[t].op = "restore" -> Restored(snap[t])

\* Store.Update at the end of a turn, a restart or a restore.  A row that is
\* gone or has moved on is a refusal, which is Fail.
Store(t) ==
    /\ pc[t] = "store"
    /\ req[t].op = "play" => copy[t].state.story = copy[t].story
    /\ Matches(games, User(t), Game(t), copy[t].version)
    /\ \E over \in BOOLEAN :
        /\ req[t].op = "restore" => ~over
        /\ games' = [games EXCEPT ![Game(t)] = Updated(@, Outcome(t, over))]
    /\ Finish(t)
    /\ UNCHANGED saves

----------------------------------------------------------------------------
\* Mutant: the limit is off by one.
SaveTargetOneMore(t, s) ==
    LET taken == Named(saves, Game(t), req[t].name) IN
    \/ s \in taken
    \/ /\ taken = {}
       /\ Cardinality(SavesOf(saves, Game(t))) <= MaxSaves
       /\ IsNextRow(saves, s)

\* Store.CreateSave: one transaction that looks the name up, counts and writes.
\* The row keeps its identifier when its name is already taken.
SaveTarget(t, s) ==
    LET taken == Named(saves, Game(t), req[t].name) IN
    \/ s \in taken
    \/ /\ taken = {}
       /\ Cardinality(SavesOf(saves, Game(t))) < MaxSaves
       /\ IsNextRow(saves, s)

CreateSave(t) ==
    /\ pc[t] = "createSave"
    /\ Owns(games, User(t), Game(t))
    /\ \E s \in SaveIds :
        /\ SaveTarget(t, s)
        /\ saves' = [saves EXCEPT ![s] = Snapshot(Game(t), req[t].name, copy[t])]
    /\ pc' = [pc EXCEPT ![t] = "note"]
    /\ UNCHANGED <<games, owner, req, copy, snap, submitted>>

\* The deferred end of that transaction cannot commit and rolls it back.  The
\* error is assigned to a variable the results were already copied from, so the
\* caller goes on as if the save were written.
CreateSaveLost(t) ==
    /\ pc[t] = "createSave"
    /\ Owns(games, User(t), Game(t))
    /\ \E s \in SaveIds : SaveTarget(t, s)
    /\ Proceed(t, "note")
    /\ UNCHANGED <<req, copy, snap>>

\* The line about the save, put on the screen by an Update whose failure is
\* nobody's problem (Fail): the session as loaded, one version on.
Note(t) ==
    /\ pc[t] = "note"
    /\ Matches(games, User(t), Game(t), copy[t].version)
    /\ games' = [games EXCEPT ![Game(t)] = Updated(@, copy[t])]
    /\ Finish(t)
    /\ UNCHANGED saves

\* Store.Saves and Store.LoadSave ask first whose the game is, in a statement of
\* its own: it may be gone, or somebody else's, by the time of the next.
OwnsGame(t) ==
    /\ pc[t] \in {"find", "loadSave", "loadDoomed"}
    /\ Owns(games, User(t), Game(t))
    /\ Proceed(t, Owned(pc[t]))
    /\ UNCHANGED <<req, copy, snap>>

\* playRestore finds the save a player named in the list of the game's saves:
\* the first that folds to the same name.  The list is in order of a wall clock
\* that may repeat itself or go back, so any match may be first.
Find(t) ==
    /\ pc[t] = "list"
    /\ \E s \in SavesOf(saves, Game(t)) :
        /\ Fold[saves[s].name] = Fold[req[t].name]
        /\ req' = [req EXCEPT ![t] =
                     [op |-> "restore", user |-> User(t), game |-> Game(t), save |-> s]]
    /\ Proceed(t, "load")
    /\ UNCHANGED <<copy, snap>>

\* The rest of LoadSave inside a restore, and the check of its story.
LoadSave(t) ==
    /\ pc[t] = "readSave"
    /\ InGame(saves, Game(t), req[t].save)
    /\ saves[req[t].save].story = copy[t].story
    /\ snap' = [snap EXCEPT ![t] = saves[req[t].save]]
    /\ Proceed(t, "store")
    /\ UNCHANGED <<req, copy>>

\* Service.Delete: the game, and its saves by cascade.
Delete(t) ==
    /\ pc[t] = "delete"
    /\ Owns(games, User(t), Game(t))
    /\ games' = [games EXCEPT ![Game(t)] = NoRow]
    /\ saves' = Cascaded(saves, Game(t))
    /\ Finish(t)

\* Store.DeleteSave: LoadSave reads the save on one connection ...
LoadDoomed(t) ==
    /\ pc[t] = "readDoomed"
    /\ InGame(saves, Game(t), req[t].save)
    /\ snap' = [snap EXCEPT ![t] = saves[req[t].save]]
    /\ Proceed(t, "deleteDoomed")
    /\ UNCHANGED <<req, copy>>

\* ... and delete by its identifier on another.
DeleteDoomed(t) ==
    /\ pc[t] = "deleteDoomed"
    /\ InGame(saves, Game(t), req[t].save)
    /\ saves' = [saves EXCEPT ![req[t].save] = NoRow]
    /\ Finish(t)
    /\ UNCHANGED games

----------------------------------------------------------------------------
\* A process stops, by signal or by accident, and comes back: its locks and the
\* requests it was serving are gone, the database is not.
Crash(p) ==
    /\ \E t \in Threads : procOf[t] = p /\ pc[t] # "idle"
    /\ pc' = [t \in Threads |-> IF procOf[t] = p THEN "idle" ELSE pc[t]]
    /\ req' = [t \in Threads |-> IF procOf[t] = p THEN NoRequest ELSE req[t]]
    /\ copy' = [t \in Threads |-> IF procOf[t] = p THEN NoRow ELSE copy[t]]
    /\ snap' = [t \in Threads |-> IF procOf[t] = p THEN NoRow ELSE snap[t]]
    /\ owner' = [k \in Processes \X GameIds |-> IF k[1] = p THEN NoThread ELSE owner[k]]
    /\ UNCHANGED <<tables, submitted>>

\* Every request the bound allows has been answered.
Quiet ==
    /\ submitted = MaxRequests
    /\ \A t \in Threads : pc[t] = "idle"
    /\ UNCHANGED vars

\* What a goroutine does once its request is under way and its lock is held.
Step(t) ==
    \/ Create(t) \/ Load(t) \/ Store(t)
    \/ CreateSave(t) \/ CreateSaveLost(t) \/ Note(t)
    \/ OwnsGame(t) \/ Find(t) \/ LoadSave(t) \/ Delete(t)
    \/ LoadDoomed(t) \/ DeleteDoomed(t)
    \/ Fail(t)

Next ==
    \/ \E t \in Threads, r \in Request : r.op \in Ops /\ Submit(t, r)
    \/ \E t \in Threads : Lock(t) \/ Step(t) \/ Unlock(t)
    \/ \E p \in Processes : Crash(p)
    \/ Quiet

Spec == Init /\ [][Next]_vars

\* Goroutines that can run are run; the waiters of a Go mutex are not starved.
Fairness ==
    \A t \in Threads : SF_vars(Lock(t)) /\ WF_vars(Step(t)) /\ WF_vars(Unlock(t))

FairSpec == Spec /\ Fairness

----------------------------------------------------------------------------
\* Every variable keeps its type.
TypeOK ==
    /\ games \in [GameIds -> GameRow \cup {NoRow}]
    /\ saves \in [SaveIds -> SaveRow \cup {NoRow}]
    /\ owner \in [Processes \X GameIds -> Threads \cup {NoThread}]
    /\ pc \in [Threads -> PCs]
    /\ req \in [Threads -> Request \cup {NoRequest}]
    /\ copy \in [Threads -> GameRow \cup {NoRow}]
    /\ snap \in [Threads -> SaveRow \cup {NoRow}]
    /\ submitted \in Nat

\* A session whose screen shows exactly the commands that led to its state, whose
\* turn count counts them, and which has nothing to resume only if it is over.
Faithful(row) ==
    /\ row.halted <=> row.state = NoState
    /\ ~row.halted => row.state.path = row.screen
    /\ row.turn = Len(row.screen)

FaithfulSave(save) == save.state.path = save.screen /\ save.turn = Len(save.screen)

\* "What is drawn cannot disagree with what will be played" (0003_screen.sql):
\* turns, restarts, restores and saves of any number of processes keep the
\* state, the screen and the turn count of every row in step.
ScreenMatchesState ==
    /\ \A g \in GameIds : games[g] # NoRow => Faithful(games[g])
    /\ \A s \in SaveIds : saves[s] # NoRow => FaithfulSave(saves[s])

\* A state is stored in a row of the story it was written from, and a save in a
\* game of that story (0001_games.sql, 0004_saves.sql): every stored state can
\* be restored into the machine its row names.
StatesFitTheirStory ==
    /\ \A g \in GameIds :
        games[g] # NoRow /\ ~games[g].halted => games[g].state.story = games[g].story
    /\ \A s \in SaveIds : saves[s] # NoRow =>
        /\ saves[s].state.story = saves[s].story
        /\ games[saves[s].game] # NoRow => games[saves[s].game].story = saves[s].story

\* The per-session lock covers the whole cycle: with one process, the session a
\* request loaded is still the stored one when it writes, so no write of its
\* own can be refused and no turn can find its game deleted from under it.
LockCoversCycle ==
    \A t \in Threads : pc[t] \in CopyPCs => games[Game(t)] = copy[t]

\* A lock is held by a goroutine that is at work on that session and comes to its
\* deferred unlock: no error return, refusal or crash leaves one behind that
\* nobody gives up, so whoever waits for a session waits for somebody.
LocksAreHeld ==
    \A k \in Processes \X GameIds : owner[k] # NoThread =>
        pc[owner[k]] \in LockedPCs /\ Key(owner[k]) = k

\* No save outlives its game (ON DELETE CASCADE), no game holds two saves of one
\* name, and none holds more than MaxSavesPerGame.
SavesSound ==
    /\ \A s \in SaveIds : saves[s] # NoRow => games[saves[s].game] # NoRow
    /\ \A g \in GameIds :
        /\ Cardinality(SavesOf(saves, g)) <= MaxSaves
        /\ \A r, s \in SavesOf(saves, g) :
            NoCase[saves[r].name] = NoCase[saves[s].name] => r = s

\* "Names are matched without regard to case, so a player who saved "Troll" and
\* then saves "troll" replaces it rather than ending up with two saves that look
\* the same in a list" (sameSaveName in saves.go).
NamesLookDifferent ==
    \A g \in GameIds : \A r, s \in SavesOf(saves, g) :
        Fold[saves[r].name] = Fold[saves[s].name] => r = s

\* Store.Update's condition: a turn, restart, restore or note that is written overwrites
\* the very row it was worked out from, whatever other goroutines did since and, as long
\* as no game is deleted, whatever other processes did.
OverwritesWhatItRead ==
    [][\A t \in Threads :
         pc[t] \in {"store", "note"} /\ games' # games /\ pc'[t] # pc[t]
            => games[Game(t)] = copy[t]]_vars

\* A game and its saves are changed by requests of the user the game belongs to
\* and by nobody else's, as long as games and single saves are not both deleted
\* (DeleteSave trusts a check of an earlier statement).
OnlyOwnersWrite ==
    [][/\ \A g \in GameIds : games[g] # NoRow /\ games'[g] # games[g] =>
            \E t \in Threads : pc'[t] # pc[t] /\ User(t) = games[g].user
       /\ \A s \in SaveIds : saves[s] # NoRow /\ saves'[s] # saves[s] =>
            \E t \in Threads : pc'[t] # pc[t] /\ User(t) = games[saves[s].game].user]_vars

\* "The save is written, which is what was asked for" (saves.go): when CreateSave
\* returns without an error, the game holds the save it was given.
ReportedSaveIsWritten ==
    [][\A t \in Threads :
         pc[t] = "createSave" /\ pc'[t] = "note" =>
            \E s \in SaveIds : saves'[s] = Snapshot(Game(t), req[t].name, copy[t])]_vars

\* Every request is answered, however many wait for the same session.
RequestsAnswered == \A t \in Threads : pc[t] # "idle" ~> pc[t] = "idle"
=============================================================================
