# A verification of zorkd in TLA+

zorkd serves Infocom stories to a browser. It keeps, for every player, games
that can be played a line at a time, saved under names, restored, restarted and
deleted. The interesting part is not the story engine, which is a library and is
called with a complete state and gives back a complete state, but everything
around one call of it: a per-session lock, a read-run-write cycle over SQLite, a
version number, named saves that are whole copies, identifiers that SQLite hands
out again, and processes that stop at any moment. This directory models that
part, checks it with TLC on small instances, and proves what matters most with
TLAPS for instances of any size.

## The system's parts

| Part | State | Operations | What is hard about it |
|---|---|---|---|
| Per-session lock (`internal/game/session.go`, `keyedMutex`) | a map from session to a reference-counted entry, one mutex for the map, one per entry | `lock`, and the function it returns | entries are dropped while others ask for them; nobody may wait for ever |
| Game service (`internal/game`) | nothing durable: copies of rows while a request runs | `NewGame`, `Play`, `Save`, `Restore`, `Restart`, `Delete`, `DeleteSave`; reads: `Session`, `Games`, `Saves` | several statements per request, some under the lock and some not; failures and cancellation between them |
| Games and saves store (`internal/database/sessions.go`, `saves.go`, migrations 1, 3, 4) | tables `games` and `saves` | `Create`, `Load`, `Update` (conditional on the version), `Delete` (cascades), `CreateSave`, `Saves`, `LoadSave`, `DeleteSave` | ownership in every `WHERE`, stale versions, the limit of saves, `NOCASE` names, row identifiers handed out again |
| Accounts: users, invitations, login sessions (`internal/auth`, `invite`, `session`, `internal/database`) | tables `users`, `invitations`, `auth_sessions` | `Register`, `Authenticate`, `Create`, `Redeem`, `Start`, `UserID`, `End`, sweeps | one invitation and two registrations; a sweep beside a redemption; expiry at its instant; an account without a session |
| Rate limiter (`internal/httpserver/ratelimit.go`) | token buckets per key, time of the last sweep | `allow`, `prune` | the clock is read before the mutex is taken; a map at its cap |
| Health probe (`internal/httpserver/health.go`) | the last result | `Run`, `Snapshot` | a stale answer; a ping in flight at shutdown |
| Start-up, migrations, shutdown (`internal/database/database.go`, `cmd/zorkd`) | `user_version`, the pool, the listener | `Open`, `migrate`, `serve`, `reap` | a crash between a script and its version; turns in flight at shutdown |
| HTTP handlers (`internal/httpserver`) | none | parse, call the service, answer | what a client asks for may be stale |
| Text: commands, transcript, terminal (`internal/game/command.go`, `transcript.go`, `internal/terminal`) | none | `Interpret`, `appendTranscript`, `trimTranscript`, `Wrap` | boundaries: limits in bytes, spaces of more than one byte |
| Library, engine, command-line tools, browser script | none that changes | | |

A request goes handler → service → lock → store, with the engine called between
the load and the update. The lock is per process; two processes meet only in the
database. `DeleteSave` and `NewGame` take no lock. The handlers call nothing but
the service and keep nothing, so the requests they can make are the service
model's inputs.

`PROJECT.json` lists the components with their status, the hazards at their
lines, and which definition stands for which lines.

## The modules

    KeyedLock  <--refines--  KeyedMutex
        |
    GameService (EXTENDS GameStore)  --refines-->  GameSpec
        |                                  (mapping in GameRefinement)
    SupersededScreen

    Accounts            RateLimit

    Lifecycle (EXTENDS Migrations, Probe)

* **KeyedLock** is what the service may rely on: `owner[k]` goes from nobody to
  one goroutine and back.
* **KeyedMutex** is `keyedMutex` one mutex operation at a time. `mu` and
  `entryMu` are the two kinds of mutex (who holds them), `locks` the map,
  `holders` the counts, and `pc`, `key`, `entry` a goroutine's place and locals.
  What happens under `k.mu` is one step, because nobody reads the map or a count
  without it; locking `k.mu` and releasing it are steps of their own.
* **GameStore** is the two tables as data and their statements as operators: the
  `WHERE` clauses (`Owns`, `InGame`, `Matches`), the rows an `INSERT` or `UPDATE`
  leaves, the cascade, the lookup of a name, and the row identifier SQLite gives
  next, which is one more than the largest in use and so is used again after a
  delete. A machine state is the story it was written from and the commands that
  led to it, a screen the commands it shows: that is all the properties tell
  apart. Trimming of the transcript and the lines the application adds about a
  save are left out, and so are the status-line columns, which are written by the
  same statements as the transcript.
* **GameService** is every request that writes. A goroutine has a program counter,
  its request, the session it loaded (`copy`) and the save it loaded (`snap`).
  A step is one statement, or the one explicit transaction (`CreateSave`), and
  what the goroutine then works out on its own. `ownsGame` is a step of its own
  (`OwnsGame`), because `Saves` and `LoadSave` run it outside any transaction.
  `Fail` is every error return: the engine faults, the deadline passes, the
  statement fails, the row is not there or has moved on. `Crash` ends a process
  with its locks and goroutines and leaves the database. `CreateSaveLost` is a
  commit that fails in the deferred end of the transaction.
* **GameSpec** is the promise: a game is the commands played in it, a save is a
  name for them, every operation happens at once. A restore alone has two
  steps, since its save may be deleted without the lock while it is under way.
* **GameRefinement** says which game, which saves and which restores under way a
  state of GameService stands for. What is played is read from the stored
  *state*, so a service that stored a fresh screen with a stale state would not
  refine.
* **SupersededScreen** adds a history variable to GameService: the turns that were
  submitted against a screen that has been replaced since.
* **Accounts** is the three tables behind the login (`users`, `invitations`,
  `sessions` for `auth_sessions`), a clock, the four kinds of request that touch them
  (`register`, `login`, `visit`, `logout`), the `zorkd invite` command, and the reaper. A
  step is one statement, one transaction (`Redeem`) or one reading of the clock, so
  time passes between a row's lookup and the comparison with it, and between that and
  the write. `Start` reads the clock and `CreateSession` inserts the row; `zorkd invite`
  does both in one step, as an invitation that is stored later is one with a shorter life. `visit` is `requireUser` in front of every game handler; the pages that only
  ask whether somebody is logged in take the same steps and stop earlier. `Invited` reads
  and decides nothing. `auth.Service.Register` has no caller but tests and is left out.
  A password is a value and its hash matches that value only; a token is one that was
  never handed out before. The only thing the games share with this module is the user a
  request runs for, which GameService takes as given.
* **RateLimit** is the two limiters in front of the password check. `buckets` and
  `lastSweep` are a limiter's table, and a goroutine has the limiter its attempt has come
  to (`stage`), the attempt's two keys (`req`) and the time `allow` read (`now`).
  `Arrive` works out the keys (`clientIP` behind a trusted proxy, `emailKey`) and reads
  the clock. A request is made by the client itself (`Direct`), or comes through proxies the
  first of which named the client, after whatever the client had sent and before other
  proxies and empty entries (`Forwarded`), or through one that named nobody or wrote what is
  not an address (`Pooled`). `payer` is who ought to be charged for it: the client, or the peer
  when the client is not known. `deployed` says in which of these ways a server is reached;
  that is a matter of its configuration, and so does not change while it runs.
  `Decide` is all that `allow` does under the mutex, `refilled` and `prune` included. The `float64` a bucket keeps is counted in ticks of credit, a token being
  `Refill` of them. `watch` is an observer's count of what one key spends: a history
  variable that constrains nothing.
* **Migrations** is `Open` for any number of processes over one file: `checkPath`, the
  creation of the file, and `migrate` script by script, where the script and
  `PRAGMA user_version` are two statements and a process may end between them.
* **Probe** is the health probe: the loop's select, the goroutine of the one ping in
  flight, the ticker that holds one tick, the snapshot and its age (a failing record goes
  stale like a good one), and the answer read off them. The unit of time is `HealthProbeInterval`.
* **Lifecycle** composes the two with `serve`: the database is opened, the sweeps run
  once, the reaper and the probe are launched, the listener is bound, turns come and go;
  then a signal or a failing `Serve` leads through `Shutdown` and the deferred functions,
  in their order, to the closed pool. A turn may begin while `Shutdown` drains, on a connection
  that was accepted before, and `Shutdown` waits for it unless it overruns. A crash may happen anywhere, `zorkd init` works on
  the same file, and the database answers, fails or hangs as it likes.
* **MCKeyedMutex**, **MCGameService**, **MCSupersededScreen**, **MCAccounts**, **MCRateLimit**
  and **MCLifecycle** give TLC the constants; **KeyedMutex_proofs**, **GameService_proofs**,
  **GameSaves_proofs**, **GameRefinement_proofs**, **Accounts_proofs**, **RateLimit_proofs**
  and **Lifecycle_proofs** hold the proofs.

The operators whose comment begins with "Mutant" are wrong versions of the
definition that follows them. They take part in no specification; each is there
to show that a property notices that mistake.

## What the runs check

| Run | Instance | Shows |
|---|---|---|
| `keyed_mutex` | 3 goroutines, 2 keys, 3 heap entries | one holder per key although entries come and go; no entry leaks or is dropped early; `KeyedLock` is implemented; whoever asks is served |
| `game_one_process` | 2 goroutines, 2 games, 2 stories, 3 names (2 equal but for case), 2 saves, 4 requests, all operations | `GameSpec` is implemented; state, screen, turn count and halted flag agree; every state is in a row of its story; between load and write the row does not change; saves are unique by name and die with their game |
| `game_two_processes` | 3 goroutines in 2 processes, 2 users, 1 game, limit of 1 save, 4 requests | with no common lock: a write overwrites only what was read; only owners write; the limit holds across processes; every lock has a holder that will give it up |
| `game_liveness` | 3 goroutines, 1 session, 4 requests, fairness | every request ends, whoever fails or crashes |
| `save_lost` (violation) | 2 goroutines, 1 game | a failed commit is reported as a written save |
| `delete_save_race` (violation) | 2 users, identifiers handed out again | `DeleteSave` can delete another user's save |
| `superseded_screen` (violation) | a restart and a turn of one process | a turn queued behind a restart is played on the new game |
| `name_fold` (violation) | 2 names that differ in a letter outside ASCII | one game holds two saves that the service takes for one |
| `accounts` | 2 goroutines, 2 addresses (one typed in 2 ways), 2 invitations, 1 session, 3 requests, a clock of 3 instants | an account costs exactly one unspent invitation for its address; one account per address; spent invitations and sessions name accounts; only a session live at the request's arrival is served; nobody but its holder ends an unexpired session |
| `rate_limit` | 2 goroutines, 1 client that is reached directly, through proxies that name it, or by one that does not; 3 headers, 2 tails of further hops, 4 typed addresses in 3 buckets, a table of 2, a clock of 3 instants | a key spends no more than its budget from any moment on; the table keeps to its cap; an attempt is charged to its client whatever the header says, or to the peer when the proxy did not name the client; nobody is refused before the burst is spent |
| `lifecycle` | a server and `zorkd init` on one file, 2 scripts, 2 sweeps, 1 turn, all faults, fairness | scripts run in order and once, races do no harm, a wedged file stays wedged; a turn in flight is stored unless the shutdown overran; a ping cut off by the shutdown is no failure; failure and recovery are reported; sweeps go on; a server that is asked to stop does |
| `session_ended` (violation) | the same | an account lookup that fails ends the session of an account that is there |

**Bounds.** `MaxRequests` is the only bound on behaviour; it counts requests, not
steps, and with it the set of states is finite. Four requests are what the
longest of the intended stories takes: two games and a save in each; a game, a
save, its deletion and a game that is given its identifier; a game and three
saves. Two goroutines meet in every pair of steps; a third is added where a
queue for a lock matters. One command is enough because the paths it leads to
differ in length; two are needed for nothing that is stated here. Goroutines of one
process, and users, are symmetric.

In `accounts` three requests are a registration, the logout of its session, and a visit
with the old cookie, or two registrations that race and a login; the clock's three
instants are before, at and after both kinds of expiry (each TTL is 1), which is all
the comparisons `<` and `<=` can tell apart. Goroutines and invitation tokens are
symmetric. The run states safety only, so it assumes no fairness.

In `rate_limit` the bucket of a source is two tokens of one tick each and that of an
address one token of two ticks, so a refill that is whole and one that is partial both
happen; the third address finds a table of two full. The clock's three instants let a
decision be late by one and by two ticks, with a decision in between. The headers and
tails lead the walk over blank, trusted and unreadable hops on either side of the client's. A
server is reached either directly and through proxies that name the client, or through one
that does not; the mixture of the three, and what else the bounds leave out, is proved (below).

`lifecycle` needs no counter: the model is finite as it stands, and so a server is
started, stopped and crashed any number of times. Two scripts are the fewest with an
order; `PingTimeout` and `StaleAfter` are the code's, in intervals of 30 seconds.

**Fairness.** A goroutine that can run is run (weak fairness of its steps), and a
goroutine that waits for a mutex is not passed over for ever (strong fairness of
taking it), which Go's `sync.Mutex` guarantees by handing a starving waiter the
mutex. Clients are under no obligation to submit anything, and nothing fair
is assumed of crashes. A request ends because each of its steps does: the engine
is bounded by `Runner.bound`'s deadline, a statement by the request's context.

In `Lifecycle` the goroutines of a server run unless they wait for a database that
hangs, and time passes. Nobody has to start a server, play, or send a signal; `Serve`
need not fail and the reaper's rounds are fair only until the context is done. Two
assumptions are about time: an interval of 30 seconds does not pass while a tick or a
result lies ready for the probe's loop, and a database that answers or fails does so
before the ping's timeout. `StopsWhenAsked` asks that the database does not hang for ever.
It is needed: the deferred `Close` waits for the connection of a statement that never
returns.

**Two processes.** `OverwritesWhatItRead` leaves out deletes when there are two
processes. With them it does not hold: a game that is deleted gives its
identifier and version 1 to the next game, and a turn of another process that
had read the old one matches the new. In one process the lock excludes it.

## What is proved

The seven proof modules hold for any constants that satisfy the named assumptions (the
null values are not rows, of the tables or of `GameSpec`, nor states, requests or
goroutines; identifiers are positive integers; `NOCASE` is finer than `EqualFold`; an
address that is normalized stays the same when it is normalized again; times to live are
positive; the goroutines of the lock, the hosts and the addresses are finite sets; bursts, refills, the cap and the number of scripts are positive; no
client is itself a trusted proxy, and what follows the client's hop in a chain is trusted
proxies and empty entries).

*KeyedMutex_proofs.* `Inv` strengthens `TypeOK` with: a goroutine enlisted in an
entry is enlisted in the one its key maps to; distinct keys have distinct entries;
an entry's count is the number of goroutines enlisted in it; the map's mutex belongs
to the one goroutine inside it; an entry's mutex belongs to the goroutine that holds
the key. The count must be exactly the cardinality, or a leaving goroutine could take
itself for the last. From it: `TypeCorrect`, `Excludes` (`MutualExclusion`),
`NoLeakNoEarlyDrop` (`EntriesMatchHolders`), `Refinement` (`ImplementsKeyedLock`).

*GameService_proofs.* `Inv` is `Shape` and `AllFaithful`. `Shape` is the type
invariant with: a request is only at steps its kind has (`AtStage`); past its load it
has a row, and a state if it is about to be saved or played (`HasLoaded`); past its
lock it owns the lock (`HoldsLock`). `AllFaithful` adds to `ScreenMatchesState` that the
loaded copies are faithful too, which is what makes it inductive: a row is written
from a copy.

* `TypeCorrect` (`TypeOK`) and `ScreensFaithful` (`ScreenMatchesState`) follow for any
  number of processes.
* `GameWriters` says who can change an existing row: a goroutine at `store`, `note` or
  `delete` of that game, and all but the delete take the version one further.
* `LockCovers` (`LockCoversCycle`), for one process: such a goroutine owns the lock that
  every goroutine with a copy of the row owns, so they are the same.
* `ConditionalWrite` (`OverwritesWhatItRead`), for one process or without deletes: in the
  first case from `LockCovers`, in the second because versions only grow
  (`VersionsTell`), so that an equal version means an equal row.

*GameSaves_proofs* goes on from `Inv`.

* `SavesAreSound` (`SavesSound`), for any number of processes: by itself the property is
  not inductive, because the limit is about a cardinality and a cardinality of an unknown
  set says nothing. `SaveInv` adds that the saves of a game are finitely many, and
  states the three parts per game (`NoOrphans`, `Limited`, `NamedApart`); a write adds at
  most one row (`SaveAdded`), everything else only takes rows away (`SavesGo`).
* `StoriesFit` (`StatesFitTheirStory`), for one process or without deletes: the update does
  not write the story column, so a row stays of its story only if the state was worked out
  from a row of that story. `Fits` therefore speaks of the loaded copies and the loaded
  saves too. With several processes and deletes the identifier, with version 1, may
  by then be a game of another story.
* `OwnersWrite` (`OnlyOwnersWrite`), for any number of processes: every write but one has the
  owner in its own `WHERE` clause. The one is `DeleteDoomed`, which relies on a check of
  an earlier statement, and so the theorem asks that games and single saves are not both
  deleted; the run `delete_save_race` shows that this hypothesis is needed. Without
  game deletes the game is still the owner's (`DoomedOwned`), without `DeleteSave` the
  step is not reached (`NoDoomed`).
* `NoLockIsLeft` (`LocksAreHeld`), for any number of processes: the converse of `HoldsLock`.
  Together they say that owning a lock and being between lock and unlock are the same.

*GameRefinement_proofs.* `Implements` (`ImplementsGameSpec`), for one process: the state
function of the mapping is what a player sees of a row (`ShownGame`, `ShownSave`), and by
`ScreensFaithful` the commands on the screen are those of the state (`ScreenShows`). A write
by a goroutine with a copy is a step on the stored game because of `LockCovers`; a
restore's two steps match because a goroutine that has picked a save holds the session's
lock, so nobody else has picked one of that game (`OneHolder`, `IsSettled`). There is one
lemma per action that is more than a stutter; the screen's note about a save
is a stutter (`NoteStutters`). With two processes the service does not implement
`GameSpec`, and the hypothesis is needed: `CreateSave` writes the copy that was loaded and
compares no version, so a save may be of the game as it was before another process's turn.

*Accounts_proofs.* `IInv` is the type invariant with: user identifiers are `1 .. n`, since
accounts are only added (`Dense`), so a fresh one is nobody's; stored addresses are
normalized (`Normal`), or a lookup of the normalized address could miss one; an invitation
that is stored was issued, and is spent exactly if it names a user (`Invited`); the sweep's
time is in the past (`SweepsThePast`); a request is at steps its kind has and presents
a cookie that was issued (`AtStage`); and `Judged`: what a visit has read of its session is
what is stored, unless it is gone, because a cookie is handed out once. The last
is what makes a stale reading harmless: time may pass and rows may go, but no other
session takes the place of the one that was read. From it: `TypeCorrect`, `TablesAgree`
(`AccountsConsistent`), `OnlyLive` (`OnlyLiveServed`), `OneAccountPerInvitation`
(`AccountPerInvitation`) and `NobodyElse` (`NobodyElseLogsOut`).

*RateLimit_proofs.* `IInv` is the type invariant with: nobody's time, and no bucket's, is
ahead of the clock (`Punctual`); what the watched key has spent and what it *could spend
now* are together within its budget (`Budget`); for an observer from the beginning, what
was spent and what the bucket *held last* are at least a burst (`FromTheStart`). The two
sums are what makes it inductive: a decision moves credit from the second summand to
the first, and only lateness or a drop adds to them. What `refilled` returns is bounded
once, in four lemmas; `PruneMakesRoom` is the fact about cardinalities. From it:
`TypeCorrect`, `KeepsBudget` (`WithinBudget`), `KeepsToCap` (`TableBounded`),
`ChargesClient` (`ChargedToItsClient`, for headers and tails of any length; `WalkEnds` says where
the walk stops) and `GivesBurst`
(`BurstIsThere`).

*Lifecycle_proofs.* `MInv` is about the file and its openers: the scripts that ran are
`1 .. n` (`Ordered`), their number and `user_version` differ by at most the one
being recorded (`Counted`), and each opener's place says what it has read (`AtScript`, `AtRecord`,
`OneRecords`, `AtOpen`, `Pending`). From it, for any number of scripts and of processes:
`MigratesInOrder` (`AppliedInOrder`), `RacesAreHarmless` (`RaceIsHarmless`) and
`StaysWedged` (`WedgedForGood`). `SInv` is about the server: what each phase of `serve`
says of the pool and of the opener (`PhaseFacts`), that after a `Shutdown` that waited no
turn is at work (`TurnFacts`), and that a ping is cancelled only when the probe is to
stop (`PingFacts`). From it: `TypeCorrect`, `StoresTurns` (`TurnsAreStored`) and
`StoppingIsHealthy` (`ShutdownIsNoFailure`).

Only model-checked: the liveness properties (`AskersServed`, `RequestsAnswered` and the
four of Lifecycle). They rest on fairness and `ENABLED`, which this prover does not
reason about. Every invariant and every action property of a passing run, and both
refinements, are proved.

## What the runs say about the code

* `CreateSave` (`internal/database/saves.go:53`) defers `end(&err)` over a local variable
  with unnamed results. If the commit fails, the save is rolled back and reported
  as written.
* `DeleteSave` (`internal/database/saves.go:266`) checks the owner in an earlier statement
  and without the session's lock. If the game is deleted in between and its identifiers
  are handed out again, the statement deletes another user's save.
* A turn that waits for the lock behind a restart is played on the restarted game,
  where `session.go:389` says that it is refused.
* `NOCASE` folds ASCII only, `strings.EqualFold` every letter; a game can hold two saves
  that the service takes for one name.
* `requireUser` (`internal/httpserver/server.go:194`) takes any error of the account lookup
  for a missing account and deletes the login session.
* `migrate` (`internal/database/database.go:229`) runs a script and records its number in
  two statements. A process that ends in between, or whose second statement fails, leaves
  a file that every later `Open` refuses, because the script fails on what it finds.
  `migrations/migrations.go`'s "applied in order, once each" still holds (`AppliedInOrder`), and so the run
  states the outcome (`WedgedForGood`) and refutes nothing.
* `allow` (`internal/httpserver/ratelimit.go:302`) reads the clock before it takes the mutex. A
  late decision sets a bucket's `seen` back, and the next one is credited with the same
  interval again. `WithinBudget` counts this as `forgiven`: it is bounded by the lateness,
  and without that term the property does not hold.

## Plan

Every safety property that a run checks is now a theorem as well. What could still be
added:

1. what GameService implements with several processes: a weaker abstract game in which a
   save may be of an earlier position, a restore may be overtaken and an identifier may
   change hands between the two halves of a request;
2. the bounds of the liveness properties' safety halves, such as how far a probe's answer
   can be behind the database, as invariants with theorems.

## Not modelled

* Command lines, the transcript and its trimming, the status line
  (`internal/game/command.go`, `transcript.go`) and the terminal's layout: they are
  functions of text whose hard cases are bytes and code points. In every module a
  screen is the commands it shows and a request is already interpreted.
* The story engine and password hashing: libraries. The engine's turn is one step whose
  outcome is free.
* The in-memory store: only tests use it.
* The story library and the embedded files: immutable once the server is up. A story
  that is missing is a cause of `Fail`.
* `zorkplay`: one sequential run of the engine, with no state beside it.
* Templates, styles, the wording of answers, notifications to the service manager and the
  browser's prompt history: presentation.
* Migrations are numbered `1 .. Last` without gaps, as the scripts under
  `migrations/` are, although the loader would accept gaps.
