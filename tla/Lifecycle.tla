----------------------------- MODULE Lifecycle -----------------------------
(***************************************************************************)
(* The life of a server process (src/cmd/zorkd/main.go, reaper.go): serve  *)
(* opens the database, sweeps, launches the reaper and the probe, listens, *)
(* serves turns, and comes down the same way in the reverse order, because *)
(* it was asked to or because serving failed.  Beside it, `zorkd init` may *)
(* create and migrate the same file, and a process may end at any step.    *)
(***************************************************************************)
EXTENDS Migrations, Probe

CONSTANTS
    Server,         \* the server among the openers
    Sweeps,         \* the sweeps, in the order runSweeps runs them
    Turns           \* handlers that may be at work at once

ASSUME ServerAssumption == Server \in Openers \ Inits
ASSUME SweepAssumption == Sweeps \in Seq(STRING) /\ Sweeps # <<>>

VARIABLES
    phase,          \* where serve is
    cancelled,      \* its ctx: a signal has arrived
    pool,           \* "none", "open", or "closed" from the moment Close is called
    why,            \* what made serve return
    sweep,          \* the sweep that runs, or 0
    turn,           \* handlers: in the engine, or storing with a connection
    cut             \* history: a turn was not stored because the pool was closed

serving == <<phase, cancelled, pool, why, sweep, turn, cut>>
vars == <<migration, db, probing, serving>>

Phases == {"down", "opening", "sweeping", "listening", "serving", "draining", "stopping", "closing"}

\* The context of the probe, a child of the server's that the deferred cancel ends too.
Stopped == cancelled \/ phase \in {"stopping", "closing"}

Closed == pool = "closed"

\* Nothing of a process is left but the file.
Down ==
    /\ phase' = "down" /\ cancelled' = FALSE /\ pool' = "none" /\ why' = "none"
    /\ sweep' = 0 /\ cut' = FALSE
    /\ turn' = [t \in Turns |-> "idle"]
    /\ ProbeGone

Init ==
    /\ MInit /\ ProbeOff /\ db = "up"
    /\ phase = "down" /\ cancelled = FALSE /\ pool = "none" /\ why = "none"
    /\ sweep = 0 /\ cut = FALSE
    /\ turn = [t \in Turns |-> "idle"]

----------------------------------------------------------------------------
\* The way up.

Start ==
    /\ phase = "down"
    /\ CheckPath(Server)
    /\ phase' = "opening"
    /\ UNCHANGED <<db, probing, cancelled, pool, why, sweep, turn, cut>>

\* A step of Open: if it fails serve returns, and once it is done the first sweeps run.
Open ==
    /\ phase = "opening"
    /\ OpenStep(Server)
    /\ CASE pc'[Server] = "out" -> Down
         [] pc'[Server] = "open" ->
                /\ phase' = "sweeping" /\ pool' = "open" /\ sweep' = 1
                /\ UNCHANGED <<probing, cancelled, why, turn, cut>>
         [] OTHER -> UNCHANGED <<probing, serving>>
    /\ UNCHANGED db

\* Mutant: a sweep that fails ends the round.
AfterFailedSweepReturns == 0

\* The sweep after one that failed, or 0.
AfterFailedSweep == IF sweep < Len(Sweeps) THEN sweep + 1 ELSE 0

\* Mutant: the round goes on past the last sweep.
AfterSweepTooFar == IF sweep <= Len(Sweeps) THEN sweep + 1 ELSE 0

\* The sweep after one that removed what had expired, or 0.
AfterSweep == IF sweep < Len(Sweeps) THEN sweep + 1 ELSE 0

\* A sweep of runSweeps, of the first round or of the reaper: it works, or fails, also
\* because it is interrupted, or says that its context is done, which ends the round.
Sweep ==
    /\ sweep # 0
    /\ \/ db = "up" /\ ~Closed /\ sweep' = AfterSweep
       \/ (db = "failing" \/ cancelled \/ Closed) /\ sweep' = AfterFailedSweep
       \/ cancelled /\ sweep' = 0
    /\ UNCHANGED <<migration, db, probing, phase, cancelled, pool, why, turn, cut>>

\* The reaper and the probe are launched when the first round is over.
LaunchAll ==
    /\ phase = "sweeping" /\ sweep = 0
    /\ phase' = "listening"
    /\ Launch
    /\ UNCHANGED <<migration, db, cancelled, pool, why, sweep, turn, cut>>

\* The listener is bound, or serve returns.
Listen ==
    /\ phase = "listening"
    /\ \/ phase' = "serving" /\ UNCHANGED why
       \/ phase' = "stopping" /\ why' = "unbound"
    /\ UNCHANGED <<migration, db, probing, cancelled, pool, sweep, turn, cut>>

----------------------------------------------------------------------------
\* While it serves.

\* The reaper's ticker ticks, at any time and at none once its context is done.  A round
\* that begins with a closed pool gets no connection and is over at once.
Reap ==
    /\ phase \in {"listening", "serving", "draining", "stopping"} /\ sweep = 0
    /\ sweep' = 1
    /\ UNCHANGED <<migration, db, probing, phase, cancelled, pool, why, turn, cut>>

\* A turn arrives and its game is loaded.  Shutdown closes the listener and the idle
\* connections, but a request may still be read from one that was accepted before, and
\* Shutdown waits for that too unless it overruns.  A server whose Serve has failed has
\* lost its listener but not its connections.
Begin(t) ==
    /\ phase \in {"serving", "draining"} \/ why \in {"failed", "overran"}
    /\ turn[t] = "idle" /\ db = "up" /\ ~Closed
    /\ turn' = [turn EXCEPT ![t] = "engine"]
    /\ UNCHANGED <<migration, db, probing, phase, cancelled, pool, why, sweep, cut>>

\* The engine is done, and conn takes a connection: a closed pool has none to give.
Take(t) ==
    /\ turn[t] = "engine"
    /\ turn' = [turn EXCEPT ![t] = IF Closed THEN "idle" ELSE "storing"]
    /\ cut' = (cut \/ Closed)
    /\ UNCHANGED <<migration, db, probing, phase, cancelled, pool, why, sweep>>

\* The statement works or fails, or the pool that is being closed interrupts it.
Store(t) ==
    /\ turn[t] = "storing"
    /\ \/ db # "hung" /\ UNCHANGED cut
       \/ Closed /\ cut' = TRUE
    /\ turn' = [turn EXCEPT ![t] = "idle"]
    /\ UNCHANGED <<migration, db, probing, phase, cancelled, pool, why, sweep>>

\* SIGINT, SIGTERM or SIGHUP.
Signal ==
    /\ phase # "down" /\ ~cancelled
    /\ cancelled' = TRUE
    /\ UNCHANGED <<migration, db, probing, phase, pool, why, sweep, turn, cut>>

----------------------------------------------------------------------------
\* The way down.

\* The select sees the error of Serve, or the signal.
Leave ==
    /\ phase = "serving"
    /\ \/ phase' = "stopping" /\ why' = "failed"
       \/ cancelled /\ phase' = "draining" /\ UNCHANGED why
    /\ UNCHANGED <<migration, db, probing, cancelled, pool, sweep, turn, cut>>

\* Mutant: the server is closed, not shut down.
HandlersDoneNotAwaited == TRUE

\* No handler is at work.
HandlersDone == \A t \in Turns : turn[t] = "idle"

\* Shutdown returns: the handlers are done, or shutdownTimeout has passed.
Shutdown ==
    /\ phase = "draining"
    /\ phase' = "stopping"
    /\ \/ HandlersDone /\ why' = "asked"
       \/ why' = "overran"
    /\ UNCHANGED <<migration, db, probing, cancelled, pool, sweep, turn, cut>>

\* The deferred functions: the probe is cancelled and waited for, then the pool is closed.
ProbeStopped ==
    /\ phase = "stopping" /\ probe = "done"
    /\ phase' = "closing" /\ pool' = "closed"
    /\ UNCHANGED <<migration, db, probing, cancelled, why, sweep, turn, cut>>

\* Close has every connection back, and the process exits.
Exit ==
    /\ phase = "closing"
    /\ sweep = 0 /\ \A t \in Turns : turn[t] # "storing"
    /\ Close(Server)
    /\ Down
    /\ UNCHANGED db

----------------------------------------------------------------------------
\* The process ends where it is, or Open fails.
Crash ==
    /\ phase # "down"
    /\ Fault(Server)
    /\ Down
    /\ UNCHANGED db

\* zorkd init
Tool ==
    /\ \E o \in Openers \ {Server} : CheckPath(o) \/ OpenStep(o) \/ Fault(o) \/ Close(o)
    /\ UNCHANGED <<db, probing, serving>>

\* The database stops answering, fails, or recovers.
Database ==
    /\ db' \in Databases \ {db}
    /\ UNCHANGED <<migration, probing, serving>>

Main == Open \/ LaunchAll \/ Listen \/ Leave \/ Shutdown \/ ProbeStopped \/ Exit

\* A step of the probe touches nothing else.
Probing(A) == A /\ UNCHANGED <<migration, serving>>

Loop == OnTick \/ OnResult(Stopped) \/ OnDone(Stopped) \/ Drain

Turn(t) == Begin(t) \/ Take(t) \/ Store(t)

Next ==
    \/ Start \/ Main \/ Sweep \/ Reap
    \/ Probing(Time) \/ Probing(PingAnswers) \/ Probing(PingGivesUp(Stopped)) \/ Probing(Loop)
    \/ \E t \in Turns : Turn(t)
    \/ Signal \/ Crash \/ Tool \/ Database

\* Goroutines that can run do, unless they wait for a database that hangs; time passes;
\* a select takes none of its cases for ever.  Nobody has to start the server, play, or
\* send a signal, and Serve need not fail.
Fairness ==
    /\ WF_vars(Main /\ ~(phase = "serving" /\ ~cancelled))
    /\ WF_vars(Sweep /\ db # "hung")
    /\ WF_vars(Reap /\ ~cancelled)
    /\ WF_vars(Probing(Time))
    /\ WF_vars(Probing(PingAnswers))
    /\ WF_vars(Probing(OnTick))
    /\ WF_vars(Probing(OnResult(Stopped) \/ OnDone(Stopped) \/ Drain))
    /\ \A t \in Turns : WF_vars(Take(t) \/ (Store(t) /\ db # "hung"))

Spec == Init /\ [][Next]_vars /\ Fairness

----------------------------------------------------------------------------
\* Every variable keeps its type, and a pool is open only over an open database.
TypeOK ==
    /\ MigrationTypeOK /\ ProbeTypeOK
    /\ phase \in Phases
    /\ cancelled \in BOOLEAN /\ cut \in BOOLEAN
    /\ pool \in {"none", "open", "closed"}
    /\ why \in {"none", "unbound", "asked", "overran", "failed"}
    /\ sweep \in 0 .. Len(Sweeps)
    /\ turn \in [Turns -> {"idle", "engine", "storing"}]
    /\ (pool # "none") = (pc[Server] = "open")

\* serve: "In-flight turns are given a moment to finish and be stored."  A turn is cut
\* off by the closed pool only if the moment was not enough or if serving had failed.
TurnsAreStored == cut => why \in {"overran", "failed"}

\* Run: "shutdown is still not a database failure and must not change the recorded
\* health".  A ping that ends because the server does is never published, whichever
\* of the two the loop's select sees first.
ShutdownIsNoFailure == record.why # "cancelled"

\* A database that stops answering, or fails every statement, is reported in the end and
\* for as long as that lasts, even if the one ping that could tell never returns.
FailureIsReported ==
    <>[](phase = "serving" /\ db # "up") => <>[]~Healthy

\* A database that has recovered is reported as healthy again, whatever ping or tick was
\* under way when it failed.
RecoveryIsReported ==
    <>[](phase = "serving" /\ db = "up") => []<>Healthy

\* runSweeps: "one failed query must not quietly end periodic cleanup": as long as the
\* server serves, the last sweep comes up again and again, though those before it fail.
SweepsGoOn ==
    <>[](phase = "serving") /\ <>[](db # "hung") => []<>(sweep = Len(Sweeps))

\* A server that is asked to stop does, from any phase and whatever the probe, the reaper
\* and the handlers are at, unless a statement never returns.
StopsWhenAsked ==
    <>[](db # "hung") => (cancelled ~> phase = "down")
=============================================================================
