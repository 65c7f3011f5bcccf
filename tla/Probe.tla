------------------------------- MODULE Probe -------------------------------
(***************************************************************************)
(* The health probe (src/internal/httpserver/health.go): a loop that pings *)
(* the database at every tick unless a ping is under way, the goroutine of *)
(* that ping, the snapshot the loop publishes, and the answer that is read *)
(* off it.                                                                 *)
(*                                                                         *)
(* The unit of time is HealthProbeInterval.  What the code keeps as times  *)
(* are ages here, and they grow only as far as the answer can tell.        *)
(***************************************************************************)
EXTENDS Integers

CONSTANTS
    PingTimeout,    \* HealthProbeTimeout, in intervals
    StaleAfter      \* healthStaleAfter

ASSUME ProbeAssumption == PingTimeout \in Nat \ {0} /\ StaleAfter \in Nat \ {0}

VARIABLES
    db,             \* what a statement meets: an answer, an error, or nothing
    probe,          \* the loop: off, in its select, waiting for a last result, done
    ping,           \* the ping's goroutine, or the result it has sent
    age,            \* of a running ping
    inFlight,
    tick,           \* the ticker's channel, which holds one
    record          \* the snapshot, its age, and why it is what it is

probing == <<probe, ping, age, inFlight, tick, record>>

Databases == {"up", "failing", "hung"}
Results == {"answered", "failed", "cancelled"}
Statuses == {"unknown", "healthy", "failing"}
Older(a, top) == IF a < top THEN a + 1 ELSE a

\* NewProbe
NoRecord == [status |-> "unknown", age |-> 0, why |-> "answered"]

ProbeOff == /\ probe = "off" /\ ping = "none" /\ age = 0
            /\ inFlight = FALSE /\ tick = FALSE /\ record = NoRecord

\* The process ends, and the probe with it.
ProbeGone == /\ probe' = "off" /\ ping' = "none" /\ age' = 0
             /\ inFlight' = FALSE /\ tick' = FALSE /\ record' = NoRecord

\* start, in Run
StartPing == ping' = "running" /\ age' = 0 /\ inFlight' = TRUE

Launch ==
    /\ probe' = "loop" /\ StartPing
    /\ UNCHANGED <<tick, record>>

\* An interval passes and the ticker ticks.  A goroutine that can run does not wait for
\* 30 seconds: the last tick and the last result have been taken by now.
Time ==
    /\ probe = "loop" /\ ~tick /\ ping \notin Results
    /\ tick' = TRUE
    /\ age' = IF ping = "running" THEN Older(age, PingTimeout) ELSE age
    /\ record' = IF record.status = "unknown" THEN record
                 ELSE [record EXCEPT !.age = Older(@, StaleAfter + 1)]
    /\ UNCHANGED <<db, probe, ping, inFlight>>

\* Ping returns what the database says.
PingAnswers ==
    /\ ping = "running"
    /\ \/ db = "up" /\ ping' = "answered"
       \/ db = "failing" /\ ping' = "failed"
    /\ age' = 0
    /\ UNCHANGED <<db, probe, inFlight, tick, record>>

\* Ping returns because its context is done: the server stops, or the timeout passes,
\* which a database that answers, well or badly, does not let happen.
PingGivesUp(stopped) ==
    /\ ping = "running"
    /\ \/ stopped /\ ping' = "cancelled"
       \/ db = "hung" /\ age >= PingTimeout /\ ping' = "failed"
    /\ age' = 0
    /\ UNCHANGED <<db, probe, inFlight, tick, record>>

\* case <-ticks: a tick that comes while a ping runs is discarded.
OnTick ==
    /\ probe = "loop" /\ tick
    /\ tick' = FALSE
    /\ IF inFlight THEN UNCHANGED <<ping, age, inFlight>> ELSE StartPing
    /\ UNCHANGED <<db, probe, record>>

\* What the loop publishes of a result.
Published == [status |-> IF ping = "answered" THEN "healthy" ELSE "failing", age |-> 0, why |-> ping]

\* Mutant: the result is published though the server is stopping.
OnResultUnchecked(stopped) ==
    /\ probe = "loop" /\ ping \in Results
    /\ ping' = "none" /\ age' = 0 /\ inFlight' = FALSE
    /\ record' = Published
    /\ probe' = IF stopped THEN "done" ELSE probe
    /\ UNCHANGED <<db, tick>>

\* Mutant: inFlight is not reset.
OnResultStillInFlight(stopped) ==
    /\ probe = "loop" /\ ping \in Results
    /\ ping' = "none" /\ age' = 0
    /\ IF stopped
       THEN probe' = "done" /\ UNCHANGED record
       ELSE record' = Published /\ UNCHANGED probe
    /\ UNCHANGED <<db, tick, inFlight>>

\* case result := <-results: a result that wins the race with ctx.Done is not published.
OnResult(stopped) ==
    /\ probe = "loop" /\ ping \in Results
    /\ ping' = "none" /\ age' = 0 /\ inFlight' = FALSE
    /\ IF stopped
       THEN probe' = "done" /\ UNCHANGED record
       ELSE record' = Published /\ UNCHANGED probe
    /\ UNCHANGED <<db, tick>>

\* Mutant: the loop waits for a result although no ping is under way.
OnDoneAlwaysWaits(stopped) ==
    /\ probe = "loop" /\ stopped
    /\ probe' = "drain"
    /\ UNCHANGED <<db, ping, age, inFlight, tick, record>>

\* case <-ctx.Done(): the ping under way is waited for.
OnDone(stopped) ==
    /\ probe = "loop" /\ stopped
    /\ probe' = IF inFlight THEN "drain" ELSE "done"
    /\ UNCHANGED <<db, ping, age, inFlight, tick, record>>

Drain ==
    /\ probe = "drain" /\ ping \in Results
    /\ probe' = "done" /\ ping' = "none" /\ age' = 0
    /\ UNCHANGED <<db, inFlight, tick, record>>

\* Mutant: the age of the snapshot is not looked at.
SnapshotAsRecorded == record.status

\* Snapshot: whatever was recorded turns stale.
Snapshot == IF record.status # "unknown" /\ record.age > StaleAfter THEN "stale" ELSE record.status

\* The health handler answers 200.
Healthy == Snapshot = "healthy"

ProbeTypeOK ==
    /\ db \in Databases
    /\ probe \in {"off", "loop", "drain", "done"}
    /\ ping \in Results \cup {"none", "running"}
    /\ age \in 0 .. PingTimeout
    /\ inFlight \in BOOLEAN /\ tick \in BOOLEAN
    /\ record \in [status : Statuses, age : 0 .. StaleAfter + 1, why : Results]
=============================================================================
