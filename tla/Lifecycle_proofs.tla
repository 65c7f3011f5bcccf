-------------------------- MODULE Lifecycle_proofs --------------------------
(***************************************************************************)
(* Proofs about the life of a server and the migrations: for any number of *)
(* openers, scripts, sweeps and handlers.                                  *)
(***************************************************************************)
EXTENDS Lifecycle, TLAPS

----------------------------------------------------------------------------
(***************************************************************************)
(* The migrations.  An opener that may run a script took the database for  *)
(* a version it has had; one that is about to record a number is the only  *)
(* one, and the number is that of the last script that ran.                *)
(***************************************************************************)
Ordered == \A i \in DOMAIN applied : applied[i] = i
Counted == version <= Len(applied) /\ Len(applied) <= version + 1
AtScript == \A o \in Openers : pc[o] = "script" => at[o] <= version /\ at[o] < Last
AtRecord == \A o \in Openers : pc[o] = "record" => at[o] = version /\ Len(applied) = version + 1
OneRecords == \A o, p \in Openers : pc[o] = "record" /\ pc[p] = "record" => o = p
AtOpen == \A o \in Openers : pc[o] = "open" => version = Last
Pending == Len(applied) > version /\ ~hurt => \E o \in Openers : pc[o] = "record"

MInv == /\ MigrationTypeOK /\ Ordered /\ Counted /\ AtScript
        /\ AtRecord /\ OneRecords /\ AtOpen /\ Pending

\* There are no more scripts in the file than in the binary.
LEMMA NoMoreThanLast == MInv => Len(applied) <= Last
  BY LastAssumption DEF MInv, MigrationTypeOK, Ordered

LEMMA MInvInit == MInit => MInv
<1> SUFFICES ASSUME MInit PROVE MInv
  OBVIOUS
<1>1. /\ applied = <<>> /\ Len(applied) = 0 /\ DOMAIN applied = {} /\ applied \in Seq(1 .. Last)
      /\ version = 0 /\ version \in 0 .. Last
  BY LastAssumption DEF MInit
<1>2. MigrationTypeOK
  BY <1>1, LastAssumption DEF MInit, MigrationTypeOK, Stages
<1>3. /\ Ordered /\ Counted /\ Pending
  BY <1>1 DEF Ordered, Counted, Pending
<1>4. /\ AtScript /\ AtRecord /\ OneRecords /\ AtOpen
  BY DEF MInit, AtScript, AtRecord, OneRecords, AtOpen
<1> QED
  BY <1>2, <1>3, <1>4 DEF MInv

\* Steps that only move one opener, to where it has nothing left to claim.
LEMMA MoveKeepsMInv ==
    ASSUME MInv, NEW o \in Openers, NEW stage \in {"out", "create", "version"},
           Go(o, stage), UNCHANGED <<applied, version, at>>, file' \in BOOLEAN, hurt' \in BOOLEAN,
           hurt => hurt', pc[o] = "record" => hurt'
    PROVE  MInv'
<1> USE DEF MInv, MigrationTypeOK, Stages, Go
<1>1. MigrationTypeOK'
  OBVIOUS
<1>2. /\ Ordered' /\ Counted'
  BY DEF Ordered, Counted
<1>3. /\ AtScript' /\ AtRecord' /\ OneRecords' /\ AtOpen'
  BY DEF AtScript, AtRecord, OneRecords, AtOpen
<1>4. Pending'
  BY DEF Pending
<1> QED
  BY <1>1, <1>2, <1>3, <1>4

LEMMA ReadVersionKeepsMInv ==
    ASSUME MInv, NEW o \in Openers, ReadVersion(o)
    PROVE  MInv'
<1> USE LastAssumption DEF MInv, MigrationTypeOK, Stages, Go, ReadVersion, Onward
<1>1. MigrationTypeOK'
  OBVIOUS
<1>2. /\ Ordered' /\ Counted'
  BY DEF Ordered, Counted
<1>3. /\ AtScript' /\ AtRecord' /\ OneRecords' /\ AtOpen'
  BY DEF AtScript, AtRecord, OneRecords, AtOpen
<1>4. Pending'
  BY DEF Pending
<1> QED
  BY <1>1, <1>2, <1>3, <1>4

LEMMA Squeezed ==
    ASSUME NEW a \in Nat, NEW v \in Nat, NEW n \in Nat, a <= v, v <= n, a + 1 \notin 1 .. n
    PROVE  a = v /\ n = v
  OBVIOUS

\* A script that can still run is the next one, and nobody has one to record.
LEMMA RunnableIsNext ==
    ASSUME MInv, NEW o \in Openers, pc[o] = "script",
           ~ \E i \in DOMAIN applied : applied[i] = at[o] + 1
    PROVE  /\ at[o] = version /\ Len(applied) = version
           /\ \A p \in Openers : pc[p] # "record"
<1>1. /\ at[o] \in Nat /\ version \in Nat /\ Len(applied) \in Nat
      /\ DOMAIN applied = 1 .. Len(applied)
      /\ at[o] <= version /\ version <= Len(applied)
  BY LastAssumption DEF MInv, MigrationTypeOK, Counted, AtScript
<1>2. at[o] + 1 \notin 1 .. Len(applied)
  BY <1>1 DEF MInv, Ordered
<1>3. at[o] = version /\ Len(applied) = version
  BY <1>1, <1>2, Squeezed, Zenon
<1>4. Len(applied) # version + 1
  BY <1>1, <1>3
<1> QED
  BY <1>3, <1>4 DEF MInv, AtRecord

LEMMA RunScriptKeepsMInv ==
    ASSUME MInv, NEW o \in Openers, RunScript(o)
    PROVE  MInv'
<1>1. CASE \E i \in DOMAIN applied : applied[i] = at[o] + 1
  BY <1>1, MoveKeepsMInv DEF RunScript, MInv, MigrationTypeOK
<1>2. CASE ~ \E i \in DOMAIN applied : applied[i] = at[o] + 1
  <2>1. /\ at[o] = version /\ Len(applied) = version
        /\ \A p \in Openers : pc[p] # "record"
    BY <1>2, RunnableIsNext DEF RunScript
  <2>2. /\ at[o] < Last /\ version \in Nat /\ applied \in Seq(1 .. Last) /\ at[o] + 1 \in 1 .. Last
    BY LastAssumption DEF MInv, MigrationTypeOK, AtScript, RunScript
  <2>3. /\ applied' = Append(applied, at[o] + 1) /\ pc' = [pc EXCEPT ![o] = "record"]
        /\ UNCHANGED <<file, version, at, hurt>>
    BY <1>2 DEF RunScript, Go
  <2>4. /\ applied' \in Seq(1 .. Last) /\ Len(applied') = version + 1
        /\ \A i \in 1 .. version : applied'[i] = applied[i]
        /\ applied'[version + 1] = version + 1
        /\ DOMAIN applied' = 1 .. version + 1
    BY <2>1, <2>2, <2>3
  <2>5. MigrationTypeOK'
    BY <2>3, <2>4 DEF MInv, MigrationTypeOK, Stages
  <2>6. Ordered'
    <3> SUFFICES ASSUME NEW i \in DOMAIN applied' PROVE applied'[i] = i
      BY DEF Ordered
    <3>1. CASE i = version + 1
      BY <3>1, <2>4
    <3>2. CASE i # version + 1
      BY <3>2, <2>1, <2>2, <2>4 DEF MInv, Ordered
    <3> QED
      BY <3>1, <3>2
  <2>7. Counted'
    BY <2>2, <2>3, <2>4 DEF Counted
  <2>8. /\ AtScript' /\ AtRecord' /\ OneRecords' /\ AtOpen'
    BY <2>1, <2>2, <2>3, <2>4 DEF MInv, MigrationTypeOK, AtScript, AtRecord, OneRecords, AtOpen
  <2>9. Pending'
    BY <2>3 DEF MInv, MigrationTypeOK, Pending
  <2> QED
    BY <2>5, <2>6, <2>7, <2>8, <2>9 DEF MInv
<1> QED
  BY <1>1, <1>2

LEMMA RecordKeepsMInv ==
    ASSUME MInv, NEW o \in Openers, Record(o)
    PROVE  MInv'
<1>1. /\ at[o] = version /\ Len(applied) = version + 1 /\ Len(applied) <= Last
      /\ version \in Nat /\ Last \in Nat
      /\ \A p \in Openers \ {o} : pc[p] # "record"
  BY NoMoreThanLast, LastAssumption DEF MInv, MigrationTypeOK, AtRecord, OneRecords, Record
<1>2. /\ version' = version + 1 /\ at' = [at EXCEPT ![o] = version + 1]
      /\ pc' = [pc EXCEPT ![o] = Onward(version + 1)]
      /\ UNCHANGED <<file, applied, hurt>>
  BY <1>1 DEF Record, Go, MInv, MigrationTypeOK
<1>3. MigrationTypeOK'
  BY <1>1, <1>2, LastAssumption DEF MInv, MigrationTypeOK, Stages, Onward
<1>4. /\ Ordered' /\ Counted'
  BY <1>1, <1>2 DEF MInv, Ordered, Counted
<1>5. /\ AtScript' /\ AtRecord' /\ OneRecords' /\ AtOpen'
  BY <1>1, <1>2, LastAssumption
     DEF MInv, MigrationTypeOK, Stages, Onward, AtScript, AtRecord, OneRecords, AtOpen
<1>6. Pending'
  BY <1>1, <1>2 DEF Pending
<1> QED
  BY <1>3, <1>4, <1>5, <1>6 DEF MInv

LEMMA MInvStep == MInv /\ [MNext]_migration => MInv'
<1> SUFFICES ASSUME MInv, [MNext]_migration PROVE MInv'
  OBVIOUS
<1>1. ASSUME NEW o \in Openers, CheckPath(o) PROVE MInv'
  BY <1>1, MoveKeepsMInv DEF CheckPath, MInv, MigrationTypeOK
<1>2. ASSUME NEW o \in Openers, Create(o) PROVE MInv'
  BY <1>2, MoveKeepsMInv DEF Create, MInv, MigrationTypeOK
<1>3. ASSUME NEW o \in Openers, Fault(o) PROVE MInv'
  BY <1>3, MoveKeepsMInv DEF Fault, MInv, MigrationTypeOK
<1>4. ASSUME NEW o \in Openers, Close(o) PROVE MInv'
  BY <1>4, MoveKeepsMInv DEF Close, MInv, MigrationTypeOK
<1>5. CASE UNCHANGED migration
  BY <1>5 DEF migration, MInv, MigrationTypeOK, Ordered, Counted, AtScript, AtRecord,
     OneRecords, AtOpen, Pending
<1> QED
  BY <1>1, <1>2, <1>3, <1>4, <1>5, ReadVersionKeepsMInv, RunScriptKeepsMInv, RecordKeepsMInv
     DEF MNext, OpenStep

\* No opener gets past a script that nobody will record.
LEMMA WedgedStep ==
    MInv /\ [MNext]_migration /\ Wedged
      => Wedged' /\ \A o \in Openers : pc'[o] = "open" => pc[o] = "open"
<1> SUFFICES ASSUME MInv, [MNext]_migration, Wedged
             PROVE  Wedged' /\ \A o \in Openers : pc'[o] = "open" => pc[o] = "open"
  OBVIOUS
<1>1. /\ Len(applied) \in Nat /\ version \in Nat /\ version < Last
      /\ pc \in [Openers -> Stages]
  BY NoMoreThanLast, LastAssumption DEF MInv, MigrationTypeOK, Wedged
<1>2. ASSUME NEW o \in Openers, pc[o] = "script" PROVE \E i \in DOMAIN applied : applied[i] = at[o] + 1
  BY <1>2, RunnableIsNext, <1>1 DEF Wedged
<1>3. ASSUME NEW o \in Openers, RunScript(o)
      PROVE Wedged' /\ \A p \in Openers : pc'[p] = "open" => pc[p] = "open"
  BY <1>1, <1>2, <1>3 DEF RunScript, Go, Wedged
<1>4. ASSUME NEW o \in Openers, CheckPath(o) \/ Create(o) \/ ReadVersion(o) \/ Record(o) \/ Fault(o) \/ Close(o)
      PROVE Wedged' /\ \A p \in Openers : pc'[p] = "open" => pc[p] = "open"
  BY <1>1, <1>4 DEF CheckPath, Create, ReadVersion, Record, Fault, Close, Go, Onward, Wedged
<1>5. CASE UNCHANGED migration
  BY <1>5 DEF migration, Wedged
<1> QED
  BY <1>3, <1>4, <1>5 DEF MNext, OpenStep

\* Whatever the server and the tools do to the file, they do through Open.
LEMMA NextMigrates == [Next]_vars => [MNext]_migration
<1> SUFFICES ASSUME [Next]_vars PROVE [MNext]_migration
  OBVIOUS
<1> USE ServerAssumption
<1>1. CASE Start \/ Open \/ Exit \/ Crash \/ Tool
  BY <1>1 DEF Start, Open, Exit, Crash, Tool, MNext
<1>2. CASE LaunchAll \/ Listen \/ Leave \/ Shutdown \/ ProbeStopped
  BY <1>2 DEF LaunchAll, Listen, Leave, Shutdown, ProbeStopped
<1>3. CASE Sweep \/ Reap \/ Signal \/ Database \/ \E t \in Turns : Turn(t)
  BY <1>3 DEF Sweep, Reap, Signal, Database, Turn, Begin, Take, Store
<1>4. CASE Probing(Time) \/ Probing(PingAnswers) \/ Probing(PingGivesUp(Stopped)) \/ Probing(Loop)
  BY <1>4 DEF Probing
<1>5. CASE UNCHANGED vars
  BY <1>5 DEF vars
<1> QED
  BY <1>1, <1>2, <1>3, <1>4, <1>5 DEF Next, Main

\* The invariant of Open and migrate holds in every reachable state of the whole system.
THEOREM MInvHolds == Spec => []MInv
<1>1. Init => MInv
  BY MInvInit DEF Init
<1>2. MInv /\ [Next]_vars => MInv'
  BY MInvStep, NextMigrates
<1> QED
  BY <1>1, <1>2, PTL DEF Spec

\* Scripts are applied in order and once each, and whoever has the database open has
\* them all, for any number of processes that open the file and end anywhere in Open.
THEOREM MigratesInOrder == Spec => []AppliedInOrder
<1>1. MInv => AppliedInOrder
  BY NoMoreThanLast DEF MInv, MigrationTypeOK, Ordered, Counted, AtOpen, AppliedInOrder
<1> QED
  BY <1>1, MInvHolds, PTL

\* Processes that open the file at once cannot spoil it among themselves: a script without
\* its number takes an opener that ended between the two.
THEOREM RacesAreHarmless == Spec => []RaceIsHarmless
<1>1. MInv => RaceIsHarmless
  BY DEF MInv, Counted, Pending, RaceIsHarmless
<1> QED
  BY <1>1, MInvHolds, PTL

\* And when one has, no Open of the file gets through again.
THEOREM StaysWedged == Spec => WedgedForGood
<1>1. MInv /\ [Next]_vars
        => [Wedged => Wedged' /\ \A o \in Openers : pc'[o] = "open" => pc[o] = "open"]_migration
  BY WedgedStep, NextMigrates
<1> QED
  BY <1>1, MInvHolds, PTL DEF Spec, WedgedForGood

----------------------------------------------------------------------------
(***************************************************************************)
(* The server.  Where serve is determines what there is of the database,   *)
(* the handlers, and the reason for which it returns.                      *)
(***************************************************************************)
ServeTypeOK ==
    /\ phase \in Phases
    /\ cancelled \in BOOLEAN /\ cut \in BOOLEAN
    /\ pool \in {"none", "open", "closed"}
    /\ why \in {"none", "unbound", "asked", "overran", "failed"}
    /\ sweep \in 0 .. Len(Sweeps)
    /\ turn \in [Turns -> {"idle", "engine", "storing"}]

Hurried == why \in {"overran", "failed"}

PhaseFacts ==
    /\ phase = "down" => pc[Server] = "out"
    /\ phase = "opening" => pc[Server] \notin {"out", "open"}
    /\ phase \notin {"down", "opening"} => pc[Server] = "open"
    /\ phase \in {"down", "opening"} <=> pool = "none"
    /\ phase = "closing" <=> pool = "closed"
    /\ phase \notin {"stopping", "closing"} => why = "none"

TurnFacts ==
    /\ phase \notin {"serving", "draining"} /\ ~Hurried => \A t \in Turns : turn[t] = "idle"
    /\ cut => phase = "closing" /\ Hurried

PingFacts ==
    /\ ping = "cancelled" => Stopped
    /\ record.why # "cancelled"

SInv == ServeTypeOK /\ ProbeTypeOK /\ PhaseFacts /\ TurnFacts /\ PingFacts

LEMMA SweepCount == Len(Sweeps) \in Nat /\ 1 <= Len(Sweeps)
  BY SweepAssumption

LEMMA SInvInit == Init => SInv
<1> SUFFICES ASSUME Init PROVE SInv
  OBVIOUS
<1>0. /\ cancelled \in BOOLEAN /\ cut \in BOOLEAN /\ inFlight \in BOOLEAN /\ tick \in BOOLEAN
  BY Zenon DEF Init, ProbeOff
<1>1. ServeTypeOK
  BY <1>0, SweepCount DEF Init, ServeTypeOK, Phases
<1>2. ProbeTypeOK
  BY <1>0, ProbeAssumption DEF Init, ProbeOff, NoRecord, ProbeTypeOK, Databases, Results, Statuses
<1>3. PhaseFacts
  BY ServerAssumption DEF Init, MInit, PhaseFacts
<1>4. TurnFacts /\ PingFacts
  BY DEF Init, ProbeOff, NoRecord, TurnFacts, PingFacts
<1> QED
  BY <1>1, <1>2, <1>3, <1>4 DEF SInv

\* The end of the process, from anywhere.
LEMMA DownKeepsSInv ==
    ASSUME SInv, Down, UNCHANGED db, pc'[Server] = "out"
    PROVE  SInv'
<1>0. /\ cancelled' \in BOOLEAN /\ cut' \in BOOLEAN /\ inFlight' \in BOOLEAN /\ tick' \in BOOLEAN
  BY Zenon DEF Down, ProbeGone
<1>1. ServeTypeOK'
  BY <1>0, SweepCount DEF Down, ServeTypeOK, Phases
<1>2. ProbeTypeOK'
  BY <1>0, ProbeAssumption DEF SInv, Down, ProbeGone, NoRecord, ProbeTypeOK, Databases, Results, Statuses
<1>3. PhaseFacts' /\ TurnFacts' /\ PingFacts'
  BY DEF Down, ProbeGone, NoRecord, PhaseFacts, TurnFacts, PingFacts
<1> QED
  BY <1>1, <1>2, <1>3 DEF SInv

\* A step of serve or of a handler leaves the probe alone.
LEMMA ServingKeepsProbe ==
    ASSUME SInv, UNCHANGED <<db, probing>>, Stopped => Stopped'
    PROVE  ProbeTypeOK' /\ PingFacts'
  BY DEF SInv, probing, ProbeTypeOK, PingFacts

\* A step of the probe leaves serve alone.
LEMMA ProbingKeepsServing ==
    ASSUME SInv, UNCHANGED <<migration, serving>>
    PROVE  ServeTypeOK' /\ PhaseFacts' /\ TurnFacts' /\ (Stopped' <=> Stopped)
  BY DEF SInv, migration, serving, ServeTypeOK, PhaseFacts, TurnFacts, Hurried, Stopped

LEMMA UpKeepsSInv ==
    ASSUME MInv, MInv', SInv, Start \/ Open
    PROVE  SInv'
<1> USE ServerAssumption
<1>0. pc \in [Openers -> Stages] /\ pc' \in [Openers -> Stages]
  BY DEF MInv, MigrationTypeOK
<1>1. CASE Start
  <2>1. pc'[Server] \notin {"out", "open"}
    BY <1>0, <1>1 DEF Start, CheckPath, Go
  <2>2. ServeTypeOK' /\ PhaseFacts' /\ TurnFacts'
    BY <1>1, <2>1 DEF SInv, Start, ServeTypeOK, Phases, PhaseFacts, TurnFacts, Hurried
  <2>3. ProbeTypeOK' /\ PingFacts'
    BY <1>1, ServingKeepsProbe DEF Start, Stopped
  <2> QED
    BY <2>2, <2>3 DEF SInv
<1>2. CASE Open /\ pc'[Server] = "out"
  BY <1>2, DownKeepsSInv DEF Open
<1>3. CASE Open /\ pc'[Server] = "open"
  <2>1. /\ phase = "opening" /\ phase' = "sweeping" /\ pool' = "open" /\ sweep' = 1
        /\ UNCHANGED <<db, probing, cancelled, why, turn, cut>>
    BY <1>3 DEF Open
  <2>2. ServeTypeOK' /\ PhaseFacts' /\ TurnFacts'
    BY <1>3, <2>1, SweepCount DEF SInv, ServeTypeOK, Phases, PhaseFacts, TurnFacts, Hurried
  <2>3. ProbeTypeOK' /\ PingFacts'
    BY <2>1, ServingKeepsProbe DEF Stopped
  <2> QED
    BY <2>2, <2>3 DEF SInv
<1>4. CASE Open /\ pc'[Server] \notin {"out", "open"}
  <2>1. phase = "opening" /\ UNCHANGED <<db, probing, serving>>
    BY <1>4 DEF Open
  <2>2. ServeTypeOK' /\ PhaseFacts' /\ TurnFacts'
    BY <1>4, <2>1 DEF SInv, serving, ServeTypeOK, PhaseFacts, TurnFacts, Hurried
  <2>3. ProbeTypeOK' /\ PingFacts'
    BY <2>1, ServingKeepsProbe DEF Stopped, serving
  <2> QED
    BY <2>2, <2>3 DEF SInv
<1> QED
  BY <1>1, <1>2, <1>3, <1>4

\* The steps of serve after the database is open, and of the sweeps.
LEMMA ServeKeepsSInv ==
    ASSUME SInv, Sweep \/ Reap \/ Listen \/ Signal \/ Leave \/ Shutdown \/ ProbeStopped
    PROVE  SInv'
<1>1. UNCHANGED <<migration, db, probing>>
  BY DEF Sweep, Reap, Listen, Signal, Leave, Shutdown, ProbeStopped
<1>2. Stopped => Stopped'
  BY DEF Stopped, Sweep, Reap, Listen, Signal, Leave, Shutdown, ProbeStopped
<1>3. ServeTypeOK'
  <2> USE SweepCount DEF SInv, ServeTypeOK, Phases
  <2>1. CASE Sweep
    BY <2>1 DEF Sweep, AfterSweep, AfterFailedSweep
  <2>2. CASE Reap
    BY <2>2 DEF Reap
  <2>3. CASE Signal
    <3>1. cancelled' \in BOOLEAN
      BY <2>3, Zenon DEF Signal
    <3> QED
      BY <2>3, <3>1 DEF Signal
  <2>4. CASE Listen \/ Leave \/ Shutdown \/ ProbeStopped
    BY <2>4 DEF Listen, Leave, Shutdown, ProbeStopped
  <2> QED
    BY <2>1, <2>2, <2>3, <2>4
<1>4. PhaseFacts'
  BY <1>1 DEF SInv, ServeTypeOK, PhaseFacts, migration, Sweep, Reap, Listen, Signal, Leave, Shutdown, ProbeStopped
<1>5. TurnFacts'
  BY DEF SInv, PhaseFacts, TurnFacts, Hurried, Sweep, Reap, Listen, Signal, Leave,
     Shutdown, ProbeStopped, HandlersDone
<1> QED
  BY <1>1, <1>2, <1>3, <1>4, <1>5, ServingKeepsProbe DEF SInv

LEMMA LaunchKeepsSInv ==
    ASSUME SInv, LaunchAll
    PROVE  SInv'
<1>1. ServeTypeOK' /\ PhaseFacts' /\ TurnFacts'
  BY DEF SInv, LaunchAll, migration, ServeTypeOK, Phases, PhaseFacts, TurnFacts, Hurried
<1>2. ProbeTypeOK' /\ PingFacts'
  BY ProbeAssumption DEF SInv, LaunchAll, Launch, StartPing, ProbeTypeOK, PingFacts, Results
<1> QED
  BY <1>1, <1>2 DEF SInv

\* A handler that is at work when the pool is closed has been left behind.
LEMMA TurnKeepsSInv ==
    ASSUME SInv, NEW t \in Turns, Turn(t)
    PROVE  SInv'
<1>1. UNCHANGED <<migration, db, probing, phase, cancelled, pool, why, sweep>>
  BY DEF Turn, Begin, Take, Store
<1>2. ServeTypeOK' /\ PhaseFacts'
  BY <1>1 DEF SInv, ServeTypeOK, PhaseFacts, migration, Turn, Begin, Take, Store, Closed
<1>3. TurnFacts'
  BY <1>1 DEF SInv, ServeTypeOK, PhaseFacts, TurnFacts, Hurried, Turn, Begin, Take, Store, Closed
<1>4. ProbeTypeOK' /\ PingFacts'
  BY <1>1, ServingKeepsProbe DEF Stopped
<1> QED
  BY <1>2, <1>3, <1>4 DEF SInv

\* The probe publishes only while nobody has told it to stop, and a ping is cancelled only
\* after somebody has.
LEMMA ProbeKeepsSInv ==
    ASSUME SInv, Probing(Time) \/ Probing(PingAnswers) \/ Probing(PingGivesUp(Stopped)) \/ Probing(Loop)
    PROVE  SInv'
<1>1. ServeTypeOK' /\ PhaseFacts' /\ TurnFacts' /\ (Stopped' <=> Stopped)
  BY ProbingKeepsServing DEF Probing
<1>2. Time \/ PingAnswers \/ PingGivesUp(Stopped) \/ OnTick \/ OnResult(Stopped) \/ OnDone(Stopped) \/ Drain
  BY DEF Probing, Loop
<1>3. ProbeTypeOK'
  <2> USE ProbeAssumption DEF SInv, ProbeTypeOK, Results, Statuses
  <2>1. CASE Time
    BY <2>1 DEF Time, Older
  <2>2. CASE PingAnswers \/ PingGivesUp(Stopped)
    BY <2>2 DEF PingAnswers, PingGivesUp
  <2>3. CASE OnTick
    <3>1. inFlight' \in BOOLEAN /\ tick' \in BOOLEAN
      BY <2>3, Zenon DEF OnTick, StartPing
    <3> QED
      BY <2>3, <3>1 DEF OnTick, StartPing
  <2>4. CASE OnResult(Stopped)
    <3>1. inFlight' \in BOOLEAN /\ tick' \in BOOLEAN
      BY <2>4, Zenon DEF OnResult
    <3> QED
      BY <2>4, <3>1 DEF OnResult, Published
  <2>5. CASE OnDone(Stopped) \/ Drain
    BY <2>5 DEF OnDone, Drain
  <2> QED
    BY <1>2, <2>1, <2>2, <2>3, <2>4, <2>5
<1>4. PingFacts'
  <2> USE <1>1 DEF SInv, PingFacts
  <2>1. CASE Time
    BY <2>1 DEF Time, ProbeTypeOK
  <2>2. CASE PingAnswers \/ PingGivesUp(Stopped)
    BY <2>2 DEF PingAnswers, PingGivesUp
  <2>3. CASE OnTick
    BY <2>3 DEF OnTick, StartPing
  <2>4. CASE OnResult(Stopped)
    BY <2>4 DEF OnResult, Published
  <2>5. CASE OnDone(Stopped) \/ Drain
    BY <2>5 DEF OnDone, Drain
  <2> QED
    BY <1>2, <2>1, <2>2, <2>3, <2>4, <2>5
<1> QED
  BY <1>1, <1>3, <1>4 DEF SInv

LEMMA SInvStep == MInv /\ MInv' /\ SInv /\ [Next]_vars => SInv'
<1> SUFFICES ASSUME MInv, MInv', SInv, [Next]_vars PROVE SInv'
  OBVIOUS
<1> USE ServerAssumption
<1>0. pc \in [Openers -> Stages] /\ pc' \in [Openers -> Stages]
  BY DEF MInv, MigrationTypeOK
<1>1. CASE Exit
  <2>1. pc'[Server] = "out"
    BY <1>0, <1>1 DEF Exit, Close, Go
  <2> QED
    BY <1>1, <2>1, DownKeepsSInv DEF Exit
<1>2. CASE Crash
  <2>1. pc'[Server] = "out"
    BY <1>0, <1>2 DEF Crash, Fault, Go
  <2> QED
    BY <1>2, <2>1, DownKeepsSInv DEF Crash
<1>3. CASE Tool
  <2>1. pc'[Server] = pc[Server] /\ UNCHANGED <<db, probing, serving>>
    BY <1>0, <1>3 DEF Tool, OpenStep, CheckPath, Create, ReadVersion, RunScript, Record, Fault, Close, Go
  <2>2. ServeTypeOK' /\ PhaseFacts' /\ TurnFacts'
    BY <2>1 DEF SInv, serving, ServeTypeOK, PhaseFacts, TurnFacts, Hurried
  <2>3. ProbeTypeOK' /\ PingFacts'
    BY <2>1, ServingKeepsProbe DEF Stopped, serving
  <2> QED
    BY <2>2, <2>3 DEF SInv
<1>4. CASE Database
  <2>1. UNCHANGED <<migration, probing, serving>> /\ db' \in Databases
    BY <1>4 DEF Database
  <2>2. ServeTypeOK' /\ PhaseFacts' /\ TurnFacts' /\ (Stopped' <=> Stopped)
    BY <2>1, ProbingKeepsServing
  <2>3. ProbeTypeOK' /\ PingFacts'
    BY <2>1, <2>2 DEF SInv, probing, ProbeTypeOK, PingFacts
  <2> QED
    BY <2>2, <2>3 DEF SInv
<1>5. CASE UNCHANGED vars
  <2>1. UNCHANGED <<migration, serving>> /\ UNCHANGED <<db, probing>>
    BY <1>5 DEF vars
  <2>2. ServeTypeOK' /\ PhaseFacts' /\ TurnFacts' /\ (Stopped' <=> Stopped)
    BY <2>1, ProbingKeepsServing
  <2> QED
    BY <2>1, <2>2, ServingKeepsProbe DEF SInv
<1> QED
  BY <1>1, <1>2, <1>3, <1>4, <1>5, UpKeepsSInv, ServeKeepsSInv, LaunchKeepsSInv, TurnKeepsSInv,
     ProbeKeepsSInv DEF Next, Main

\* So does the invariant of serve, the handlers and the probe.
THEOREM SInvHolds == Spec => []SInv
<1>1. Init => SInv
  BY SInvInit
<1>2. MInv /\ MInv' /\ SInv /\ [Next]_vars => SInv'
  BY SInvStep
<1> QED
  BY <1>1, <1>2, MInvHolds, PTL DEF Spec

\* Every variable of the server, the probe and the file keeps its type, and there is a pool
\* exactly while the server has the database open.
THEOREM TypeCorrect == Spec => []TypeOK
<1>1. MInv /\ SInv => TypeOK
  BY DEF MInv, SInv, ServeTypeOK, PhaseFacts, TypeOK
<1> QED
  BY <1>1, MInvHolds, SInvHolds, PTL

\* A turn is cut off by the closed pool only if Shutdown overran or serving had failed, for
\* any number of turns in flight and wherever the probe and the reaper are.
THEOREM StoresTurns == Spec => []TurnsAreStored
<1>1. SInv => TurnsAreStored
  BY DEF SInv, TurnFacts, Hurried, TurnsAreStored
<1> QED
  BY <1>1, SInvHolds, PTL

\* The end of the server is never published as a failure of the database.
THEOREM StoppingIsHealthy == Spec => []ShutdownIsNoFailure
<1>1. SInv => ShutdownIsNoFailure
  BY DEF SInv, PingFacts, ShutdownIsNoFailure
<1> QED
  BY <1>1, SInvHolds, PTL
=============================================================================
