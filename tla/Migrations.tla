----------------------------- MODULE Migrations -----------------------------
(***************************************************************************)
(* database.Open (src/internal/database/database.go): processes that open  *)
(* one database file, create it (zorkd init) or insist that it is there    *)
(* (the server, zorkd invite), and apply the migrations it has not seen.   *)
(*                                                                         *)
(* Nothing but SQLite stands between two openers: each reads user_version  *)
(* once, and then runs a script, which commits as a whole, and records its *)
(* number, which commits by itself, for every number after that.           *)
(***************************************************************************)
EXTENDS Integers, Sequences

CONSTANTS
    Openers,        \* processes that open the file
    Inits,          \* the ones that create it
    Last            \* the scripts are numbered 1 .. Last (migrations.All)

ASSUME OpenerAssumption == Inits \subseteq Openers
ASSUME LastAssumption == Last \in Nat \ {0}     \* All: "none embedded" is an error

VARIABLES
    file,           \* the file exists
    applied,        \* the scripts that were committed, in their order
    version,        \* user_version
    pc,             \* where an opener is
    at,             \* the version an opener takes the database to have
    hurt            \* history: an opener ended between a script and its number

migration == <<file, applied, version, pc, at, hurt>>

Stages == {"out", "create", "version", "script", "record", "open"}

Go(o, stage) == pc' = [pc EXCEPT ![o] = stage]

\* Where an opener goes that takes the database to have version v.
Onward(v) == IF v < Last THEN "script" ELSE "open"

MInit ==
    /\ file = FALSE
    /\ applied = <<>>
    /\ version = 0
    /\ pc = [o \in Openers |-> "out"]
    /\ at = [o \in Openers |-> 0]
    /\ hurt = FALSE

\* checkPath: a file to create must not exist yet, and any other must.  Nothing happens
\* to the others.
CheckPath(o) ==
    /\ pc[o] = "out"
    /\ o \in Inits <=> ~file
    /\ Go(o, IF o \in Inits THEN "create" ELSE "version")
    /\ UNCHANGED <<file, applied, version, at, hurt>>

\* O_EXCL: of two that found no file, one creates it.
Create(o) ==
    /\ pc[o] = "create"
    /\ IF file THEN Go(o, "out") ELSE Go(o, "version")
    /\ file' = TRUE
    /\ UNCHANGED <<applied, version, at, hurt>>

\* userVersion: the version is read once.
ReadVersion(o) ==
    /\ pc[o] = "version"
    /\ at' = [at EXCEPT ![o] = version]
    /\ Go(o, Onward(version))
    /\ UNCHANGED <<file, applied, version, hurt>>

\* Mutant: nothing in a script keeps it from being applied twice.
RunScriptTwice(o) ==
    /\ pc[o] = "script"
    /\ applied' = Append(applied, at[o] + 1)
    /\ Go(o, "record")
    /\ UNCHANGED <<file, version, at, hurt>>

\* Mutant: a second run of a script is taken for a success (CREATE TABLE IF NOT EXISTS).
RunScriptAgain(o) ==
    /\ pc[o] = "script"
    /\ applied' = IF \E i \in DOMAIN applied : applied[i] = at[o] + 1
                  THEN applied ELSE Append(applied, at[o] + 1)
    /\ Go(o, "record")
    /\ UNCHANGED <<file, version, at, hurt>>

\* ExecuteScript, in a savepoint.  Every script creates a table or adds a column, so
\* a second run of it fails and changes nothing.
RunScript(o) ==
    /\ pc[o] = "script"
    /\ IF \E i \in DOMAIN applied : applied[i] = at[o] + 1
       THEN Go(o, "out") /\ UNCHANGED applied
       ELSE Go(o, "record") /\ applied' = Append(applied, at[o] + 1)
    /\ UNCHANGED <<file, version, at, hurt>>

\* PRAGMA user_version, a statement of its own.
Record(o) ==
    /\ pc[o] = "record"
    /\ version' = at[o] + 1
    /\ at' = [at EXCEPT ![o] = @ + 1]
    /\ Go(o, Onward(at[o] + 1))
    /\ UNCHANGED <<file, applied, hurt>>

\* An opener ends where it is: it crashes, a statement fails (SQLITE_BUSY, a full
\* disk), or the signal that stops the server interrupts its connection.
Fault(o) ==
    /\ pc[o] # "out"
    /\ Go(o, "out")
    /\ hurt' = (hurt \/ pc[o] = "record")
    /\ UNCHANGED <<file, applied, version, at>>

\* An opener is done with the database.
Close(o) ==
    /\ pc[o] = "open"
    /\ Go(o, "out")
    /\ UNCHANGED <<file, applied, version, at, hurt>>

\* A step of Open that nothing disturbs.
OpenStep(o) == Create(o) \/ ReadVersion(o) \/ RunScript(o) \/ Record(o)

MNext == \E o \in Openers : CheckPath(o) \/ OpenStep(o) \/ Fault(o) \/ Close(o)

MSpec == MInit /\ [][MNext]_migration

----------------------------------------------------------------------------
\* Every variable keeps its type.
MigrationTypeOK ==
    /\ file \in BOOLEAN /\ hurt \in BOOLEAN
    /\ applied \in Seq(1 .. Last)
    /\ version \in 0 .. Last
    /\ pc \in [Openers -> Stages]
    /\ at \in [Openers -> 0 .. Last]

\* package migrations: scripts "are applied in order, once each", whoever opens the
\* file at the same time and wherever they end; and an open database has them all.
AppliedInOrder ==
    /\ \A i \in DOMAIN applied : applied[i] = i
    /\ \A o \in Openers : pc[o] = "open" => Len(applied) = Last

\* Openers that only race leave the database fit to be opened: user_version is the
\* number of scripts that ran, but for one that is just about to be recorded.
RaceIsHarmless ==
    /\ version <= Len(applied)
    /\ Len(applied) > version /\ ~hurt => \E o \in Openers : pc[o] = "record"

\* A script has run whose number nobody is going to record.
Wedged == Len(applied) > version /\ \A o \in Openers : pc[o] # "record"

\* What an end between a script and its number costs: migrate runs the script again,
\* which fails, and so does every Open of this file from then on.
WedgedForGood ==
    [][Wedged => Wedged' /\ \A o \in Openers : pc'[o] = "open" => pc[o] = "open"]_migration
=============================================================================
