----------------------------- MODULE KeyedMutex -----------------------------
(***************************************************************************)
(* The per-session lock of the game service, keyedMutex in                 *)
(* src/internal/game/session.go, step by step: one mutex guards a map from *)
(* keys to reference-counted entries, and every entry has a mutex of its   *)
(* own.  An entry is made by the first goroutine to ask for a key and is   *)
(* dropped from the map by the last one to leave.                          *)
(*                                                                         *)
(* A mutex is the goroutine that holds it.  What happens between           *)
(* k.mu.Lock() and k.mu.Unlock() is one step: nobody else looks at the map *)
(* or at a count without k.mu.                                             *)
(***************************************************************************)
EXTENDS FiniteSets, Naturals

CONSTANTS
    Threads,    \* the goroutines serving requests
    Keys,       \* the session identifiers they lock
    Entries,    \* the keyedLock objects the heap can hold at once
    NoThread, NoKey, NoEntry

ASSUME NullAssumption ==
    /\ NoThread \notin Threads
    /\ NoKey \notin Keys
    /\ NoEntry \notin Entries

ASSUME FiniteAssumption == IsFiniteSet(Threads)

VARIABLES
    mu,         \* who holds k.mu
    locks,      \* k.locks: the entry a key maps to, or NoEntry
    entryMu,    \* who holds an entry's mutex
    holders,    \* an entry's count of goroutines that hold it or wait for it
    pc,         \* where a goroutine is in lock or in the function it returned
    key,        \* the key it asked for
    entry       \* the entry it found or made for that key

vars == <<mu, locks, entryMu, holders, pc, key, entry>>

PCs == {"idle", "enter", "enlist", "wait", "held", "leave", "drop"}

\* The goroutines that are counted in their entry's holders.
Enlisted == {t \in Threads : pc[t] \in {"wait", "held", "leave", "drop"}}

\* The goroutines an entry's count should stand for.
HoldersOf(e) == {t \in Enlisted : entry[t] = e}

\* A keyedLock nothing refers to: what &keyedLock{} can return.
Unreferenced(e) ==
    /\ \A k \in Keys : locks[k] # e
    /\ \A t \in Threads : entry[t] # e

Init ==
    /\ mu = NoThread
    /\ locks = [k \in Keys |-> NoEntry]
    /\ entryMu = [e \in Entries |-> NoThread]
    /\ holders = [e \in Entries |-> 0]
    /\ pc = [t \in Threads |-> "idle"]
    /\ key = [t \in Threads |-> NoKey]
    /\ entry = [t \in Threads |-> NoEntry]

\* A goroutine calls lock(key).
Call(t, k) ==
    /\ pc[t] = "idle"
    /\ pc' = [pc EXCEPT ![t] = "enter"]
    /\ key' = [key EXCEPT ![t] = k]
    /\ UNCHANGED <<mu, locks, entryMu, holders, entry>>

\* k.mu.Lock(), on the way in.
LockMap(t) ==
    /\ pc[t] = "enter"
    /\ mu = NoThread
    /\ mu' = t
    /\ pc' = [pc EXCEPT ![t] = "enlist"]
    /\ UNCHANGED <<locks, entryMu, holders, key, entry>>

\* Mutant: a goroutine that finds an entry is not counted in.
EnlistFoundUncounted(t) ==
    /\ pc[t] = "enlist"
    /\ locks[key[t]] # NoEntry
    /\ entry' = [entry EXCEPT ![t] = locks[key[t]]]
    /\ pc' = [pc EXCEPT ![t] = "wait"]
    /\ mu' = NoThread
    /\ UNCHANGED <<locks, entryMu, key, holders>>

\* Find the key's entry or make one, count the caller in, k.mu.Unlock().
EnlistFound(t) ==
    /\ pc[t] = "enlist"
    /\ locks[key[t]] # NoEntry
    /\ entry' = [entry EXCEPT ![t] = locks[key[t]]]
    /\ holders' = [holders EXCEPT ![locks[key[t]]] = @ + 1]
    /\ pc' = [pc EXCEPT ![t] = "wait"]
    /\ mu' = NoThread
    /\ UNCHANGED <<locks, entryMu, key>>

EnlistMade(t, e) ==
    /\ pc[t] = "enlist"
    /\ locks[key[t]] = NoEntry
    /\ Unreferenced(e)
    /\ entry' = [entry EXCEPT ![t] = e]
    /\ locks' = [locks EXCEPT ![key[t]] = e]
    /\ holders' = [holders EXCEPT ![e] = 1]
    /\ entryMu' = [entryMu EXCEPT ![e] = NoThread]
    /\ pc' = [pc EXCEPT ![t] = "wait"]
    /\ mu' = NoThread
    /\ UNCHANGED key

\* Mutant: lock returns without locking the entry it found.
LockEntryUnlocked(t) ==
    /\ pc[t] = "wait"
    /\ pc' = [pc EXCEPT ![t] = "held"]
    /\ UNCHANGED <<mu, locks, entryMu, holders, key, entry>>

\* entry.mu.Lock(): lock returns to its caller.
LockEntry(t) ==
    /\ pc[t] = "wait"
    /\ entryMu[entry[t]] = NoThread
    /\ entryMu' = [entryMu EXCEPT ![entry[t]] = t]
    /\ pc' = [pc EXCEPT ![t] = "held"]
    /\ UNCHANGED <<mu, locks, holders, key, entry>>

\* Mutant: the returned function counts the caller out and leaves the entry locked.
UnlockEntryForgotten(t) ==
    /\ pc[t] = "held"
    /\ pc' = [pc EXCEPT ![t] = "leave"]
    /\ UNCHANGED <<mu, locks, entryMu, holders, key, entry>>

\* The returned function: entry.mu.Unlock() ...
UnlockEntry(t) ==
    /\ pc[t] = "held"
    /\ entryMu' = [entryMu EXCEPT ![entry[t]] = NoThread]
    /\ pc' = [pc EXCEPT ![t] = "leave"]
    /\ UNCHANGED <<mu, locks, holders, key, entry>>

\* ... k.mu.Lock(), on the way out ...
LockMapToLeave(t) ==
    /\ pc[t] = "leave"
    /\ mu = NoThread
    /\ mu' = t
    /\ pc' = [pc EXCEPT ![t] = "drop"]
    /\ UNCHANGED <<locks, entryMu, holders, key, entry>>

\* Mutants: the entry is dropped behind everybody, or behind nobody.
EveryoneIsLast(t) == TRUE
NobodyIsLast(t) == FALSE

\* Is the goroutine that is leaving the last one counted?
LastToLeave(t) == holders[entry[t]] - 1 = 0

\* ... count the caller out, drop the entry behind the last one, k.mu.Unlock().
Drop(t) ==
    /\ pc[t] = "drop"
    /\ holders' = [holders EXCEPT ![entry[t]] = @ - 1]
    /\ locks' = IF LastToLeave(t) THEN [locks EXCEPT ![key[t]] = NoEntry] ELSE locks
    /\ pc' = [pc EXCEPT ![t] = "idle"]
    /\ key' = [key EXCEPT ![t] = NoKey]
    /\ entry' = [entry EXCEPT ![t] = NoEntry]
    /\ mu' = NoThread
    /\ UNCHANGED entryMu

Enlist(t) == EnlistFound(t) \/ \E e \in Entries : EnlistMade(t, e)

Next ==
    \E t \in Threads :
        \/ \E k \in Keys : Call(t, k)
        \/ LockMap(t)
        \/ Enlist(t)
        \/ LockEntry(t)
        \/ UnlockEntry(t)
        \/ LockMapToLeave(t)
        \/ Drop(t)

Spec == Init /\ [][Next]_vars

\* A goroutine that can run is run, and a Go mutex is not withheld from one
\* waiter forever: after a millisecond a waiter is handed the mutex directly.
\* Nothing obliges a caller to ask for a key; one that holds a key gives it up
\* because every cycle that holds it ends (the deferred unlock).
Fairness ==
    \A t \in Threads :
        /\ SF_vars(LockMap(t))
        /\ WF_vars(Enlist(t))
        /\ SF_vars(LockEntry(t))
        /\ WF_vars(UnlockEntry(t))
        /\ SF_vars(LockMapToLeave(t))
        /\ WF_vars(Drop(t))

FairSpec == Spec /\ Fairness

----------------------------------------------------------------------------
\* Every variable of the lock keeps its type.
TypeOK ==
    /\ mu \in Threads \cup {NoThread}
    /\ locks \in [Keys -> Entries \cup {NoEntry}]
    /\ entryMu \in [Entries -> Threads \cup {NoThread}]
    /\ holders \in [Entries -> Nat]
    /\ pc \in [Threads -> PCs]
    /\ key \in [Threads -> Keys \cup {NoKey}]
    /\ entry \in [Threads -> Entries \cup {NoEntry}]

\* keyedMutex.lock: two goroutines never hold the same key, even though the
\* entry a key maps to comes and goes while goroutines ask for it.
MutualExclusion ==
    \A t, u \in Threads :
        (pc[t] = "held" /\ pc[u] = "held" /\ key[t] = key[u]) => t = u

\* "Entries are dropped when the last holder leaves" and not before: the map
\* holds an entry for exactly the keys somebody holds, waits for or is leaving.
EntriesMatchHolders ==
    \A k \in Keys : locks[k] # NoEntry <=> \E t \in Enlisted : key[t] = k

\* lock and the function it returns, seen from outside: a key goes from nobody
\* to one goroutine and back, and never straight from one to another.
owner ==
    [k \in Keys |->
        IF \E t \in Threads : pc[t] = "held" /\ key[t] = k
        THEN CHOOSE t \in Threads : pc[t] = "held" /\ key[t] = k
        ELSE NoThread]

KL == INSTANCE KeyedLock
ImplementsKeyedLock == KL!Spec

\* Every goroutine that asks for a key gets it.
AskersServed == \A t \in Threads : pc[t] = "enter" ~> pc[t] = "held"
=============================================================================
