-------------------------- MODULE KeyedMutex_proofs --------------------------
(***************************************************************************)
(* Proofs about KeyedMutex, for any finite set of goroutines, any keys and *)
(* any heap.  The inductive invariant says which goroutine k.mu stands     *)
(* for, that the map still leads every enlisted goroutine to the entry it  *)
(* enlisted in, that no two keys share an entry, that a count is exactly   *)
(* the number of goroutines enlisted, and which goroutine holds an entry.  *)
(***************************************************************************)
EXTENDS KeyedMutex, FiniteSetTheorems, TLAPS

\* k.mu is held by exactly the goroutine that is inside a critical section.
MapMutexInv ==
    \A t \in Threads : mu = t <=> pc[t] \in {"enlist", "drop"}

\* A goroutine between Call and Drop has a key; only enlisted ones have an entry.
LocalInv ==
    \A t \in Threads :
        /\ pc[t] # "idle" => key[t] \in Keys
        /\ t \notin Enlisted => entry[t] = NoEntry

\* The entry a goroutine is counted in is still the one its key maps to.
StillMapped ==
    \A t \in Enlisted : entry[t] \in Entries /\ locks[key[t]] = entry[t]

\* An entry serves one key.
OneKeyPerEntry ==
    \A j, k \in Keys : (locks[j] = locks[k] /\ locks[j] # NoEntry) => j = k

\* An entry in the map is counted right and somebody is counted in it.
CountInv ==
    \A k \in Keys : locks[k] # NoEntry =>
        /\ holders[locks[k]] = Cardinality(HoldersOf(locks[k]))
        /\ HoldersOf(locks[k]) # {}

\* An entry's mutex is held by the goroutine that holds the entry's key.
EntryMutexInv ==
    /\ \A t \in Threads : pc[t] = "held" => entryMu[entry[t]] = t
    /\ \A e \in Entries : entryMu[e] # NoThread => pc[entryMu[e]] = "held" /\ entry[entryMu[e]] = e

Inv ==
    /\ TypeOK
    /\ MapMutexInv
    /\ LocalInv
    /\ StillMapped
    /\ OneKeyPerEntry
    /\ CountInv
    /\ EntryMutexInv

----------------------------------------------------------------------------
\* Every set of enlisted goroutines is finite, so its count is a number.
LEMMA HoldersFinite ==
    ASSUME NEW e
    PROVE  IsFiniteSet(HoldersOf(e)) /\ Cardinality(HoldersOf(e)) \in Nat
<1>1. HoldersOf(e) \in SUBSET Threads
  BY DEF HoldersOf, Enlisted
<1>2. QED
  BY <1>1, FiniteAssumption, FS_Subset, FS_CardinalityType

\* A step that moves nobody into or out of the enlisted goroutines, and leaves
\* the map, the counts and their entries alone, keeps the bookkeeping right.
LEMMA BookkeepingKept ==
    ASSUME Inv, UNCHANGED <<locks, holders, entry>>, Enlisted' = Enlisted,
           \A t \in Enlisted : key'[t] = key[t]
    PROVE  StillMapped' /\ OneKeyPerEntry' /\ CountInv'
<1>1. \A e : HoldersOf(e)' = HoldersOf(e)
  BY DEF HoldersOf
<1>2. StillMapped'
  BY DEF Inv, StillMapped
<1>3. OneKeyPerEntry'
  BY DEF Inv, OneKeyPerEntry
<1>4. CountInv'
  BY <1>1 DEF Inv, CountInv
<1>5. QED
  BY <1>2, <1>3, <1>4

LEMMA InitInv == Init => Inv
<1> SUFFICES ASSUME Init PROVE Inv
  OBVIOUS
<1>1. TypeOK
  BY DEF Init, TypeOK, PCs
<1>2. Enlisted = {}
  BY DEF Init, Enlisted
<1>3. MapMutexInv /\ LocalInv /\ StillMapped /\ OneKeyPerEntry /\ CountInv
  BY <1>2, NullAssumption DEF Init, MapMutexInv, LocalInv, StillMapped, OneKeyPerEntry, CountInv
<1>4. EntryMutexInv
  BY DEF Init, EntryMutexInv
<1>5. QED
  BY <1>1, <1>3, <1>4 DEF Inv

LEMMA CallInv ==
    ASSUME Inv, NEW t \in Threads, NEW k \in Keys, Call(t, k)
    PROVE  Inv'
<1>1. TypeOK'
  BY DEF Inv, TypeOK, Call, PCs
<1>2. Enlisted' = Enlisted /\ (\A u \in Enlisted : key'[u] = key[u])
  BY DEF Inv, TypeOK, Call, Enlisted
<1>3. MapMutexInv'
  BY DEF Inv, TypeOK, MapMutexInv, Call
<1>4. LocalInv'
  BY <1>2 DEF Inv, TypeOK, LocalInv, Call
<1>5. StillMapped' /\ OneKeyPerEntry' /\ CountInv'
  BY <1>2, BookkeepingKept DEF Call
<1>6. EntryMutexInv'
  BY DEF Inv, TypeOK, EntryMutexInv, Call
<1>7. QED
  BY <1>1, <1>3, <1>4, <1>5, <1>6 DEF Inv

\* Taking k.mu, on the way in or on the way out, changes who is inside and
\* nothing the entries depend on.
LEMMA LockMapInv ==
    ASSUME Inv, NEW t \in Threads, LockMap(t) \/ LockMapToLeave(t)
    PROVE  Inv'
<1>1. TypeOK'
  BY DEF Inv, TypeOK, LockMap, LockMapToLeave, PCs
<1>2. Enlisted' = Enlisted /\ (\A u \in Enlisted : key'[u] = key[u])
  BY DEF Inv, TypeOK, LockMap, LockMapToLeave, Enlisted
<1>3. MapMutexInv'
  BY NullAssumption DEF Inv, TypeOK, MapMutexInv, LockMap, LockMapToLeave
<1>4. LocalInv'
  BY <1>2 DEF Inv, TypeOK, LocalInv, LockMap, LockMapToLeave
<1>5. StillMapped' /\ OneKeyPerEntry' /\ CountInv'
  BY <1>2, BookkeepingKept DEF LockMap, LockMapToLeave
<1>6. EntryMutexInv'
  BY DEF Inv, TypeOK, EntryMutexInv, LockMap, LockMapToLeave
<1>7. QED
  BY <1>1, <1>3, <1>4, <1>5, <1>6 DEF Inv

LEMMA LockEntryInv ==
    ASSUME Inv, NEW t \in Threads, LockEntry(t)
    PROVE  Inv'
<1>0. t \in Enlisted /\ entry[t] \in Entries
  BY DEF Inv, StillMapped, LockEntry, Enlisted
<1>1. TypeOK'
  BY <1>0 DEF Inv, TypeOK, LockEntry, PCs
<1>2. Enlisted' = Enlisted /\ (\A u \in Enlisted : key'[u] = key[u])
  BY DEF Inv, TypeOK, LockEntry, Enlisted
<1>3. MapMutexInv'
  BY DEF Inv, TypeOK, MapMutexInv, LockEntry
<1>4. LocalInv'
  BY <1>2 DEF Inv, TypeOK, LocalInv, LockEntry
<1>5. StillMapped' /\ OneKeyPerEntry' /\ CountInv'
  BY <1>2, BookkeepingKept DEF LockEntry
<1>6. EntryMutexInv'
  BY <1>0, NullAssumption DEF Inv, TypeOK, EntryMutexInv, LockEntry
<1>7. QED
  BY <1>1, <1>3, <1>4, <1>5, <1>6 DEF Inv

LEMMA UnlockEntryInv ==
    ASSUME Inv, NEW t \in Threads, UnlockEntry(t)
    PROVE  Inv'
<1>0. t \in Enlisted /\ entry[t] \in Entries
  BY DEF Inv, StillMapped, UnlockEntry, Enlisted
<1>1. TypeOK'
  BY <1>0 DEF Inv, TypeOK, UnlockEntry, PCs
<1>2. Enlisted' = Enlisted /\ (\A u \in Enlisted : key'[u] = key[u])
  BY DEF Inv, TypeOK, UnlockEntry, Enlisted
<1>3. MapMutexInv'
  BY DEF Inv, TypeOK, MapMutexInv, UnlockEntry
<1>4. LocalInv'
  BY <1>2 DEF Inv, TypeOK, LocalInv, UnlockEntry
<1>5. StillMapped' /\ OneKeyPerEntry' /\ CountInv'
  BY <1>2, BookkeepingKept DEF UnlockEntry
<1>6. EntryMutexInv'
  BY <1>0, NullAssumption DEF Inv, TypeOK, EntryMutexInv, UnlockEntry
<1>7. QED
  BY <1>1, <1>3, <1>4, <1>5, <1>6 DEF Inv

\* Enlisting in the entry the key already maps to: one more goroutine, one more
\* in the count.
LEMMA EnlistFoundInv ==
    ASSUME Inv, NEW t \in Threads, EnlistFound(t)
    PROVE  Inv'
<1>e. PICK e : e = locks[key[t]]
  OBVIOUS
<1>0. key[t] \in Keys /\ e = locks[key[t]] /\ e \in Entries /\ t \notin Enlisted /\ entry[t] = NoEntry
  BY <1>e DEF Inv, TypeOK, LocalInv, EnlistFound, Enlisted
<1>1. TypeOK'
  BY <1>0 DEF Inv, TypeOK, EnlistFound, PCs
<1>2. Enlisted' = Enlisted \cup {t}
  BY DEF Inv, TypeOK, EnlistFound, Enlisted
<1>3. MapMutexInv'
  BY NullAssumption DEF Inv, TypeOK, MapMutexInv, EnlistFound
<1>4. LocalInv'
  BY <1>0, <1>2 DEF Inv, TypeOK, LocalInv, EnlistFound
<1>5. StillMapped'
  BY <1>0, <1>2 DEF Inv, TypeOK, StillMapped, EnlistFound, Enlisted
<1>6. OneKeyPerEntry'
  BY DEF Inv, OneKeyPerEntry, EnlistFound
<1>7. CountInv'
  <2>1. HoldersOf(e)' = HoldersOf(e) \cup {t} /\ t \notin HoldersOf(e)
    BY <1>0, <1>2 DEF Inv, TypeOK, HoldersOf, EnlistFound, Enlisted
  <2>2. \A d \in Entries \ {e} : HoldersOf(d)' = HoldersOf(d)
    BY <1>0, <1>2 DEF Inv, TypeOK, HoldersOf, EnlistFound, Enlisted
  <2>3. Cardinality(HoldersOf(e) \cup {t}) = Cardinality(HoldersOf(e)) + 1
    BY <2>1, HoldersFinite, FS_AddElement
  <2>4. holders[e] = Cardinality(HoldersOf(e))
    BY <1>0 DEF Inv, CountInv, EnlistFound
  <2>5. holders' = [holders EXCEPT ![e] = Cardinality(HoldersOf(e)')] /\ locks' = locks
    BY <1>0, <2>1, <2>3, <2>4 DEF EnlistFound
  <2>6. SUFFICES ASSUME NEW k \in Keys, locks[k] # NoEntry
                 PROVE  holders'[locks[k]] = Cardinality(HoldersOf(locks[k])') /\ HoldersOf(locks[k])' # {}
    BY <2>5 DEF CountInv, HoldersOf, Enlisted
  <2>7. CASE locks[k] = e
    BY <1>0, <2>1, <2>5, <2>7 DEF Inv, TypeOK
  <2>8. CASE locks[k] # e
    BY <1>0, <2>2, <2>5, <2>6, <2>8 DEF Inv, TypeOK, CountInv
  <2>9. QED
    BY <2>7, <2>8
<1>8. EntryMutexInv'
  <2>1. \A d \in Entries : entryMu[d] # NoThread => entryMu[d] # t
    BY DEF Inv, TypeOK, EntryMutexInv, EnlistFound
  <2>2. QED
    BY <2>1 DEF Inv, TypeOK, EntryMutexInv, EnlistFound
<1>9. QED
  BY <1>1, <1>3, <1>4, <1>5, <1>6, <1>7, <1>8 DEF Inv

\* Enlisting in a new entry: it was nobody's, so its count of one is the caller.
LEMMA EnlistMadeInv ==
    ASSUME Inv, NEW t \in Threads, NEW e \in Entries, EnlistMade(t, e)
    PROVE  Inv'
<1>0. key[t] \in Keys /\ locks[key[t]] = NoEntry /\ t \notin Enlisted
  BY DEF Inv, TypeOK, LocalInv, EnlistMade, Enlisted
<1>1. TypeOK'
  BY <1>0 DEF Inv, TypeOK, EnlistMade, PCs
<1>2. Enlisted' = Enlisted \cup {t}
  BY DEF Inv, TypeOK, EnlistMade, Enlisted
<1>3. MapMutexInv'
  BY NullAssumption DEF Inv, TypeOK, MapMutexInv, EnlistMade
<1>4. LocalInv'
  BY <1>0, <1>2 DEF Inv, TypeOK, LocalInv, EnlistMade
<1>5. StillMapped'
  BY <1>0, <1>2, NullAssumption DEF Inv, TypeOK, StillMapped, EnlistMade, Enlisted
<1>6. OneKeyPerEntry'
  BY <1>0 DEF Inv, TypeOK, OneKeyPerEntry, EnlistMade, Unreferenced
<1>7. CountInv'
  <2>1. HoldersOf(e)' = {t}
    BY <1>2 DEF Inv, TypeOK, HoldersOf, EnlistMade, Enlisted, Unreferenced
  <2>2. \A d \in Entries \ {e} : HoldersOf(d)' = HoldersOf(d)
    BY <1>0, <1>2 DEF Inv, TypeOK, LocalInv, HoldersOf, EnlistMade, Enlisted
  <2>3. holders' = [holders EXCEPT ![e] = Cardinality(HoldersOf(e)')]
    BY <2>1, FS_Singleton DEF EnlistMade
  <2>4. SUFFICES ASSUME NEW k \in Keys, NEW d, d = locks'[k], d # NoEntry
                 PROVE  holders'[d] = Cardinality(HoldersOf(d)') /\ HoldersOf(d)' # {}
    BY DEF CountInv, HoldersOf, Enlisted
  <2>5. CASE k = key[t]
    BY <1>0, <2>1, <2>3, <2>4, <2>5 DEF Inv, TypeOK, EnlistMade
  <2>6. CASE k # key[t]
    <3>1. d = locks[k] /\ d \in Entries \ {e}
      BY <2>4, <2>6 DEF Inv, TypeOK, EnlistMade, Unreferenced
    <3>2. QED
      BY <2>2, <2>3, <2>4, <3>1 DEF Inv, TypeOK, CountInv
  <2>7. QED
    BY <2>5, <2>6
<1>8. EntryMutexInv'
  <2>1. \A d \in Entries : entryMu[d] # NoThread => entryMu[d] # t
    BY DEF Inv, TypeOK, EntryMutexInv, EnlistMade
  <2>2. QED
    BY <2>1, NullAssumption DEF Inv, TypeOK, EntryMutexInv, EnlistMade, Unreferenced
<1>9. QED
  BY <1>1, <1>3, <1>4, <1>5, <1>6, <1>7, <1>8 DEF Inv

\* Leaving: the count goes down by the one goroutine that leaves, and reaches
\* zero exactly when it was the last, which is when nobody needs the entry.
LEMMA DropInv ==
    ASSUME Inv, NEW t \in Threads, Drop(t)
    PROVE  Inv'
<1>e. PICK e : e = entry[t]
  OBVIOUS
<1>0. key[t] \in Keys /\ e = entry[t] /\ e \in Entries /\ t \in Enlisted /\ locks[key[t]] = e /\ mu = t
  BY <1>e DEF Inv, TypeOK, LocalInv, StillMapped, MapMutexInv, Drop, Enlisted
<1>2. Enlisted' = Enlisted \ {t}
  BY DEF Inv, TypeOK, Drop, Enlisted
<1>3. HoldersOf(e)' = HoldersOf(e) \ {t} /\ t \in HoldersOf(e)
  BY <1>0, <1>2, NullAssumption DEF Inv, TypeOK, HoldersOf, Drop, Enlisted
<1>4. \A d \in Entries \ {e} : HoldersOf(d)' = HoldersOf(d)
  BY <1>0, <1>2 DEF Inv, TypeOK, HoldersOf, Drop, Enlisted
<1>5. /\ Cardinality(HoldersOf(e)') = Cardinality(HoldersOf(e)) - 1
      /\ Cardinality(HoldersOf(e)') \in Nat
  BY <1>3, HoldersFinite, FS_RemoveElement, FS_CardinalityType
<1>6. holders[e] = Cardinality(HoldersOf(e))
  BY <1>0, NullAssumption DEF Inv, CountInv
<1>7. holders' = [holders EXCEPT ![e] = Cardinality(HoldersOf(e)')]
  BY <1>0, <1>5, <1>6 DEF Drop
<1>8. LastToLeave(t) <=> HoldersOf(e)' = {}
  <2>1. LastToLeave(t) <=> Cardinality(HoldersOf(e)') = 0
    BY <1>0, <1>5, <1>6 DEF LastToLeave
  <2>2. IsFiniteSet(HoldersOf(e)')
    BY <1>3, HoldersFinite, FS_RemoveElement
  <2>3. QED
    BY <2>1, <2>2, FS_EmptySet
<1>9. TypeOK'
  BY <1>0, <1>5, <1>7 DEF Inv, TypeOK, Drop, PCs
<1>10. MapMutexInv'
  BY <1>0, NullAssumption DEF Inv, TypeOK, MapMutexInv, Drop
<1>11. LocalInv'
  BY <1>0, <1>2 DEF Inv, TypeOK, LocalInv, Drop
<1>12. StillMapped'
  <2>1. SUFFICES ASSUME NEW u \in Enlisted, u # t
                 PROVE  entry'[u] \in Entries /\ locks'[key'[u]] = entry'[u]
    BY <1>2 DEF StillMapped
  <2>2. u \in Threads /\ entry'[u] = entry[u] /\ key'[u] = key[u] /\ key[u] \in Keys
    BY <2>1 DEF Inv, TypeOK, LocalInv, Drop, Enlisted
  <2>3. entry[u] \in Entries /\ locks[key[u]] = entry[u]
    BY <2>1 DEF Inv, StillMapped
  <2>4. LastToLeave(t) => key[u] # key[t]
    BY <1>0, <1>3, <1>8, <2>1, <2>3 DEF HoldersOf
  <2>5. QED
    BY <1>0, <2>2, <2>3, <2>4 DEF Inv, TypeOK, Drop
<1>13. OneKeyPerEntry'
  BY <1>0 DEF Inv, TypeOK, OneKeyPerEntry, Drop
<1>14. CountInv'
  <2>1. SUFFICES ASSUME NEW k \in Keys, NEW d, d = locks'[k], d # NoEntry
                 PROVE  holders'[d] = Cardinality(HoldersOf(d)') /\ HoldersOf(d)' # {}
    BY DEF CountInv, HoldersOf, Enlisted
  <2>2. d = locks[k]
    BY <1>0, <2>1 DEF Inv, TypeOK, Drop
  <2>3. CASE k = key[t]
    BY <1>0, <1>7, <1>8, <2>1, <2>2, <2>3 DEF Inv, TypeOK, Drop
  <2>4. CASE k # key[t]
    <3>1. d \in Entries \ {e}
      BY <1>0, <2>1, <2>2, <2>4, NullAssumption DEF Inv, TypeOK, OneKeyPerEntry
    <3>2. QED
      BY <1>4, <1>7, <2>1, <2>2, <3>1 DEF Inv, TypeOK, CountInv
  <2>5. QED
    BY <2>3, <2>4
<1>15. EntryMutexInv'
  <2>1. \A d \in Entries : entryMu[d] # NoThread => entryMu[d] # t
    BY DEF Inv, TypeOK, EntryMutexInv, Drop
  <2>2. QED
    BY <2>1 DEF Inv, TypeOK, EntryMutexInv, Drop
<1>16. QED
  BY <1>9, <1>10, <1>11, <1>12, <1>13, <1>14, <1>15 DEF Inv

LEMMA StutterInv == ASSUME Inv, UNCHANGED vars PROVE Inv'
BY DEF Inv, vars, TypeOK, MapMutexInv, LocalInv, StillMapped, OneKeyPerEntry, CountInv,
       EntryMutexInv, HoldersOf, Enlisted

\* The invariant holds in every reachable state of the lock.
THEOREM Invariance == Spec => []Inv
<1>1. Inv /\ [Next]_vars => Inv'
  <2> SUFFICES ASSUME Inv, [Next]_vars PROVE Inv'
    OBVIOUS
  <2>1. ASSUME NEW t \in Threads, NEW k \in Keys, Call(t, k) PROVE Inv'
    BY <2>1, CallInv
  <2>2. ASSUME NEW t \in Threads, LockMap(t) \/ LockMapToLeave(t) PROVE Inv'
    BY <2>2, LockMapInv
  <2>3. ASSUME NEW t \in Threads, Enlist(t) PROVE Inv'
    BY <2>3, EnlistFoundInv, EnlistMadeInv DEF Enlist
  <2>4. ASSUME NEW t \in Threads, LockEntry(t) PROVE Inv'
    BY <2>4, LockEntryInv
  <2>5. ASSUME NEW t \in Threads, UnlockEntry(t) PROVE Inv'
    BY <2>5, UnlockEntryInv
  <2>6. ASSUME NEW t \in Threads, Drop(t) PROVE Inv'
    BY <2>6, DropInv
  <2>7. CASE UNCHANGED vars
    BY <2>7, StutterInv
  <2>8. QED
    BY <2>1, <2>2, <2>3, <2>4, <2>5, <2>6, <2>7 DEF Next
<1>2. QED
  BY <1>1, InitInv, PTL DEF Spec

\* Two goroutines that hold the same key hold the same entry's mutex.
LEMMA InvExcludes == Inv => MutualExclusion
BY DEF Inv, TypeOK, MutualExclusion, StillMapped, EntryMutexInv, Enlisted

\* The count ties the map to the goroutines enlisted, in both directions.
LEMMA InvEntries == Inv => EntriesMatchHolders
<1> SUFFICES ASSUME Inv, NEW k \in Keys
             PROVE  locks[k] # NoEntry <=> \E t \in Enlisted : key[t] = k
  BY DEF EntriesMatchHolders
<1>1. ASSUME locks[k] # NoEntry PROVE \E t \in Enlisted : key[t] = k
  <2>1. PICK t \in Enlisted : entry[t] = locks[k]
    BY <1>1 DEF Inv, CountInv, HoldersOf
  <2>2. locks[key[t]] = locks[k] /\ key[t] \in Keys
    BY <2>1 DEF Inv, StillMapped, LocalInv, Enlisted
  <2>3. QED
    BY <1>1, <2>1, <2>2 DEF Inv, OneKeyPerEntry
<1>2. ASSUME NEW t \in Enlisted, key[t] = k PROVE locks[k] # NoEntry
  BY <1>2, NullAssumption DEF Inv, StillMapped
<1>3. QED
  BY <1>1, <1>2

\* Every reachable state of keyedMutex is well typed.
THEOREM TypeCorrect == Spec => []TypeOK
BY Invariance, PTL DEF Inv

\* keyedMutex.lock excludes, for any number of goroutines and keys.
THEOREM Excludes == Spec => []MutualExclusion
BY Invariance, InvExcludes, PTL

\* The map holds an entry for exactly the keys in use: nothing leaks and
\* nothing is dropped from under a goroutine.
THEOREM NoLeakNoEarlyDrop == Spec => []EntriesMatchHolders
BY Invariance, InvEntries, PTL

----------------------------------------------------------------------------
\* Who the mapping says holds a key: with mutual exclusion the CHOOSE has one
\* candidate at most.
LEMMA OwnerIs ==
    ASSUME MutualExclusion, NEW k \in Keys
    PROVE  /\ \A t \in Threads : pc[t] = "held" /\ key[t] = k => owner[k] = t
           /\ (\A t \in Threads : ~(pc[t] = "held" /\ key[t] = k)) => owner[k] = NoThread
<1>1. ASSUME NEW t \in Threads, pc[t] = "held", key[t] = k PROVE owner[k] = t
  <2>1. \A u \in Threads : pc[u] = "held" /\ key[u] = k => u = t
    BY <1>1 DEF MutualExclusion
  <2>2. (CHOOSE u \in Threads : pc[u] = "held" /\ key[u] = k) = t
    BY <1>1, <2>1
  <2>3. QED
    BY <1>1, <2>2 DEF owner
<1>2. ASSUME \A t \in Threads : ~(pc[t] = "held" /\ key[t] = k) PROVE owner[k] = NoThread
  BY <1>2 DEF owner
<1>3. QED
  BY <1>1, <1>2

\* A key's holder is a matter of who is at "held" with that key and nothing
\* else: if that is the same before and after a step, so is the holder.
LEMMA OwnerKept ==
    ASSUME NEW k \in Keys,
           \A u \in Threads : (pc[u] = "held" /\ key[u] = k) <=> (pc'[u] = "held" /\ key'[u] = k)
    PROVE  owner'[k] = owner[k]
<1>1. (\E u \in Threads : pc[u] = "held" /\ key[u] = k) <=> (\E u \in Threads : pc'[u] = "held" /\ key'[u] = k)
  OBVIOUS
<1>2. (CHOOSE u \in Threads : pc[u] = "held" /\ key[u] = k) = (CHOOSE u \in Threads : pc'[u] = "held" /\ key'[u] = k)
  OBVIOUS
<1>3. QED
  BY <1>1, <1>2, Zenon DEF owner

\* The lock with its map and its counts implements the plain per-key lock.
THEOREM Refinement == Spec => ImplementsKeyedLock
<1>1. Init => KL!Init
  BY Zenon DEF Init, KL!Init, owner
<1>2. ASSUME Inv, Inv', [Next]_vars PROVE [KL!Next]_owner
  <2>0. MutualExclusion /\ MutualExclusion'
    <3>1. MutualExclusion
      BY <1>2, InvExcludes
    <3>2. MutualExclusion'
      BY <1>2, InvExcludes, PTL
    <3>3. QED
      BY <3>1, <3>2
  <2>f. owner = [k \in Keys |-> owner[k]] /\ owner' = [k \in Keys |-> owner'[k]]
    BY Zenon DEF owner
  <2>1. ASSUME NEW t \in Threads, LockEntry(t) PROVE KL!Acquire(t, key[t]) /\ key[t] \in Keys
    <3>1. key[t] \in Keys /\ t \in Enlisted /\ pc[t] = "wait"
      BY <1>2, <2>1 DEF Inv, LocalInv, LockEntry, Enlisted
    <3>2. \A u \in Threads : ~(pc[u] = "held" /\ key[u] = key[t])
      BY <1>2, <2>1, <3>1, NullAssumption DEF Inv, StillMapped, EntryMutexInv, LockEntry, Enlisted
    <3>3. owner[key[t]] = NoThread
      BY <2>0, <3>1, <3>2, OwnerIs
    <3>4. pc'[t] = "held" /\ key' = key
      BY <1>2, <2>1 DEF Inv, TypeOK, LockEntry
    <3>5. owner'[key[t]] = t
      <4>1. \A u \in Threads : pc'[u] = "held" /\ key'[u] = key[t] => u = t
        BY <2>0, <3>1, <3>4 DEF MutualExclusion
      <4>2. (CHOOSE u \in Threads : pc'[u] = "held" /\ key'[u] = key[t]) = t
        BY <3>4, <4>1
      <4>3. QED
        BY <3>1, <3>4, <4>2, Zenon DEF owner
    <3>6. ASSUME NEW k \in Keys, k # key[t] PROVE owner'[k] = owner[k]
      <4>1. \A u \in Threads : (pc[u] = "held" /\ key[u] = k) <=> (pc'[u] = "held" /\ key'[u] = k)
        BY <1>2, <2>1, <3>6 DEF Inv, TypeOK, LockEntry
      <4>2. QED
        BY <4>1, OwnerKept
    <3>7. owner' = [owner EXCEPT ![key[t]] = t]
      BY <2>f, <3>1, <3>5, <3>6
    <3>8. QED
      BY <3>1, <3>3, <3>7 DEF KL!Acquire
  <2>2. ASSUME NEW t \in Threads, UnlockEntry(t) PROVE KL!Release(t, key[t]) /\ key[t] \in Keys
    <3>1. key[t] \in Keys /\ pc[t] = "held"
      BY <1>2, <2>2 DEF Inv, LocalInv, UnlockEntry
    <3>2. owner[key[t]] = t
      BY <2>0, <3>1, OwnerIs
    <3>3. pc'[t] = "leave" /\ key' = key /\ \A u \in Threads \ {t} : pc'[u] = pc[u]
      BY <1>2, <2>2 DEF Inv, TypeOK, UnlockEntry
    <3>4. \A u \in Threads : ~(pc'[u] = "held" /\ key'[u] = key[t])
      BY <2>0, <3>1, <3>3 DEF MutualExclusion
    <3>5. owner'[key[t]] = NoThread
      BY <3>1, <3>4, Zenon DEF owner
    <3>6. ASSUME NEW k \in Keys, k # key[t] PROVE owner'[k] = owner[k]
      <4>1. \A u \in Threads : (pc[u] = "held" /\ key[u] = k) <=> (pc'[u] = "held" /\ key'[u] = k)
        BY <3>3, <3>6
      <4>2. QED
        BY <4>1, OwnerKept
    <3>7. owner' = [owner EXCEPT ![key[t]] = NoThread]
      BY <2>f, <3>1, <3>5, <3>6
    <3>8. QED
      BY <3>1, <3>2, <3>7 DEF KL!Release
  <2>3. ASSUME \A u \in Threads : \A k \in Keys :
                   (pc[u] = "held" /\ key[u] = k) <=> (pc'[u] = "held" /\ key'[u] = k)
        PROVE  owner' = owner
    <3>1. \A k \in Keys : owner'[k] = owner[k]
      BY <2>3, OwnerKept
    <3>2. QED
      BY <2>f, <3>1
  <2>4. ASSUME NEW t \in Threads, NEW k \in Keys, Call(t, k) PROVE owner' = owner
    BY <1>2, <2>3, <2>4 DEF Inv, TypeOK, Call
  <2>5. ASSUME NEW t \in Threads, LockMap(t) \/ LockMapToLeave(t) PROVE owner' = owner
    BY <1>2, <2>3, <2>5 DEF Inv, TypeOK, LockMap, LockMapToLeave
  <2>6. ASSUME NEW t \in Threads, Enlist(t) PROVE owner' = owner
    BY <1>2, <2>3, <2>6 DEF Inv, TypeOK, Enlist, EnlistFound, EnlistMade
  <2>7. ASSUME NEW t \in Threads, Drop(t) PROVE owner' = owner
    BY <1>2, <2>3, <2>7 DEF Inv, TypeOK, Drop
  <2>8. CASE UNCHANGED vars
    BY <2>3, <2>8 DEF vars
  <2>9. QED
    BY <1>2, <2>1, <2>2, <2>4, <2>5, <2>6, <2>7, <2>8 DEF Next, KL!Next
<1>3. QED
  BY <1>1, <1>2, Invariance, PTL DEF Spec, ImplementsKeyedLock, KL!Spec
=============================================================================
