----------------------------- MODULE KeyedLock -----------------------------
(***************************************************************************)
(* What keyedMutex (src/internal/game/session.go) promises its callers:    *)
(* at most one goroutine holds a key, and only its holder gives it up.     *)
(***************************************************************************)
CONSTANTS
    Threads,    \* the goroutines serving requests
    Keys,       \* the session identifiers they lock
    NoThread    \* "nobody"

VARIABLE owner  \* owner[k]: the goroutine that holds key k, or NoThread

Init == owner = [k \in Keys |-> NoThread]

\* lock returns: the key was free and is now the caller's.
Acquire(t, k) ==
    /\ owner[k] = NoThread
    /\ owner' = [owner EXCEPT ![k] = t]

\* The function lock returned is called: the key is free again.
Release(t, k) ==
    /\ owner[k] = t
    /\ owner' = [owner EXCEPT ![k] = NoThread]

Next == \E t \in Threads, k \in Keys : Acquire(t, k) \/ Release(t, k)

Spec == Init /\ [][Next]_owner
=============================================================================
