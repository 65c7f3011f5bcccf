----------------------------- MODULE RateLimit -----------------------------
(***************************************************************************)
(* The limit on unauthenticated attempts                                   *)
(* (src/internal/httpserver/ratelimit.go): two limiters, one keyed by the  *)
(* address a request came from and one by the email address it submits,    *)
(* each a table of token buckets that is pruned at a cap.                  *)
(*                                                                         *)
(* allow reads the clock before it takes the mutex, so a goroutine may     *)
(* decide with a time that others have overtaken.  What it does under the  *)
(* mutex is one step.                                                      *)
(*                                                                         *)
(* Tokens are counted in the time it takes to earn them: a token is        *)
(* Refill[l] units of credit, a unit is earned with every tick, and the    *)
(* float64 the code keeps is credit / Refill[l].                           *)
(***************************************************************************)
EXTENDS Integers, FiniteSets, Sequences

CONSTANTS
    Hosts,          \* network addresses
    Clients,        \* the ones that connect to the server or to its proxy
    Trusted,        \* the configured proxies
    Headers,        \* what a client may send as X-Forwarded-For, hop by hop
    Relays,         \* what may follow the client's hop: further proxies, empty entries
    Blank, Garbage, \* a hop that is empty, and one that is not an address
    Deployments,    \* ways to be reached: sets of the three kinds of arrivals
    Emails,         \* email addresses as they are typed
    EmailKey,       \* EmailKey[e]: the bucket of one (emailKey)
    Burst, Refill,  \* per limiter: tokens to spend, and ticks to earn one
    MaxTracked,     \* maxTrackedKeys
    Threads,        \* goroutines that serve attempts
    MaxTime,        \* bound: how far the clock runs
    NoBucket, NoAttempt

Limiters == {"source", "email"}
Keys == [l \in Limiters |-> IF l = "source" THEN Hosts ELSE {EmailKey[e] : e \in Emails}]

\* Credit of a full bucket.
Full(l) == Burst[l] * Refill[l]

ASSUME LimitAssumption ==
    /\ Burst \in [Limiters -> Nat \ {0}] /\ Refill \in [Limiters -> Nat \ {0}]
    /\ MaxTracked \in Nat \ {0}     \* newLimiter sees to it

ASSUME KeyAssumption ==
    /\ Clients \subseteq Hosts /\ Trusted \subseteq Hosts /\ Clients \cap Trusted = {}
    /\ {Blank, Garbage} \cap Hosts = {} /\ Blank # Garbage
    /\ Headers \subseteq Seq(Hosts \cup {Blank, Garbage})
    /\ Relays \subseteq Seq(Trusted \cup {Blank})
    /\ IsFiniteSet(Hosts) /\ IsFiniteSet(Emails)

\* The chain of a client's header, what the first proxy said of the client, and what
\* came after that.
Chain(header, said, tail) == header \o <<said>> \o tail

\* A request as net/http presents it, and who ought to be charged for it.  One that a
\* client makes itself ...
Direct ==
    {[payer |-> c, peer |-> c, hops |-> h, email |-> e] : c \in Clients, h \in Headers, e \in Emails}

\* ... one that came through proxies, the first of which has appended the client it
\* accepted the connection from to whatever that client had sent ...
Forwarded ==
    {[payer |-> c, peer |-> p, hops |-> Chain(h, c, tail), email |-> e] :
        c \in Clients, p \in Trusted, h \in Headers, tail \in Relays, e \in Emails}

\* ... and one whose proxy says nothing of the client, or nothing that is an address: all
\* such requests share the peer's bucket.
Pooled ==
    {[payer |-> p, peer |-> p, hops |-> chain, email |-> e] :
        p \in Trusted, e \in Emails,
        chain \in Relays \cup {Chain(h, Garbage, tail) : h \in Headers, tail \in Relays}}

\* A server is reached in some of these ways, by how it is deployed.
ArrivalsOf == [direct |-> Direct, forwarded |-> Forwarded, pooled |-> Pooled]

\* An attempt: its two keys, and who ought to be charged for it.
Attempt == [payer : Keys["source"], source : Keys["source"], email : Keys["email"]]

Bucket(l) == [credit : 0 .. Full(l), seen : Nat]

ASSUME DeploymentAssumption == Deployments \subseteq SUBSET DOMAIN ArrivalsOf

ASSUME NullAssumption ==
    /\ \A l \in Limiters : NoBucket \notin Bucket(l)
    /\ NoAttempt \notin Attempt

VARIABLES
    clock,
    deployed,       \* how this server is reached, which does not change
    buckets,        \* per limiter, the bucket of every key, or NoBucket
    lastSweep,      \* per limiter
    stage,          \* the limiter a goroutine's attempt has come to, or "idle"
    req,            \* the attempt
    now,            \* the time it read
    watch           \* history: what an observer has counted for one key

table == <<buckets, lastSweep>>
attempt == <<stage, req, now>>
vars == <<clock, deployed, table, attempt, watch>>

\* An observer counts the credit that one key spends from some moment on, and
\* what the limiter forgave it; fresh: from the very beginning.
Watching(l, k, from, fresh) ==
    [limiter |-> l, key |-> k, from |-> from, fresh |-> fresh, spent |-> 0, forgiven |-> 0]

----------------------------------------------------------------------------
\* Mutant: the walk starts at the far end of the chain.
ClientIPLeftmost(peer, hops) ==
    LET named == {i \in DOMAIN hops : hops[i] \notin Trusted \cup {Blank}} IN
    IF peer \notin Trusted \/ named = {} THEN peer
    ELSE LET hop == hops[CHOOSE i \in named : \A j \in named : i <= j] IN
         IF hop = Garbage THEN peer ELSE hop

\* clientIP: behind a proxy the chain is walked from its near end past blank and
\* trusted hops; a hop that cannot be read, or no other hop, leaves the peer.
ClientIP(peer, hops) ==
    LET named == {i \in DOMAIN hops : hops[i] \notin Trusted \cup {Blank}} IN
    IF peer \notin Trusted \/ named = {} THEN peer
    ELSE LET hop == hops[CHOOSE i \in named : \A j \in named : j <= i] IN
         IF hop = Garbage THEN peer ELSE hop

Keyed(r) == [payer |-> r.payer, source |-> ClientIP(r.peer, r.hops), email |-> EmailKey[r.email]]

\* The attempts that can arrive: their keys are worked out before any limiter is asked.
Attempts == [d \in Deployments |-> UNION {{Keyed(r) : r \in ArrivalsOf[kind]} : kind \in d}]

\* Mutant: what is earned is not held to the burst.
RefilledUncapped(l, b, time) == IF time <= b.seen THEN b.credit ELSE b.credit + (time - b.seen)

\* refilled
Refilled(l, b, time) ==
    LET earned == b.credit + (time - b.seen) IN
    IF time <= b.seen THEN b.credit
    ELSE IF earned <= Full(l) THEN earned ELSE Full(l)

Tracked(l) == {k \in Keys[l] : buckets[l][k] # NoBucket}

\* Mutant: room is made only once the cap has been passed.
AtCapTooLate(n) == n > MaxTracked

\* A table of n keys has no room for another.
AtCap(n) == n >= MaxTracked

\* prune runs at the cap, and otherwise once an empty bucket has had time to fill.
MustSweep(l, time) ==
    AtCap(Cardinality(Tracked(l))) \/ time - lastSweep[l] >= Full(l)

\* The full buckets, which are the first to go.
Idle(l, time) == {k \in Tracked(l) : Refilled(l, buckets[l][k], time) >= Full(l)}

\* The sets of keys prune may drop: the full ones, and if there is still no room
\* the fullest of the others, one at a time, until there is.
Pruned(l, time) ==
    LET rest == Tracked(l) \ Idle(l, time)
        level(k) == Refilled(l, buckets[l][k], time)
        enough(V) ==
            /\ ~AtCap(Cardinality(rest \ V))
            /\ \A v \in V : AtCap(Cardinality(rest \ V) + 1)
            /\ \A v \in V, k \in rest \ V : level(v) >= level(k)
    IN  {Idle(l, time) \cup V : V \in {W \in SUBSET rest : enough(W)}}

\* Mutant: a new key has still to earn its burst.
NewcomerEmpty(l) == 0

\* What a key has that is not in the table.
Newcomer(l) == Full(l)

\* Mutant: whatever is left is a token.
AnyLeft(l, credit) == credit > 0

\* There is a whole token to spend.
HasToken(l, credit) == credit >= Refill[l]

Init ==
    /\ clock = 0
    /\ buckets = [l \in Limiters |-> [k \in Keys[l] |-> NoBucket]]
    /\ lastSweep = [l \in Limiters |-> -Full(l)]
    /\ stage = [t \in Threads |-> "idle"]
    /\ req = [t \in Threads |-> NoAttempt]
    /\ now = [t \in Threads |-> 0]
    /\ deployed \in Deployments
    /\ \E l \in Limiters, a \in Attempts[deployed] : watch = Watching(l, a[l], 0, TRUE)

Tick ==
    /\ clock < MaxTime
    /\ clock' = clock + 1
    /\ UNCHANGED <<deployed, table, attempt, watch>>

\* An attempt arrives, and the first limiter's allow reads the clock.
Arrive(t, a) ==
    /\ stage[t] = "idle"
    /\ stage' = [stage EXCEPT ![t] = "source"]
    /\ req' = [req EXCEPT ![t] = a]
    /\ now' = [now EXCEPT ![t] = clock]
    /\ UNCHANGED <<clock, deployed, table, watch>>

\* The second limiter is asked, and its allow reads the clock again.
Pass(t) ==
    /\ stage' = [stage EXCEPT ![t] = "email"]
    /\ now' = [now EXCEPT ![t] = clock]
    /\ UNCHANGED req

\* The attempt goes on to the password, or is refused.
Leave(t) ==
    /\ stage' = [stage EXCEPT ![t] = "idle"]
    /\ req' = [req EXCEPT ![t] = NoAttempt]
    /\ now' = [now EXCEPT ![t] = 0]

\* What the observer makes of a decision at the given time on key k: the credit it
\* cost, the time by which it was late, and what dropping a key gave back to it.
Counted(l, k, time, dropped, cost) ==
    LET mine == watch.limiter = l /\ watch.key = k
        lost == watch.limiter = l /\ watch.key \in dropped IN
    [watch EXCEPT
        !.spent = IF mine THEN @ + cost ELSE @,
        !.forgiven = @ + (IF mine THEN clock - time ELSE 0)
                       + (IF lost THEN Full(l) - Refilled(l, buckets[l][watch.key], time) ELSE 0)]

\* allow, under the mutex, and for a source that may go on the step to the address.
Decide(t) ==
    LET l == stage[t]
        k == req[t][l]
        known == buckets[l][k] # NoBucket
        sweep == ~known /\ MustSweep(l, now[t])
        credit == IF known THEN Refilled(l, buckets[l][k], now[t]) ELSE Newcomer(l)
        granted == HasToken(l, credit)
        cost == IF granted THEN Refill[l] ELSE 0
    IN
    /\ stage[t] \in Limiters
    /\ \E dropped \in (IF sweep THEN Pruned(l, now[t]) ELSE {{}}) :
        /\ buckets' = [buckets EXCEPT ![l] = [j \in Keys[l] |->
                CASE j = k -> [credit |-> credit - cost, seen |-> now[t]]
                  [] j # k /\ j \in dropped -> NoBucket
                  [] OTHER -> buckets[l][j]]]
        /\ watch' = Counted(l, k, now[t], dropped, cost)
    /\ lastSweep' = [lastSweep EXCEPT ![l] = IF sweep THEN now[t] ELSE @]
    /\ IF l = "source" /\ granted THEN Pass(t) ELSE Leave(t)
    /\ UNCHANGED <<clock, deployed>>

\* The observer starts again.
Watch ==
    /\ watch' = Watching(watch.limiter, watch.key, clock, FALSE)
    /\ UNCHANGED <<clock, deployed, table, attempt>>

Next ==
    \/ Tick
    \/ \E t \in Threads, a \in Attempts[deployed] : Arrive(t, a)
    \/ \E t \in Threads : Decide(t)
    \/ Watch

Spec == Init /\ [][Next]_vars

----------------------------------------------------------------------------
\* Every variable keeps its type; a bucket never holds less than nothing or more
\* than its burst.
TypeOK ==
    /\ clock \in Nat /\ deployed \in Deployments
    /\ \A l \in Limiters : buckets[l] \in [Keys[l] -> Bucket(l) \cup {NoBucket}]
    /\ lastSweep \in [Limiters -> Int]
    /\ stage \in [Threads -> Limiters \cup {"idle"}]
    /\ req \in [Threads -> Attempt \cup {NoAttempt}]
    /\ now \in [Threads -> Nat]
    /\ watch \in [limiter : Limiters, key : UNION {Keys[l] : l \in Limiters}, from : Nat,
                  fresh : BOOLEAN, spent : Nat, forgiven : Nat]

\* limiter: "a token bucket per key: burst tokens to spend, one earned back every
\* refill".  From any moment on, a key spends no more than a burst and what the time
\* since has earned it, but for two things the code forgives: the time by which a
\* decision was later than its reading of the clock, and what a key gets back when
\* the cap pushes it out of the table.
WithinBudget ==
    watch.spent <= Full(watch.limiter) + (clock - watch.from) + watch.forgiven

\* prune: however many keys there are, and whoever asks, the table of a limiter
\* never has more than maxTrackedKeys.
TableBounded == \A l \in Limiters : Cardinality(Tracked(l)) <= MaxTracked

\* A player who mistypes a password is nowhere near the burst: a key is refused only
\* once it has spent its whole burst, whatever the order in which goroutines that
\* read the clock come to decide, and whichever keys are dropped.
BurstIsThere ==
    [][\A t \in Threads :
        LET l == stage[t] IN
        /\ watch.fresh
        /\ l = watch.limiter
        /\ req[t][l] = watch.key
        /\ stage'[t] # l
        /\ watch'.spent = watch.spent
        => watch.spent > Full(l) - Refill[l]]_vars

\* clientIP: "Anything further left the client could have forged".  An attempt is charged
\* to the client that made it, directly or through trusted proxies, or to the peer if
\* the proxy did not say who that was; what the client's own header says of others
\* changes nothing.
ChargedToItsClient ==
    \A t \in Threads : stage[t] # "idle" => req[t].source = req[t].payer
=============================================================================
