-------------------------- MODULE RateLimit_proofs --------------------------
(***************************************************************************)
(* Proofs about the limit on attempts: for any bursts, refills, caps,      *)
(* clients, headers, addresses and goroutines, and any time.               *)
(***************************************************************************)
EXTENDS RateLimit, FiniteSetTheorems, TLAPS

----------------------------------------------------------------------------
\* What a full bucket holds.

LEMMA Product ==
    ASSUME NEW a \in Nat \ {0}, NEW b \in Nat \ {0}
    PROVE  a * b \in Nat /\ b <= a * b
  OBVIOUS

LEMMA FullFacts ==
    ASSUME NEW l \in Limiters
    PROVE  /\ Full(l) \in Nat /\ Refill[l] \in Nat /\ 0 < Refill[l] /\ Refill[l] <= Full(l)
<1>1. Burst[l] \in Nat \ {0} /\ Refill[l] \in Nat \ {0}
  BY LimitAssumption
<1>2. Burst[l] * Refill[l] \in Nat /\ Refill[l] <= Burst[l] * Refill[l]
  BY <1>1, Product
<1> QED
  BY <1>1, <1>2 DEF Full

----------------------------------------------------------------------------
\* What refilled returns.

LEMMA RefilledRange ==
    ASSUME NEW l \in Limiters, NEW b \in Bucket(l), NEW time \in Nat
    PROVE  /\ Refilled(l, b, time) \in Nat /\ Refilled(l, b, time) <= Full(l)
           /\ b.credit <= Refilled(l, b, time)
  BY FullFacts DEF Bucket, Refilled

LEMMA RefilledMonotone ==
    ASSUME NEW l \in Limiters, NEW b \in Bucket(l), NEW time \in Nat, NEW later \in Nat, time <= later
    PROVE  Refilled(l, b, time) <= Refilled(l, b, later)
  BY FullFacts DEF Bucket, Refilled

LEMMA RefilledTick ==
    ASSUME NEW l \in Limiters, NEW b \in Bucket(l), NEW time \in Nat
    PROVE  Refilled(l, b, time + 1) <= Refilled(l, b, time) + 1
  BY FullFacts DEF Bucket, Refilled

LEMMA RefilledSince ==
    ASSUME NEW l \in Limiters, NEW c \in 0 .. Full(l), NEW time \in Nat, NEW later \in Nat, time <= later
    PROVE  Refilled(l, [credit |-> c, seen |-> time], later) <= c + (later - time)
  BY FullFacts DEF Refilled

----------------------------------------------------------------------------
\* Whom an attempt is charged to.

\* Behind a proxy the walk ends at what the first proxy appended: whatever the client
\* sent lies further left, and what comes after is passed over.
LEMMA WalkEnds ==
    ASSUME NEW p \in Trusted, NEW s \in Clients \cup {Garbage}, NEW h \in Headers, NEW tail \in Relays
    PROVE  ClientIP(p, Chain(h, s, tail)) = IF s = Garbage THEN p ELSE s
<1> DEFINE hops == h \o <<s>> \o tail
           named == {i \in DOMAIN hops : hops[i] \notin Trusted \cup {Blank}}
           last == CHOOSE i \in named : \A j \in named : j <= i
           n == Len(h) + 1
<1>1. /\ s \notin Trusted /\ s # Blank /\ s \in Hosts \cup {Garbage}
      /\ h \in Seq(Hosts \cup {Blank, Garbage}) /\ tail \in Seq(Trusted \cup {Blank})
  BY KeyAssumption
<1>2. /\ Len(h) \in Nat /\ Len(tail) \in Nat /\ DOMAIN hops = 1 .. n + Len(tail) /\ hops[n] = s
      /\ \A i \in n + 1 .. n + Len(tail) : hops[i] = tail[i - n] /\ i - n \in 1 .. Len(tail)
  <2> DEFINE front == h \o <<s>>
  <2>1. Len(h) \in Nat /\ Len(tail) \in Nat /\ DOMAIN front = 1 .. n /\ Len(front) = n /\ front[n] = s
    BY <1>1
  <2>2. front \in Seq(Hosts \cup {Blank, Garbage})
    BY <1>1
  <2>3. tail \in Seq(Hosts \cup {Blank, Garbage})
    BY <1>1, KeyAssumption
  <2> HIDE DEF front
  <2>4. /\ DOMAIN (front \o tail) = 1 .. n + Len(tail) /\ (front \o tail)[n] = front[n]
        /\ \A i \in n + 1 .. n + Len(tail) : (front \o tail)[i] = tail[i - n]
    BY <2>1, <2>2, <2>3
  <2>5. \A i \in n + 1 .. n + Len(tail) : i - n \in 1 .. Len(tail)
    BY <2>1
  <2> QED
    BY <2>1, <2>4, <2>5 DEF front
<1>3. \A i \in n + 1 .. n + Len(tail) : hops[i] \in Trusted \cup {Blank}
  <2>1. \A i \in 1 .. Len(tail) : tail[i] \in Trusted \cup {Blank}
    BY <1>1
  <2> QED
    BY <1>2, <2>1
<1> HIDE DEF hops
<1>4. n \in named /\ \A j \in named : j <= n
  BY <1>1, <1>2, <1>3
<1>5. last \in named /\ \A j \in named : j <= last
  BY <1>4
<1>6. last = n
  BY <1>2, <1>4, <1>5
<1>7. hops[last] = s
  BY <1>2, <1>6
<1>8. ClientIP(p, hops) = IF s = Garbage THEN p ELSE s
  BY <1>4, <1>7 DEF ClientIP
<1> QED
  BY <1>8 DEF hops, Chain

\* A chain of nothing but proxies and empty entries leaves the peer.
LEMMA NobodyNamed ==
    ASSUME NEW p \in Trusted, NEW tail \in Relays
    PROVE  ClientIP(p, tail) = p
<1>1. \A i \in DOMAIN tail : tail[i] \in Trusted \cup {Blank}
  BY KeyAssumption
<1> QED
  BY <1>1 DEF ClientIP

\* Every attempt that can arrive has keys of the two limiters, and the one it is
\* charged to is the one that ought to be.
LEMMA KeyedFacts ==
    ASSUME NEW d \in Deployments, NEW a \in Attempts[d]
    PROVE  a \in Attempt /\ a.source = a.payer
<1>1. PICK kind \in d : a \in {Keyed(x) : x \in ArrivalsOf[kind]}
  BY DEF Attempts
<1>2. PICK r \in ArrivalsOf[kind] : a = Keyed(r)
  BY <1>1
<1>3. r \in Direct \/ r \in Forwarded \/ r \in Pooled
  BY <1>1, <1>2, DeploymentAssumption DEF ArrivalsOf
<1>4. ClientIP(r.peer, r.hops) = r.payer /\ r.payer \in Hosts /\ r.email \in Emails
  <2>1. CASE r \in Direct
    BY <2>1, KeyAssumption DEF Direct, ClientIP
  <2>2. CASE r \in Forwarded
    <3>1. PICK c \in Clients, p \in Trusted, h \in Headers, tail \in Relays, e \in Emails :
            r = [payer |-> c, peer |-> p, hops |-> Chain(h, c, tail), email |-> e]
      BY <2>2 DEF Forwarded
    <3>2. ClientIP(p, Chain(h, c, tail)) = c /\ c \in Hosts
      BY WalkEnds, KeyAssumption
    <3> QED
      BY <3>1, <3>2
  <2>3. CASE r \in Pooled
    <3>1. PICK p \in Trusted, e \in Emails,
               chain \in Relays \cup {Chain(h, Garbage, tail) : h \in Headers, tail \in Relays} :
            r = [payer |-> p, peer |-> p, hops |-> chain, email |-> e]
      BY <2>3 DEF Pooled
    <3>2. CASE chain \in Relays
      BY <3>1, <3>2, NobodyNamed, KeyAssumption
    <3>3. CASE chain \in {Chain(h, Garbage, tail) : h \in Headers, tail \in Relays}
      <4>1. PICK h \in Headers, tail \in Relays : chain = Chain(h, Garbage, tail)
        BY <3>3
      <4>2. ClientIP(p, chain) = p
        BY <4>1, WalkEnds
      <4> QED
        BY <3>1, <4>2, KeyAssumption
    <3> QED
      BY <3>2, <3>3
  <2> QED
    BY <1>3, <2>1, <2>2, <2>3
<1>5. r.payer \in Keys["source"] /\ EmailKey[r.email] \in Keys["email"]
  BY <1>4, KeyAssumption DEF Keys, Limiters
<1> QED
  BY <1>2, <1>4, <1>5 DEF Keyed, Attempt

----------------------------------------------------------------------------
(***************************************************************************)
(* The inductive invariant.  Nobody's time is ahead of the clock.  What    *)
(* the watched key has spent and what it could spend now are together no   *)
(* more than its budget, and, for an observer from the beginning, what it  *)
(* has spent and what its bucket held last are no less than a burst.       *)
(***************************************************************************)
Level(l, k) == IF buckets[l][k] = NoBucket THEN Full(l) ELSE Refilled(l, buckets[l][k], clock)

Shape == buckets = [l \in Limiters |-> buckets[l]] /\ watch.key \in Keys[watch.limiter]

Punctual ==
    /\ \A t \in Threads : now[t] <= clock
    /\ \A t \in Threads : stage[t] # "idle" => req[t] \in Attempt
    /\ \A l \in Limiters : \A k \in Keys[l] : buckets[l][k] # NoBucket => buckets[l][k].seen <= clock
    /\ watch.from <= clock

Budget ==
    watch.spent + Level(watch.limiter, watch.key)
        <= Full(watch.limiter) + (clock - watch.from) + watch.forgiven

FromTheStart ==
    LET b == buckets[watch.limiter][watch.key] IN
    watch.fresh /\ b # NoBucket => watch.spent + b.credit >= Full(watch.limiter)

IInv == TypeOK /\ Shape /\ Punctual /\ Budget /\ FromTheStart /\ TableBounded /\ ChargedToItsClient

\* The types of what the watched key has.
LEMMA WatchFacts ==
    ASSUME IInv
    PROVE  /\ watch.limiter \in Limiters /\ watch.key \in Keys[watch.limiter]
           /\ watch.from \in Nat /\ watch.spent \in Nat /\ watch.forgiven \in Nat /\ clock \in Nat
           /\ \A l \in Limiters : \A k \in Keys[l] : buckets[l][k] \in Bucket(l) \cup {NoBucket}
           /\ \A l \in Limiters : \A k \in Keys[l] : Level(l, k) \in Nat /\ Level(l, k) <= Full(l)
<1>1. /\ watch.limiter \in Limiters /\ watch.key \in Keys[watch.limiter]
      /\ watch.from \in Nat /\ watch.spent \in Nat /\ watch.forgiven \in Nat /\ clock \in Nat
      /\ \A l \in Limiters : \A k \in Keys[l] : buckets[l][k] \in Bucket(l) \cup {NoBucket}
  BY DEF IInv, TypeOK, Shape
<1>2. ASSUME NEW l \in Limiters, NEW k \in Keys[l] PROVE Level(l, k) \in Nat /\ Level(l, k) <= Full(l)
  BY <1>1, FullFacts, RefilledRange DEF Level
<1> QED
  BY <1>1, <1>2

LEMMA IInvInit == Init => IInv
<1> SUFFICES ASSUME Init PROVE IInv
  OBVIOUS
<1>1. deployed \in Deployments /\ \E l \in Limiters, a \in Attempts[deployed] : watch = Watching(l, a[l], 0, TRUE)
  BY DEF Init
<1>10. PICK l \in Limiters, a \in Attempts[deployed] : watch = Watching(l, a[l], 0, TRUE)
  BY <1>1
<1>2. a[l] \in Keys[l]
  BY <1>1, KeyedFacts DEF Attempt, Limiters
<1>3. /\ watch.limiter = l /\ watch.key = a[l] /\ watch.from = 0 /\ watch.fresh = TRUE
      /\ watch.spent = 0 /\ watch.forgiven = 0
      /\ watch \in [limiter : Limiters, key : UNION {Keys[m] : m \in Limiters}, from : Nat,
                    fresh : BOOLEAN, spent : Nat, forgiven : Nat]
  BY <1>2, <1>10 DEF Watching
<1>4. /\ \A m \in Limiters : buckets[m] = [k \in Keys[m] |-> NoBucket]
      /\ buckets = [m \in Limiters |-> buckets[m]]
      /\ clock = 0
  BY DEF Init
<1>5. TypeOK
  <2>1. lastSweep \in [Limiters -> Int]
    BY FullFacts DEF Init
  <2>2. \A m \in Limiters : buckets[m] \in [Keys[m] -> Bucket(m) \cup {NoBucket}]
    <3> SUFFICES ASSUME NEW m \in Limiters
                 PROVE  buckets[m] \in [Keys[m] -> Bucket(m) \cup {NoBucket}]
      OBVIOUS
    <3>1. buckets[m] = [k \in Keys[m] |-> NoBucket]
      BY <1>4
    <3> QED
      BY <3>1
  <2>3. /\ stage \in [Threads -> Limiters \cup {"idle"}]
        /\ req \in [Threads -> Attempt \cup {NoAttempt}]
    BY DEF Init
  <2>4. clock \in Nat /\ now \in [Threads -> Nat]
    BY DEF Init
  <2> QED
    BY <1>1, <1>3, <2>1, <2>2, <2>3, <2>4 DEF TypeOK
<1>6. Shape /\ Punctual
  <2>1. Shape
    BY <1>2, <1>3, <1>4 DEF Shape
  <2>2. \A t \in Threads : now[t] = 0 /\ stage[t] = "idle"
    BY DEF Init
  <2>3. \A m \in Limiters : \A k \in Keys[m] : buckets[m][k] = NoBucket
    BY <1>4
  <2> QED
    BY <1>3, <1>4, <2>1, <2>2, <2>3 DEF Punctual
<1>7. Budget /\ FromTheStart
  BY <1>2, <1>3, <1>4, FullFacts DEF Budget, FromTheStart, Level
<1>8. TableBounded
  <2> SUFFICES ASSUME NEW m \in Limiters PROVE Cardinality(Tracked(m)) <= MaxTracked
    BY DEF TableBounded
  <2>1. Tracked(m) = {}
    BY <1>4 DEF Tracked
  <2> QED
    BY <2>1, FS_EmptySet, LimitAssumption
<1>9. ChargedToItsClient
  BY DEF Init, ChargedToItsClient
<1> QED
  BY <1>5, <1>6, <1>7, <1>8, <1>9 DEF IInv

LEMMA TickKeepsIInv ==
    ASSUME IInv, Tick
    PROVE  IInv'
<1>1. clock \in Nat /\ clock' = clock + 1 /\ UNCHANGED <<deployed, buckets, lastSweep, stage, req, now, watch>>
  BY DEF IInv, TypeOK, Tick, table, attempt
<1>2. TypeOK'
  BY <1>1 DEF IInv, TypeOK
<1>3. Shape' /\ ChargedToItsClient'
  BY <1>1 DEF IInv, Shape, ChargedToItsClient
<1>4. TableBounded'
  BY <1>1 DEF IInv, TableBounded, Tracked
<1>5. Punctual'
  BY <1>1 DEF IInv, TypeOK, Punctual, Bucket
<1>6. Budget'
  <2> DEFINE l == watch.limiter
             k == watch.key
  <2>1. Level(l, k)' <= Level(l, k) + 1 /\ Level(l, k)' \in Nat
    BY <1>1, WatchFacts, FullFacts, RefilledTick, RefilledRange DEF Level
  <2> QED
    BY <1>1, <2>1, WatchFacts, FullFacts DEF IInv, Budget
<1>7. FromTheStart'
  BY <1>1 DEF IInv, FromTheStart
<1> QED
  BY <1>2, <1>3, <1>4, <1>5, <1>6, <1>7 DEF IInv

LEMMA ArriveKeepsIInv ==
    ASSUME IInv, NEW t \in Threads, NEW a \in Attempts[deployed], Arrive(t, a)
    PROVE  IInv'
<1>1. /\ UNCHANGED <<clock, deployed, buckets, lastSweep, watch>>
      /\ stage' = [stage EXCEPT ![t] = "source"] /\ req' = [req EXCEPT ![t] = a]
      /\ now' = [now EXCEPT ![t] = clock]
  BY DEF Arrive, table
<1>2. a \in Attempt /\ a.source = a.payer
  BY KeyedFacts DEF IInv, TypeOK
<1>3. TypeOK'
  BY <1>1, <1>2 DEF IInv, TypeOK, Limiters
<1>4. Shape' /\ TableBounded' /\ Budget' /\ FromTheStart'
  BY <1>1 DEF IInv, Shape, TableBounded, Tracked, Budget, Level, FromTheStart
<1>5. Punctual'
  BY <1>1, <1>2 DEF IInv, TypeOK, Punctual
<1>6. ChargedToItsClient'
  BY <1>1, <1>2 DEF IInv, TypeOK, ChargedToItsClient
<1> QED
  BY <1>3, <1>4, <1>5, <1>6 DEF IInv

LEMMA WatchKeepsIInv ==
    ASSUME IInv, Watch
    PROVE  IInv'
<1>1. /\ UNCHANGED <<clock, deployed, buckets, lastSweep, stage, req, now>>
      /\ watch' = Watching(watch.limiter, watch.key, clock, FALSE)
  BY DEF Watch, table, attempt
<1>2. /\ watch'.limiter = watch.limiter /\ watch'.key = watch.key /\ watch'.from = clock
      /\ watch'.fresh = FALSE /\ watch'.spent = 0 /\ watch'.forgiven = 0
  BY <1>1 DEF Watching
<1>3. watch' \in [limiter : Limiters, key : UNION {Keys[l] : l \in Limiters}, from : Nat,
                  fresh : BOOLEAN, spent : Nat, forgiven : Nat]
  BY <1>1 DEF Watching, IInv, TypeOK
<1>4. TypeOK'
  BY <1>1, <1>3 DEF IInv, TypeOK
<1>5. Shape' /\ TableBounded' /\ ChargedToItsClient'
  BY <1>1, <1>2 DEF IInv, Shape, TableBounded, Tracked, ChargedToItsClient
<1>6. Punctual'
  <2>1. clock \in Nat /\ clock' = clock /\ watch'.from = clock
    BY <1>1, <1>2 DEF IInv, TypeOK
  <2>2. watch'.from <= clock'
    BY <2>1
  <2> QED
    BY <1>1, <2>1, <2>2 DEF IInv, Punctual
<1>7. Budget'
  <2>1. Level(watch.limiter, watch.key)' = Level(watch.limiter, watch.key)
    BY <1>1, <1>2 DEF Level
  <2>2. /\ Level(watch.limiter, watch.key) \in Nat /\ clock \in Nat
        /\ Level(watch.limiter, watch.key) <= Full(watch.limiter) /\ Full(watch.limiter) \in Nat
    BY WatchFacts, FullFacts
  <2>3. 0 + Level(watch.limiter, watch.key) <= Full(watch.limiter) + (clock - clock) + 0
    BY <2>2
  <2> QED
    BY <1>1, <1>2, <2>1, <2>3 DEF Budget
<1>8. FromTheStart'
  BY <1>2 DEF FromTheStart
<1> QED
  BY <1>4, <1>5, <1>6, <1>7, <1>8 DEF IInv
----------------------------------------------------------------------------
\* What a decision does.

LEMMA FiniteKeys ==
    ASSUME NEW l \in Limiters
    PROVE  IsFiniteSet(Keys[l])
<1>1. IsFiniteSet({EmailKey[e] : e \in Emails})
  <2> DEFINE K == {EmailKey[e] : e \in Emails}
             f == [e \in Emails |-> EmailKey[e]]
  <2>1. f \in Surjection(Emails, K)
    BY DEF Surjection
  <2> QED
    BY <2>1, FS_Surjection, KeyAssumption
<1> QED
  BY <1>1, KeyAssumption DEF Keys, Limiters

\* A set with room for one more.
LEMMA RoomForOne ==
    ASSUME NEW S, NEW k, IsFiniteSet(S), ~AtCap(Cardinality(S))
    PROVE  Cardinality(S \cup {k}) <= MaxTracked
<1>1. Cardinality(S) \in Nat /\ Cardinality(S) < MaxTracked
  BY FS_CardinalityType, LimitAssumption DEF AtCap
<1>2. Cardinality(S \cup {k}) = Cardinality(S) \/ Cardinality(S \cup {k}) = Cardinality(S) + 1
  BY FS_AddElement
<1> QED
  BY <1>1, <1>2, LimitAssumption

Credit(l, k, time) == IF buckets[l][k] = NoBucket THEN Full(l) ELSE Refilled(l, buckets[l][k], time)

\* The dropped keys leave room for the one that is decided upon, which is not one of them.
Room(l, k, dropped) ==
    /\ dropped \subseteq Tracked(l) /\ k \notin dropped
    /\ Cardinality((Tracked(l) \ dropped) \cup {k}) <= MaxTracked

LEMMA PruneMakesRoom ==
    ASSUME NEW l \in Limiters, NEW k \in Keys[l], buckets[l][k] = NoBucket,
           NEW time \in Nat, NEW dropped \in Pruned(l, time)
    PROVE  Room(l, k, dropped)
<1> DEFINE rest == Tracked(l) \ Idle(l, time)
<1>1. Idle(l, time) \subseteq Tracked(l) /\ k \notin Tracked(l)
  BY DEF Idle, Tracked
<1>2. PICK V \in SUBSET rest : dropped = Idle(l, time) \cup V /\ ~AtCap(Cardinality(rest \ V))
  BY DEF Pruned
<1>3. dropped \subseteq Tracked(l) /\ k \notin dropped /\ Tracked(l) \ dropped = rest \ V
  BY <1>1, <1>2
<1>4. IsFiniteSet(rest \ V)
  BY FiniteKeys, FS_Subset DEF Tracked
<1>5. Cardinality((rest \ V) \cup {k}) <= MaxTracked
  BY <1>2, <1>4, RoomForOne
<1> QED
  BY <1>3, <1>5 DEF Room

\* What Decide leaves, for the limiter, the key and the time it decides with.
Effect(l, k, time, dropped, cost) ==
    /\ Room(l, k, dropped)
    /\ cost = IF HasToken(l, Credit(l, k, time)) THEN Refill[l] ELSE 0
    /\ buckets' = [buckets EXCEPT ![l] = [j \in Keys[l] |->
            CASE j = k -> [credit |-> Credit(l, k, time) - cost, seen |-> time]
              [] j # k /\ j \in dropped -> NoBucket
              [] OTHER -> buckets[l][j]]]
    /\ watch' = Counted(l, k, time, dropped, cost)
    /\ clock' = clock

LEMMA DecideEffect ==
    ASSUME IInv, NEW t \in Threads, Decide(t)
    PROVE  /\ stage[t] \in Limiters /\ req[t] \in Attempt /\ req[t][stage[t]] \in Keys[stage[t]]
           /\ now[t] \in Nat /\ now[t] <= clock
           /\ \E dropped, cost : Effect(stage[t], req[t][stage[t]], now[t], dropped, cost)
<1> DEFINE l == stage[t]
           k == req[t][l]
           known == buckets[l][k] # NoBucket
           sweep == ~known /\ MustSweep(l, now[t])
           cost == IF HasToken(l, Credit(l, k, now[t])) THEN Refill[l] ELSE 0
<1>1. l \in Limiters /\ req[t] \in Attempt /\ now[t] \in Nat /\ now[t] <= clock
  BY DEF Decide, IInv, TypeOK, Punctual, Limiters
<1>2. k \in Keys[l]
  BY <1>1 DEF Attempt, Limiters
<1>3. Credit(l, k, now[t]) = IF known THEN Refilled(l, buckets[l][k], now[t]) ELSE Newcomer(l)
  BY DEF Credit, Newcomer
<1>4. PICK dropped \in (IF sweep THEN Pruned(l, now[t]) ELSE {{}}) :
        /\ buckets' = [buckets EXCEPT ![l] = [j \in Keys[l] |->
                CASE j = k -> [credit |-> Credit(l, k, now[t]) - cost, seen |-> now[t]]
                  [] j # k /\ j \in dropped -> NoBucket
                  [] OTHER -> buckets[l][j]]]
        /\ watch' = Counted(l, k, now[t], dropped, cost)
  BY <1>3, Zenon DEF Decide
<1>5. Room(l, k, dropped)
  <2>1. CASE known
    <3>1. dropped = {} /\ (Tracked(l) \ dropped) \cup {k} = Tracked(l)
      BY <2>1, <1>2, <1>4 DEF Tracked
    <3> QED
      BY <3>1, <1>1 DEF Room, IInv, TableBounded
  <2>2. CASE sweep
    BY <2>2, <1>1, <1>2, <1>4, PruneMakesRoom
  <2>3. CASE ~known /\ ~sweep
    <3>1. dropped = {} /\ (Tracked(l) \ dropped) \cup {k} = Tracked(l) \cup {k}
      BY <2>3, <1>4
    <3>2. ~AtCap(Cardinality(Tracked(l)))
      BY <2>3 DEF MustSweep
    <3>3. IsFiniteSet(Tracked(l))
      BY <1>1, FiniteKeys, FS_Subset DEF Tracked
    <3> QED
      BY <3>1, <3>2, <3>3, RoomForOne DEF Room
  <2> QED
    BY <2>1, <2>2, <2>3
<1>6. Effect(l, k, now[t], dropped, cost)
  BY <1>4, <1>5, Zenon DEF Effect, Decide
<1> QED
  BY <1>1, <1>2, <1>6
\* The bucket of every key after a decision.
Settled(l, k, time, dropped, cost) ==
    /\ Credit(l, k, time) \in 0 .. Full(l) /\ cost \in Nat /\ cost <= Credit(l, k, time)
    /\ Credit(l, k, time) - cost \in 0 .. Full(l)
    /\ buckets' = [m \in Limiters |-> buckets'[m]]
    /\ \A m \in Limiters \ {l} : buckets'[m] = buckets[m]
    /\ buckets'[l] = [j \in Keys[l] |-> buckets'[l][j]]
    /\ buckets'[l][k] = [credit |-> Credit(l, k, time) - cost, seen |-> time]
    /\ \A j \in Keys[l] \ {k} : buckets'[l][j] = IF j \in dropped THEN NoBucket ELSE buckets[l][j]

LEMMA BucketsAfter ==
    ASSUME IInv, NEW l \in Limiters, NEW k \in Keys[l], NEW time \in Nat, NEW dropped, NEW cost,
           Effect(l, k, time, dropped, cost)
    PROVE  Settled(l, k, time, dropped, cost)
<1>1. Credit(l, k, time) \in 0 .. Full(l)
  BY WatchFacts, FullFacts, RefilledRange DEF Credit
<1>2. cost \in Nat /\ cost <= Credit(l, k, time)
  BY <1>1, FullFacts DEF Effect, HasToken
<1>3. Credit(l, k, time) - cost \in 0 .. Full(l)
  BY <1>1, <1>2, FullFacts
<1> DEFINE new == [j \in Keys[l] |->
            CASE j = k -> [credit |-> Credit(l, k, time) - cost, seen |-> time]
              [] j # k /\ j \in dropped -> NoBucket
              [] OTHER -> buckets[l][j]]
<1>4. buckets' = [buckets EXCEPT ![l] = new] /\ buckets = [m \in Limiters |-> buckets[m]]
  BY DEF Effect, IInv, Shape
<1>5. /\ new = [j \in Keys[l] |-> new[j]]
      /\ new[k] = [credit |-> Credit(l, k, time) - cost, seen |-> time]
      /\ \A j \in Keys[l] \ {k} : new[j] = IF j \in dropped THEN NoBucket ELSE buckets[l][j]
  OBVIOUS
<1> HIDE DEF new
<1>6. /\ buckets' = [m \in Limiters |-> buckets'[m]] /\ buckets'[l] = new
      /\ \A m \in Limiters \ {l} : buckets'[m] = buckets[m]
  BY <1>4
<1> QED
  BY <1>1, <1>2, <1>3, <1>5, <1>6 DEF Settled

\* What the observer makes of it: the decision is about the watched key, or drops it,
\* or does not touch it.
Observed(l, k, time, dropped, cost) ==
    /\ watch'.limiter = watch.limiter /\ watch'.key = watch.key
    /\ watch'.from = watch.from /\ watch'.fresh = watch.fresh
    /\ watch' \in [limiter : Limiters, key : UNION {Keys[m] : m \in Limiters}, from : Nat,
                   fresh : BOOLEAN, spent : Nat, forgiven : Nat]
    /\ \/ /\ watch.limiter = l /\ watch.key = k
          /\ watch'.spent = watch.spent + cost
          /\ watch'.forgiven = watch.forgiven + (clock - time)
       \/ /\ watch.limiter = l /\ watch.key # k /\ watch.key \in dropped
          /\ buckets[l][watch.key] \in Bucket(l)
          /\ watch'.spent = watch.spent
          /\ watch'.forgiven = watch.forgiven
                 + (Full(l) - Refilled(l, buckets[l][watch.key], time))
       \/ /\ watch.limiter # l \/ watch.key \notin {k} \cup dropped
          /\ watch'.spent = watch.spent
          /\ watch'.forgiven = watch.forgiven

LEMMA WatchAfter ==
    ASSUME IInv, NEW l \in Limiters, NEW k \in Keys[l], NEW time \in Nat, NEW dropped, NEW cost,
           Effect(l, k, time, dropped, cost), time <= clock
    PROVE  Observed(l, k, time, dropped, cost)
<1> DEFINE mine == watch.limiter = l /\ watch.key = k
           lost == watch.limiter = l /\ watch.key \in dropped
           late == IF mine THEN clock - time ELSE 0
           back == IF lost THEN Full(l) - Refilled(l, buckets[l][watch.key], time) ELSE 0
           paid == IF mine THEN watch.spent + cost ELSE watch.spent
<1>1. /\ watch \in [limiter : Limiters, key : UNION {Keys[m] : m \in Limiters}, from : Nat,
                    fresh : BOOLEAN, spent : Nat, forgiven : Nat]
      /\ clock \in Nat /\ cost \in Nat /\ Full(l) \in Nat
  BY WatchFacts, BucketsAfter, FullFacts DEF IInv, TypeOK, Settled
<1>2. watch' = [watch EXCEPT !.spent = paid, !.forgiven = watch.forgiven + late + back]
  BY <1>1 DEF Effect, Counted
<1>3. ~(mine /\ lost)
  BY DEF Effect, Room
<1>4. lost => buckets[l][watch.key] \in Bucket(l)
  BY WatchFacts DEF Effect, Room, Tracked
<1>5. late \in Nat
  BY <1>1
<1>6. back \in Nat
  BY <1>1, <1>4, RefilledRange
<1>7. paid \in Nat
  BY <1>1
<1> HIDE DEF late, back, paid
<1>8. /\ watch'.limiter = watch.limiter /\ watch'.key = watch.key
      /\ watch'.from = watch.from /\ watch'.fresh = watch.fresh
      /\ watch'.spent = paid /\ watch'.forgiven = watch.forgiven + late + back
      /\ watch' \in [limiter : Limiters, key : UNION {Keys[m] : m \in Limiters}, from : Nat,
                     fresh : BOOLEAN, spent : Nat, forgiven : Nat]
  <2> DEFINE given == watch.forgiven + late + back
  <2>1. given \in Nat
    BY <1>1, <1>5, <1>6
  <2>2. watch' = [watch EXCEPT !.spent = paid, !.forgiven = given]
    BY <1>2
  <2> HIDE DEF given
  <2>3. watch' \in [limiter : Limiters, key : UNION {Keys[m] : m \in Limiters}, from : Nat,
                     fresh : BOOLEAN, spent : Nat, forgiven : Nat]
    BY <1>1, <1>7, <2>1, <2>2
  <2>4. watch'.limiter = watch.limiter /\ watch'.key = watch.key
    BY <1>1, <2>2
  <2>5. watch'.from = watch.from /\ watch'.fresh = watch.fresh
    BY <1>1, <2>2
  <2>6. watch'.spent = paid /\ watch'.forgiven = given
    BY <1>1, <2>2
  <2> QED
    BY <2>3, <2>4, <2>5, <2>6 DEF given
<1>9. CASE mine
  <2>1. paid = watch.spent + cost /\ late = clock - time /\ back = 0
    BY <1>3, <1>9 DEF paid, late, back
  <2> QED
    BY <1>1, <1>5, <1>8, <1>9, <2>1 DEF Observed
<1>10. CASE lost
  <2>1. paid = watch.spent /\ late = 0 /\ back = Full(l) - Refilled(l, buckets[l][watch.key], time)
    BY <1>3, <1>10 DEF paid, late, back
  <2> QED
    BY <1>1, <1>3, <1>4, <1>6, <1>8, <1>10, <2>1 DEF Observed
<1>11. CASE ~mine /\ ~lost
  <2>1. paid = watch.spent /\ late = 0 /\ back = 0
    BY <1>11 DEF paid, late, back
  <2> QED
    BY <1>1, <1>8, <1>11, <2>1 DEF Observed
<1> QED
  BY <1>9, <1>10, <1>11 DEF Observed

\* A decision keeps the two sums, whichever of the three it is for the watched key.
LEMMA BudgetAfter ==
    ASSUME IInv, NEW l \in Limiters, NEW k \in Keys[l], NEW time \in Nat, NEW dropped, NEW cost,
           Effect(l, k, time, dropped, cost), time <= clock
    PROVE  Budget' /\ FromTheStart'
<1> DEFINE wl == watch.limiter
           wk == watch.key
           b == buckets[wl][wk]
<1>1. /\ wl \in Limiters /\ wk \in Keys[wl] /\ clock' = clock
      /\ clock \in Nat /\ watch.from \in Nat /\ watch.spent \in Nat /\ watch.forgiven \in Nat
      /\ Level(wl, wk) \in Nat /\ Level(wl, wk) <= Full(wl) /\ Full(wl) \in Nat
      /\ b \in Bucket(wl) \cup {NoBucket}
  BY WatchFacts, FullFacts DEF Effect
<1>2. watch.spent + Level(wl, wk) <= Full(wl) + (clock - watch.from) + watch.forgiven
  BY DEF IInv, Budget
<1>3. watch.fresh /\ b # NoBucket => watch.spent + b.credit >= Full(wl)
  BY DEF IInv, FromTheStart
<1>4. /\ watch'.limiter = wl /\ watch'.key = wk /\ watch'.from = watch.from
      /\ watch'.fresh = watch.fresh
  BY WatchAfter DEF Observed
<1>5. Settled(l, k, time, dropped, cost)
  BY BucketsAfter
<1>6. \/ /\ wl = l /\ wk = k
          /\ watch'.spent = watch.spent + cost
          /\ watch'.forgiven = watch.forgiven + (clock - time)
       \/ /\ wl = l /\ wk # k /\ wk \in dropped
          /\ buckets[l][wk] \in Bucket(l)
          /\ watch'.spent = watch.spent
          /\ watch'.forgiven = watch.forgiven + (Full(l) - Refilled(l, buckets[l][wk], time))
       \/ /\ wl # l \/ wk \notin {k} \cup dropped
          /\ watch'.spent = watch.spent
          /\ watch'.forgiven = watch.forgiven
  BY WatchAfter DEF Observed
<1>7. CASE wl = l /\ wk = k
  <2> DEFINE c == Credit(l, k, time)
             rest == c - cost
             new == [credit |-> rest, seen |-> time]
  <2>1. /\ watch'.spent = watch.spent + cost
        /\ watch'.forgiven = watch.forgiven + (clock - time)
    BY <1>7, <1>6
  <2>2. /\ c \in Nat /\ c <= Full(l) /\ cost \in Nat /\ cost <= c
        /\ rest \in 0 .. Full(l) /\ buckets'[l][k] = new
    BY <1>1, <1>7, <1>5 DEF Settled
  <2>3. c <= Level(l, k)
    BY <1>1, <1>7, RefilledMonotone DEF Credit, Level
  <2>4. new \in Bucket(l) /\ new # NoBucket
    BY <2>2, NullAssumption DEF Bucket
  <2>5. /\ Refilled(l, new, clock) <= rest + (clock - time)
        /\ Refilled(l, new, clock) \in Nat
    BY <1>1, <2>2, <2>4, RefilledSince, RefilledRange
  <2>6. Level(watch.limiter, watch.key)' = Refilled(l, new, clock)
    BY <1>1, <1>4, <1>7, <2>2, <2>4 DEF Level
  <2>7. watch.spent + cost + Refilled(l, new, clock)
            <= Full(l) + (clock - watch.from) + (watch.forgiven + (clock - time))
    BY <1>1, <1>2, <1>7, <2>2, <2>3, <2>5
  <2>8. Budget'
    BY <1>1, <1>4, <1>7, <2>1, <2>6, <2>7 DEF Budget
  <2>9. watch.fresh => watch.spent + c >= Full(l)
    <3>1. CASE b = NoBucket
      BY <1>1, <1>7, <2>2, <3>1 DEF Credit
    <3>2. CASE b # NoBucket
      <4>1. b.credit <= c /\ b.credit \in Nat
        BY <1>1, <1>7, <3>2, RefilledRange DEF Credit, Bucket
      <4> QED
        BY <1>1, <1>3, <1>7, <2>2, <3>2, <4>1
    <3> QED
      BY <3>1, <3>2
  <2>10. watch.fresh => (watch.spent + cost) + rest >= Full(l)
    BY <1>1, <1>7, <2>2, <2>9
  <2>11. FromTheStart'
    <3>1. new.credit = rest
      OBVIOUS
    <3> QED
      BY <1>4, <1>7, <2>1, <2>2, <2>10, <3>1 DEF FromTheStart
  <2> QED
    BY <2>8, <2>11
<1>8. CASE wl = l /\ wk # k /\ wk \in dropped
  <2>1. /\ buckets[l][wk] \in Bucket(l) /\ watch'.spent = watch.spent
        /\ watch'.forgiven = watch.forgiven + (Full(l) - Refilled(l, buckets[l][wk], time))
    BY <1>8, <1>6
  <2>2. buckets'[l][wk] = NoBucket
    BY <1>1, <1>8, <1>5 DEF Settled
  <2>3. /\ Refilled(l, buckets[l][wk], time) <= Level(l, wk)
        /\ Refilled(l, buckets[l][wk], time) \in Nat
    BY <1>1, <1>8, <2>1, RefilledMonotone, RefilledRange, NullAssumption DEF Level
  <2>4. Level(watch.limiter, watch.key)' = Full(l)
    BY <1>4, <1>8, <2>2 DEF Level
  <2>5. watch.spent + Full(l) <= Full(l) + (clock - watch.from)
            + (watch.forgiven + (Full(l) - Refilled(l, buckets[l][wk], time)))
    BY <1>1, <1>2, <1>8, <2>3
  <2>6. Budget'
    BY <1>1, <1>4, <1>8, <2>1, <2>4, <2>5 DEF Budget
  <2>7. FromTheStart'
    BY <1>4, <1>8, <2>2 DEF FromTheStart
  <2> QED
    BY <2>6, <2>7
<1>9. CASE wl # l \/ wk \notin {k} \cup dropped
  <2>1. watch'.spent = watch.spent /\ watch'.forgiven = watch.forgiven
    BY <1>9, <1>6
  <2>2. buckets'[wl][wk] = b
    BY <1>1, <1>9, <1>5 DEF Settled
  <2>3. Level(watch.limiter, watch.key)' = Level(wl, wk)
    BY <1>1, <1>4, <2>2 DEF Level
  <2>4. Budget'
    BY <1>1, <1>2, <1>4, <2>1, <2>3 DEF Budget
  <2>5. FromTheStart'
    BY <1>3, <1>4, <2>1, <2>2 DEF FromTheStart
  <2> QED
    BY <2>4, <2>5
<1> QED
  BY <1>7, <1>8, <1>9
LEMMA DecideKeepsIInv ==
    ASSUME IInv, NEW t \in Threads, Decide(t)
    PROVE  IInv'
<1> DEFINE l == stage[t]
           k == req[t][l]
           time == now[t]
<1>1. /\ l \in Limiters /\ req[t] \in Attempt /\ k \in Keys[l] /\ time \in Nat /\ time <= clock
      /\ \E dropped, cost : Effect(l, k, time, dropped, cost)
  BY DecideEffect
<1>2. PICK dropped, cost : Effect(l, k, time, dropped, cost)
  BY <1>1
<1>3. Settled(l, k, time, dropped, cost)
  BY <1>1, <1>2, BucketsAfter
<1>4. /\ watch'.limiter = watch.limiter /\ watch'.key = watch.key /\ watch'.from = watch.from
      /\ watch' \in [limiter : Limiters, key : UNION {Keys[m] : m \in Limiters}, from : Nat,
                     fresh : BOOLEAN, spent : Nat, forgiven : Nat]
  BY <1>1, <1>2, WatchAfter DEF Observed
<1>5. clock \in Nat /\ clock' = clock /\ deployed' = deployed /\ (Pass(t) \/ Leave(t))
  BY <1>1, <1>2 DEF Effect, Decide, IInv, TypeOK
<1>6. [credit |-> Credit(l, k, time) - cost, seen |-> time] \in Bucket(l)
  BY <1>1, <1>3 DEF Settled, Bucket
<1>7. \A m \in Limiters : buckets'[m] \in [Keys[m] -> Bucket(m) \cup {NoBucket}]
  <2>1. \A m \in Limiters : buckets[m] \in [Keys[m] -> Bucket(m) \cup {NoBucket}]
    BY DEF IInv, TypeOK
  <2>2. \A j \in Keys[l] : buckets'[l][j] \in Bucket(l) \cup {NoBucket}
    BY <1>1, <1>3, <1>6, <2>1 DEF Settled
  <2>3. buckets'[l] \in [Keys[l] -> Bucket(l) \cup {NoBucket}]
    BY <1>1, <1>3, <2>2 DEF Settled
  <2> QED
    BY <1>3, <2>1, <2>3 DEF Settled
<1>8. TypeOK'
  <2>1. lastSweep' \in [Limiters -> Int]
    BY <1>1 DEF Decide, IInv, TypeOK
  <2>2. /\ stage' \in [Threads -> Limiters \cup {"idle"}]
        /\ req' \in [Threads -> Attempt \cup {NoAttempt}]
        /\ now' \in [Threads -> Nat]
    BY <1>5 DEF Pass, Leave, IInv, TypeOK, Limiters
  <2> QED
    BY <1>4, <1>5, <1>7, <2>1, <2>2 DEF IInv, TypeOK
<1>9. Shape'
  BY <1>3, <1>4 DEF IInv, Shape, Settled
<1>10. Punctual'
  <2>1. \A u \in Threads : now'[u] <= clock'
    BY <1>5 DEF IInv, TypeOK, Punctual, Pass, Leave
  <2>2. \A u \in Threads : stage'[u] # "idle" => req'[u] \in Attempt
    BY <1>1, <1>5 DEF IInv, TypeOK, Punctual, Pass, Leave
  <2>3. ASSUME NEW m \in Limiters, NEW j \in Keys[m], buckets'[m][j] # NoBucket
        PROVE  buckets'[m][j].seen <= clock'
    <3>1. CASE m = l /\ j = k
      BY <1>1, <1>3, <1>5, <3>1 DEF Settled
    <3>2. CASE m # l \/ j # k
      <4>1. buckets'[m][j] = buckets[m][j]
        BY <1>3, <2>3, <3>2 DEF Settled
      <4> QED
        BY <1>5, <2>3, <4>1 DEF IInv, Punctual
    <3> QED
      BY <3>1, <3>2
  <2>4. watch'.from <= clock'
    BY <1>4, <1>5 DEF IInv, Punctual
  <2> QED
    BY <2>1, <2>2, <2>3, <2>4 DEF Punctual
<1>11. Budget' /\ FromTheStart'
  BY <1>1, <1>2, BudgetAfter
<1>12. TableBounded'
  <2>1. ASSUME NEW m \in Limiters \ {l} PROVE Tracked(m)' = Tracked(m)
    BY <1>3 DEF Settled, Tracked
  <2>2. buckets'[l][k] # NoBucket
    BY <1>1, <1>3, <1>6, NullAssumption DEF Settled
  <2>3. \A j \in Keys[l] : buckets'[l][j] # NoBucket
            <=> j = k \/ (j \notin dropped /\ buckets[l][j] # NoBucket)
    BY <1>1, <1>3, <2>2 DEF Settled
  <2>4. {j \in Keys[l] : buckets'[l][j] # NoBucket} = (Tracked(l) \ dropped) \cup {k}
    BY <1>1, <2>3 DEF Tracked
  <2>5. \A m \in Limiters : Cardinality({j \in Keys[m] : buckets'[m][j] # NoBucket}) <= MaxTracked
    <3> SUFFICES ASSUME NEW m \in Limiters
                 PROVE  Cardinality({j \in Keys[m] : buckets'[m][j] # NoBucket}) <= MaxTracked
      OBVIOUS
    <3>1. CASE m = l
      BY <1>2, <2>4, <3>1 DEF Effect, Room
    <3>2. CASE m # l
      BY <2>1, <3>2 DEF IInv, TableBounded, Tracked
    <3> QED
      BY <3>1, <3>2
  <2> QED
    BY <2>5 DEF TableBounded, Tracked
<1>13. ChargedToItsClient'
  <2>1. ASSUME NEW u \in Threads, stage'[u] # "idle"
        PROVE  stage[u] # "idle" /\ req'[u] = req[u]
    <3>1. stage \in [Threads -> Limiters \cup {"idle"}] /\ req \in [Threads -> Attempt \cup {NoAttempt}]
      BY DEF IInv, TypeOK
    <3>2. stage[t] # "idle"
      BY <1>1 DEF Limiters
    <3> QED
      BY <1>5, <2>1, <3>1, <3>2 DEF Pass, Leave
  <2> QED
    BY <2>1 DEF IInv, ChargedToItsClient
<1> QED
  BY <1>8, <1>9, <1>10, <1>11, <1>12, <1>13 DEF IInv

----------------------------------------------------------------------------
\* allow and prune keep the inductive invariant, whoever decides and when.
THEOREM IInvHolds == Spec => []IInv
<1>1. IInv /\ [Next]_vars => IInv'
  <2> SUFFICES ASSUME IInv, [Next]_vars PROVE IInv'
    OBVIOUS
  <2>1. CASE Next
    BY <2>1, TickKeepsIInv, ArriveKeepsIInv, DecideKeepsIInv, WatchKeepsIInv DEF Next
  <2>2. CASE UNCHANGED vars
    <3>1. UNCHANGED <<clock, deployed, buckets, lastSweep, stage, req, now, watch>>
      BY <2>2 DEF vars, table, attempt
    <3>2. TypeOK' /\ Shape' /\ Punctual'
      BY <3>1 DEF IInv, TypeOK, Shape, Punctual
    <3>3. Budget' /\ FromTheStart'
      BY <3>1 DEF IInv, Budget, Level, FromTheStart
    <3>4. TableBounded' /\ ChargedToItsClient'
      BY <3>1 DEF IInv, TableBounded, Tracked, ChargedToItsClient
    <3> QED
      BY <3>2, <3>3, <3>4 DEF IInv
  <2> QED
    BY <2>1, <2>2
<1> QED
  BY IInvInit, <1>1, PTL DEF Spec

\* limiter: every bucket holds between nothing and its burst, and everything else
\* keeps its type.
THEOREM TypeCorrect == Spec => []TypeOK
<1>1. IInv => TypeOK
  BY DEF IInv
<1> QED
  BY <1>1, IInvHolds, PTL

\* allow: from any moment on, a key spends no more than its burst and the refill of
\* the time since, but for lateness and for what the cap gives back.
THEOREM KeepsBudget == Spec => []WithinBudget
<1>1. ASSUME IInv PROVE WithinBudget
  BY <1>1, WatchFacts, FullFacts DEF IInv, Budget, WithinBudget
<1> QED
  BY <1>1, IInvHolds, PTL

\* prune: the table never has more than maxTrackedKeys.
THEOREM KeepsToCap == Spec => []TableBounded
<1>1. IInv => TableBounded
  BY DEF IInv
<1> QED
  BY <1>1, IInvHolds, PTL

\* clientIP: an attempt is charged to the client that made it, or to the peer if the proxy
\* did not say who that was, whatever the client's own header says and however long it is.
THEOREM ChargesClient == Spec => []ChargedToItsClient
<1>1. IInv => ChargedToItsClient
  BY DEF IInv
<1> QED
  BY <1>1, IInvHolds, PTL

\* allow: a key is refused only once it has spent its whole burst, in whatever order
\* goroutines that read the clock come to decide, and whichever keys prune drops.
THEOREM GivesBurst == Spec => BurstIsThere
<1> DEFINE Refused(t) ==
        LET l == stage[t] IN
        /\ watch.fresh
        /\ l = watch.limiter
        /\ req[t][l] = watch.key
        /\ stage'[t] # l
        /\ watch'.spent = watch.spent
<1>1. ASSUME IInv, Next, NEW t \in Threads, Refused(t)
      PROVE  watch.spent > Full(stage[t]) - Refill[stage[t]]
  <2> DEFINE l == stage[t]
             k == req[t][l]
             time == now[t]
  <2>1. /\ l = watch.limiter /\ k = watch.key /\ watch.fresh /\ stage'[t] # l
        /\ watch'.spent = watch.spent /\ l \in Limiters
    BY <1>1, WatchFacts
  <2>2. Decide(t)
    <3>1. l # "idle" /\ stage \in [Threads -> Limiters \cup {"idle"}]
      BY <1>1, <2>1 DEF Limiters, IInv, TypeOK
    <3>2. ~Tick /\ ~Watch
      BY <2>1, Zenon DEF Tick, Watch, attempt
    <3>3. ASSUME NEW u \in Threads, NEW a \in Attempts[deployed], Arrive(u, a) PROVE FALSE
      BY <2>1, <3>1, <3>3 DEF Arrive
    <3>4. ASSUME NEW u \in Threads, u # t, Decide(u) PROVE FALSE
      BY <2>1, <3>1, <3>4, Zenon DEF Decide, Pass, Leave
    <3> QED
      BY <1>1, <3>2, <3>3, <3>4 DEF Next
  <2>3. /\ k \in Keys[l] /\ time \in Nat /\ time <= clock
        /\ \E dropped, cost : Effect(l, k, time, dropped, cost)
    BY <1>1, <2>2, DecideEffect
  <2>4. PICK dropped, cost : Effect(l, k, time, dropped, cost)
    BY <2>3
  <2>5. Settled(l, k, time, dropped, cost)
    BY <1>1, <2>1, <2>3, <2>4, BucketsAfter
  <2>6. watch'.spent = watch.spent + cost
    <3>1. Observed(l, k, time, dropped, cost)
      BY <1>1, <2>1, <2>3, <2>4, WatchAfter
    <3> QED
      BY <2>1, <3>1 DEF Observed
  <2>7. /\ watch.spent \in Nat /\ Full(l) \in Nat /\ Refill[l] \in Nat /\ 0 < Refill[l]
        /\ buckets[l][k] \in Bucket(l) \cup {NoBucket}
    BY <1>1, <2>1, WatchFacts, FullFacts
  <2>8. cost = 0
    BY <2>1, <2>5, <2>6, <2>7 DEF Settled
  <2>9. Credit(l, k, time) < Refill[l] /\ Credit(l, k, time) \in Nat
    <3>1. Credit(l, k, time) \in Nat
      BY <2>5, <2>7 DEF Settled
    <3>2. cost = IF Credit(l, k, time) >= Refill[l] THEN Refill[l] ELSE 0
      BY <2>4 DEF Effect, HasToken
    <3> QED
      BY <2>7, <2>8, <3>1, <3>2
  <2>10. watch.spent + Credit(l, k, time) >= Full(l)
    <3>1. CASE buckets[l][k] = NoBucket
      BY <2>7, <3>1 DEF Credit
    <3>2. CASE buckets[l][k] # NoBucket
      <4>1. watch.spent + buckets[l][k].credit >= Full(l)
        BY <1>1, <2>1, <3>2 DEF IInv, FromTheStart
      <4>2. buckets[l][k].credit <= Credit(l, k, time) /\ buckets[l][k].credit \in Nat
        BY <2>1, <2>3, <2>7, <3>2, RefilledRange DEF Credit, Bucket
      <4> QED
        BY <2>7, <2>9, <4>1, <4>2
    <3> QED
      BY <3>1, <3>2
  <2> QED
    BY <2>7, <2>9, <2>10
<1>2. ASSUME IInv, UNCHANGED vars, NEW t \in Threads PROVE ~Refused(t)
  BY <1>2 DEF vars, attempt
<1>3. IInv /\ [Next]_vars =>
        [\A t \in Threads : Refused(t) => watch.spent > Full(stage[t]) - Refill[stage[t]]]_vars
  BY <1>1, <1>2
<1> QED
  BY <1>3, IInvHolds, PTL DEF Spec, BurstIsThere
=============================================================================
