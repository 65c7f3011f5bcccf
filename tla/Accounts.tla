------------------------------ MODULE Accounts ------------------------------
(***************************************************************************)
(* Who may play: users, invitations and login sessions                     *)
(* (src/internal/auth, invite and session, over src/internal/database),    *)
(* the handlers that register, log in, log out and let a request through,  *)
(* and the reaper that collects what has expired (src/cmd/zorkd).          *)
(*                                                                         *)
(* As in GameService, a request is a goroutine with a program counter and  *)
(* a step is one transaction or one reading of the clock: between the      *)
(* statement that reads a row and the clock it is compared with, and       *)
(* between that and the next statement, time passes and others run.        *)
(*                                                                         *)
(* A token is 256 random bits: one that was ever handed out is not handed  *)
(* out again, and only somebody who was given it can present it.           *)
(***************************************************************************)
EXTENDS Naturals, FiniteSets

CONSTANTS
    Addresses,      \* email addresses as they are typed
    Normalized,     \* Normalized[a]: what NormalizeEmail makes of one
    Passwords,
    UserIds,        \* the rowids the users table hands out
    Links,          \* invitation tokens
    Cookies,        \* session tokens
    InviteTTL, SessionTTL,
    Threads,        \* the goroutines that serve requests
    MaxTime,        \* bound: how far the clock runs
    MaxRequests,    \* bound: how many requests are ever submitted
    NoRow, NoTime, NoUser, NoRequest

ASSUME AddressAssumption ==
    /\ Normalized \in [Addresses -> Addresses]
    /\ \A a \in Addresses : Normalized[Normalized[a]] = Normalized[a]

ASSUME TimeAssumption ==
    /\ InviteTTL \in Nat \ {0} /\ SessionTTL \in Nat \ {0} /\ MaxTime \in Nat
    /\ UserIds \subseteq Nat \ {0}

Time == Nat

User == [email : Addresses, password : Passwords]
Invitation ==
    [email : Addresses, expires : Time, redeemed : Time \cup {NoTime}, user : UserIds \cup {NoUser}]
Session == [user : UserIds, expires : Time]

RegisterRequest == [op : {"register"}, link : Links, address : Addresses, password : Passwords]
LoginRequest == [op : {"login"}, address : Addresses, password : Passwords]
CookieRequest == [op : {"visit", "logout"}, cookie : Cookies]
Request == RegisterRequest \cup LoginRequest \cup CookieRequest

ASSUME NullAssumption ==
    /\ NoRow \notin User \cup Invitation \cup Session
    /\ NoTime \notin Time /\ NoUser \notin UserIds /\ NoRequest \notin Request

VARIABLES
    clock,          \* the wall clock
    users,          \* the users table
    invitations,    \* the invitations table, by token
    sessions,       \* the auth_sessions table, by token
    issued,         \* the tokens that have been generated
    pc,             \* the next step of a goroutine's request
    req,            \* the request
    seen,           \* the invitation or session it read
    at,             \* the time it read
    who,            \* the account it found or made
    live,           \* history: was a visit's session live when the visit arrived?
    reaper,         \* what the reaper does next
    sweepAt,        \* the time its sweep read
    submitted       \* how many requests there have been

tables == <<users, invitations, sessions, issued>>
request == <<pc, req, seen, at, who, live>>
sweeps == <<reaper, sweepAt>>
vars == <<clock, tables, request, sweeps, submitted>>

PCs == {"idle", "lookup", "judge", "redeem", "authenticate", "start", "create",
        "read", "admit", "user", "serve", "end"}

Init ==
    /\ clock = 0
    /\ users = [u \in UserIds |-> NoRow]
    /\ invitations = [l \in Links |-> NoRow]
    /\ sessions = [c \in Cookies |-> NoRow]
    /\ issued = {}
    /\ pc = [t \in Threads |-> "idle"]
    /\ req = [t \in Threads |-> NoRequest]
    /\ seen = [t \in Threads |-> NoRow]
    /\ at = [t \in Threads |-> NoTime]
    /\ who = [t \in Threads |-> NoUser]
    /\ live = [t \in Threads |-> FALSE]
    /\ reaper = "sessions" /\ sweepAt = 0
    /\ submitted = 0

----------------------------------------------------------------------------
\* Mutant: the address is kept as it was typed.
AddressAsTyped(typed) == typed

\* NormalizeEmail.
Address(typed) == Normalized[typed]

\* The UNIQUE index on users.email.
Taken(email) == \E u \in UserIds : users[u] # NoRow /\ users[u].email = email

\* The rowid of the next account.  Accounts are never deleted.
IsNextUser(u) == u = 1 + Cardinality({v \in UserIds : users[v] # NoRow})

\* Mutant: a row is good through the very moment it expires.
NotAfter(row, time) == time <= row.expires

\* time.Time.Before, of a row's expiry.
Unexpired(row, time) == time < row.expires

\* redeemable
Redeemable(row, time) == row.redeemed = NoTime /\ Unexpired(row, time)

\* Was the session of this request, if it is a visit, live when it arrived?
IsLive(r) ==
    r.op = "visit" /\ sessions[r.cookie] # NoRow /\ clock < sessions[r.cookie].expires

Tick ==
    /\ clock < MaxTime
    /\ clock' = clock + 1
    /\ UNCHANGED <<tables, request, sweeps, submitted>>

\* zorkd invite: a token is generated and printed, and its invitation stored.
Invite(l, typed) ==
    /\ l \notin issued
    /\ issued' = issued \cup {l}
    /\ invitations' = [invitations EXCEPT ![l] =
            [email |-> Address(typed), expires |-> clock + InviteTTL, redeemed |-> NoTime, user |-> NoUser]]
    /\ UNCHANGED <<clock, users, sessions, request, sweeps, submitted>>

Entry(op) ==
    CASE op = "register" -> "lookup"
      [] op = "login" -> "authenticate"
      [] op = "visit" -> "read"
      [] op = "logout" -> "end"

\* A token is presented only by somebody it was given to.
Presentable(r) ==
    /\ r.op = "register" => r.link \in issued
    /\ r.op \in {"visit", "logout"} => r.cookie \in issued

Submit(t, r) ==
    /\ pc[t] = "idle"
    /\ submitted < MaxRequests
    /\ Presentable(r)
    /\ submitted' = submitted + 1
    /\ pc' = [pc EXCEPT ![t] = Entry(r.op)]
    /\ req' = [req EXCEPT ![t] = r]
    /\ live' = [live EXCEPT ![t] = IsLive(r)]
    /\ UNCHANGED <<clock, tables, seen, at, who, sweeps>>

\* The request is answered.
Answer(t) ==
    /\ pc' = [pc EXCEPT ![t] = "idle"]
    /\ req' = [req EXCEPT ![t] = NoRequest]
    /\ seen' = [seen EXCEPT ![t] = NoRow]
    /\ at' = [at EXCEPT ![t] = NoTime]
    /\ who' = [who EXCEPT ![t] = NoUser]
    /\ live' = [live EXCEPT ![t] = FALSE]
    /\ UNCHANGED <<clock, sweeps, submitted>>

\* Any other step may be refused or fail, with nothing written: the row is not
\* there, the rate limit is reached, the password is too short, a statement fails.
Fail(t) ==
    /\ pc[t] \notin {"idle", "user"}
    /\ Answer(t)
    /\ UNCHANGED tables

----------------------------------------------------------------------------
\* invite.Service.Redeem: look the token up ...
LookUp(t) ==
    /\ pc[t] = "lookup"
    /\ invitations[req[t].link] # NoRow
    /\ seen' = [seen EXCEPT ![t] = invitations[req[t].link]]
    /\ pc' = [pc EXCEPT ![t] = "judge"]
    /\ UNCHANGED <<clock, tables, req, at, who, live, sweeps, submitted>>

\* ... read the clock, compare, and hash the password, which takes its time ...
Judge(t) ==
    /\ pc[t] = "judge"
    /\ Redeemable(seen[t], clock)
    /\ Address(req[t].address) = seen[t].email
    /\ at' = [at EXCEPT ![t] = clock]
    /\ pc' = [pc EXCEPT ![t] = "redeem"]
    /\ UNCHANGED <<clock, tables, req, seen, who, live, sweeps, submitted>>

\* Mutant: the transaction takes the caller's lookup on trust.
MayRedeemOnTrust(t) == TRUE

\* The check made again inside the transaction.
MayRedeem(t) ==
    LET row == invitations[req[t].link] IN
    row # NoRow /\ Redeemable(row, at[t]) /\ row.email = Address(req[t].address)

\* ... and in one transaction check again, create the account and mark the
\* invitation spent.
Redeem(t) ==
    /\ pc[t] = "redeem"
    /\ MayRedeem(t)
    /\ ~Taken(Address(req[t].address))
    /\ \E u \in UserIds :
        /\ IsNextUser(u)
        /\ users' = [users EXCEPT ![u] =
                [email |-> Address(req[t].address), password |-> req[t].password]]
        /\ invitations' = [invitations EXCEPT ![req[t].link] =
                IF @ = NoRow THEN @ ELSE [@ EXCEPT !.redeemed = at[t], !.user = u]]
        /\ who' = [who EXCEPT ![t] = u]
    /\ pc' = [pc EXCEPT ![t] = "start"]
    /\ UNCHANGED <<clock, sessions, issued, req, seen, at, live, sweeps, submitted>>

\* Authenticate: the account of that address, if its password is this one.
Authenticate(t) ==
    /\ pc[t] = "authenticate"
    /\ \E u \in UserIds :
        /\ users[u] = [email |-> Address(req[t].address), password |-> req[t].password]
        /\ who' = [who EXCEPT ![t] = u]
    /\ pc' = [pc EXCEPT ![t] = "start"]
    /\ UNCHANGED <<clock, tables, req, seen, at, live, sweeps, submitted>>

\* Manager.Start: the clock is read ...
Start(t) ==
    /\ pc[t] = "start"
    /\ who[t] # NoUser
    /\ at' = [at EXCEPT ![t] = clock]
    /\ pc' = [pc EXCEPT ![t] = "create"]
    /\ UNCHANGED <<clock, tables, req, seen, who, live, sweeps, submitted>>

\* ... and a new session stored that expires by that time, its token in a cookie.
CreateSession(t, c) ==
    /\ pc[t] = "create"
    /\ c \notin issued
    /\ issued' = issued \cup {c}
    /\ sessions' = [sessions EXCEPT ![c] = [user |-> who[t], expires |-> at[t] + SessionTTL]]
    /\ Answer(t)
    /\ UNCHANGED <<users, invitations>>

----------------------------------------------------------------------------
\* Manager.UserID: read the session ...
ReadSession(t) ==
    /\ pc[t] = "read"
    /\ sessions[req[t].cookie] # NoRow
    /\ seen' = [seen EXCEPT ![t] = sessions[req[t].cookie]]
    /\ pc' = [pc EXCEPT ![t] = "admit"]
    /\ UNCHANGED <<clock, tables, req, at, who, live, sweeps, submitted>>

\* ... and the clock: it has not expired ...
Admit(t) ==
    /\ pc[t] = "admit"
    /\ Unexpired(seen[t], clock)
    /\ who' = [who EXCEPT ![t] = seen[t].user]
    /\ pc' = [pc EXCEPT ![t] = "user"]
    /\ UNCHANGED <<clock, tables, req, seen, at, live, sweeps, submitted>>

\* ... or it has, and is deleted on the way past.
Expire(t) ==
    /\ pc[t] = "admit"
    /\ ~Unexpired(seen[t], clock)
    /\ pc' = [pc EXCEPT ![t] = "end"]
    /\ UNCHANGED <<clock, tables, req, seen, at, who, live, sweeps, submitted>>

\* requireUser finds the account, and the handler runs ...
FindUser(t) ==
    /\ pc[t] = "user"
    /\ users[who[t]] # NoRow
    /\ pc' = [pc EXCEPT ![t] = "serve"]
    /\ UNCHANGED <<clock, tables, req, seen, at, who, live, sweeps, submitted>>

\* ... or the lookup fails, for whatever reason, and the session is ended.
LoseUser(t) ==
    /\ pc[t] = "user"
    /\ pc' = [pc EXCEPT ![t] = "end"]
    /\ UNCHANGED <<clock, tables, req, seen, at, who, live, sweeps, submitted>>

Serve(t) ==
    /\ pc[t] = "serve"
    /\ Answer(t)
    /\ UNCHANGED tables

\* DeleteSession: at a logout, of an expired session, or without an account.
End(t) ==
    /\ pc[t] = "end"
    /\ sessions' = [sessions EXCEPT ![req[t].cookie] = NoRow]
    /\ Answer(t)
    /\ UNCHANGED <<users, invitations, issued>>

----------------------------------------------------------------------------
\* The ticker fires: the first sweep reads the clock.
Wake ==
    /\ reaper = "wait"
    /\ reaper' = "sessions" /\ sweepAt' = clock
    /\ UNCHANGED <<clock, tables, request, submitted>>

\* Mutant: a sweep that fails ends the cleanup for good.
AfterFailedSweepNone == "stopped"

\* What a sweep that has failed is followed by: the next one.
AfterFailedSweep == "invitations"

\* Mutant: the comparison is the wrong way round.
SweptUnexpired(row, time) == row.expires > time

\* DELETE FROM auth_sessions WHERE expires_at < ?
Swept(row, time) == row.expires < time

SweepSessions ==
    /\ reaper = "sessions"
    /\ sessions' = [c \in Cookies |->
            IF sessions[c] # NoRow /\ Swept(sessions[c], sweepAt) THEN NoRow ELSE sessions[c]]
    /\ reaper' = "invitations" /\ sweepAt' = clock
    /\ UNCHANGED <<clock, users, invitations, issued, request, submitted>>

SweepSessionsFails ==
    /\ reaper = "sessions"
    /\ reaper' = AfterFailedSweep /\ sweepAt' = clock
    /\ UNCHANGED <<clock, tables, request, submitted>>

\* Unredeemed ones that have expired, redeemed ones after a time of grace.
Spent(row, time) ==
    IF row.redeemed = NoTime THEN row.expires < time ELSE row.redeemed + InviteTTL < time

SweepInvitations ==
    /\ reaper = "invitations"
    /\ invitations' = [l \in Links |->
            IF invitations[l] # NoRow /\ Spent(invitations[l], sweepAt) THEN NoRow ELSE invitations[l]]
    /\ reaper' = "wait" /\ sweepAt' = NoTime
    /\ UNCHANGED <<clock, users, sessions, issued, request, submitted>>

SweepInvitationsFails ==
    /\ reaper = "invitations"
    /\ reaper' = "wait" /\ sweepAt' = NoTime
    /\ UNCHANGED <<clock, tables, request, submitted>>

\* The process stops and comes back, and starts with a sweep (serve runs it before
\* it listens; here requests may come in already).
Crash ==
    /\ \E t \in Threads : pc[t] # "idle"
    /\ pc' = [t \in Threads |-> "idle"]
    /\ req' = [t \in Threads |-> NoRequest]
    /\ seen' = [t \in Threads |-> NoRow]
    /\ at' = [t \in Threads |-> NoTime]
    /\ who' = [t \in Threads |-> NoUser]
    /\ live' = [t \in Threads |-> FALSE]
    /\ reaper' = "sessions" /\ sweepAt' = clock
    /\ UNCHANGED <<clock, tables, submitted>>

Step(t) ==
    \/ LookUp(t) \/ Judge(t) \/ Redeem(t)
    \/ Authenticate(t) \/ Start(t) \/ \E c \in Cookies : CreateSession(t, c)
    \/ ReadSession(t) \/ Admit(t) \/ Expire(t)
    \/ FindUser(t) \/ LoseUser(t) \/ Serve(t) \/ End(t)
    \/ Fail(t)

Reap == Wake \/ SweepSessions \/ SweepSessionsFails \/ SweepInvitations \/ SweepInvitationsFails

Next ==
    \/ Tick
    \/ \E l \in Links, a \in Addresses : Invite(l, a)
    \/ \E t \in Threads, r \in Request : Submit(t, r)
    \/ \E t \in Threads : Step(t)
    \/ Reap
    \/ Crash

Spec == Init /\ [][Next]_vars

----------------------------------------------------------------------------
\* Every variable keeps its type.
TypeOK ==
    /\ clock \in Time
    /\ users \in [UserIds -> User \cup {NoRow}]
    /\ invitations \in [Links -> Invitation \cup {NoRow}]
    /\ sessions \in [Cookies -> Session \cup {NoRow}]
    /\ issued \subseteq Links \cup Cookies
    /\ pc \in [Threads -> PCs]
    /\ req \in [Threads -> Request \cup {NoRequest}]
    /\ seen \in [Threads -> Invitation \cup Session \cup {NoRow}]
    /\ at \in [Threads -> Time \cup {NoTime}]
    /\ who \in [Threads -> UserIds \cup {NoUser}]
    /\ live \in [Threads -> BOOLEAN]
    /\ reaper \in {"wait", "sessions", "invitations"}
    /\ sweepAt \in Time \cup {NoTime}
    /\ submitted \in Nat

\* The three tables agree: one account per address however it is typed
\* (0002_users.sql), a spent invitation names the account it made, which is of
\* its address, no two name the same account (0005_invitations.sql), and a
\* session names an account.
AccountsConsistent ==
    /\ \A u, v \in UserIds :
        users[u] # NoRow /\ users[v] # NoRow /\ Normalized[users[u].email] = Normalized[users[v].email]
            => u = v
    /\ \A l \in Links : invitations[l] # NoRow /\ invitations[l].redeemed # NoTime =>
        /\ invitations[l].user # NoUser
        /\ users[invitations[l].user] # NoRow
        /\ users[invitations[l].user].email = invitations[l].email
        /\ \A m \in Links \ {l} : invitations[m] # NoRow => invitations[m].user # invitations[l].user
    /\ \A c \in Cookies : sessions[c] # NoRow => users[sessions[c].user] # NoRow

\* invite.Store.Redeem: an account is made only by spending an invitation for its
\* address that was there and unspent at that moment, and an invitation is spent
\* only by making an account.  Neither a second registration with the same link,
\* nor the reaper, nor a refusal comes between the two.
AccountPerInvitation ==
    [][LET made == {u \in UserIds : users'[u] # users[u]}
           spent == {l \in Links : invitations[l] # NoRow /\ invitations'[l] # NoRow
                                        /\ invitations'[l] # invitations[l]} IN
       /\ Cardinality(made) = Cardinality(spent)
       /\ \A u \in made : \E l \in spent :
            /\ users[u] = NoRow
            /\ invitations[l].redeemed = NoTime
            /\ invitations[l].email = users'[u].email
            /\ invitations'[l].user = u]_vars

\* requireUser: a request is served only if its session was live when the request
\* arrived, neither expired nor logged out, whatever the reaper and others do.
OnlyLiveServed == \A t \in Threads : pc[t] = "serve" => live[t]

\* Goroutine t is about to delete the session of cookie c: at a logout with that
\* cookie, or because the account of a visit with it was not found.
LogsOut(t, c) == pc[t] = "end" /\ req[t] = [op |-> "logout", cookie |-> c]
LostUser(t, c) == pc[t] = "end" /\ req[t] = [op |-> "visit", cookie |-> c] /\ who[t] # NoUser

\* A session that has not expired ends by a request with its own cookie, a logout
\* or one whose account lookup fails, and in no other way: no sweep, no stale
\* reading of the session and nobody else logs a player out.
NobodyElseLogsOut ==
    [][\A c \in Cookies : sessions[c] # NoRow /\ clock < sessions[c].expires /\ sessions'[c] = NoRow =>
         \E t \in Threads : LogsOut(t, c) \/ LostUser(t, c)]_vars

\* "The session outlived the account it named" (requireUser): a visit ends an
\* unexpired session only if its account is gone.
EndedWithItsAccount ==
    [][\A c \in Cookies : sessions[c] # NoRow /\ clock < sessions[c].expires /\ sessions'[c] = NoRow =>
         (\E t \in Threads : LogsOut(t, c)) \/ users[sessions[c].user] = NoRow]_vars
=============================================================================
