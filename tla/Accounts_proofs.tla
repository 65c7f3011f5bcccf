--------------------------- MODULE Accounts_proofs ---------------------------
(***************************************************************************)
(* Proofs about Accounts, for any addresses, passwords, tokens, times to   *)
(* live, goroutines and any bound on time and requests.                    *)
(***************************************************************************)
EXTENDS Accounts, FiniteSetTheorems, TLAPS

----------------------------------------------------------------------------
(***************************************************************************)
(* The inductive invariant.  The tables agree, rowids are dense, stored    *)
(* addresses are normalized and an invitation's token has been issued.  A  *)
(* goroutine is at steps its kind of request has, presents a token that    *)
(* was issued, and what it read of its session is what is stored, if       *)
(* anything still is.                                                      *)
(***************************************************************************)
Used == {u \in UserIds : users[u] # NoRow}

Dense == \E n \in Nat : Used = 1 .. n

Normal == \A u \in Used : Normalized[users[u].email] = users[u].email

Invited ==
    \A l \in Links : invitations[l] # NoRow =>
        /\ l \in issued
        /\ invitations[l].redeemed = NoTime <=> invitations[l].user = NoUser

\* Which requests can be at which step, and what they have by then.
AtStage(t) ==
    /\ pc[t] \in {"lookup", "judge", "redeem"} => req[t] \in RegisterRequest
    /\ pc[t] = "authenticate" => req[t] \in LoginRequest
    /\ pc[t] \in {"read", "admit", "user", "serve"} => req[t] \in CookieRequest /\ req[t].op = "visit"
    /\ pc[t] = "end" => req[t] \in CookieRequest
    /\ pc[t] \in {"read", "admit", "user", "serve", "end"} => req[t].cookie \in issued
    /\ pc[t] \in {"redeem", "create"} => at[t] \in Time
    /\ pc[t] \in {"start", "create"} => who[t] \in Used
    /\ pc[t] \in {"user", "serve"} => who[t] \in UserIds

\* The session of a visit is still the one that was read, or gone.
StillThere(t) == seen[t] \in Session /\ sessions[req[t].cookie] \in {NoRow, seen[t]}

\* A visit that could still be let through was live when it arrived, and one that
\* ends its session without having had an account found it expired.
Judged(t) ==
    /\ pc[t] = "read" =>
        (sessions[req[t].cookie] # NoRow /\ clock < sessions[req[t].cookie].expires => live[t])
    /\ pc[t] = "admit" => StillThere(t) /\ (clock < seen[t].expires => live[t])
    /\ pc[t] \in {"user", "serve"} => live[t]
    /\ pc[t] = "end" /\ req[t].op = "visit" /\ who[t] = NoUser =>
        StillThere(t) /\ seen[t].expires <= clock

SweepsThePast == reaper # "wait" => sweepAt \in Time /\ sweepAt <= clock

Tables == Dense /\ Normal /\ Invited /\ AccountsConsistent

IInv ==
    /\ TypeOK
    /\ Tables
    /\ SweepsThePast
    /\ \A t \in Threads : AtStage(t) /\ Judged(t)
----------------------------------------------------------------------------
\* What no step takes back: accounts, issued tokens and time; and a session that
\* was issued is never another one.
Onward ==
    /\ \A u \in UserIds : users[u] # NoRow => users'[u] = users[u]
    /\ issued \subseteq issued'
    /\ \A c \in Cookies : c \in issued => sessions'[c] = NoRow \/ sessions'[c] = sessions[c]
    /\ clock \in Nat /\ clock' \in Nat /\ clock <= clock'

Same(u) ==
    /\ pc'[u] = pc[u] /\ req'[u] = req[u] /\ seen'[u] = seen[u]
    /\ at'[u] = at[u] /\ who'[u] = who[u] /\ live'[u] = live[u]

LEMMA NullFacts ==
    /\ NoRow \notin User /\ NoRow \notin Invitation /\ NoRow \notin Session
    /\ NoTime \notin Nat /\ NoUser \notin UserIds /\ NoRequest \notin Request
  BY NullAssumption DEF Time

LEMMA RequestFields ==
    /\ \A r \in RegisterRequest : r \in Request /\ r.op = "register" /\ r.link \in Links
                                    /\ r.address \in Addresses /\ r.password \in Passwords
    /\ \A r \in LoginRequest : r \in Request /\ r.op = "login" /\ r.address \in Addresses
                                    /\ r.password \in Passwords
    /\ \A r \in CookieRequest : r \in Request /\ r.op \in {"visit", "logout"} /\ r.cookie \in Cookies
  BY DEF Request, RegisterRequest, LoginRequest, CookieRequest

LEMMA SessionFields ==
    ASSUME NEW s \in Session
    PROVE  s.user \in UserIds /\ s.expires \in Nat /\ s # NoRow
  BY NullFacts DEF Session, Time

\* A goroutine that does nothing stays where it is.
LEMMA OthersKept ==
    ASSUME TypeOK, Onward, NEW u \in Threads, AtStage(u), Judged(u), Same(u)
    PROVE  AtStage(u)' /\ Judged(u)'
<1>1. AtStage(u)'
  <2>1. who[u] \in Used => who[u] \in Used'
    BY DEF Onward, Used
  <2> QED
    BY <2>1 DEF AtStage, Same, Onward
<1> SUFFICES Judged(u)'
  BY <1>1
<1>2. ASSUME pc[u] \in {"read", "admit", "end"}
      PROVE  /\ req[u].cookie \in Cookies /\ req[u].cookie \in issued
             /\ \/ sessions'[req[u].cookie] = NoRow
                \/ sessions'[req[u].cookie] = sessions[req[u].cookie]
  BY <1>2, RequestFields DEF AtStage, Onward
<1>3. ASSUME pc[u] \in {"admit", "end"}, StillThere(u)
      PROVE  StillThere(u)' /\ seen'[u].expires = seen[u].expires /\ seen[u].expires \in Nat
  BY <1>2, <1>3, SessionFields DEF StillThere, Same
<1>4. CASE pc[u] = "read"
  <2>1. CASE sessions'[req[u].cookie] = NoRow
    BY <1>4, <2>1 DEF Judged, Same
  <2>2. CASE sessions'[req[u].cookie] # NoRow
    <3>1. sessions'[req[u].cookie] = sessions[req[u].cookie] /\ sessions[req[u].cookie] # NoRow
      BY <1>2, <1>4, <2>2
    <3>2. sessions[req[u].cookie] \in Session
      BY <1>2, <1>4, <3>1 DEF TypeOK
    <3>3. clock' < sessions[req[u].cookie].expires => clock < sessions[req[u].cookie].expires
      BY <3>2, SessionFields DEF Onward
    <3> QED
      BY <1>4, <3>1, <3>3 DEF Judged, Same
  <2> QED
    BY <2>1, <2>2
<1>5. CASE pc[u] = "admit"
  <2>1. clock' < seen[u].expires => clock < seen[u].expires
    BY <1>3, <1>5 DEF Judged, Onward
  <2> QED
    BY <1>3, <1>5, <2>1 DEF Judged, Same
<1>6. CASE pc[u] = "end"
  <2>1. ASSUME req[u].op = "visit", who[u] = NoUser
        PROVE  StillThere(u)' /\ seen'[u].expires <= clock'
    BY <1>3, <1>6, <2>1 DEF Judged, Onward
  <2> QED
    BY <1>6, <2>1 DEF Judged, Same
<1>7. CASE pc[u] \notin {"read", "admit", "end"}
  BY <1>7 DEF Judged, Same
<1> QED
  BY <1>4, <1>5, <1>6, <1>7

\* One goroutine moves on and writes nothing.
LEMMA LocalStep ==
    ASSUME IInv, NEW t \in Threads, UNCHANGED <<clock, users, invitations, sessions, issued, reaper, sweepAt>>,
           \A u \in Threads \ {t} : Same(u),
           TypeOK', AtStage(t)', Judged(t)'
    PROVE  IInv'
<1>1. Tables'
  BY DEF IInv, Tables, Dense, Used, Normal, Invited, AccountsConsistent
<1>2. SweepsThePast'
  BY DEF IInv, SweepsThePast
<1>3. Onward
  BY DEF Onward, IInv, TypeOK, Time
<1>4. ASSUME NEW u \in Threads PROVE AtStage(u)' /\ Judged(u)'
  BY <1>3, OthersKept DEF IInv
<1> QED
  BY <1>1, <1>2, <1>4 DEF IInv

\* An answered request has nothing left.
LEMMA Answered ==
    ASSUME TypeOK, NEW t \in Threads, Answer(t)
    PROVE  /\ \A u \in Threads \ {t} : Same(u)
           /\ AtStage(t)' /\ Judged(t)'
           /\ pc' \in [Threads -> PCs] /\ req' \in [Threads -> Request \cup {NoRequest}]
           /\ seen' \in [Threads -> Invitation \cup Session \cup {NoRow}]
           /\ at' \in [Threads -> Time \cup {NoTime}] /\ who' \in [Threads -> UserIds \cup {NoUser}]
           /\ live' \in [Threads -> BOOLEAN]
           /\ UNCHANGED <<clock, reaper, sweepAt, submitted>>
<1>1. \A u \in Threads \ {t} : Same(u)
  BY DEF TypeOK, Answer, Same
<1>2. pc'[t] = "idle"
  BY DEF TypeOK, Answer
<1>3. AtStage(t)' /\ Judged(t)'
  BY <1>2 DEF AtStage, Judged
<1>4. pc' \in [Threads -> PCs] /\ req' \in [Threads -> Request \cup {NoRequest}]
  BY DEF TypeOK, Answer, PCs
<1>5. seen' \in [Threads -> Invitation \cup Session \cup {NoRow}]
  BY DEF TypeOK, Answer
<1>6. at' \in [Threads -> Time \cup {NoTime}] /\ who' \in [Threads -> UserIds \cup {NoUser}]
  BY DEF TypeOK, Answer
<1>7. live' \in [Threads -> BOOLEAN]
  BY DEF TypeOK, Answer
<1>8. UNCHANGED <<clock, reaper, sweepAt, submitted>>
  BY DEF Answer, sweeps
<1> QED
  BY <1>1, <1>3, <1>4, <1>5, <1>6, <1>7, <1>8

LEMMA IInvInit == Init => IInv
<1> SUFFICES ASSUME Init PROVE IInv
  OBVIOUS
<1>1. TypeOK
  BY TimeAssumption DEF Init, TypeOK, PCs, Time
<1>2. Dense
  <2>1. Used = 1 .. 0
    BY DEF Init, Used
  <2> QED
    BY <2>1 DEF Dense
<1>3. Normal /\ Invited /\ AccountsConsistent
  BY DEF Init, Normal, Used, Invited, AccountsConsistent
<1>4. SweepsThePast
  BY DEF Init, SweepsThePast, Time
<1>5. \A t \in Threads : AtStage(t) /\ Judged(t)
  BY DEF Init, AtStage, Judged
<1> QED
  BY <1>1, <1>2, <1>3, <1>4, <1>5 DEF IInv, Tables

\* What a request starts with.
LEMMA Entries ==
    ASSUME NEW r \in Request
    PROVE  /\ r \in RegisterRequest => Entry(r.op) = "lookup"
           /\ r \in LoginRequest => Entry(r.op) = "authenticate"
           /\ r \in CookieRequest /\ r.op = "visit" => Entry(r.op) = "read"
           /\ r \in CookieRequest /\ r.op = "logout" => Entry(r.op) = "end"
           /\ Entry(r.op) \in PCs
<1>1. CASE r \in RegisterRequest
  BY <1>1, RequestFields DEF Entry, PCs, LoginRequest, CookieRequest
<1>2. CASE r \in LoginRequest
  BY <1>2, RequestFields DEF Entry, PCs, RegisterRequest, CookieRequest
<1>3. CASE r \in CookieRequest
  BY <1>3, RequestFields DEF Entry, PCs, RegisterRequest, LoginRequest
<1> QED
  BY <1>1, <1>2, <1>3 DEF Request

LEMMA SubmitKeeps ==
    ASSUME IInv, NEW t \in Threads, NEW r \in Request, Submit(t, r)
    PROVE  IInv'
<1>1. UNCHANGED <<clock, users, invitations, sessions, issued, reaper, sweepAt, seen, at, who>>
  BY DEF Submit, tables, sweeps
<1>2. \A u \in Threads \ {t} : Same(u)
  BY <1>1 DEF Submit, Same, IInv, TypeOK
<1>3. pc'[t] = Entry(r.op) /\ req'[t] = r /\ live'[t] = IsLive(r)
  BY DEF Submit, IInv, TypeOK
<1>4. IsLive(r) \in BOOLEAN
  BY DEF IsLive
<1>5. TypeOK'
  <2>1. pc' \in [Threads -> PCs] /\ req' \in [Threads -> Request \cup {NoRequest}]
    BY Entries DEF Submit, IInv, TypeOK
  <2>2. live' \in [Threads -> BOOLEAN]
    BY <1>4 DEF Submit, IInv, TypeOK
  <2>3. submitted' \in Nat
    BY DEF Submit, IInv, TypeOK
  <2> QED
    BY <1>1, <2>1, <2>2, <2>3 DEF IInv, TypeOK
<1>6. AtStage(t)' /\ Judged(t)'
  <2>1. CASE r \in RegisterRequest
    BY <1>3, <2>1, Entries DEF AtStage, Judged
  <2>2. CASE r \in LoginRequest
    BY <1>3, <2>2, Entries DEF AtStage, Judged
  <2>3. CASE r \in CookieRequest /\ r.op = "visit"
    <3>1. pc'[t] = "read" /\ r.cookie \in issued'
      BY <1>1, <1>3, <2>3, Entries DEF Submit, Presentable
    <3>2. AtStage(t)'
      BY <1>3, <2>3, <3>1 DEF AtStage
    <3>3. sessions'[req'[t].cookie] # NoRow /\ clock' < sessions'[req'[t].cookie].expires => live'[t]
      BY <1>1, <1>3, <2>3 DEF IsLive
    <3> QED
      BY <3>1, <3>2, <3>3 DEF Judged
  <2>4. CASE r \in CookieRequest /\ r.op = "logout"
    <3>1. pc'[t] = "end" /\ r.cookie \in issued'
      BY <1>1, <1>3, <2>4, Entries DEF Submit, Presentable
    <3> QED
      BY <1>3, <2>4, <3>1 DEF AtStage, Judged
  <2> QED
    BY <2>1, <2>2, <2>3, <2>4, RequestFields DEF Request
<1> QED
  BY <1>1, <1>2, <1>5, <1>6, LocalStep

\* A request that is answered with nothing written.
LEMMA AnswerKeeps ==
    ASSUME IInv, NEW t \in Threads, Answer(t), UNCHANGED tables
    PROVE  IInv'
<1>1. TypeOK
  BY DEF IInv
<1>2. UNCHANGED <<users, invitations, sessions, issued>>
  BY DEF tables
<1>3. UNCHANGED <<clock, reaper, sweepAt, submitted>>
  BY <1>1, Answered
<1>4. TypeOK'
  BY <1>1, <1>2, <1>3, Answered DEF TypeOK
<1>5. AtStage(t)' /\ Judged(t)' /\ \A u \in Threads \ {t} : Same(u)
  BY <1>1, Answered
<1> QED
  BY <1>2, <1>3, <1>4, <1>5, LocalStep

\* A goroutine's next step, if it keeps its request.
LEMMA Advances ==
    ASSUME IInv, NEW t \in Threads, NEW step \in PCs,
           NEW row \in Invitation \cup Session \cup {NoRow},
           NEW time \in Time \cup {NoTime}, NEW u \in UserIds \cup {NoUser},
           UNCHANGED <<clock, users, invitations, sessions, issued, req, live, reaper, sweepAt, submitted>>,
           pc' = [pc EXCEPT ![t] = step], seen' = [seen EXCEPT ![t] = row],
           at' = [at EXCEPT ![t] = time], who' = [who EXCEPT ![t] = u],
           AtStage(t)', Judged(t)'
    PROVE  IInv'
<1>1. \A v \in Threads \ {t} : Same(v)
  BY DEF Same, IInv, TypeOK
<1>2. TypeOK'
  <2>1. pc' \in [Threads -> PCs] /\ seen' \in [Threads -> Invitation \cup Session \cup {NoRow}]
    BY DEF IInv, TypeOK
  <2>2. at' \in [Threads -> Time \cup {NoTime}] /\ who' \in [Threads -> UserIds \cup {NoUser}]
    BY DEF IInv, TypeOK
  <2> QED
    BY <2>1, <2>2 DEF IInv, TypeOK
<1> QED
  BY <1>1, <1>2, LocalStep

LEMMA LookUpKeeps ==
    ASSUME IInv, NEW t \in Threads, LookUp(t)
    PROVE  IInv'
<1> DEFINE row == invitations[req[t].link]
<1>1. AtStage(t) /\ req[t] \in RegisterRequest
  BY DEF IInv, AtStage, LookUp
<1>2. row \in Invitation \cup {NoRow}
  BY <1>1, RequestFields DEF IInv, TypeOK
<1>3. UNCHANGED <<clock, users, invitations, sessions, issued, req, live, reaper, sweepAt, submitted>>
  BY DEF LookUp, tables, sweeps
<1>4. at' = [at EXCEPT ![t] = at[t]] /\ who' = [who EXCEPT ![t] = who[t]]
  BY DEF LookUp, IInv, TypeOK
<1>5. at[t] \in Time \cup {NoTime} /\ who[t] \in UserIds \cup {NoUser} /\ "judge" \in PCs
  BY DEF IInv, TypeOK, PCs
<1>6. pc'[t] = "judge"
  BY DEF LookUp, IInv, TypeOK
<1>7. AtStage(t)' /\ Judged(t)'
  BY <1>1, <1>3, <1>6 DEF AtStage, Judged
<1>8. pc' = [pc EXCEPT ![t] = "judge"] /\ seen' = [seen EXCEPT ![t] = row]
  BY DEF LookUp
<1> HIDE DEF row
<1> QED
  BY <1>2, <1>3, <1>4, <1>5, <1>7, <1>8, Advances

LEMMA JudgeKeeps ==
    ASSUME IInv, NEW t \in Threads, Judge(t)
    PROVE  IInv'
<1>1. AtStage(t) /\ req[t] \in RegisterRequest
  BY DEF IInv, AtStage, Judge
<1>2. UNCHANGED <<clock, users, invitations, sessions, issued, req, live, reaper, sweepAt, submitted>>
  BY DEF Judge, tables, sweeps
<1>3. seen' = [seen EXCEPT ![t] = seen[t]] /\ who' = [who EXCEPT ![t] = who[t]]
  BY DEF Judge, IInv, TypeOK
<1>4. seen[t] \in Invitation \cup Session \cup {NoRow} /\ who[t] \in UserIds \cup {NoUser} /\ "redeem" \in PCs
  BY DEF IInv, TypeOK, PCs
<1>5. pc'[t] = "redeem" /\ at'[t] = clock /\ clock \in Time
  BY DEF Judge, IInv, TypeOK
<1>6. AtStage(t)' /\ Judged(t)'
  BY <1>1, <1>2, <1>5 DEF AtStage, Judged
<1>7. pc' = [pc EXCEPT ![t] = "redeem"] /\ at' = [at EXCEPT ![t] = clock]
  BY DEF Judge
<1> QED
  BY <1>2, <1>3, <1>4, <1>5, <1>6, <1>7, Advances

LEMMA AuthenticateKeeps ==
    ASSUME IInv, NEW t \in Threads, Authenticate(t)
    PROVE  IInv'
<1>1. PICK u \in UserIds : /\ users[u] = [email |-> Address(req[t].address), password |-> req[t].password]
                           /\ who' = [who EXCEPT ![t] = u]
  BY DEF Authenticate
<1>2. u \in Used
  <2>1. Address(req[t].address) \in Addresses /\ req[t].password \in Passwords
    BY RequestFields, AddressAssumption DEF IInv, AtStage, Authenticate, Address
  <2>2. users[u] \in User
    BY <1>1, <2>1 DEF User
  <2> QED
    BY <2>2, NullFacts DEF Used
<1>3. UNCHANGED <<clock, users, invitations, sessions, issued, req, live, reaper, sweepAt, submitted>>
  BY DEF Authenticate, tables, sweeps
<1>4. seen' = [seen EXCEPT ![t] = seen[t]] /\ at' = [at EXCEPT ![t] = at[t]]
  BY DEF Authenticate, IInv, TypeOK
<1>5. seen[t] \in Invitation \cup Session \cup {NoRow} /\ at[t] \in Time \cup {NoTime} /\ "start" \in PCs
  BY DEF IInv, TypeOK, PCs
<1>6. pc'[t] = "start" /\ who'[t] = u
  BY <1>1 DEF Authenticate, IInv, TypeOK
<1>7. AtStage(t)' /\ Judged(t)'
  <2>1. Used' = Used
    BY <1>3 DEF Used
  <2> QED
    BY <1>2, <1>6, <2>1 DEF AtStage, Judged
<1>8. pc' = [pc EXCEPT ![t] = "start"]
  BY DEF Authenticate
<1> QED
  BY <1>1, <1>3, <1>4, <1>5, <1>7, <1>8, Advances

LEMMA ReadSessionKeeps ==
    ASSUME IInv, NEW t \in Threads, ReadSession(t)
    PROVE  IInv'
<1> DEFINE row == sessions[req[t].cookie]
<1>1. /\ AtStage(t) /\ Judged(t) /\ pc[t] = "read"
      /\ req[t] \in CookieRequest /\ req[t].op = "visit" /\ req[t].cookie \in issued
  BY DEF IInv, AtStage, ReadSession
<1>2. row \in Session
  BY <1>1, RequestFields DEF IInv, TypeOK, ReadSession
<1>3. UNCHANGED <<clock, users, invitations, sessions, issued, req, live, reaper, sweepAt, submitted>>
  BY DEF ReadSession, tables, sweeps
<1>4. at' = [at EXCEPT ![t] = at[t]] /\ who' = [who EXCEPT ![t] = who[t]]
  BY DEF ReadSession, IInv, TypeOK
<1>5. at[t] \in Time \cup {NoTime} /\ who[t] \in UserIds \cup {NoUser} /\ "admit" \in PCs
  BY DEF IInv, TypeOK, PCs
<1>6. pc'[t] = "admit" /\ seen'[t] = row
  BY DEF ReadSession, IInv, TypeOK
<1>7. AtStage(t)'
  BY <1>1, <1>3, <1>6 DEF AtStage
<1>8. StillThere(t)'
  BY <1>2, <1>3, <1>6 DEF StillThere
<1>9. clock' < seen'[t].expires => live'[t]
  BY <1>1, <1>2, <1>3, <1>6, SessionFields DEF Judged
<1>10. Judged(t)'
  BY <1>6, <1>8, <1>9 DEF Judged
<1>11. pc' = [pc EXCEPT ![t] = "admit"] /\ seen' = [seen EXCEPT ![t] = row]
  BY DEF ReadSession
<1> HIDE DEF row
<1> QED
  BY <1>2, <1>3, <1>4, <1>5, <1>7, <1>10, <1>11, Advances

\* A visit whose session was there and had not expired goes on to look its user up.
LEMMA AdmitKeeps ==
    ASSUME IInv, NEW t \in Threads, Admit(t)
    PROVE  IInv'
<1>1. /\ AtStage(t) /\ Judged(t) /\ pc[t] = "admit" /\ StillThere(t)
      /\ req[t] \in CookieRequest /\ req[t].op = "visit" /\ req[t].cookie \in issued
  BY DEF IInv, AtStage, Judged, Admit
<1>2. seen[t] \in Session /\ seen[t].user \in UserIds
  BY <1>1, SessionFields DEF StillThere
<1>3. UNCHANGED <<clock, users, invitations, sessions, issued, req, live, reaper, sweepAt, submitted>>
  BY DEF Admit, tables, sweeps
<1>4. seen' = [seen EXCEPT ![t] = seen[t]] /\ at' = [at EXCEPT ![t] = at[t]]
  BY DEF Admit, IInv, TypeOK
<1>5. at[t] \in Time \cup {NoTime} /\ "user" \in PCs
  BY DEF IInv, TypeOK, PCs
<1>6. pc'[t] = "user" /\ who'[t] = seen[t].user
  BY DEF Admit, IInv, TypeOK
<1>7. AtStage(t)'
  BY <1>1, <1>2, <1>3, <1>6 DEF AtStage
<1>8. live'[t]
  BY <1>1, <1>3 DEF Judged, Admit, Unexpired
<1>9. Judged(t)'
  BY <1>6, <1>8 DEF Judged
<1>10. pc' = [pc EXCEPT ![t] = "user"] /\ who' = [who EXCEPT ![t] = seen[t].user]
  BY DEF Admit
<1> QED
  BY <1>2, <1>3, <1>4, <1>5, <1>7, <1>9, <1>10, Advances

LEMMA ExpireKeeps ==
    ASSUME IInv, NEW t \in Threads, Expire(t)
    PROVE  IInv'
<1>1. /\ AtStage(t) /\ Judged(t) /\ pc[t] = "admit" /\ StillThere(t)
      /\ req[t] \in CookieRequest /\ req[t].op = "visit" /\ req[t].cookie \in issued
  BY DEF IInv, AtStage, Judged, Expire
<1>2. seen[t] \in Session /\ seen[t].expires \in Nat
  BY <1>1, SessionFields DEF StillThere
<1>3. UNCHANGED <<clock, users, invitations, sessions, issued, req, live, reaper, sweepAt, submitted>>
  BY DEF Expire, tables, sweeps
<1>4. seen' = [seen EXCEPT ![t] = seen[t]] /\ at' = [at EXCEPT ![t] = at[t]]
      /\ who' = [who EXCEPT ![t] = who[t]]
  BY DEF Expire, IInv, TypeOK
<1>5. at[t] \in Time \cup {NoTime} /\ who[t] \in UserIds \cup {NoUser} /\ "end" \in PCs
  BY DEF IInv, TypeOK, PCs
<1>6. pc'[t] = "end" /\ seen'[t] = seen[t]
  BY DEF Expire, IInv, TypeOK
<1>7. AtStage(t)'
  BY <1>1, <1>3, <1>6 DEF AtStage
<1>8. seen[t].expires <= clock
  BY <1>2 DEF Expire, Unexpired, IInv, TypeOK, Time
<1>9. StillThere(t)'
  BY <1>1, <1>3, <1>6 DEF StillThere
<1>10. Judged(t)'
  BY <1>3, <1>6, <1>8, <1>9 DEF Judged
<1>11. pc' = [pc EXCEPT ![t] = "end"]
  BY DEF Expire
<1> QED
  BY <1>2, <1>3, <1>4, <1>5, <1>7, <1>10, <1>11, Advances

LEMMA AccountStepKeeps ==
    ASSUME IInv, NEW t \in Threads, FindUser(t) \/ LoseUser(t)
    PROVE  IInv'
<1>1. PICK step \in {"serve", "end"} : pc' = [pc EXCEPT ![t] = step]
  BY DEF FindUser, LoseUser
<1>2. /\ AtStage(t) /\ Judged(t) /\ pc[t] = "user" /\ live[t] /\ who[t] \in UserIds
      /\ req[t] \in CookieRequest /\ req[t].op = "visit" /\ req[t].cookie \in issued
  BY DEF IInv, AtStage, Judged, FindUser, LoseUser
<1>3. UNCHANGED <<clock, users, invitations, sessions, issued, req, live, reaper, sweepAt, submitted, seen, at, who>>
  BY DEF FindUser, LoseUser, tables, sweeps
<1>4. seen' = [seen EXCEPT ![t] = seen[t]] /\ at' = [at EXCEPT ![t] = at[t]]
      /\ who' = [who EXCEPT ![t] = who[t]]
  BY <1>3 DEF IInv, TypeOK
<1>5. seen[t] \in Invitation \cup Session \cup {NoRow} /\ at[t] \in Time \cup {NoTime} /\ step \in PCs
  BY DEF IInv, TypeOK, PCs
<1>6. pc'[t] = step
  BY <1>1 DEF IInv, TypeOK
<1>7. AtStage(t)'
  BY <1>2, <1>3, <1>6 DEF AtStage
<1>8. Judged(t)'
  BY <1>2, <1>3, <1>6, NullFacts DEF Judged
<1> QED
  BY <1>1, <1>2, <1>3, <1>4, <1>5, <1>7, <1>8, Advances

----------------------------------------------------------------------------
\* The parts of AccountsConsistent.
OnePerAddress ==
    \A u, v \in UserIds :
        users[u] # NoRow /\ users[v] # NoRow /\ Normalized[users[u].email] = Normalized[users[v].email]
            => u = v

Accounted(l) ==
    invitations[l] # NoRow /\ invitations[l].redeemed # NoTime =>
        /\ invitations[l].user # NoUser
        /\ users[invitations[l].user] # NoRow
        /\ users[invitations[l].user].email = invitations[l].email
        /\ \A m \in Links \ {l} : invitations[m] # NoRow => invitations[m].user # invitations[l].user

Owned == \A c \in Cookies : sessions[c] # NoRow => users[sessions[c].user] # NoRow

LEMMA Parts ==
    /\ AccountsConsistent <=> OnePerAddress /\ Owned /\ \A l \in Links : Accounted(l)
    /\ AccountsConsistent' <=> OnePerAddress' /\ Owned' /\ \A l \in Links : Accounted(l)'
  BY DEF AccountsConsistent, OnePerAddress, Owned, Accounted

\* A step that writes: every goroutine stands still or is accounted for.
LEMMA SharedStep ==
    ASSUME IInv, Onward, TypeOK', Tables', SweepsThePast',
           \A u \in Threads : Same(u) \/ (AtStage(u)' /\ Judged(u)')
    PROVE  IInv'
<1>1. ASSUME NEW u \in Threads PROVE AtStage(u)' /\ Judged(u)'
  BY OthersKept DEF IInv
<1> QED
  BY <1>1 DEF IInv

LEMMA StartKeeps ==
    ASSUME IInv, NEW t \in Threads, Start(t)
    PROVE  IInv'
<1>1. AtStage(t) /\ who[t] \in Used
  BY DEF IInv, AtStage, Start
<1>2. UNCHANGED <<clock, users, invitations, sessions, issued, req, live, reaper, sweepAt, submitted>>
  BY DEF Start, tables, sweeps
<1>3. seen' = [seen EXCEPT ![t] = seen[t]] /\ who' = [who EXCEPT ![t] = who[t]]
  BY DEF Start, IInv, TypeOK
<1>4. seen[t] \in Invitation \cup Session \cup {NoRow} /\ who[t] \in UserIds \cup {NoUser} /\ "create" \in PCs
  BY DEF IInv, TypeOK, PCs
<1>5. pc'[t] = "create" /\ at'[t] = clock /\ clock \in Time /\ who'[t] = who[t]
  BY DEF Start, IInv, TypeOK
<1>6. AtStage(t)' /\ Judged(t)'
  <2>1. Used' = Used
    BY <1>2 DEF Used
  <2> QED
    BY <1>1, <1>5, <2>1 DEF AtStage, Judged
<1>7. pc' = [pc EXCEPT ![t] = "create"] /\ at' = [at EXCEPT ![t] = clock]
  BY DEF Start
<1> QED
  BY <1>2, <1>3, <1>4, <1>5, <1>6, <1>7, Advances

LEMMA CreateSessionKeeps ==
    ASSUME IInv, NEW t \in Threads, NEW c \in Cookies, CreateSession(t, c)
    PROVE  IInv'
<1> DEFINE row == [user |-> who[t], expires |-> at[t] + SessionTTL]
<1>1. TypeOK /\ AtStage(t) /\ who[t] \in Used /\ at[t] \in Time
  BY DEF IInv, AtStage, CreateSession
<1>2. row \in Session /\ sessions' = [sessions EXCEPT ![c] = row] /\ row.user = who[t]
  BY <1>1, TimeAssumption DEF Session, Used, TypeOK, Time, CreateSession
<1>3. UNCHANGED <<users, invitations, clock, reaper, sweepAt, submitted>> /\ issued' = issued \cup {c}
  BY <1>1, Answered DEF CreateSession
<1> HIDE DEF row
<1>4. TypeOK'
  <2>1. sessions' \in [Cookies -> Session \cup {NoRow}] /\ issued' \subseteq Links \cup Cookies
    BY <1>1, <1>2, <1>3 DEF TypeOK
  <2>2. Answer(t)
    BY DEF CreateSession
  <2> QED
    BY <1>1, <1>3, <2>1, <2>2, Answered DEF TypeOK
<1>5. Onward
  <2>1. \A d \in Cookies : d \in issued => sessions'[d] = sessions[d]
    BY <1>1, <1>2 DEF CreateSession, TypeOK
  <2> QED
    BY <1>1, <1>3, <2>1 DEF Onward, TypeOK, Time
<1>6. Tables'
  <2>1. (Dense /\ Normal /\ OnePerAddress)'
    BY <1>3, Parts DEF IInv, Tables, Dense, Used, Normal, OnePerAddress
  <2>2. Invited' /\ \A l \in Links : Accounted(l)'
    BY <1>3, Parts DEF IInv, Tables, Invited, Accounted
  <2>3. Owned'
    <3>1. ASSUME NEW d \in Cookies, sessions'[d] # NoRow PROVE users'[sessions'[d].user] # NoRow
      <4>1. CASE d = c
        BY <1>1, <1>2, <1>3, <4>1 DEF TypeOK, Used
      <4>2. CASE d # c
        BY <1>1, <1>2, <1>3, <3>1, <4>2, Parts DEF TypeOK, IInv, Tables, Owned
      <4> QED
        BY <4>1, <4>2
    <3> QED
      BY <3>1 DEF Owned
  <2> QED
    BY <2>1, <2>2, <2>3, Parts DEF Tables
<1>7. SweepsThePast'
  BY <1>3 DEF IInv, SweepsThePast
<1>8. \A u \in Threads : Same(u) \/ (AtStage(u)' /\ Judged(u)')
  BY <1>1, Answered DEF CreateSession
<1> QED
  BY <1>4, <1>5, <1>6, <1>7, <1>8, SharedStep

\* Sessions only go away.
LEMMA SessionsGo ==
    ASSUME IInv, UNCHANGED <<clock, users, invitations, issued>>,
           sessions' \in [Cookies -> Session \cup {NoRow}],
           \A c \in Cookies : sessions'[c] \in {NoRow, sessions[c]}
    PROVE  Tables' /\ Onward
<1>1. (Dense /\ Normal /\ OnePerAddress)'
  BY Parts DEF IInv, Tables, Dense, Used, Normal, OnePerAddress
<1>2. Invited' /\ \A l \in Links : Accounted(l)'
  BY Parts DEF IInv, Tables, Invited, Accounted
<1>3. Owned'
  BY Parts DEF IInv, Tables, Owned
<1>4. Onward
  BY DEF Onward, IInv, TypeOK, Time
<1> QED
  BY <1>1, <1>2, <1>3, <1>4, Parts DEF Tables

LEMMA EndKeeps ==
    ASSUME IInv, NEW t \in Threads, End(t)
    PROVE  IInv'
<1>1. TypeOK /\ Answer(t)
  BY DEF IInv, End
<1>2. UNCHANGED <<clock, users, invitations, issued, reaper, sweepAt, submitted>>
  BY <1>1, Answered DEF End
<1>3. /\ sessions' \in [Cookies -> Session \cup {NoRow}]
      /\ \A c \in Cookies : sessions'[c] \in {NoRow, sessions[c]}
  BY <1>1 DEF End, TypeOK
<1>4. TypeOK'
  BY <1>1, <1>2, <1>3, Answered DEF TypeOK
<1>5. Tables' /\ Onward
  BY <1>2, <1>3, SessionsGo
<1>6. SweepsThePast'
  BY <1>2 DEF IInv, SweepsThePast
<1>7. \A u \in Threads : Same(u) \/ (AtStage(u)' /\ Judged(u)')
  BY <1>1, Answered
<1> QED
  BY <1>4, <1>5, <1>6, <1>7, SharedStep

LEMMA TickKeeps ==
    ASSUME IInv, Tick
    PROVE  IInv'
<1>1. UNCHANGED <<users, invitations, sessions, issued, pc, req, seen, at, who, live, reaper, sweepAt, submitted>>
  BY DEF Tick, tables, request, sweeps
<1>2. clock \in Nat /\ clock' \in Nat /\ clock <= clock' /\ clock' = clock + 1
  BY DEF Tick, IInv, TypeOK, Time
<1>3. TypeOK'
  BY <1>1, <1>2 DEF IInv, TypeOK, Time
<1>4. Onward
  BY <1>1, <1>2 DEF Onward
<1>5. Tables'
  BY <1>1 DEF IInv, Tables, Dense, Used, Normal, Invited, AccountsConsistent
<1>6. SweepsThePast'
  BY <1>1, <1>2 DEF IInv, SweepsThePast, Time
<1>7. \A u \in Threads : Same(u)
  BY <1>1 DEF Same
<1> QED
  BY <1>3, <1>4, <1>5, <1>6, <1>7, SharedStep

LEMMA InviteKeeps ==
    ASSUME IInv, NEW l \in Links, NEW a \in Addresses, Invite(l, a)
    PROVE  IInv'
<1> DEFINE row == [email |-> Address(a), expires |-> clock + InviteTTL, redeemed |-> NoTime, user |-> NoUser]
<1>1. UNCHANGED <<clock, users, sessions, pc, req, seen, at, who, live, reaper, sweepAt, submitted>>
  BY DEF Invite, request, sweeps
<1>2. /\ invitations' = [invitations EXCEPT ![l] = row] /\ row.user = NoUser /\ row.redeemed = NoTime
      /\ issued' = issued \cup {l}
  BY DEF Invite
<1>3. row \in Invitation
  BY AddressAssumption, TimeAssumption DEF Invitation, Address, IInv, TypeOK, Time
<1> HIDE DEF row
<1>4. TypeOK'
  BY <1>1, <1>2, <1>3 DEF IInv, TypeOK
<1>5. Onward
  BY <1>1, <1>2 DEF Onward, IInv, TypeOK, Time
<1>6. \A m \in Links : invitations'[m] = IF m = l THEN row ELSE invitations[m]
  BY <1>2 DEF IInv, TypeOK
<1>7. Tables'
  <2>1. (Dense /\ Normal /\ OnePerAddress /\ Owned)'
    BY <1>1, Parts DEF IInv, Tables, Dense, Used, Normal, OnePerAddress, Owned
  <2>2. Invited'
    BY <1>2, <1>6 DEF IInv, Tables, Invited
  <2>3. ASSUME NEW m \in Links PROVE Accounted(m)'
    <3>1. CASE m = l
      BY <1>2, <1>6, <3>1 DEF Accounted
    <3>2. CASE m # l
      <4>1. Accounted(m)
        BY Parts DEF IInv, Tables
      <4> QED
        BY <1>1, <1>2, <1>6, <3>2, <4>1 DEF Accounted
    <3> QED
      BY <3>1, <3>2
  <2> QED
    BY <2>1, <2>2, <2>3, Parts DEF Tables
<1>8. SweepsThePast'
  BY <1>1 DEF IInv, SweepsThePast
<1>9. \A u \in Threads : Same(u)
  BY <1>1 DEF Same
<1> QED
  BY <1>4, <1>5, <1>7, <1>8, <1>9, SharedStep

\* Invitations only go away.
LEMMA InvitationsGo ==
    ASSUME IInv, UNCHANGED <<clock, users, sessions, issued>>,
           \A l \in Links : invitations'[l] \in {NoRow, invitations[l]}
    PROVE  Tables' /\ Onward
<1>1. (Dense /\ Normal /\ OnePerAddress /\ Owned)'
  BY Parts DEF IInv, Tables, Dense, Used, Normal, OnePerAddress, Owned
<1>2. Invited'
  BY DEF IInv, Tables, Invited
<1>3. ASSUME NEW l \in Links PROVE Accounted(l)'
  <2>1. Accounted(l)
    BY Parts DEF IInv, Tables
  <2> QED
    BY <2>1 DEF Accounted
<1>4. Onward
  BY DEF Onward, IInv, TypeOK, Time
<1> QED
  BY <1>1, <1>2, <1>3, <1>4, Parts DEF Tables

LEMMA ReapKeeps ==
    ASSUME IInv, Reap
    PROVE  IInv'
<1>1. UNCHANGED <<clock, users, issued, pc, req, seen, at, who, live, submitted>>
  BY DEF Reap, Wake, SweepSessions, SweepSessionsFails, SweepInvitations, SweepInvitationsFails, tables, request
<1>2. clock \in Nat /\ clock \in Time /\ TypeOK
  BY DEF IInv, TypeOK, Time
<1>3. /\ sessions' \in [Cookies -> Session \cup {NoRow}]
      /\ \A c \in Cookies : sessions'[c] \in {NoRow, sessions[c]}
  BY <1>2 DEF Reap, Wake, SweepSessions, SweepSessionsFails, SweepInvitations, SweepInvitationsFails, tables, TypeOK
<1>4. /\ invitations' \in [Links -> Invitation \cup {NoRow}]
      /\ \A l \in Links : invitations'[l] \in {NoRow, invitations[l]}
  BY <1>2 DEF Reap, Wake, SweepSessions, SweepSessionsFails, SweepInvitations, SweepInvitationsFails, tables, TypeOK
<1>5. /\ reaper' \in {"wait", "sessions", "invitations"}
      /\ (reaper' = "wait" /\ sweepAt' = NoTime) \/ sweepAt' = clock
  BY DEF Reap, Wake, SweepSessions, SweepSessionsFails, SweepInvitations, SweepInvitationsFails, AfterFailedSweep
<1>6. TypeOK'
  BY <1>1, <1>2, <1>3, <1>4, <1>5 DEF TypeOK
<1>7. Tables' /\ Onward
  <2>1. CASE UNCHANGED invitations
    BY <1>1, <1>3, <2>1, SessionsGo
  <2>2. CASE UNCHANGED sessions
    BY <1>1, <1>4, <2>2, InvitationsGo
  <2> QED
    BY <2>1, <2>2 DEF Reap, Wake, SweepSessions, SweepSessionsFails, SweepInvitations, SweepInvitationsFails, tables
<1>8. SweepsThePast'
  BY <1>1, <1>2, <1>5 DEF SweepsThePast
<1>9. \A u \in Threads : Same(u)
  BY <1>1 DEF Same
<1> QED
  BY <1>6, <1>7, <1>8, <1>9, SharedStep

LEMMA CrashKeeps ==
    ASSUME IInv, Crash
    PROVE  IInv'
<1>1. UNCHANGED <<clock, users, invitations, sessions, issued, submitted>> /\ clock \in Nat /\ clock \in Time
  BY DEF Crash, tables, IInv, TypeOK, Time
<1>2. TypeOK'
  BY <1>1 DEF Crash, IInv, TypeOK, PCs
<1>3. Onward
  BY <1>1 DEF Onward
<1>4. Tables'
  BY <1>1 DEF IInv, Tables, Dense, Used, Normal, Invited, AccountsConsistent
<1>5. SweepsThePast'
  BY <1>1 DEF Crash, SweepsThePast
<1>6. \A u \in Threads : AtStage(u)' /\ Judged(u)'
  BY DEF Crash, AtStage, Judged
<1> QED
  BY <1>2, <1>3, <1>4, <1>5, <1>6, SharedStep

----------------------------------------------------------------------------
\* What a redemption does to the two tables it writes.
Redeems(t, u) ==
    /\ u \in UserIds /\ u \notin Used /\ Used' = Used \cup {u} /\ u = 1 + Cardinality(Used)
    /\ users' = [users EXCEPT ![u] = [email |-> Address(req[t].address), password |-> req[t].password]]
    /\ invitations' = [invitations EXCEPT ![req[t].link] = [@ EXCEPT !.redeemed = at[t], !.user = u]]
    /\ who' = [who EXCEPT ![t] = u]

\* The rowid it is given is a new one.
LEMMA RedeemWrites ==
    ASSUME IInv, NEW t \in Threads, Redeem(t)
    PROVE  \E u \in UserIds : Redeems(t, u)
<1>1. PICK u \in UserIds :
        /\ IsNextUser(u)
        /\ users' = [users EXCEPT ![u] = [email |-> Address(req[t].address), password |-> req[t].password]]
        /\ invitations' = [invitations EXCEPT ![req[t].link] =
                IF @ = NoRow THEN @ ELSE [@ EXCEPT !.redeemed = at[t], !.user = u]]
        /\ who' = [who EXCEPT ![t] = u]
  BY DEF Redeem
<1>2. u = 1 + Cardinality(Used)
  BY <1>1 DEF IsNextUser, Used
<1>3. u \notin Used
  <2>1. PICK n \in Nat : Used = 1 .. n
    BY DEF IInv, Tables, Dense
  <2>2. Cardinality(1 .. n) = n
    BY <2>1, FS_Interval
  <2> QED
    BY <1>2, <2>1, <2>2
<1>4. Used' = Used \cup {u}
  <2>1. req[t] \in RegisterRequest
    BY DEF Redeem, IInv, AtStage
  <2>2. [email |-> Address(req[t].address), password |-> req[t].password] \in User
    BY <2>1, RequestFields, AddressAssumption DEF User, Address
  <2>3. users'[u] # NoRow /\ \A v \in UserIds \ {u} : users'[v] = users[v]
    BY <1>1, <2>2, NullFacts DEF IInv, TypeOK
  <2> QED
    BY <2>3 DEF Used
<1>5. invitations' = [invitations EXCEPT ![req[t].link] = [@ EXCEPT !.redeemed = at[t], !.user = u]]
  BY <1>1 DEF Redeem, MayRedeem
<1> QED
  BY <1>1, <1>2, <1>3, <1>4, <1>5 DEF Redeems

LEMMA RedeemKeeps ==
    ASSUME IInv, NEW t \in Threads, Redeem(t)
    PROVE  IInv'
<1>1. PICK u \in UserIds : Redeems(t, u)
  BY RedeemWrites
<1> DEFINE email == Address(req[t].address)
           account == [email |-> email, password |-> req[t].password]
           link == req[t].link
           old == invitations[link]
           new == [old EXCEPT !.redeemed = at[t], !.user = u]
<1>2. /\ TypeOK /\ req[t] \in RegisterRequest /\ at[t] \in Time /\ link \in Links
      /\ email \in Addresses /\ req[t].password \in Passwords /\ Normalized[email] = email
  BY RequestFields, AddressAssumption DEF Redeem, IInv, AtStage, Address
<1>3. account \in User /\ account # NoRow /\ account.email = email
  BY <1>2, NullFacts DEF User
<1>4. old \in Invitation /\ old.redeemed = NoTime /\ old.email = email /\ old.user = NoUser
  BY <1>2 DEF Redeem, MayRedeem, Redeemable, TypeOK, IInv, Tables, Invited
<1>5. /\ new \in Invitation /\ new # NoRow /\ new.redeemed = at[t] /\ new.redeemed # NoTime
      /\ new.user = u /\ new.email = email
  BY <1>2, <1>4, NullFacts DEF Invitation, Time
<1>6. UNCHANGED <<clock, sessions, issued, req, seen, at, live, reaper, sweepAt, submitted>>
  BY DEF Redeem, sweeps
<1>7. \A v \in UserIds : users'[v] = IF v = u THEN account ELSE users[v]
  BY <1>1, <1>2 DEF Redeems, TypeOK
<1>8. \A l \in Links : invitations'[l] = IF l = link THEN new ELSE invitations[l]
  BY <1>1, <1>2 DEF Redeems, TypeOK
<1> HIDE DEF email, account, link, old, new
<1>9. TypeOK'
  <2>1. users' \in [UserIds -> User \cup {NoRow}]
    BY <1>1, <1>2, <1>3, <1>7 DEF Redeems, TypeOK
  <2>2. invitations' \in [Links -> Invitation \cup {NoRow}]
    BY <1>1, <1>2, <1>5, <1>8 DEF Redeems, TypeOK
  <2>3. who' \in [Threads -> UserIds \cup {NoUser}] /\ pc' \in [Threads -> PCs]
    BY <1>1, <1>2 DEF Redeems, Redeem, TypeOK, PCs
  <2> QED
    BY <1>2, <1>6, <2>1, <2>2, <2>3 DEF TypeOK
<1>10. Onward
  <2>1. \A v \in UserIds : users[v] # NoRow => users'[v] = users[v]
    BY <1>1, <1>7 DEF Redeems, Used
  <2> QED
    BY <1>2, <1>6, <2>1 DEF Onward, TypeOK, Time
<1>11. Dense'
  <2>1. PICK n \in Nat : Used = 1 .. n
    BY DEF IInv, Tables, Dense
  <2>2. u = n + 1
    <3>1. Cardinality(1 .. n) = n
      BY <2>1, FS_Interval
    <3> QED
      BY <1>1, <2>1, <3>1 DEF Redeems
  <2>3. Used' = 1 .. (n + 1)
    BY <1>1, <2>1, <2>2 DEF Redeems
  <2> QED
    BY <2>3 DEF Dense
<1>12. Normal' /\ OnePerAddress'
  <2>1. \A v \in Used : Normalized[users[v].email] = users[v].email /\ users[v].email # email
    BY DEF Redeem, Taken, Used, IInv, Tables, Normal, email
  <2>2. \A v \in UserIds : users'[v] # NoRow => v = u \/ v \in Used
    BY <1>7 DEF Used
  <2>3. Normal'
    BY <1>1, <1>2, <1>3, <1>7, <2>1 DEF Redeems, Normal
  <2>4. ASSUME NEW v \in UserIds, NEW w \in UserIds, users'[v] # NoRow, users'[w] # NoRow,
               Normalized[users'[v].email] = Normalized[users'[w].email]
        PROVE  v = w
    <3>1. CASE v = u /\ w # u
      BY <1>2, <1>3, <1>7, <2>1, <2>2, <2>4, <3>1
    <3>2. CASE v # u /\ w = u
      BY <1>2, <1>3, <1>7, <2>1, <2>2, <2>4, <3>2
    <3>3. CASE v # u /\ w # u
      BY <1>7, <2>4, <3>3, Parts DEF IInv, Tables, OnePerAddress
    <3> QED
      BY <3>1, <3>2, <3>3
  <2> QED
    BY <2>3, <2>4 DEF OnePerAddress
<1>13. Invited'
  BY <1>2, <1>4, <1>5, <1>6, <1>8, NullFacts DEF IInv, Tables, Invited, old
<1>14. \A l \in Links \ {link} : invitations[l] # NoRow => invitations[l].user # u
  <2>1. ASSUME NEW l \in Links, invitations[l] # NoRow, invitations[l].redeemed # NoTime
        PROVE  invitations[l].user # u
    <3>1. Accounted(l) /\ invitations[l] \in Invitation
      BY <1>2, <2>1, Parts DEF IInv, Tables, TypeOK
    <3> QED
      BY <1>1, <2>1, <3>1 DEF Accounted, Redeems, Used
  <2>2. ASSUME NEW l \in Links, invitations[l] # NoRow, invitations[l].redeemed = NoTime
        PROVE  invitations[l].user # u
    BY <2>2, NullFacts DEF IInv, Tables, Invited
  <2> QED
    BY <2>1, <2>2
<1>15. ASSUME NEW l \in Links PROVE Accounted(l)'
  <2>1. CASE l = link
    BY <1>3, <1>5, <1>7, <1>8, <1>14, <2>1, NullFacts DEF Accounted
  <2>2. CASE l # link
    <3>1. SUFFICES ASSUME invitations[l] # NoRow, invitations[l].redeemed # NoTime
                   PROVE  Accounted(l)'
      BY <1>8, <2>2 DEF Accounted
    <3>2. Accounted(l) /\ invitations[l].user \in UserIds
      BY <1>2, <3>1, Parts DEF IInv, Tables, TypeOK, Accounted, Invitation
    <3>3. users'[invitations[l].user] = users[invitations[l].user]
      BY <1>7, <1>14, <2>2, <3>1, <3>2
    <3> QED
      BY <1>5, <1>8, <1>14, <2>2, <3>1, <3>2, <3>3 DEF Accounted
  <2> QED
    BY <2>1, <2>2
<1>16. Owned'
  BY <1>2, <1>6, <1>10, SessionFields, Parts DEF IInv, Tables, Owned, Onward, TypeOK
<1>17. Tables'
  BY <1>11, <1>12, <1>13, <1>15, <1>16, Parts DEF Tables
<1>18. SweepsThePast'
  BY <1>6 DEF IInv, SweepsThePast
<1>19. AtStage(t)' /\ Judged(t)'
  <2>1. pc'[t] = "start" /\ who'[t] = u
    BY <1>1, <1>2 DEF Redeem, Redeems, TypeOK
  <2> QED
    BY <1>1, <2>1 DEF AtStage, Judged, Redeems
<1>20. \A v \in Threads \ {t} : Same(v)
  BY <1>1, <1>2, <1>6 DEF Redeem, Redeems, Same, TypeOK
<1> QED
  BY <1>9, <1>10, <1>17, <1>18, <1>19, <1>20, SharedStep

\* The part of the invariant that survives every step.
LEMMA IInvStep ==
    ASSUME IInv, [Next]_vars
    PROVE  IInv'
<1>1. CASE UNCHANGED vars
  <2>1. UNCHANGED <<clock, users, invitations, sessions, issued, pc, req, seen, at, who, live, reaper, sweepAt, submitted>>
    BY <1>1 DEF vars, tables, request, sweeps
  <2> QED
    BY <2>1 DEF IInv, TypeOK, Tables, Dense, Used, Normal, Invited, AccountsConsistent, SweepsThePast,
                AtStage, Judged, StillThere
<1>2. CASE Tick
  BY <1>2, TickKeeps
<1>3. ASSUME NEW l \in Links, NEW a \in Addresses, Invite(l, a) PROVE IInv'
  BY <1>3, InviteKeeps
<1>4. ASSUME NEW t \in Threads, NEW r \in Request, Submit(t, r) PROVE IInv'
  BY <1>4, SubmitKeeps
<1>5. ASSUME NEW t \in Threads, Step(t) PROVE IInv'
  <2>1. CASE LookUp(t) \/ Judge(t) \/ Redeem(t)
    BY <2>1, LookUpKeeps, JudgeKeeps, RedeemKeeps
  <2>2. CASE Authenticate(t) \/ Start(t) \/ \E c \in Cookies : CreateSession(t, c)
    BY <2>2, AuthenticateKeeps, StartKeeps, CreateSessionKeeps
  <2>3. CASE ReadSession(t) \/ Admit(t) \/ Expire(t)
    BY <2>3, ReadSessionKeeps, AdmitKeeps, ExpireKeeps
  <2>4. CASE FindUser(t) \/ LoseUser(t)
    BY <2>4, AccountStepKeeps
  <2>5. CASE Serve(t) \/ Fail(t)
    BY <2>5, AnswerKeeps DEF Serve, Fail
  <2>6. CASE End(t)
    BY <2>6, EndKeeps
  <2> QED
    BY <1>5, <2>1, <2>2, <2>3, <2>4, <2>5, <2>6 DEF Step
<1>6. CASE Reap
  BY <1>6, ReapKeeps
<1>7. CASE Crash
  BY <1>7, CrashKeeps
<1> QED
  BY <1>1, <1>2, <1>3, <1>4, <1>5, <1>6, <1>7 DEF Next

----------------------------------------------------------------------------
\* The inductive invariant holds in every reachable state, whatever is invited,
\* submitted, swept or interrupted, and in which order.
THEOREM IInvHolds == Spec => []IInv
<1>1. Init => IInv
  BY IInvInit
<1>2. IInv /\ [Next]_vars => IInv'
  BY IInvStep
<1> QED
  BY <1>1, <1>2, PTL DEF Spec

\* Every variable of the accounts keeps its type.
THEOREM TypeCorrect == Spec => []TypeOK
<1>1. IInv => TypeOK
  BY DEF IInv
<1> QED
  BY <1>1, IInvHolds, PTL

\* Users, invitations and login sessions agree in every reachable state: one account
\* per address however it is typed, a spent invitation names the one account it made,
\* and a session names an account (Invitations.Redeem, CreateSession, the sweeps).
THEOREM TablesAgree == Spec => []AccountsConsistent
<1>1. IInv => AccountsConsistent
  BY DEF IInv, Tables
<1> QED
  BY <1>1, IInvHolds, PTL

\* requireUser lets a request through only if its session was live when the request
\* arrived, with any number of goroutines, logouts and sweeps between its steps.
THEOREM OnlyLive == Spec => []OnlyLiveServed
<1>1. IInv => OnlyLiveServed
  BY DEF IInv, Judged, OnlyLiveServed
<1> QED
  BY <1>1, IInvHolds, PTL

----------------------------------------------------------------------------
\* A step that makes no account writes to no invitation that stays.
LEMMA WritesNoAccount ==
    ASSUME IInv, [Next]_vars, \A t \in Threads : ~Redeem(t)
    PROVE  /\ UNCHANGED users
           /\ \A l \in Links : invitations[l] = NoRow \/ invitations'[l] = NoRow \/ invitations'[l] = invitations[l]
<1>1. CASE UNCHANGED vars \/ Tick \/ Crash \/ \E t \in Threads, r \in Request : Submit(t, r)
  BY <1>1 DEF vars, tables, Tick, Crash, Submit
<1>2. ASSUME NEW l \in Links, NEW a \in Addresses, Invite(l, a)
      PROVE  /\ UNCHANGED users /\ invitations[l] = NoRow
             /\ \A m \in Links \ {l} : invitations'[m] = invitations[m]
  BY <1>2 DEF Invite, IInv, Tables, Invited, TypeOK
<1>3. ASSUME NEW t \in Threads, Step(t) PROVE UNCHANGED <<users, invitations>>
  BY <1>3 DEF Step, LookUp, Judge, Authenticate, Start, CreateSession, ReadSession, Admit, Expire, FindUser, LoseUser,
              Serve, End, Fail, tables
<1>4. CASE Reap
  <2>1. CASE SweepInvitations
    BY <2>1 DEF SweepInvitations
  <2>2. CASE ~SweepInvitations
    BY <1>4, <2>2 DEF Reap, Wake, SweepSessions, SweepSessionsFails, SweepInvitationsFails, tables
  <2> QED
    BY <2>1, <2>2
<1> QED
  BY <1>1, <1>2, <1>3, <1>4 DEF Next

\* Accounts and spent invitations are made in pairs, in one transaction
\* (Invitations.Redeem): an account comes with exactly one invitation, which was
\* stored, unspent and for its address, and names it; and no invitation is spent on nothing.
THEOREM OneAccountPerInvitation == Spec => AccountPerInvitation
<1> DEFINE made == {u \in UserIds : users'[u] # users[u]}
           spent == {l \in Links : invitations[l] # NoRow /\ invitations'[l] # NoRow
                                        /\ invitations'[l] # invitations[l]}
           A == /\ Cardinality(made) = Cardinality(spent)
                /\ \A u \in made : \E l \in spent :
                        /\ users[u] = NoRow
                        /\ invitations[l].redeemed = NoTime
                        /\ invitations[l].email = users'[u].email
                        /\ invitations'[l].user = u
<1>1. IInv /\ [Next]_vars => A
  <2> SUFFICES ASSUME IInv, [Next]_vars PROVE A
    OBVIOUS
  <2>1. CASE \A t \in Threads : ~Redeem(t)
    <3>1. made = {} /\ spent = {}
      BY <2>1, WritesNoAccount
    <3> QED
      BY <3>1
  <2>2. ASSUME NEW t \in Threads, Redeem(t) PROVE A
    <3>1. PICK u \in UserIds : Redeems(t, u)
      BY <2>2, RedeemWrites
    <3> DEFINE link == req[t].link
    <3>2. /\ link \in Links /\ at[t] \in Time
          /\ invitations[link] # NoRow /\ invitations[link] \in Invitation
          /\ invitations[link].redeemed = NoTime
      BY <2>2, RequestFields DEF Redeem, MayRedeem, Redeemable, IInv, AtStage, TypeOK
    <3>3. /\ invitations'[link] \in Invitation /\ invitations'[link].redeemed = at[t]
          /\ invitations'[link].user = u
      BY <3>1, <3>2 DEF Redeems, Invitation, IInv, TypeOK
    <3>4. invitations'[link] # NoRow /\ invitations'[link] # invitations[link]
      BY <3>2, <3>3, NullFacts DEF Time
    <3>5. spent = {link}
      BY <3>1, <3>2, <3>4 DEF Redeems, IInv, TypeOK
    <3>6. users[u] = NoRow /\ users'[u] # NoRow
      BY <3>1 DEF Redeems, Used
    <3>7. made = {u}
      BY <3>1, <3>6 DEF Redeems, IInv, TypeOK
    <3>8. Cardinality(made) = Cardinality(spent)
      BY <3>5, <3>7, FS_Singleton
    <3>9. invitations[link].email = users'[u].email
      BY <2>2, <3>1 DEF Redeem, MayRedeem, Redeems, IInv, TypeOK
    <3> QED
      BY <3>2, <3>3, <3>5, <3>6, <3>7, <3>8, <3>9
  <2> QED
    BY <2>1, <2>2
<1> QED
  BY <1>1, IInvHolds, PTL DEF Spec, AccountPerInvitation

\* The session of a step that deletes one.
LEMMA SessionsEnd ==
    ASSUME IInv, [Next]_vars, NEW c \in Cookies, sessions[c] # NoRow, sessions'[c] = NoRow
    PROVE  SweepSessions \/ \E t \in Threads : End(t) /\ c = req[t].cookie
<1>1. CASE UNCHANGED sessions
  BY <1>1
<1>2. ASSUME NEW t \in Threads, NEW d \in Cookies, CreateSession(t, d) PROVE FALSE
  <2>1. [user |-> who[t], expires |-> at[t] + SessionTTL] \in Session
    BY <1>2, TimeAssumption DEF CreateSession, IInv, AtStage, Session, Used, TypeOK, Time
  <2> QED
    BY <1>2, <2>1, NullFacts DEF CreateSession, IInv, TypeOK
<1>3. ASSUME NEW t \in Threads, End(t) PROVE c = req[t].cookie
  BY <1>3 DEF End, IInv, TypeOK
<1>4. ASSUME NEW t \in Threads, Step(t) PROVE UNCHANGED sessions \/ End(t) \/ \E d \in Cookies : CreateSession(t, d)
  BY <1>4 DEF Step, LookUp, Judge, Redeem, Authenticate, Start, ReadSession, Admit, Expire, FindUser, LoseUser,
              Serve, Fail, tables
<1>5. Reap => UNCHANGED sessions \/ SweepSessions
  BY DEF Reap, Wake, SweepSessionsFails, SweepInvitations, SweepInvitationsFails, tables
<1>6. UNCHANGED vars \/ Tick \/ Crash \/ (\E t \in Threads, r \in Request : Submit(t, r))
        \/ (\E l \in Links, a \in Addresses : Invite(l, a)) => UNCHANGED sessions
  BY DEF vars, tables, Tick, Crash, Submit, Invite
<1> QED
  BY <1>1, <1>2, <1>3, <1>4, <1>5, <1>6 DEF Next

\* An unexpired session ends by a request with its own cookie, a logout or a visit
\* whose account lookup failed: no sweep of the reaper, no reading that has gone stale
\* and no other client's request ends it (DeleteSession, DeleteExpiredSessions, UserID).
THEOREM NobodyElse == Spec => NobodyElseLogsOut
<1>1. IInv /\ [Next]_vars =>
        \A c \in Cookies : sessions[c] # NoRow /\ clock < sessions[c].expires /\ sessions'[c] = NoRow =>
            \E t \in Threads : LogsOut(t, c) \/ LostUser(t, c)
  <2> SUFFICES ASSUME IInv, [Next]_vars, NEW c \in Cookies,
                      sessions[c] # NoRow, clock < sessions[c].expires, sessions'[c] = NoRow
               PROVE  \E t \in Threads : LogsOut(t, c) \/ LostUser(t, c)
    OBVIOUS
  <2>1. sessions[c] \in Session /\ sessions[c].expires \in Nat /\ clock \in Nat
    BY SessionFields DEF IInv, TypeOK, Time
  <2>2. ~SweepSessions
    <3>1. SUFFICES ASSUME SweepSessions PROVE FALSE
      OBVIOUS
    <3>2. sessions[c].expires < sweepAt
      BY <3>1 DEF SweepSessions, Swept
    <3>3. sweepAt \in Nat /\ sweepAt <= clock
      BY <3>1 DEF SweepSessions, IInv, SweepsThePast, Time
    <3> QED
      BY <2>1, <3>2, <3>3
  <2>3. PICK t \in Threads : End(t) /\ c = req[t].cookie
    BY <2>2, SessionsEnd
  <2>4. pc[t] = "end" /\ req[t] \in CookieRequest /\ Judged(t)
    BY <2>3 DEF End, IInv, AtStage
  <2>5. CASE req[t].op = "logout"
    <3>1. req[t] = [op |-> "logout", cookie |-> c]
      BY <2>3, <2>4, <2>5 DEF CookieRequest
    <3> QED
      BY <2>4, <3>1 DEF LogsOut
  <2>6. CASE req[t].op = "visit"
    <3>1. req[t] = [op |-> "visit", cookie |-> c]
      BY <2>3, <2>4, <2>6 DEF CookieRequest
    <3>2. who[t] # NoUser
      <4>1. SUFFICES ASSUME who[t] = NoUser PROVE FALSE
        OBVIOUS
      <4>2. StillThere(t) /\ seen[t].expires <= clock
        BY <2>4, <2>6, <4>1 DEF Judged
      <4>3. seen[t] = sessions[c]
        BY <2>3, <4>2 DEF StillThere
      <4> QED
        BY <2>1, <4>2, <4>3
    <3> QED
      BY <2>4, <3>1, <3>2 DEF LostUser
  <2> QED
    BY <2>4, <2>5, <2>6, RequestFields
<1> QED
  BY <1>1, IInvHolds, PTL DEF Spec, NobodyElseLogsOut
=============================================================================
