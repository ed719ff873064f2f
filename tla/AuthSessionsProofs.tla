------------------------- MODULE AuthSessionsProofs -------------------------
(***************************************************************************)
(* Proofs about AuthSessions, for every set of clients, tokens, passwords  *)
(* and bootstrap lists and every session lifetime.                         *)
(***************************************************************************)
EXTENDS AuthSessions, TLAPS

-----------------------------------------------------------------------------
(***************************************************************************)
(* The inductive invariant.  The three properties need one another's       *)
(* ground: the file covers what was promised, a running process covers the *)
(* file, and every stored session belongs to a stored account.             *)
(***************************************************************************)
\* Every session of a is in b, for the same user and expiry, and a revoked
\* one is revoked.
Covers(b, a) ==
  \A t \in DOMAIN a :
    /\ t \in DOMAIN b
    /\ b[t].user = a[t].user /\ b[t].expires = a[t].expires
    /\ a[t].revoked = TRUE => b[t].revoked = TRUE

MemoryCoversFile == up /\ disk # NoFile => Covers(sessions, disk.sessions)

\* Token t is in the file for this user and this expiry.
Filed(t, user, expires) ==
  /\ disk # NoFile /\ t \in DOMAIN disk.sessions
  /\ disk.sessions[t].user = user /\ disk.sessions[t].expires = expires

FiledRevoked(t) == disk # NoFile /\ t \in DOMAIN disk.sessions /\ disk.sessions[t].revoked = TRUE

Promised == \A t \in DOMAIN promise : Filed(t, promise[t].user, promise[t].expires)
Revoked  == \A t \in loggedOut : FiledRevoked(t)

\* What the open requests rely on: a request between persist and its answer
\* is in the file, one between two steps acts for an account of the store.
Relies(c) ==
  /\ req[c].op = "token"   => Filed(req[c].token, req[c].user, req[c].expires)
  /\ req[c].op = "revoked" => FiledRevoked(req[c].token)
  /\ req[c].op = "login"   => \E u \in users : u.id = req[c].user
  /\ req[c].op \in {"admitted", "serving"} /\ req[c].user # Nobody =>
       \E u \in users : u.id = req[c].user /\ u.role = req[c].role
  /\ req[c].op = "serving" /\ req[c].route \in Guarded =>
       req[c].user # Nobody /\ req[c].role \in rolesOf(req[c].route)

Requests == \A c \in Clients : (~ up => req[c] = Idle) /\ Relies(c)

\* Every session belongs to one of these accounts.
Owned(ss, us) == \A t \in DOMAIN ss : \E u \in us : u.id = ss[t].user

Owners ==
  /\ up => Owned(sessions, users)
  /\ disk # NoFile => Owned(disk.sessions, disk.users)

Inv == TypeOK /\ MemoryCoversFile /\ Promised /\ Revoked /\ Requests /\ Owners

-----------------------------------------------------------------------------
(***************************************************************************)
(* Facts about the operators the actions are built from.                   *)
(***************************************************************************)
\* A map of tokens is a function from some tokens.
LEMMA TokenMaps ==
  ASSUME NEW S
  PROVE  /\ \A f \in TokenMap(S) : DOMAIN f \subseteq Tokens /\ f \in [DOMAIN f -> S]
         /\ \A T \in SUBSET Tokens : \A f \in [T -> S] : f \in TokenMap(S)
BY DEF TokenMap

LEMMA EmptyMap ==
  ASSUME NEW S
  PROVE  <<>> \in TokenMap(S) /\ DOMAIN <<>> = {}
<1>1. <<>> \in [{} -> S] /\ DOMAIN <<>> = {}
  OBVIOUS
<1> QED BY <1>1, TokenMaps

\* Put adds one entry to a map of tokens.
LEMMA PutEntry ==
  ASSUME NEW S, NEW f \in TokenMap(S), NEW t \in Tokens, NEW v \in S
  PROVE  /\ Put(f, t, v) \in TokenMap(S)
         /\ DOMAIN Put(f, t, v) = DOMAIN f \cup {t}
         /\ Put(f, t, v)[t] = v
         /\ \A x \in DOMAIN f : x # t => Put(f, t, v)[x] = f[x]
<1>1. DOMAIN f \subseteq Tokens /\ \A x \in DOMAIN f : f[x] \in S
  BY TokenMaps
<1>2. Put(f, t, v) \in [DOMAIN f \cup {t} -> S]
  BY <1>1 DEF Put
<1>3. Put(f, t, v) \in TokenMap(S)
  BY <1>1, <1>2, TokenMaps
<1> QED BY <1>3 DEF Put

\* What persist writes is a file with these sessions, whose accounts have the
\* ids of the accounts in memory.
LEMMA EncodedFile ==
  ASSUME NEW us \in SUBSET User, NEW ss \in TokenMap(Session)
  PROVE  /\ Encoded(us, ss) \in File
         /\ Encoded(us, ss) # NoFile
         /\ Encoded(us, ss).sessions = ss
         /\ Owned(ss, us) => Owned(ss, Encoded(us, ss).users)
<1> DEFINE blank(u) == [u EXCEPT !.hash = NoHash]
<1>1. \A u \in us : blank(u) \in User /\ blank(u).id = u.id
  BY DEF User
<1>2. /\ Encoded(us, ss).users = {blank(u) : u \in us}
      /\ Encoded(us, ss).sessions = ss
      /\ Encoded(us, ss) = [users |-> {blank(u) : u \in us}, sessions |-> ss]
  BY DEF Encoded
<1> HIDE DEF blank
<1>3. {blank(u) : u \in us} \in SUBSET User
  BY <1>1
<1>4. Encoded(us, ss) \in File
  BY <1>2, <1>3 DEF File
<1>5. Owned(ss, us) => Owned(ss, Encoded(us, ss).users)
  BY <1>1, <1>2 DEF Owned
<1> QED BY <1>2, <1>4, <1>5, NoFileAssumption

LEMMA CoversItself ==
  ASSUME NEW ss
  PROVE  Covers(ss, ss)
BY DEF Covers

LEMMA CoversTransitive ==
  ASSUME NEW a, NEW b, NEW c, Covers(b, a), Covers(c, b)
  PROVE  Covers(c, a)
BY DEF Covers

\* An idle request relies on nothing.
LEMMA IdleRelies ==
  ASSUME NEW c \in Clients, req[c] = Idle
  PROVE  Relies(c)
BY DEF Relies, Idle

LEMMA IdleIsRequest == Idle \in Request /\ Idle.op = "idle"
BY DEF Request, Idle

\* The requests by their stage.
LEMMA RequestStages ==
  ASSUME NEW r \in Request
  PROVE  /\ r.op = "login" => r.user \in Ids /\ r.expires \in 0 .. MaxTime + SessionTTL
         /\ r.op = "token" => /\ r.token \in Tokens /\ r.user \in Ids
                              /\ r.expires \in 0 .. MaxTime + SessionTTL
         /\ r.op = "revoked" => r.token \in Tokens
         /\ r.op = "admitted" => r \in [op : {"admitted", "serving"}, route : Routes,
                                       user : Ids \cup {Nobody}, role : Role \cup {Nobody},
                                       token : Tokens \cup {Nobody}]
BY DEF Request, Idle

-----------------------------------------------------------------------------
(***************************************************************************)
(* The two kinds of step of a client: one that touches nothing but its     *)
(* request and the history, and one that changes the sessions and writes   *)
(* the file or fails to.                                                   *)
(***************************************************************************)
LEMMA RequestStep ==
  ASSUME Inv, up = TRUE, NEW c \in Clients, NEW r \in Request,
         req' = [req EXCEPT ![c] = r],
         UNCHANGED <<up, required, users, sessions, disk, now>>,
         promise' \in TokenMap([user : Ids, expires : 0 .. MaxTime + SessionTTL]),
         loggedOut' \subseteq Tokens,
         Promised', Revoked', Relies(c)'
  PROVE  Inv'
<1>1. TypeOK'
  BY DEF Inv, TypeOK
<1>2. MemoryCoversFile' /\ Owners'
  BY DEF Inv, MemoryCoversFile, Owners
<1>3. Requests'
  <2>1. ASSUME NEW d \in Clients, d # c PROVE Relies(d)'
    <3>1. req'[d] = req[d] /\ Relies(d)
      BY <2>1 DEF Inv, TypeOK, Requests
    <3> QED BY <3>1 DEF Relies, Filed, FiledRevoked
  <2> QED BY <2>1 DEF Requests
<1> QED BY <1>1, <1>2, <1>3 DEF Inv

\* The same when the history stays.
LEMMA OnlyRequest ==
  ASSUME Inv, up = TRUE, NEW c \in Clients, NEW r \in Request,
         req' = [req EXCEPT ![c] = r],
         UNCHANGED <<up, required, users, sessions, disk, now, promise, loggedOut>>,
         Relies(c)'
  PROVE  Inv'
<1>1. Promised' /\ Revoked'
  BY DEF Inv, Promised, Revoked, Filed, FiledRevoked
<1>2. /\ promise' \in TokenMap([user : Ids, expires : 0 .. MaxTime + SessionTTL])
      /\ loggedOut' \subseteq Tokens
  BY DEF Inv, TypeOK
<1> QED BY <1>1, <1>2, RequestStep

\* When a rewrite fails nothing on disk changes; when it succeeds the new
\* file covers the old one, because the memory does.
LEMMA PersistCovers ==
  ASSUME Inv, up = TRUE, NEW ok \in BOOLEAN, persist(users, sessions', ok), UNCHANGED users,
         sessions' \in TokenMap(Session), Covers(sessions', sessions), Owned(sessions', users)
  PROVE  /\ disk' = NoFile \/ disk' \in File
         /\ disk # NoFile => disk' # NoFile /\ Covers(disk'.sessions, disk.sessions)
         /\ disk' # NoFile => /\ Covers(sessions', disk'.sessions)
                              /\ Owned(disk'.sessions, disk'.users)
         /\ ok => disk' # NoFile /\ disk'.sessions = sessions'
<1>1. CASE ok
  <2>1. disk' = Encoded(users, sessions') /\ users \in SUBSET User
    BY <1>1 DEF persist, Inv, TypeOK
  <2>2. /\ disk' \in File /\ disk' # NoFile /\ disk'.sessions = sessions'
        /\ Owned(disk'.sessions, disk'.users)
    BY <2>1, EncodedFile
  <2>3. disk # NoFile => Covers(disk'.sessions, disk.sessions)
    BY <2>2, CoversTransitive DEF Inv, MemoryCoversFile
  <2> QED BY <2>2, <2>3, CoversItself
<1>2. CASE ~ ok
  <2>1. disk' = disk
    BY <1>2 DEF persist
  <2>2. disk # NoFile => Covers(sessions', disk.sessions)
    BY CoversTransitive DEF Inv, MemoryCoversFile
  <2> QED BY <1>2, <2>1, <2>2, CoversItself DEF Inv, TypeOK, Owners
<1> QED BY <1>1, <1>2

LEMMA WriteStep ==
  ASSUME Inv, up = TRUE, NEW c \in Clients, NEW r \in Request, NEW ok \in BOOLEAN,
         req' = [req EXCEPT ![c] = r], persist(users, sessions', ok),
         UNCHANGED <<up, required, users, now, promise, loggedOut>>,
         sessions' \in TokenMap(Session), Covers(sessions', sessions), Owned(sessions', users),
         Relies(c)'
  PROVE  Inv'
<1>1. /\ disk' = NoFile \/ disk' \in File
      /\ disk # NoFile => disk' # NoFile /\ Covers(disk'.sessions, disk.sessions)
      /\ disk' # NoFile => Covers(sessions', disk'.sessions) /\ Owned(disk'.sessions, disk'.users)
  BY PersistCovers
<1>2. TypeOK'
  BY <1>1 DEF Inv, TypeOK
<1>3. MemoryCoversFile'
  BY <1>1 DEF MemoryCoversFile
<1>4. Owners'
  BY <1>1 DEF Owners
<1>5. /\ \A t, user, expires : Filed(t, user, expires) => Filed(t, user, expires)'
      /\ \A t : FiledRevoked(t) => FiledRevoked(t)'
  BY <1>1 DEF Filed, FiledRevoked, Covers
<1>6. Promised' /\ Revoked'
  BY <1>5 DEF Inv, Promised, Revoked
<1>7. Requests'
  <2>1. ASSUME NEW d \in Clients, d # c PROVE Relies(d)'
    <3>1. req'[d] = req[d] /\ Relies(d)
      BY <2>1 DEF Inv, TypeOK, Requests
    <3> QED BY <3>1, <1>5 DEF Relies
  <2> QED BY <2>1 DEF Requests
<1> QED BY <1>2, <1>3, <1>4, <1>6, <1>7 DEF Inv

-----------------------------------------------------------------------------
(***************************************************************************)
(* The actions.                                                            *)
(***************************************************************************)
\* Open provisions users of a valid bootstrap list.
LEMMA ProvisionedUsers ==
  ASSUME NEW b \in Bootstraps, ValidBootstrap(b)
  PROVE  Provisioned(b) \in SUBSET User
<1>1. ASSUME NEW i \in DOMAIN b
      PROVE  [id |-> b[i].id, name |-> b[i].name, hash |-> b[i].password, role |-> b[i].role]
               \in User
  <2>1. b[i].id \in Ids /\ b[i].name \in SeedNames
    BY DEF Ids, SeedNames
  <2>2. b[i].password \in LongPasswords /\ b[i].role \in Role
    BY DEF ValidBootstrap, validRole
  <2> QED BY <2>1, <2>2 DEF User
<1> QED BY <1>1 DEF Provisioned

\* A start loads the file as it is.  Bootstrap users replace only an empty
\* account list, and a file without accounts has no sessions either.
LEMMA OpenStep ==
  ASSUME Inv, Open
  PROVE  Inv'
<1> DEFINE loaded == IF disk = NoFile THEN {} ELSE disk.users
           stored == IF disk = NoFile THEN <<>> ELSE disk.sessions
<1>1. PICK b \in Bootstraps, r \in BOOLEAN :
        /\ loaded = {} /\ b # <<>> => ValidBootstrap(b)
        /\ users' = IF loaded = {} /\ b # <<>> THEN Provisioned(b) ELSE loaded
        /\ sessions' = stored
        /\ persist(users', sessions', loaded = {} /\ b # <<>>)
        /\ required' = r
  BY DEF Open
<1>2. up = FALSE /\ up' = TRUE /\ UNCHANGED <<now, req, promise, loggedOut>>
  BY DEF Open, Inv, TypeOK
<1>3. stored \in TokenMap(Session) /\ loaded \in SUBSET User /\ Owned(stored, loaded)
  <2>1. CASE disk = NoFile
    BY <2>1, EmptyMap DEF Owned
  <2>2. CASE disk # NoFile
    BY <2>2 DEF Inv, TypeOK, File, Owners
  <2> QED BY <2>1, <2>2
<1>4. users' \in SUBSET User
  BY <1>1, <1>3, ProvisionedUsers
<1>5. Owned(sessions', users')
  BY <1>1, <1>3 DEF Owned
<1>6. /\ disk' = NoFile \/ disk' \in File
      /\ disk # NoFile => disk' # NoFile /\ disk'.sessions = disk.sessions
      /\ disk' # NoFile => sessions' = disk'.sessions /\ Owned(disk'.sessions, disk'.users)
  <2>1. CASE loaded = {} /\ b # <<>>
    <3>1. disk' = Encoded(users', sessions')
      BY <1>1, <2>1 DEF persist
    <3>2. /\ disk' \in File /\ disk' # NoFile /\ disk'.sessions = sessions'
          /\ Owned(disk'.sessions, disk'.users)
      BY <3>1, <1>1, <1>3, <1>4, <1>5, EncodedFile
    <3> QED BY <1>1, <3>2
  <2>2. CASE ~ (loaded = {} /\ b # <<>>)
    <3>1. disk' = disk
      BY <1>1, <2>2 DEF persist
    <3> QED BY <1>1, <3>1 DEF Inv, TypeOK, Owners
  <2> QED BY <2>1, <2>2
<1>7. TypeOK'
  BY <1>1, <1>2, <1>3, <1>4, <1>6 DEF Inv, TypeOK
<1>8. MemoryCoversFile'
  BY <1>6, CoversItself DEF MemoryCoversFile
<1>9. Promised' /\ Revoked'
  BY <1>2, <1>6 DEF Inv, Promised, Revoked, Filed, FiledRevoked
<1>10. Requests'
  <2>1. ASSUME NEW c \in Clients PROVE req'[c] = Idle
    BY <1>2 DEF Inv, Requests
  <2> QED BY <2>1, <1>2, IdleRelies DEF Requests, Relies, Idle
<1>11. Owners'
  BY <1>5, <1>6 DEF Owners
<1> QED BY <1>7, <1>8, <1>9, <1>10, <1>11 DEF Inv

LEMMA CrashStep ==
  ASSUME Inv, Crash
  PROVE  Inv'
<1>1. /\ up' = FALSE /\ users' = {} /\ sessions' = <<>>
      /\ req' = [c \in Clients |-> Idle]
      /\ UNCHANGED <<required, disk, now, promise, loggedOut>>
  BY DEF Crash
<1>2. TypeOK'
  BY <1>1, EmptyMap, IdleIsRequest DEF Inv, TypeOK
<1>3. MemoryCoversFile' /\ Owners' /\ Promised' /\ Revoked'
  BY <1>1 DEF Inv, MemoryCoversFile, Owners, Promised, Revoked, Filed, FiledRevoked
<1>4. Requests'
  BY <1>1 DEF Requests, Relies, Idle
<1> QED BY <1>2, <1>3, <1>4 DEF Inv

\* Nothing in the invariant looks at the clock.
LEMMA TickStep ==
  ASSUME Inv, Tick
  PROVE  Inv'
<1>1. now' \in 0 .. MaxTime
  BY TTLAssumption DEF Tick, Inv, TypeOK
<1>2. UNCHANGED <<up, required, users, sessions, disk, req, promise, loggedOut>>
  BY DEF Tick
<1>3. TypeOK'
  BY <1>1, <1>2 DEF Inv, TypeOK
<1> QED BY <1>2, <1>3 DEF Inv, MemoryCoversFile, Promised, Revoked, Requests, Owners,
             Relies, Filed, FiledRevoked

LEMMA AuthenticateStep ==
  ASSUME Inv, NEW c \in Clients, Authenticate(c)
  PROVE  Inv'
<1>1. PICK u \in users :
        req' = [req EXCEPT ![c] = [op |-> "login", user |-> u.id, expires |-> now + SessionTTL]]
  BY DEF Authenticate, Authenticated
<1> DEFINE r == [op |-> "login", user |-> u.id, expires |-> now + SessionTTL]
<1>2. u.id \in Ids /\ now + SessionTTL \in 0 .. MaxTime + SessionTTL
  BY TTLAssumption DEF Inv, TypeOK, User
<1>3. r \in Request
  BY <1>2 DEF Request
<1>4. up = TRUE /\ UNCHANGED <<up, required, users, sessions, disk, now, promise, loggedOut>>
  BY DEF Authenticate, Inv, TypeOK
<1>5. req'[c] = r
  BY <1>1 DEF Inv, TypeOK
<1>6. Relies(c)'
  BY <1>4, <1>5 DEF Relies
<1> QED BY <1>1, <1>3, <1>4, <1>6, OnlyRequest

\* A new session never displaces one: its token is in no session.
LEMMA LoginStep ==
  ASSUME Inv, NEW c \in Clients, Login(c)
  PROVE  Inv'
<1>1. PICK t \in newToken, ok \in BOOLEAN :
        /\ sessions' = Put(sessions, t, [user |-> req[c].user, expires |-> req[c].expires,
                                         revoked |-> FALSE])
        /\ persist(users, sessions', ok)
        /\ req' = [req EXCEPT ![c] = IF ok THEN [op |-> "token", token |-> t,
                                                 user |-> req[c].user, expires |-> req[c].expires]
                                     ELSE Idle]
  BY DEF Login
<1> DEFINE new == [user |-> req[c].user, expires |-> req[c].expires, revoked |-> FALSE]
           r == IF ok THEN [op |-> "token", token |-> t,
                            user |-> req[c].user, expires |-> req[c].expires]
                ELSE Idle
<1>2. /\ up = TRUE /\ req[c].op = "login"
      /\ UNCHANGED <<up, required, users, now, promise, loggedOut>>
  BY DEF Login, Inv, TypeOK
<1>3. /\ req[c] \in Request /\ req[c].user \in Ids
      /\ req[c].expires \in 0 .. MaxTime + SessionTTL
      /\ \E u \in users : u.id = req[c].user
  <2>1. req[c] \in Request
    BY DEF Inv, TypeOK
  <2>2. \E u \in users : u.id = req[c].user
    BY <1>2 DEF Inv, Requests, Relies
  <2> QED BY <1>2, <2>1, <2>2, RequestStages
<1>4. new \in Session /\ new.user = req[c].user /\ new.expires = req[c].expires
  BY <1>3 DEF Session
<1>5. t \in Tokens /\ t \notin DOMAIN sessions /\ sessions' = Put(sessions, t, new)
  BY <1>1 DEF newToken
<1>6. r \in Request /\ (ok => r = [op |-> "token", token |-> t, user |-> req[c].user,
                                   expires |-> req[c].expires])
  BY <1>3, <1>5, IdleIsRequest DEF Request
<1> HIDE DEF new
<1>7. /\ sessions' \in TokenMap(Session)
      /\ DOMAIN sessions' = DOMAIN sessions \cup {t}
      /\ sessions'[t] = new
      /\ \A x \in DOMAIN sessions : sessions'[x] = sessions[x]
  <2>1. sessions \in TokenMap(Session)
    BY DEF Inv, TypeOK
  <2> QED BY <1>4, <1>5, <2>1, PutEntry
<1>8. Covers(sessions', sessions)
  BY <1>7 DEF Covers
<1>9. Owned(sessions', users)
  BY <1>2, <1>3, <1>4, <1>7 DEF Owned, Inv, Owners
<1>10. req'[c] = r
  BY <1>1 DEF Inv, TypeOK
<1>11. Relies(c)'
  <2>1. CASE ok
    <3>1. disk' # NoFile /\ disk'.sessions = sessions'
      BY <1>1, <1>2, <1>7, <1>8, <1>9, <2>1, PersistCovers
    <3>2. req'[c].op = "token" /\ req'[c].token = t /\ req'[c].user = req[c].user
          /\ req'[c].expires = req[c].expires
      BY <1>6, <1>10, <2>1
    <3> QED BY <3>1, <3>2, <1>4, <1>7 DEF Relies, Filed
  <2>2. CASE ~ ok
    BY <1>10, <2>2 DEF Relies, Idle
  <2> QED BY <2>1, <2>2
<1> HIDE DEF r
<1>12. req' = [req EXCEPT ![c] = r]
  BY <1>1 DEF r
<1> QED BY <1>1, <1>2, <1>6, <1>7, <1>8, <1>9, <1>11, <1>12, WriteStep

\* Revoking keeps the session, whether or not it can be persisted.
LEMMA LogoutStep ==
  ASSUME Inv, NEW c \in Clients, Logout(c)
  PROVE  Inv'
<1>1. PICK t \in DOMAIN promise \cap DOMAIN sessions, ok \in BOOLEAN :
        /\ sessions' = [sessions EXCEPT ![t].revoked = TRUE]
        /\ persist(users, sessions', ok)
        /\ req' = [req EXCEPT ![c] = IF ok THEN [op |-> "revoked", token |-> t] ELSE Idle]
  BY DEF Logout
<1> DEFINE ended == [sessions[t] EXCEPT !.revoked = TRUE]
           r == IF ok THEN [op |-> "revoked", token |-> t] ELSE Idle
<1>2. up = TRUE /\ UNCHANGED <<up, required, users, now, promise, loggedOut>>
  BY DEF Logout, Inv, TypeOK
<1>3. /\ DOMAIN sessions \subseteq Tokens
      /\ \A x \in DOMAIN sessions : sessions[x] \in Session
  BY TokenMaps DEF Inv, TypeOK
<1>4. /\ ended \in Session /\ ended.revoked = TRUE
      /\ ended.user = sessions[t].user /\ ended.expires = sessions[t].expires
  BY <1>1, <1>3 DEF Session
<1>5. sessions' = [sessions EXCEPT ![t] = ended]
  BY <1>1
<1> HIDE DEF ended
<1>6. /\ DOMAIN sessions' = DOMAIN sessions
      /\ sessions'[t] = ended
      /\ \A x \in DOMAIN sessions : x # t => sessions'[x] = sessions[x]
  BY <1>1, <1>5
<1>7. sessions' \in [DOMAIN sessions -> Session]
  BY <1>3, <1>4, <1>5
<1>8. sessions' \in TokenMap(Session)
  BY <1>3, <1>7, TokenMaps
<1>9. Covers(sessions', sessions)
  BY <1>4, <1>6 DEF Covers
<1>10. Owned(sessions', users)
  BY <1>2, <1>4, <1>6 DEF Owned, Inv, Owners
<1>11. r \in Request /\ req'[c] = r
  BY <1>1, <1>3, IdleIsRequest DEF Inv, TypeOK, Request
<1>12. Relies(c)'
  <2>1. CASE ok
    <3>1. disk' # NoFile /\ disk'.sessions = sessions'
      BY <1>1, <1>2, <1>8, <1>9, <1>10, <2>1, PersistCovers
    <3>2. req'[c].op = "revoked" /\ req'[c].token = t
      BY <1>11, <2>1
    <3> QED BY <3>1, <3>2, <1>1, <1>4, <1>6 DEF Relies, FiledRevoked
  <2>2. CASE ~ ok
    BY <1>11, <2>2 DEF Relies, Idle
  <2> QED BY <2>1, <2>2
<1>13. req' = [req EXCEPT ![c] = r]
  BY <1>1
<1> HIDE DEF r
<1> QED BY <1>1, <1>2, <1>8, <1>9, <1>10, <1>11, <1>12, <1>13, WriteStep

\* The answers record what persist has already put into the file.
LEMMA AnswerLoginStep ==
  ASSUME Inv, NEW c \in Clients, AnswerLogin(c)
  PROVE  Inv'
<1> DEFINE told == [user |-> req[c].user, expires |-> req[c].expires]
           Told == [user : Ids, expires : 0 .. MaxTime + SessionTTL]
<1>1. /\ up = TRUE /\ req[c].op = "token"
      /\ promise' = Put(promise, req[c].token, told)
      /\ req' = [req EXCEPT ![c] = Idle]
      /\ UNCHANGED <<up, required, users, sessions, disk, now, loggedOut>>
  BY DEF AnswerLogin, Inv, TypeOK
<1>2. req[c] \in Request /\ promise \in TokenMap(Told) /\ loggedOut \subseteq Tokens
  BY DEF Inv, TypeOK
<1>3. req[c].token \in Tokens /\ told \in Told
  BY <1>1, <1>2, RequestStages
<1>4. told.user = req[c].user /\ told.expires = req[c].expires
  OBVIOUS
<1> HIDE DEF told, Told
<1>5. /\ promise' \in TokenMap(Told)
      /\ DOMAIN promise' = DOMAIN promise \cup {req[c].token}
      /\ promise'[req[c].token] = told
      /\ \A x \in DOMAIN promise : x # req[c].token => promise'[x] = promise[x]
  <2> DEFINE t == req[c].token
  <2>1. promise' = Put(promise, t, told) /\ t \in Tokens
    BY <1>1, <1>3
  <2> HIDE DEF t
  <2>2. /\ promise' \in TokenMap(Told) /\ DOMAIN promise' = DOMAIN promise \cup {t}
        /\ promise'[t] = told /\ \A x \in DOMAIN promise : x # t => promise'[x] = promise[x]
    BY <1>2, <1>3, <2>1, PutEntry
  <2> QED BY <2>2 DEF t
<1>6. Filed(req[c].token, req[c].user, req[c].expires)
  BY <1>1 DEF Inv, Requests, Relies
<1>7. Promised'
  BY <1>1, <1>4, <1>5, <1>6 DEF Inv, Promised, Filed
<1>8. Revoked'
  BY <1>1 DEF Inv, Revoked, FiledRevoked
<1>9. req'[c] = Idle
  BY <1>1 DEF Inv, TypeOK
<1>10. Relies(c)'
  BY <1>9 DEF Relies, Idle
<1> QED BY <1>1, <1>2, <1>5, <1>7, <1>8, <1>10, IdleIsRequest, RequestStep DEF Told

LEMMA AnswerLogoutStep ==
  ASSUME Inv, NEW c \in Clients, AnswerLogout(c)
  PROVE  Inv'
<1>1. /\ up = TRUE /\ req[c].op = "revoked"
      /\ loggedOut' = loggedOut \cup {req[c].token}
      /\ req' = [req EXCEPT ![c] = Idle]
      /\ UNCHANGED <<up, required, users, sessions, disk, now, promise>>
  BY DEF AnswerLogout, Inv, TypeOK
<1>2. /\ req[c] \in Request /\ loggedOut \subseteq Tokens
      /\ promise' \in TokenMap([user : Ids, expires : 0 .. MaxTime + SessionTTL])
  BY <1>1 DEF Inv, TypeOK
<1>3. req[c].token \in Tokens
  BY <1>1, <1>2, RequestStages
<1>4. FiledRevoked(req[c].token)
  BY <1>1 DEF Inv, Requests, Relies
<1>5. Revoked'
  BY <1>1, <1>4 DEF Inv, Revoked, FiledRevoked
<1>6. Promised'
  BY <1>1 DEF Inv, Promised, Filed
<1>7. req'[c] = Idle
  BY <1>1 DEF Inv, TypeOK
<1>8. Relies(c)'
  BY <1>7 DEF Relies, Idle
<1> QED BY <1>1, <1>2, <1>3, <1>5, <1>6, <1>8, IdleIsRequest, RequestStep

\* A request that ends.
LEMMA EndsIdle ==
  ASSUME Inv, NEW c \in Clients, up = TRUE, req' = [req EXCEPT ![c] = Idle],
         UNCHANGED <<up, required, users, sessions, disk, now, promise, loggedOut>>
  PROVE  Inv'
<1>1. req'[c] = Idle
  BY DEF Inv, TypeOK
<1>2. Relies(c)'
  BY <1>1 DEF Relies, Idle
<1> QED BY <1>2, IdleIsRequest, OnlyRequest

LEMMA MiddlewareStep ==
  ASSUME Inv, NEW c \in Clients, authenticationMiddleware(c)
  PROVE  Inv'
<1>1. PICK t \in DOMAIN promise, route \in Routes : \E u \in Resolve(t) :
        req' = [req EXCEPT ![c] = [op |-> "admitted", route |-> route, user |-> u.id,
                                   role |-> u.role, token |-> t]]
  BY DEF authenticationMiddleware
<1>2. PICK u \in Resolve(t) :
        req' = [req EXCEPT ![c] = [op |-> "admitted", route |-> route, user |-> u.id,
                                   role |-> u.role, token |-> t]]
  BY <1>1
<1> DEFINE r == [op |-> "admitted", route |-> route, user |-> u.id, role |-> u.role, token |-> t]
<1>3. up = TRUE /\ UNCHANGED <<up, required, users, sessions, disk, now, promise, loggedOut>>
  BY DEF authenticationMiddleware, Inv, TypeOK
<1>4. t \in Tokens
  BY TokenMaps DEF Inv, TypeOK
<1>5. u \in users /\ u.id \in Ids /\ u.role \in Role
  BY DEF Resolve, Inv, TypeOK, User
<1>6. r \in Request
  BY <1>4, <1>5 DEF Request
<1>7. req'[c] = r
  BY <1>2 DEF Inv, TypeOK
<1>8. Relies(c)'
  BY <1>3, <1>5, <1>7 DEF Relies
<1> QED BY <1>2, <1>3, <1>6, <1>8, OnlyRequest

LEMMA AnonymousStep ==
  ASSUME Inv, NEW c \in Clients, Anonymous(c)
  PROVE  Inv'
<1>1. PICK route \in Routes :
        req' = [req EXCEPT ![c] = [op |-> "admitted", route |-> route, user |-> Nobody,
                                   role |-> Nobody, token |-> Nobody]]
  BY DEF Anonymous
<1> DEFINE r == [op |-> "admitted", route |-> route, user |-> Nobody,
                 role |-> Nobody, token |-> Nobody]
<1>2. up = TRUE /\ UNCHANGED <<up, required, users, sessions, disk, now, promise, loggedOut>>
  BY DEF Anonymous, Inv, TypeOK
<1>3. r \in Request
  BY DEF Request
<1>4. req'[c] = r
  BY <1>1 DEF Inv, TypeOK
<1>5. Relies(c)'
  BY <1>4 DEF Relies
<1> QED BY <1>1, <1>2, <1>3, <1>5, OnlyRequest

LEMMA RequireRolesStep ==
  ASSUME Inv, NEW c \in Clients, requireRoles(c)
  PROVE  Inv'
<1> DEFINE serving == [req[c] EXCEPT !.op = "serving"]
<1>1. /\ up = TRUE /\ req[c].op = "admitted" /\ req[c] \in Request
      /\ req' = [req EXCEPT ![c] = IF RequireRole(req[c]) THEN serving ELSE Idle]
      /\ UNCHANGED <<up, required, users, sessions, disk, now, promise, loggedOut>>
  BY DEF requireRoles, Inv, TypeOK
<1>2. CASE RequireRole(req[c])
  <2>1. /\ serving \in Request /\ serving.op = "serving" /\ serving.route = req[c].route
        /\ serving.user = req[c].user /\ serving.role = req[c].role
    <3>1. req[c] \in [op : {"admitted", "serving"}, route : Routes,
                      user : Ids \cup {Nobody}, role : Role \cup {Nobody},
                      token : Tokens \cup {Nobody}]
      BY <1>1, RequestStages
    <3>2. /\ serving \in [op : {"admitted", "serving"}, route : Routes,
                          user : Ids \cup {Nobody}, role : Role \cup {Nobody},
                          token : Tokens \cup {Nobody}]
          /\ serving.op = "serving" /\ serving.route = req[c].route
          /\ serving.user = req[c].user /\ serving.role = req[c].role
      BY <3>1
    <3> HIDE DEF serving
    <3> QED BY <3>2 DEF Request
  <2>2. req' = [req EXCEPT ![c] = serving]
    BY <1>1, <1>2
  <2> HIDE DEF serving
  <2>3. req'[c] = serving
    BY <2>2 DEF Inv, TypeOK
  <2>4. Relies(c)'
    <3>1. req[c].user # Nobody => \E u \in users : u.id = req[c].user /\ u.role = req[c].role
      BY <1>1 DEF Inv, Requests, Relies
    <3> QED BY <1>1, <1>2, <2>1, <2>3, <3>1 DEF Relies, RequireRole
  <2> QED BY <1>1, <2>1, <2>2, <2>4, OnlyRequest
<1>3. CASE ~ RequireRole(req[c])
  BY <1>1, <1>3, EndsIdle
<1> QED BY <1>2, <1>3

-----------------------------------------------------------------------------
LEMMA InvInit == Init => Inv
<1> SUFFICES ASSUME Init PROVE Inv
  OBVIOUS
<1>1. /\ up = FALSE /\ required = TRUE /\ users = {} /\ sessions = <<>> /\ disk = NoFile
      /\ now = 0 /\ req = [c \in Clients |-> Idle] /\ promise = <<>> /\ loggedOut = {}
  BY DEF Init
<1>2. TypeOK
  <2>1. now \in 0 .. MaxTime
    BY <1>1, TTLAssumption
  <2>2. /\ sessions \in TokenMap(Session)
        /\ promise \in TokenMap([user : Ids, expires : 0 .. MaxTime + SessionTTL])
    BY <1>1, EmptyMap
  <2>3. req \in [Clients -> Request]
    BY <1>1, IdleIsRequest
  <2> QED BY <1>1, <2>1, <2>2, <2>3 DEF TypeOK
<1>3. MemoryCoversFile /\ Owners
  BY <1>1 DEF MemoryCoversFile, Owners
<1>4. Promised /\ Revoked
  BY <1>1, EmptyMap DEF Promised, Revoked
<1>5. Requests
  BY <1>1, IdleRelies DEF Requests
<1> QED BY <1>2, <1>3, <1>4, <1>5 DEF Inv

LEMMA InvNext == Inv /\ [Next]_vars => Inv'
<1> SUFFICES ASSUME Inv, [Next]_vars PROVE Inv'
  OBVIOUS
<1>1. CASE UNCHANGED vars
  BY <1>1 DEF vars, Inv, TypeOK, MemoryCoversFile, Promised, Revoked, Requests, Owners,
              Relies, Filed, FiledRevoked
<1>2. ASSUME NEW c \in Clients, LoginNoToken(c) \/ Answer(c) PROVE Inv'
  BY <1>2, EndsIdle DEF LoginNoToken, Answer, Inv, TypeOK
<1> QED
  BY <1>1, <1>2, OpenStep, CrashStep, TickStep, AuthenticateStep, LoginStep, AnswerLoginStep,
     MiddlewareStep, AnonymousStep, RequireRolesStep, LogoutStep, AnswerLogoutStep
     DEF Next, ClientStep

LEMMA Invariance == Spec => []Inv
BY InvInit, InvNext, PTL DEF Spec

\* What a running process knows of a token it handed out.
LEMMA PromisedInMemory ==
  ASSUME Inv, up, NEW t \in DOMAIN promise
  PROVE  /\ t \in DOMAIN sessions
         /\ sessions[t].user = promise[t].user /\ sessions[t].expires = promise[t].expires
         /\ t \in loggedOut => sessions[t].revoked = TRUE
BY DEF Inv, Promised, Revoked, MemoryCoversFile, Filed, FiledRevoked, Covers

-----------------------------------------------------------------------------
(***************************************************************************)
(* The theorems.                                                           *)
(***************************************************************************)
\* Memory, file and open requests stay well formed: Open refuses every list
\* whose accounts would not be.
THEOREM TypeCorrect == Spec => []TypeOK
<1>1. Inv => TypeOK
  BY DEF Inv
<1> QED BY <1>1, Invariance, PTL

\* Login and Logout answer after persist, and no later rewrite of the file by
\* whatever request, failed or not, and no restart loses what was answered.
THEOREM Durable == Spec => []AcknowledgedIsDurable
<1>1. Inv => AcknowledgedIsDurable
  BY DEF Inv, Promised, Revoked, Filed, FiledRevoked, AcknowledgedIsDurable
<1> QED BY <1>1, Invariance, PTL

\* A running service resolves a token it handed out to its user until the
\* expiry, across restarts with any bootstrap list.
THEOREM Honoured == Spec => []HonouredUntilExpiry
<1>1. ASSUME Inv PROVE HonouredUntilExpiry
  <2> SUFFICES ASSUME up, NEW t \in DOMAIN promise
               PROVE  /\ t \in DOMAIN sessions
                      /\ now < promise[t].expires /\ ~sessions[t].revoked =>
                           {u.id : u \in Resolve(t)} = {promise[t].user}
    BY DEF HonouredUntilExpiry
  <2>1. /\ t \in DOMAIN sessions
        /\ sessions[t].user = promise[t].user /\ sessions[t].expires = promise[t].expires
    BY <1>1, PromisedInMemory
  <2>2. \E u \in users : u.id = promise[t].user
    BY <1>1, <2>1 DEF Inv, Owners, Owned
  <2> QED BY <2>1, <2>2 DEF Resolve
<1> QED BY <1>1, Invariance, PTL

\* requireRoles lets a guarded handler run only for an account of the store
\* that has a role of the route.
THEOREM RolesEnforced == Spec => []ServedByRole
<1>1. ASSUME Inv PROVE ServedByRole
  <2> SUFFICES ASSUME NEW c \in Clients, req[c].op = "serving", req[c].route \in Guarded
               PROVE  \E u \in users : u.id = req[c].user /\ u.role \in rolesOf(req[c].route)
    BY DEF ServedByRole
  <2> QED BY <1>1 DEF Inv, Requests, Relies
<1> QED BY <1>1, Invariance, PTL

\* authenticationMiddleware admits a token only for the user and the time the
\* login promised and never after an acknowledged logout.
THEOREM Admission == Spec => AdmittedAsPromised
<1> DEFINE Admits(c) == req'[c].op = "admitted" /\ req[c] = Idle /\ req'[c].token # Nobody
           AsPromised(c) ==
             LET t == req'[c].token
             IN /\ t \in DOMAIN promise /\ promise[t].user = req'[c].user
                /\ now < promise[t].expires
                /\ t \notin loggedOut
<1>1. ASSUME Inv, [Next]_vars, NEW c \in Clients, Admits(c)
      PROVE  AsPromised(c)
  <2>1. req[c] = Idle /\ req[c].op = "idle" /\ req'[c] # req[c]
    BY <1>1 DEF Idle
  <2>2. ASSUME NEW d \in Clients, NEW r, req' = [req EXCEPT ![d] = r]
        PROVE  d = c /\ req'[c] = r
    BY <1>1, <2>1, <2>2 DEF Inv, TypeOK
  <2>3. ASSUME NEW d \in Clients, authenticationMiddleware(d) PROVE AsPromised(c)
    <3>1. PICK t \in DOMAIN promise, route \in Routes : \E u \in Resolve(t) :
            req' = [req EXCEPT ![d] = [op |-> "admitted", route |-> route, user |-> u.id,
                                       role |-> u.role, token |-> t]]
      BY <2>3 DEF authenticationMiddleware
    <3>2. PICK u \in Resolve(t) :
            req' = [req EXCEPT ![d] = [op |-> "admitted", route |-> route, user |-> u.id,
                                       role |-> u.role, token |-> t]]
      BY <3>1
    <3>3. req'[c] = [op |-> "admitted", route |-> route, user |-> u.id,
                     role |-> u.role, token |-> t]
      BY <2>2, <3>2
    <3>4. req'[c].token = t /\ req'[c].user = u.id
      BY <3>3
    <3>5. /\ t \in DOMAIN sessions /\ ~ sessions[t].revoked
          /\ now < sessions[t].expires /\ u.id = sessions[t].user
      BY DEF Resolve
    <3>6. up
      BY <2>3 DEF authenticationMiddleware
    <3> QED BY <1>1, <3>4, <3>5, <3>6, PromisedInMemory
  <2>4. ASSUME NEW d \in Clients, Anonymous(d) PROVE FALSE
    <3>1. PICK route \in Routes :
            req' = [req EXCEPT ![d] = [op |-> "admitted", route |-> route, user |-> Nobody,
                                       role |-> Nobody, token |-> Nobody]]
      BY <2>4 DEF Anonymous
    <3> DEFINE r == [op |-> "admitted", route |-> route, user |-> Nobody,
                     role |-> Nobody, token |-> Nobody]
    <3>2. req'[c].token = Nobody
      <4>1. r.token = Nobody
        OBVIOUS
      <4>2. req' = [req EXCEPT ![d] = r]
        BY <3>1
      <4> HIDE DEF r
      <4> QED BY <2>2, <4>1, <4>2
    <3> QED BY <1>1, <3>2
  <2>5. ASSUME NEW d \in Clients, requireRoles(d) PROVE FALSE
    BY <2>1, <2>2, <2>5 DEF requireRoles
  <2>6. ASSUME NEW d \in Clients,
               \/ Authenticate(d) \/ Login(d) \/ LoginNoToken(d) \/ AnswerLogin(d)
               \/ Answer(d) \/ Logout(d) \/ AnswerLogout(d)
        PROVE  FALSE
    <3>1. req'[c].op \in {"idle", "login", "token", "revoked"}
      <4>1. CASE Authenticate(d)
        <5>1. PICK u \in users : req' = [req EXCEPT ![d] =
                [op |-> "login", user |-> u.id, expires |-> now + SessionTTL]]
          BY <4>1 DEF Authenticate, Authenticated
        <5> DEFINE r == [op |-> "login", user |-> u.id, expires |-> now + SessionTTL]
        <5>2. req' = [req EXCEPT ![d] = r] /\ r.op = "login"
          BY <5>1
        <5> HIDE DEF r
        <5> QED BY <2>2, <5>2
      <4>2. CASE Login(d)
        BY <2>1, <2>2, <4>2 DEF Login
      <4>3. CASE Logout(d)
        <5>1. PICK t \in DOMAIN promise \cap DOMAIN sessions, ok \in BOOLEAN :
                req' = [req EXCEPT ![d] = IF ok THEN [op |-> "revoked", token |-> t] ELSE Idle]
          BY <4>3 DEF Logout
        <5> DEFINE r == IF ok THEN [op |-> "revoked", token |-> t] ELSE Idle
        <5>2. req' = [req EXCEPT ![d] = r] /\ r.op \in {"idle", "revoked"}
          BY <5>1 DEF Idle
        <5> HIDE DEF r
        <5> QED BY <2>2, <5>2
      <4>4. CASE LoginNoToken(d) \/ AnswerLogin(d) \/ Answer(d) \/ AnswerLogout(d)
        BY <2>2, <4>4 DEF LoginNoToken, AnswerLogin, Answer, AnswerLogout, Idle
      <4> QED BY <2>6, <4>1, <4>2, <4>3, <4>4
    <3> QED BY <1>1, <3>1
  <2>7. CASE Open \/ Tick \/ UNCHANGED vars
    BY <2>1, <2>7 DEF Open, Tick, vars
  <2>8. CASE Crash
    BY <2>1, <2>8 DEF Crash
  <2> HIDE DEF AsPromised
  <2> QED BY <1>1, <2>3, <2>4, <2>5, <2>6, <2>7, <2>8 DEF Next, ClientStep
<1>2. Inv /\ [Next]_vars => [\A c \in Clients : Admits(c) => AsPromised(c)]_vars
  BY <1>1
<1> QED BY <1>2, Invariance, PTL DEF Spec, AdmittedAsPromised

=============================================================================
