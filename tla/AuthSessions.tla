---------------------------- MODULE AuthSessions ----------------------------
(***************************************************************************)
(* The accounts and login sessions of the HTTP service: internal/auth and  *)
(* the authentication and role middleware of internal/httpapi.  The store  *)
(* keeps users and sessions in memory under one mutex and rewrites one     *)
(* JSON file after every change.  A process may die between any two steps  *)
(* and every rewrite of the file may fail.                                 *)
(***************************************************************************)
EXTENDS Integers, Sequences

CONSTANTS
    Clients,      \* callers of the API, each with at most one request open
    Tokens,       \* the session tokens newToken can draw
    Names,        \* user names a caller may type
    Passwords,    \* passwords a caller may type
    LongPasswords,\* those with the 12 characters a bootstrap user needs
    Bootstraps,   \* the bootstrap lists the configuration may hold at a start
    SessionTTL,   \* Auth.SessionTTL
    MaxTime,      \* bound on the clock
    NoHash,       \* an empty PasswordHash: bcrypt accepts no password for it
    NoFile,       \* the store file does not exist
    Nobody        \* a request without a user in its context

Role == {"venue_operator", "lighting_assessor", "urban_management_reviewer", "admin"}

\* The route groups of setupRouter: each guarded route with the roles it asks
\* for, and the routes open to every authenticated user.
Routes == {"createRule", "batchImport", "retryFailure", "open"}
Guarded == Routes \ {"open"}
rolesOf(route) == IF route = "retryFailure" THEN {"admin"} ELSE {"admin", "lighting_assessor"}

\* A seed is a bootstrap user of the configuration.
Ids == UNION {{b[i].id : i \in DOMAIN b} : b \in Bootstraps}
SeedNames == UNION {{b[i].name : i \in DOMAIN b} : b \in Bootstraps}

ASSUME TTLAssumption == SessionTTL \in Nat \ {0} /\ MaxTime \in Nat
ASSUME PasswordAssumption == LongPasswords \subseteq Passwords /\ NoHash \notin Passwords
ASSUME NobodyAssumption == Nobody \notin Ids \cup Role \cup Tokens

VARIABLES
    up,        \* the process serves requests
    required,  \* Auth.Required of the configuration it was started with
    users,     \* data.Users: a set of [id, name, hash, role]
    sessions,  \* data.Sessions: token -> [user, expires, revoked]
    disk,      \* the JSON file
    now,       \* the clock
    req,       \* the open request of each client
    promise,   \* history: token -> what the login that handed it out answered
    loggedOut  \* history: tokens whose logout was answered with success

vars == <<up, required, users, sessions, disk, now, req, promise, loggedOut>>

\* The function f with t mapped to v.
Put(f, t, v) == [x \in DOMAIN f \cup {t} |-> IF x = t THEN v ELSE f[x]]

Idle == [op |-> "idle"]

validRole(r) == r \in Role

\* Deliberate fault: only duplicates are refused.
ValidBootstrapUnchecked(b) ==
    \A i, j \in DOMAIN b : i # j => b[i].id # b[j].id /\ b[i].name # b[j].name

\* The checks of Open over the whole bootstrap list: every entry complete, no
\* id and no name twice.
ValidBootstrap(b) ==
    /\ \A i \in DOMAIN b : b[i].id # "" /\ b[i].name # "" /\ b[i].password \in LongPasswords
                             /\ validRole(b[i].role)
    /\ \A i, j \in DOMAIN b : i # j => b[i].id # b[j].id /\ b[i].name # b[j].name

\* A user as Open provisions it; the hash stands for the password it accepts.
Provisioned(b) ==
    {[id |-> b[i].id, name |-> b[i].name, hash |-> b[i].password, role |-> b[i].role] : i \in DOMAIN b}

\* What the encoder writes: PasswordHash carries the tag json:"-".
Encoded(us, ss) == [users |-> {[u EXCEPT !.hash = NoHash] : u \in us}, sessions |-> ss]

\* persist writes a temporary file and renames it, so the file holds the old
\* state or the new one.
persist(us, ss, ok) == disk' = IF ok THEN Encoded(us, ss) ELSE disk

Init ==
    /\ up = FALSE /\ required = TRUE
    /\ users = {} /\ sessions = <<>> /\ disk = NoFile
    /\ now = 0
    /\ req = [c \in Clients |-> Idle]
    /\ promise = <<>> /\ loggedOut = {}

\* Deliberate fault: the bootstrap list is applied at every start.
OpenAlwaysSeeds ==
    /\ ~up
    /\ \E b \in Bootstraps, r \in BOOLEAN :
        LET loaded == IF disk = NoFile THEN {} ELSE disk.users
            seeding == b # <<>>
        IN /\ seeding => ValidBootstrap(b)
           /\ users' = IF seeding THEN Provisioned(b) ELSE loaded
           /\ sessions' = IF disk = NoFile THEN <<>> ELSE disk.sessions
           /\ persist(users', sessions', seeding)
           /\ required' = r
    /\ up' = TRUE
    /\ UNCHANGED <<now, req, promise, loggedOut>>

\* New of the HTTP server opens the store: the file is loaded, and the
\* bootstrap users are provisioned only when it holds no user.  An invalid
\* list or a failing first persist is a panic: the process does not come up.
Open ==
    /\ ~up
    /\ \E b \in Bootstraps, r \in BOOLEAN :
        LET loaded == IF disk = NoFile THEN {} ELSE disk.users
            seeding == loaded = {} /\ b # <<>>
        IN /\ seeding => ValidBootstrap(b)
           /\ users' = IF seeding THEN Provisioned(b) ELSE loaded
           /\ sessions' = IF disk = NoFile THEN <<>> ELSE disk.sessions
           /\ persist(users', sessions', seeding)
           /\ required' = r
    /\ up' = TRUE
    /\ UNCHANGED <<now, req, promise, loggedOut>>

\* The user Authenticate returns for a name and a password, if any.
Authenticated(name, password) == {u \in users : u.name = name /\ u.hash = password}

\* First half of Login: the credentials are checked and the mutex is released.
Authenticate(c) ==
    /\ up /\ req[c] = Idle
    /\ \E name \in Names, password \in Passwords : \E u \in Authenticated(name, password) :
        req' = [req EXCEPT ![c] = [op |-> "login", user |-> u.id, expires |-> now + SessionTTL]]
    /\ UNCHANGED <<up, required, users, sessions, disk, now, promise, loggedOut>>

\* 32 random bytes: a token no session and no caller has yet.
newToken == Tokens \ (DOMAIN sessions \cup DOMAIN promise)

\* Second half of Login: the session is appended and persisted.  When the
\* persist fails the session stays in memory and the caller gets an error.
Login(c) ==
    /\ up /\ req[c].op = "login"
    /\ \E t \in newToken, ok \in BOOLEAN :
        /\ sessions' = Put(sessions, t, [user |-> req[c].user, expires |-> req[c].expires, revoked |-> FALSE])
        /\ persist(users, sessions', ok)
        /\ req' = [req EXCEPT ![c] = IF ok THEN [op |-> "token", token |-> t,
                                                 user |-> req[c].user, expires |-> req[c].expires]
                                     ELSE Idle]
    /\ UNCHANGED <<up, required, users, now, promise, loggedOut>>

\* No token could be generated: the login ends with an error.
LoginNoToken(c) ==
    /\ up /\ req[c].op = "login"
    /\ req' = [req EXCEPT ![c] = Idle]
    /\ UNCHANGED <<up, required, users, sessions, disk, now, promise, loggedOut>>

\* The login handler answers with the token, its user and its expiry.
AnswerLogin(c) ==
    /\ up /\ req[c].op = "token"
    /\ promise' = Put(promise, req[c].token, [user |-> req[c].user, expires |-> req[c].expires])
    /\ req' = [req EXCEPT ![c] = Idle]
    /\ UNCHANGED <<up, required, users, sessions, disk, now, loggedOut>>

\* Deliberate fault: the session is still good at the instant it expires.
ResolveAtExpiry(t) ==
    {u \in users : /\ t \in DOMAIN sessions
                   /\ ~sessions[t].revoked
                   /\ now <= sessions[t].expires
                   /\ u.id = sessions[t].user}

\* The users Resolve finds for a token: none when the session is unknown,
\* revoked or expired.
Resolve(t) ==
    {u \in users : /\ t \in DOMAIN sessions
                   /\ ~sessions[t].revoked
                   /\ now < sessions[t].expires
                   /\ u.id = sessions[t].user}

\* The authentication middleware lets a request through and puts the user
\* into its context.  Every other request is answered 401 and changes nothing.
authenticationMiddleware(c) ==
    /\ up /\ required /\ req[c] = Idle
    /\ \E t \in DOMAIN promise, route \in Routes : \E u \in Resolve(t) :
        req' = [req EXCEPT ![c] = [op |-> "admitted", route |-> route, user |-> u.id,
                                   role |-> u.role, token |-> t]]
    /\ UNCHANGED <<up, required, users, sessions, disk, now, promise, loggedOut>>

\* With Auth.Required off the middleware is not installed.
Anonymous(c) ==
    /\ up /\ ~required /\ req[c] = Idle
    /\ \E route \in Routes :
        req' = [req EXCEPT ![c] = [op |-> "admitted", route |-> route, user |-> Nobody,
                                   role |-> Nobody, token |-> Nobody]]
    /\ UNCHANGED <<up, required, users, sessions, disk, now, promise, loggedOut>>

\* Deliberate fault: a request without a user is not looked at.
RequireRoleOfUser(r) == r.route \in Guarded /\ r.user # Nobody => r.role \in rolesOf(r.route)

\* What requireRoles asks of the context of a request: a user with one of the
\* roles.  The open routes are registered without it.
RequireRole(r) == r.route \in Guarded => r.user # Nobody /\ r.role \in rolesOf(r.route)

\* requireRoles and then the handler; the user may have logged out meanwhile.
requireRoles(c) ==
    /\ up /\ req[c].op = "admitted"
    /\ req' = [req EXCEPT ![c] = IF RequireRole(req[c]) THEN [req[c] EXCEPT !.op = "serving"] ELSE Idle]
    /\ UNCHANGED <<up, required, users, sessions, disk, now, promise, loggedOut>>

\* The handler answers, or the request is given up (a refusal, a panic that
\* recoveryMiddleware answers).
Answer(c) ==
    /\ up /\ req[c].op = "serving"
    /\ req' = [req EXCEPT ![c] = Idle]
    /\ UNCHANGED <<up, required, users, sessions, disk, now, promise, loggedOut>>

\* Deliberate fault: a session already revoked in memory is not persisted again.
LogoutOnce(c) ==
    /\ up /\ req[c] = Idle
    /\ \E t \in DOMAIN promise \cap DOMAIN sessions, ok \in BOOLEAN :
        /\ sessions' = [sessions EXCEPT ![t].revoked = TRUE]
        /\ persist(users, sessions', ok /\ ~sessions[t].revoked)
        /\ req' = [req EXCEPT ![c] = IF ok THEN [op |-> "revoked", token |-> t] ELSE Idle]
    /\ UNCHANGED <<up, required, users, now, promise, loggedOut>>

\* Logout revokes the session, whether expired or revoked before or not, and
\* persists.  When that fails the session stays revoked in memory and the
\* caller gets an error.
Logout(c) ==
    /\ up /\ req[c] = Idle
    /\ \E t \in DOMAIN promise \cap DOMAIN sessions, ok \in BOOLEAN :
        /\ sessions' = [sessions EXCEPT ![t].revoked = TRUE]
        /\ persist(users, sessions', ok)
        /\ req' = [req EXCEPT ![c] = IF ok THEN [op |-> "revoked", token |-> t] ELSE Idle]
    /\ UNCHANGED <<up, required, users, now, promise, loggedOut>>

\* The logout handler answers 204.
AnswerLogout(c) ==
    /\ up /\ req[c].op = "revoked"
    /\ loggedOut' = loggedOut \cup {req[c].token}
    /\ req' = [req EXCEPT ![c] = Idle]
    /\ UNCHANGED <<up, required, users, sessions, disk, now, promise>>

\* The process ends at any point; memory and open requests are gone.
Crash ==
    /\ up
    /\ up' = FALSE
    /\ users' = {} /\ sessions' = <<>>
    /\ req' = [c \in Clients |-> Idle]
    /\ UNCHANGED <<required, disk, now, promise, loggedOut>>

Tick ==
    /\ now < MaxTime
    /\ now' = now + 1
    /\ UNCHANGED <<up, required, users, sessions, disk, req, promise, loggedOut>>

ClientStep(c) ==
    \/ Authenticate(c) \/ Login(c) \/ LoginNoToken(c) \/ AnswerLogin(c)
    \/ authenticationMiddleware(c) \/ Anonymous(c) \/ requireRoles(c) \/ Answer(c)
    \/ Logout(c) \/ AnswerLogout(c)

Next == Open \/ Crash \/ Tick \/ \E c \in Clients : ClientStep(c)

Spec == Init /\ [][Next]_vars

----------------------------------------------------------------------------
\* A function of some tokens into S.
TokenMap(S) == UNION {[T -> S] : T \in SUBSET Tokens}
Session == [user : Ids, expires : 0 .. MaxTime + SessionTTL, revoked : BOOLEAN]
User == [id : Ids, name : SeedNames, hash : LongPasswords \cup {NoHash}, role : Role]
File == [users : SUBSET User, sessions : TokenMap(Session)]

\* A missing file is not the contents of one.
ASSUME NoFileAssumption == NoFile \notin File

Request ==
    {Idle} \cup [op : {"login"}, user : Ids, expires : 0 .. MaxTime + SessionTTL]
    \cup [op : {"token"}, token : Tokens, user : Ids, expires : 0 .. MaxTime + SessionTTL]
    \cup [op : {"admitted", "serving"}, route : Routes, user : Ids \cup {Nobody},
          role : Role \cup {Nobody}, token : Tokens \cup {Nobody}]
    \cup [op : {"revoked"}, token : Tokens]

\* Memory, file and open requests are well formed: a stored user has a known
\* role and was accepted with a long password (checks of Open).
TypeOK ==
    /\ up \in BOOLEAN /\ required \in BOOLEAN /\ now \in 0 .. MaxTime
    /\ users \subseteq User /\ sessions \in TokenMap(Session)
    /\ disk = NoFile \/ disk \in File
    /\ req \in [Clients -> Request]
    /\ promise \in TokenMap([user : Ids, expires : 0 .. MaxTime + SessionTTL])
    /\ loggedOut \subseteq Tokens

\* What a caller was told is on disk: every token handed out is stored for the
\* user and the expiry of the answer, and every acknowledged logout is stored
\* as revoked (Login and Logout answer after persist), whatever rewrites
\* failed or succeeded in between and however often the process died.
AcknowledgedIsDurable ==
    /\ \A t \in DOMAIN promise :
        /\ disk # NoFile /\ t \in DOMAIN disk.sessions
        /\ disk.sessions[t].user = promise[t].user /\ disk.sessions[t].expires = promise[t].expires
    /\ \A t \in loggedOut : disk.sessions[t].revoked

\* The middleware admits a request only for the user the token was handed out
\* to, before the expiry the login answered and never once its logout was
\* acknowledged, across restarts and failed rewrites.
AdmittedAsPromised ==
    [][\A c \in Clients : (req'[c].op = "admitted" /\ req[c] = Idle /\ req'[c].token # Nobody) =>
            LET t == req'[c].token
            IN /\ t \in DOMAIN promise /\ promise[t].user = req'[c].user
               /\ now < promise[t].expires
               /\ t \notin loggedOut]_vars

\* A token that was handed out keeps working: until its expiry, and as long as
\* nobody asked for its logout, a running service resolves it to the user it
\* was handed out to, whatever restarts, failed rewrites and changed bootstrap
\* lists lie between the login and the request.
HonouredUntilExpiry ==
    up => \A t \in DOMAIN promise :
        /\ t \in DOMAIN sessions
        /\ now < promise[t].expires /\ ~sessions[t].revoked =>
              {u.id : u \in Resolve(t)} = {promise[t].user}

\* A guarded handler runs only for an account that was provisioned with one of
\* the roles of the route, also after a restart with authentication switched
\* off or with another bootstrap list.
ServedByRole ==
    \A c \in Clients : req[c].op = "serving" /\ req[c].route \in Guarded =>
        \E u \in users : u.id = req[c].user /\ u.role \in rolesOf(req[c].route)

\* The comment on BootstrapUser: only the bcrypt hash is stored.  Every account
\* of a running service has the hash its password is compared with.
HashIsStored == \A u \in users : u.hash # NoHash
=============================================================================
