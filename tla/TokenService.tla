----------------------------- MODULE TokenService -----------------------------
(***************************************************************************)
(* Sessions, users and access tokens of Insighta: the token service        *)
(* (internal/service/token_service.go), the session and user repositories  *)
(* it calls, the JWT middleware, and the handlers that drive them          *)
(* (login, POST /auth/refresh, POST /auth/logout, authenticated requests). *)
(*                                                                         *)
(* Every request is a goroutine.  One action is one SQL statement together *)
(* with the local code that follows its result up to the next statement,   *)
(* so requests interleave between any two statements, and what a request   *)
(* read may be out of date when it acts on it.  A statement may fail with  *)
(* no effect, or commit and have its answer lost.                          *)
(***************************************************************************)
EXTENDS Naturals

CONSTANTS
    Accounts,        \* GitHub accounts (column users.github_id, UNIQUE)
    SeededAdmins,    \* accounts that SeedTestUsers inserts as admins
    SeededAnalysts,  \* accounts that SeedTestUsers inserts as analysts
    UserIds,         \* UUIDs drawn for rows of users
    Tokens,          \* UUIDs drawn for refresh tokens
    Requests,        \* request goroutines
    AccessTTL,       \* 10 minutes, in ticks
    RefreshTTL,      \* 20 minutes, in ticks
    Settings,        \* roles and is_active values an operator may write
    MaxNow,          \* bound on the clock
    MaxBoots,        \* bound on the number of process starts
    None             \* no row, no value

Roles == {"admin", "analyst"}

ASSUME ConstantsAssumption ==
    /\ SeededAdmins \subseteq Accounts
    /\ SeededAnalysts \subseteq Accounts
    /\ SeededAdmins \cap SeededAnalysts = {}
    /\ Settings \subseteq [role : Roles, active : BOOLEAN]
    /\ AccessTTL \in Nat /\ RefreshTTL \in Nat
    /\ MaxNow \in Nat /\ MaxBoots \in Nat

UserRow == [id : UserIds, role : Roles, active : BOOLEAN]
Session == [user : UserIds, createdAt : Nat, expiresAt : Nat, revoked : BOOLEAN]
Claims == [user : UserIds, role : Roles, iat : Nat, exp : Nat]

(* A row, a session or a claim is a record; None is none of these, and is  *)
(* no token, request or id.                                                *)
ASSUME NoneAssumption ==
    None \notin UserRow \cup Session \cup Claims \cup Tokens \cup Requests \cup UserIds

VARIABLES
    now,       \* the wall clock
    users,     \* table users, by github_id
    usedIds,   \* user ids drawn so far
    sessions,  \* table sessions, by token
    issued,    \* refresh tokens some client holds
    jwts,      \* access tokens some client holds
    req,       \* the requests in progress
    (* History, read by the properties only: *)
    boots,     \* how often the process has started
    parent,    \* the token a session was rotated from, None after a login
    minter,    \* the request that created a session
    born,      \* the start of the process during which it was created
    arrived    \* per request: what held when it arrived and since

vars == <<now, users, usedIds, sessions, issued, jwts, req,
          boots, parent, minter, born, arrived>>

Steps == {"idle",
          "find",        \* RotateRefreshToken: about to look the session up
          "check",       \* has the session, about to check it and act
          "revoke",      \* has the user, about to revoke the old session
          "create",      \* GenerateTokenPair: about to insert a session
          "auth",        \* AuthenticateJWT: about to look the user up
          "deactivated", \* about to revoke all of the user's sessions
          "handle"}      \* passed the middleware with a user

Req == [step : Steps,
        token : Tokens \cup {None},     \* the refresh token presented
        found : Session \cup {None},    \* the session read by FindSession
        claims : Claims \cup {None},    \* the claims of the JWT presented
        user : UserRow \cup {None}]     \* the row read from users

Quiet == [step |-> "idle", token |-> None, found |-> None,
          claims |-> None, user |-> None]

(* live: the presented session could be rotated when the request arrived;  *)
(* rows: every row that users has held since the request arrived.          *)
Arrival == [live : BOOLEAN, rows : SUBSET UserRow]
NoArrival == [live |-> FALSE, rows |-> {}]

-----------------------------------------------------------------------------
Rows(table) == {table[a] : a \in Accounts} \ {None}

(* The row FindByID returns, as the set of its possible results.           *)
RowsById(id) == {row \in Rows(users) : row.id = id}

Expired(s) == now > s.expiresAt
Live(s) == ~s.revoked /\ ~Expired(s)

RevokeAllOf(id) ==
    [t \in Tokens |->
        IF sessions[t] # None /\ sessions[t].user = id
        THEN [sessions[t] EXCEPT !.revoked = TRUE]
        ELSE sessions[t]]

(* Requests in progress witness the rows that a step brings into users.    *)
Witnessed ==
    [r \in Requests |->
        IF req[r] = Quiet THEN arrived[r]
        ELSE [arrived[r] EXCEPT !.rows = @ \cup Rows(users')]]

Begin(r, request, live) ==
    /\ req[r] = Quiet
    /\ req' = [req EXCEPT ![r] = request]
    /\ arrived' = [Witnessed EXCEPT ![r] = [live |-> live, rows |-> Rows(users')]]

Continue(r, step) == req' = [req EXCEPT ![r].step = step]

(* The handler answers, with success or with an error.                     *)
Answer(r) ==
    /\ req' = [req EXCEPT ![r] = Quiet]
    /\ arrived' = [arrived EXCEPT ![r] = NoArrival]

-----------------------------------------------------------------------------
(* POST /auth/refresh                                                      *)

RefreshToken(r, t) ==
    /\ t \in issued
    /\ UNCHANGED <<now, users, usedIds, sessions, issued, jwts,
                   boots, parent, minter, born>>
    /\ Begin(r, [Quiet EXCEPT !.step = "find", !.token = t], Live(sessions[t]))

FindSession(r) ==
    /\ req[r].step = "find"
    /\ req' = [req EXCEPT ![r].step = "check",
                          ![r].found = sessions[req[r].token]]
    /\ UNCHANGED <<now, users, usedIds, sessions, issued, jwts,
                   boots, parent, minter, born, arrived>>

ForgetsRevocation(s) == Expired(s)
ForgetsExpiry(s) == s.revoked
(* The guard of RotateRefreshToken, over the session it read.              *)
Refused(s) == s.revoked \/ Expired(s)

(* A revoked or expired token takes every session of its user with it; an  *)
(* error of that statement is ignored (RequestFails).                      *)
RefuseRefresh(r) ==
    /\ req[r].step = "check"
    /\ Refused(req[r].found)
    /\ sessions' = RevokeAllOf(req[r].found.user)
    /\ Answer(r)
    /\ UNCHANGED <<now, users, usedIds, issued, jwts, boots, parent, minter, born>>

FindUserFromSession(r) ==
    /\ req[r].step = "check"
    /\ ~Refused(req[r].found)
    /\ req' = [req EXCEPT ![r].step = "revoke",
            ![r].user = [id |-> req[r].found.user, role |-> "analyst", active |-> TRUE]]
    /\ UNCHANGED <<now, users, usedIds, sessions, issued, jwts,
                   boots, parent, minter, born, arrived>>
FindUser(r) ==
    /\ req[r].step = "check"
    /\ ~Refused(req[r].found)
    /\ \/ \E row \in RowsById(req[r].found.user) :
            /\ row.active
            /\ req' = [req EXCEPT ![r].step = "revoke", ![r].user = row]
            /\ UNCHANGED arrived
       \/ /\ \A row \in RowsById(req[r].found.user) : ~row.active
          /\ Answer(r)
    /\ UNCHANGED <<now, users, usedIds, sessions, issued, jwts,
                   boots, parent, minter, born>>

RevokeOldSessionUnchecked(r) ==
    /\ req[r].step = "revoke"
    /\ sessions' \in {sessions, [sessions EXCEPT ![req[r].token].revoked = TRUE]}
    /\ Continue(r, "create")
    /\ UNCHANGED <<now, users, usedIds, issued, jwts, boots, parent, minter, born, arrived>>
(* The UPDATE matches the token whether or not it is revoked already.  Its *)
(* answer may be lost after the commit, and then the rotation stops here.  *)
RevokeOldSession(r) ==
    /\ req[r].step = "revoke"
    /\ sessions' = [sessions EXCEPT ![req[r].token].revoked = TRUE]
    /\ \/ Continue(r, "create") /\ UNCHANGED arrived
       \/ Answer(r)
    /\ UNCHANGED <<now, users, usedIds, issued, jwts, boots, parent, minter, born>>

generateToken(user, duration) ==
    [user |-> user.id, role |-> user.role, iat |-> now, exp |-> now + duration]

(* Sign the access token, insert the session, return both.  Of the pair    *)
(* the client gets both; only the JWT (GET /dev/analyst-token drops the    *)
(* other half); or neither, when the answer of the INSERT is lost.         *)
GenerateTokenPair(r) ==
    /\ req[r].step = "create"
    /\ \E t \in Tokens :
        /\ sessions[t] = None
        /\ sessions' = [sessions EXCEPT ![t] =
                [user |-> req[r].user.id, createdAt |-> now,
                 expiresAt |-> now + RefreshTTL, revoked |-> FALSE]]
        /\ parent' = [parent EXCEPT ![t] = req[r].token]
        /\ minter' = [minter EXCEPT ![t] = r]
        /\ born' = [born EXCEPT ![t] = boots]
        /\ \E access, refresh \in BOOLEAN :
            /\ refresh => access
            /\ jwts' = IF access THEN jwts \cup {generateToken(req[r].user, AccessTTL)}
                                 ELSE jwts
            /\ issued' = IF refresh THEN issued \cup {t} ELSE issued
    /\ Answer(r)
    /\ UNCHANGED <<now, users, usedIds, boots>>

-----------------------------------------------------------------------------
(* Login and logout                                                        *)

NewRowWithoutRole(id, role) == [id |-> id, role |-> "", active |-> TRUE]
NewRow(id, role) == [id |-> id, role |-> role, active |-> TRUE]

UpsertOverwriting(a) ==
    {NewRow(id, "analyst") : id \in IF users[a] = None THEN UserIds \ usedIds
                                                      ELSE {users[a].id}}
(* INSERT ... ON CONFLICT (github_id) DO UPDATE ... RETURNING: an existing *)
(* row keeps its id, role and is_active; a new one is an active analyst.   *)
UpsertedRows(a) ==
    IF users[a] = None THEN {NewRow(id, "analyst") : id \in UserIds \ usedIds}
    ELSE {users[a]}

(* The end of GitHubCallback, once GitHub has named the account.           *)
Login(r, a) ==
    /\ \E row \in UpsertedRows(a) :
        /\ users' = [users EXCEPT ![a] = row]
        /\ usedIds' = usedIds \cup {row.id}
        /\ Begin(r, [Quiet EXCEPT !.step = "create", !.user = row], FALSE)
    /\ UNCHANGED <<now, sessions, issued, jwts, boots, parent, minter, born>>

(* handleTestCode and the /dev endpoints: a token pair for a seeded user.  *)
IssueTestToken(r, a) ==
    /\ a \in SeededAdmins \cup SeededAnalysts
    /\ users[a] # None
    /\ UNCHANGED <<now, users, usedIds, sessions, issued, jwts,
                   boots, parent, minter, born>>
    /\ Begin(r, [Quiet EXCEPT !.step = "create", !.user = users[a]], FALSE)

(* One statement, by either branch of the handler.                         *)
Logout(t) ==
    /\ t \in issued
    /\ sessions' = [sessions EXCEPT ![t].revoked = TRUE]
    /\ UNCHANGED <<now, users, usedIds, issued, jwts, req,
                   boots, parent, minter, born, arrived>>

-----------------------------------------------------------------------------
(* Authenticated requests                                                  *)

(* ValidateAccessToken accepts a JWT strictly before its exp.              *)
Valid(j) == now < j.exp

AuthenticateJWT(r, j) ==
    /\ j \in jwts
    /\ Valid(j)
    /\ UNCHANGED <<now, users, usedIds, sessions, issued, jwts,
                   boots, parent, minter, born>>
    /\ Begin(r, [Quiet EXCEPT !.step = "auth", !.claims = j], FALSE)

LoadUserFromClaims(r) ==
    /\ req[r].step = "auth"
    /\ req' = [req EXCEPT ![r].step = "handle",
            ![r].user = [id |-> req[r].claims.user, role |-> req[r].claims.role,
                         active |-> TRUE]]
    /\ UNCHANGED <<now, users, usedIds, sessions, issued, jwts,
                   boots, parent, minter, born, arrived>>
(* The user the request acts as is the row, not the claims.                *)
LoadUser(r) ==
    /\ req[r].step = "auth"
    /\ \/ \E row \in RowsById(req[r].claims.user) :
            /\ req' = [req EXCEPT ![r].user = row,
                         ![r].step = IF row.active THEN "handle" ELSE "deactivated"]
            /\ UNCHANGED arrived
       \/ RowsById(req[r].claims.user) = {} /\ Answer(r)
    /\ UNCHANGED <<now, users, usedIds, sessions, issued, jwts,
                   boots, parent, minter, born>>

RefuseDeactivated(r) ==
    /\ req[r].step = "deactivated"
    /\ sessions' = RevokeAllOf(req[r].user.id)
    /\ Answer(r)
    /\ UNCHANGED <<now, users, usedIds, issued, jwts, boots, parent, minter, born>>

Serve(r) ==
    /\ req[r].step = "handle"
    /\ Answer(r)
    /\ UNCHANGED <<now, users, usedIds, sessions, issued, jwts,
                   boots, parent, minter, born>>

-----------------------------------------------------------------------------
(* The environment                                                         *)

RequestFailsAndRestores(r) ==
    /\ req[r] # Quiet
    /\ Answer(r)
    /\ sessions' = IF req[r].step = "create" /\ req[r].token # None
                   THEN [sessions EXCEPT ![req[r].token].revoked = FALSE] ELSE sessions
    /\ UNCHANGED <<now, users, usedIds, issued, jwts, boots, parent, minter, born>>
(* The statement a request waits for fails with no effect, or its context  *)
(* is cancelled: the handler answers with an error and stops.              *)
RequestFails(r) ==
    /\ req[r] # Quiet
    /\ Answer(r)
    /\ UNCHANGED <<now, users, usedIds, sessions, issued, jwts,
                   boots, parent, minter, born>>

Tick ==
    /\ now < MaxNow
    /\ now' = now + 1
    /\ UNCHANGED <<users, usedIds, sessions, issued, jwts, req,
                   boots, parent, minter, born, arrived>>

(* No code writes role or is_active: an operator does, in the database.    *)
SetPrivileges(a, setting) ==
    /\ users[a] # None
    /\ users' = [users EXCEPT ![a].role = setting.role, ![a].active = setting.active]
    /\ arrived' = Witnessed
    /\ UNCHANGED <<now, usedIds, sessions, issued, jwts, req,
                   boots, parent, minter, born>>

(* SeedTestUsers: ON CONFLICT (github_id) DO NOTHING.                      *)
SeedTestUsers(table, ids) ==
    [a \in Accounts |->
        IF table[a] # None THEN table[a]
        ELSE CASE a \in SeededAdmins   -> NewRow(ids[a], "admin")
               [] a \in SeededAnalysts -> NewRow(ids[a], "analyst")
               [] OTHER                -> None]

NoUsers == [a \in Accounts |-> None]

Draws(free) ==
    {ids \in [SeededAdmins \cup SeededAnalysts -> free] :
        \A a, b \in SeededAdmins \cup SeededAnalysts : ids[a] = ids[b] => a = b}

(* The process stops, with every request, and starts again.  InitSchema    *)
(* drops users (or fails, which main only logs, and leaves them); the rows *)
(* of sessions stay: CASCADE drops the foreign key to users only, and      *)
(* CREATE TABLE IF NOT EXISTS does not bring it back.                      *)
Restart ==
    /\ boots < MaxBoots
    /\ boots' = boots + 1
    /\ \E ids \in Draws(UserIds \ usedIds), table \in {NoUsers, users} :
        /\ users' = SeedTestUsers(table, ids)
        /\ usedIds' = usedIds \cup {ids[a] : a \in SeededAdmins \cup SeededAnalysts}
    /\ req' = [r \in Requests |-> Quiet]
    /\ arrived' = [r \in Requests |-> NoArrival]
    /\ UNCHANGED <<now, sessions, issued, jwts, parent, minter, born>>

-----------------------------------------------------------------------------
Init ==
    /\ now = 0
    /\ boots = 1
    /\ \E ids \in Draws(UserIds) :
        /\ users = SeedTestUsers(NoUsers, ids)
        /\ usedIds = {ids[a] : a \in SeededAdmins \cup SeededAnalysts}
    /\ sessions = [t \in Tokens |-> None]
    /\ issued = {}
    /\ jwts = {}
    /\ req = [r \in Requests |-> Quiet]
    /\ parent = [t \in Tokens |-> None]
    /\ minter = [t \in Tokens |-> None]
    /\ born = [t \in Tokens |-> 0]
    /\ arrived = [r \in Requests |-> NoArrival]

Next ==
    \/ \E r \in Requests :
        \/ \E t \in Tokens : RefreshToken(r, t)
        \/ FindSession(r)
        \/ RefuseRefresh(r)
        \/ FindUser(r)
        \/ RevokeOldSession(r)
        \/ GenerateTokenPair(r)
        \/ \E a \in Accounts : Login(r, a)
        \/ \E a \in Accounts : IssueTestToken(r, a)
        \/ \E j \in jwts : AuthenticateJWT(r, j)
        \/ LoadUser(r)
        \/ RefuseDeactivated(r)
        \/ Serve(r)
        \/ RequestFails(r)
    \/ \E t \in Tokens : Logout(t)
    \/ \E a \in Accounts, setting \in Settings : SetPrivileges(a, setting)
    \/ Tick
    \/ Restart

Spec == Init /\ [][Next]_vars

-----------------------------------------------------------------------------
(* Properties                                                              *)

(* Every variable stays within its type: columns of users, sessions and    *)
(* the claims hold what their Go types and CREATE TABLE say.               *)
TypeOK ==
    /\ now \in Nat
    /\ users \in [Accounts -> UserRow \cup {None}]
    /\ usedIds \in SUBSET UserIds
    /\ sessions \in [Tokens -> Session \cup {None}]
    /\ issued \in SUBSET Tokens
    /\ jwts \in SUBSET Claims
    /\ req \in [Requests -> Req]
    /\ boots \in Nat
    /\ parent \in [Tokens -> Tokens \cup {None}]
    /\ minter \in [Tokens -> Requests \cup {None}]
    /\ born \in [Tokens -> Nat]
    /\ arrived \in [Requests -> Arrival]

(* Rotation never leaves two generations usable: a token from which a      *)
(* session was rotated is revoked, whatever fails or interleaves between   *)
(* the UPDATE and the INSERT of RotateRefreshToken.                        *)
OnlyLeavesLive ==
    \A t, c \in Tokens : parent[c] = t => sessions[t] # None /\ sessions[t].revoked

(* A refresh that arrives with a token already revoked (by a rotation, a   *)
(* logout or a reuse) or expired never reaches the INSERT of a new session.*)
ReplayNeverSucceeds ==
    \A r \in Requests :
        req[r].step \in {"revoke", "create"} /\ req[r].token # None => arrived[r].live

(* One goroutine at a time serves a connection: whatever it is asked again,*)
(* it mints at most one successor of a token.  Two successors of a token   *)
(* need two overlapping refreshes.                                         *)
OneSuccessorPerHandler ==
    \A c, d \in Tokens :
        parent[c] # None /\ parent[c] = parent[d] /\ minter[c] = minter[d] => c = d

(* What a request does, it does as a user row that stood in users at some  *)
(* moment of that very request, and was active: never as the JWT or the    *)
(* session remembered the user (AuthenticateJWT, RotateRefreshToken).      *)
ActsOnCurrentUser ==
    \A r \in Requests :
        req[r].step \in {"revoke", "handle"} =>
            req[r].user \in arrived[r].rows /\ req[r].user.active

(* A session created since the process started belongs to a user that      *)
(* exists, although the foreign key went with DROP TABLE users CASCADE.    *)
SessionsReferenceUsers ==
    \A t \in Tokens :
        sessions[t] # None /\ born[t] = boots =>
            \E a \in Accounts : users[a] # None /\ users[a].id = sessions[t].user

(* Logging in again neither promotes nor demotes, nor reactivates: while   *)
(* the process runs, only an operator changes role or is_active, and no    *)
(* row is deleted or gets another id.                                      *)
LoginKeepsPrivileges ==
    [][ \A a \in Accounts :
          boots' = boots /\ users[a] # None /\ users'[a] # users[a] =>
            \E setting \in Settings : SetPrivileges(a, setting) ]_vars

(* Sessions as families of tokens.                                         *)
Owner == [t \in Tokens |-> IF sessions[t] = None THEN None ELSE sessions[t].user]
DeadTokens == {t \in Tokens : sessions[t] # None /\ ~Live(sessions[t])}
HeldTokens == [r \in Requests |-> IF arrived[r].live THEN req[r].token ELSE None]
Spent == {r \in Requests : req[r].step = "create" /\ req[r].token # None}
Families == INSTANCE TokenFamilies WITH
    Users <- UserIds, owner <- Owner, dead <- DeadTokens, held <- HeldTokens, spent <- Spent

(* However requests interleave, whichever statements fail or lose their    *)
(* answers: a successor is the same user's, its token was given up before, *)
(* by the same request, which arrived while the token was alive; and a     *)
(* token that is dead stays so.                                            *)
ImplementsTokenFamilies == Families!Spec
=============================================================================
