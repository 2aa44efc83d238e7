-------------------------- MODULE TokenServiceProofs --------------------------
(* Theorems about TokenService, for every value of its constants.          *)
EXTENDS TokenService, TLAPS

-----------------------------------------------------------------------------
(* The inductive invariant: the properties of TokenService, and what a     *)
(* request in progress knows that makes each of them stable.               *)

(* A request holds what its next step dereferences, and a token that a     *)
(* client holds or presents has a row.                                     *)
Defined ==
    /\ \A t \in issued : sessions[t] # None
    /\ \A r \in Requests :
        /\ req[r].token # None => sessions[req[r].token] # None
        /\ req[r].step \in {"find", "check", "revoke"} => req[r].token # None
        /\ req[r].step = "check" => req[r].found # None
        /\ req[r].step \in {"revoke", "create", "deactivated", "handle"} =>
            req[r].user # None
        /\ req[r].step = "auth" => req[r].claims # None

(* RotateRefreshToken reaches the INSERT with the old session revoked.     *)
RevokedBeforeCreate ==
    \A r \in Requests :
        req[r].step = "create" /\ req[r].token # None => sessions[req[r].token].revoked

(* A token dead on arrival stays dead, in the table and as read from it.   *)
DeadOnArrival ==
    \A r \in Requests :
        req[r].token # None /\ ~arrived[r].live =>
            /\ ~Live(sessions[req[r].token])
            /\ req[r].step = "check" => Refused(req[r].found)

(* A handler that minted a successor of the token it now holds has not     *)
(* read the session yet, or has read that it is revoked.                   *)
SuccessorSeen ==
    \A r \in Requests, c \in Tokens :
        parent[c] # None /\ parent[c] = req[r].token /\ minter[c] = r =>
            req[r].step = "find" \/ (req[r].step = "check" /\ req[r].found.revoked)

RowsWitnessed ==
    \A r \in Requests : req[r] # Quiet => Rows(users) \subseteq arrived[r].rows

HasRow(id) == \E a \in Accounts : users[a] # None /\ users[a].id = id

(* The user of a session about to be inserted is still in the table.       *)
UserStays ==
    \A r \in Requests : req[r].step \in {"revoke", "create"} => HasRow(req[r].user.id)

(* A rotation is on behalf of the user of the session that it rotates.     *)
SameUser ==
    \A r \in Requests :
        req[r].token # None =>
            /\ req[r].step = "check" => req[r].found.user = sessions[req[r].token].user
            /\ req[r].step \in {"revoke", "create"} =>
                    req[r].user.id = sessions[req[r].token].user

UndrawnHaveNoParent == \A t \in Tokens : sessions[t] = None => parent[t] = None

BornInThePast == \A t \in Tokens : born[t] <= boots

IInv ==
    /\ TypeOK /\ Defined
    /\ OnlyLeavesLive /\ RevokedBeforeCreate
    /\ ReplayNeverSucceeds /\ DeadOnArrival
    /\ OneSuccessorPerHandler /\ SuccessorSeen
    /\ ActsOnCurrentUser /\ RowsWitnessed
    /\ SessionsReferenceUsers /\ UserStays /\ BornInThePast
    /\ SameUser /\ UndrawnHaveNoParent

-----------------------------------------------------------------------------
(* Types                                                                   *)

(* Rows of users are rows, and hold only rows.                             *)
LEMMA RowsAreRows ==
    ASSUME NEW table \in [Accounts -> UserRow \cup {None}]
    PROVE  Rows(table) \subseteq UserRow
BY DEF Rows

LEMMA WitnessedType ==
    ASSUME TypeOK, users' \in [Accounts -> UserRow \cup {None}]
    PROVE  Witnessed \in [Requests -> Arrival]
<1>1. Rows(users') \subseteq UserRow
    BY DEF Rows
<1>. QED  BY <1>1 DEF Witnessed, TypeOK, Arrival

LEMMA QuietType == Quiet \in Req
BY DEF Quiet, Req, Steps

LEMMA RevokeAllOfType ==
    ASSUME TypeOK, NEW id \in UserIds
    PROVE  RevokeAllOf(id) \in [Tokens -> Session \cup {None}]
BY DEF RevokeAllOf, TypeOK, Session

LEMMA BeginType ==
    ASSUME TypeOK, NEW r \in Requests, NEW request \in Req, NEW live \in BOOLEAN,
           users' \in [Accounts -> UserRow \cup {None}],
           Begin(r, request, live)
    PROVE  req' \in [Requests -> Req] /\ arrived' \in [Requests -> Arrival]
<1>1. Rows(users') \subseteq UserRow
    BY DEF Rows
<1>2. Witnessed \in [Requests -> Arrival]
    BY WitnessedType
<1>3. [live |-> live, rows |-> Rows(users')] \in Arrival
    BY <1>1 DEF Arrival
<1>. QED  BY <1>2, <1>3 DEF Begin, TypeOK

LEMMA AnswerType ==
    ASSUME TypeOK, NEW r \in Requests, Answer(r)
    PROVE  req' \in [Requests -> Req] /\ arrived' \in [Requests -> Arrival]
BY QuietType DEF Answer, TypeOK, NoArrival, Arrival

LEMMA FieldTypes ==
    ASSUME TypeOK, NEW r \in Requests
    PROVE  /\ req[r] \in Req
           /\ req[r].token \in Tokens \cup {None}
           /\ req[r].found \in Session \cup {None}
           /\ req[r].claims \in Claims \cup {None}
           /\ req[r].user \in UserRow \cup {None}
BY DEF TypeOK, Req

(* The updates of a request in progress keep its type.                     *)
LEMMA ReqUpdates ==
    ASSUME NEW q \in Req, NEW step \in Steps,
           NEW found \in Session \cup {None}, NEW user \in UserRow \cup {None}
    PROVE  /\ [q EXCEPT !.step = step] \in Req
           /\ [q EXCEPT !.step = step, !.found = found] \in Req
           /\ [q EXCEPT !.step = step, !.user = user] \in Req
           /\ [q EXCEPT !.user = user, !.step = step] \in Req
BY DEF Req

LEMMA RevokedType ==
    ASSUME TypeOK, NEW t \in Tokens, sessions[t] # None
    PROVE  [sessions EXCEPT ![t].revoked = TRUE] \in [Tokens -> Session \cup {None}]
<1>1. sessions[t] \in Session
    BY DEF TypeOK
<1>2. [sessions[t] EXCEPT !.revoked = TRUE] \in Session
    BY <1>1 DEF Session
<1>. QED  BY <1>2 DEF TypeOK

LEMMA UpsertedRowsType ==
    ASSUME TypeOK, NEW a \in Accounts
    PROVE  UpsertedRows(a) \subseteq UserRow
<1>1. CASE users[a] = None
  <2>1. \A id \in UserIds : NewRow(id, "analyst") \in UserRow
    BY DEF NewRow, UserRow, Roles
  <2>. QED  BY <1>1, <2>1 DEF UpsertedRows
<1>2. CASE users[a] # None
    BY <1>2 DEF UpsertedRows, TypeOK
<1>. QED  BY <1>1, <1>2

LEMMA InitTypeOK == Init => TypeOK
<1>. SUFFICES ASSUME Init PROVE TypeOK
    OBVIOUS
<1>1. PICK ids \in Draws(UserIds) :
        users = SeedTestUsers(NoUsers, ids)
            /\ usedIds = {ids[a] : a \in SeededAdmins \cup SeededAnalysts}
    BY DEF Init
<1>2. ids \in [SeededAdmins \cup SeededAnalysts -> UserIds]
    BY DEF Draws
<1>3. users \in [Accounts -> UserRow \cup {None}]
    BY <1>1, <1>2 DEF SeedTestUsers, NoUsers, NewRow, UserRow, Roles
<1>4. usedIds \in SUBSET UserIds
    BY <1>1, <1>2
<1>. QED  BY <1>3, <1>4, QuietType DEF Init, TypeOK, NoArrival, Arrival

LEMMA NextTypeOK == TypeOK /\ Defined /\ [Next]_vars => TypeOK'
<1>. SUFFICES ASSUME TypeOK, Defined, [Next]_vars PROVE TypeOK'
    OBVIOUS
<1>. USE DEF TypeOK
<1>1. ASSUME NEW r \in Requests, NEW t \in Tokens, RefreshToken(r, t) PROVE TypeOK'
  <2>1. [Quiet EXCEPT !.step = "find", !.token = t] \in Req
    BY DEF Quiet, Req, Steps
  <2>2. Live(sessions[t]) \in BOOLEAN
    BY <1>1 DEF RefreshToken, Defined, Live, Expired, Session
  <2>. QED  BY <1>1, <2>1, <2>2, BeginType DEF RefreshToken
<1>2. ASSUME NEW r \in Requests, FindSession(r) PROVE TypeOK'
  <2>1. sessions[req[r].token] \in Session \cup {None}
    BY <1>2, FieldTypes DEF FindSession, Defined
  <2>2. req' = [req EXCEPT ![r] = [req[r] EXCEPT !.step = "check",
                                              !.found = sessions[req[r].token]]]
    BY <1>2 DEF FindSession
  <2>3. [req[r] EXCEPT !.step = "check", !.found = sessions[req[r].token]] \in Req
    BY <2>1, FieldTypes, ReqUpdates DEF Steps
  <2>. QED  BY <1>2, <2>2, <2>3 DEF FindSession
<1>3. ASSUME NEW r \in Requests, RefuseRefresh(r) PROVE TypeOK'
  <2>1. req[r].found.user \in UserIds
    BY <1>3 DEF RefuseRefresh, Defined, Req, Session
  <2>. QED  BY <1>3, <2>1, RevokeAllOfType, AnswerType DEF RefuseRefresh
<1>4. ASSUME NEW r \in Requests, FindUser(r) PROVE TypeOK'
  <2>1. CASE Answer(r)
    BY <1>4, <2>1, AnswerType DEF FindUser
  <2>2. ASSUME NEW row \in RowsById(req[r].found.user),
               req' = [req EXCEPT ![r].step = "revoke", ![r].user = row],
               UNCHANGED arrived
        PROVE  TypeOK'
    <3>1. row \in UserRow
      BY RowsAreRows DEF RowsById
    <3>2. req' = [req EXCEPT ![r] = [req[r] EXCEPT !.step = "revoke", !.user = row]]
      BY <2>2
    <3>3. [req[r] EXCEPT !.step = "revoke", !.user = row] \in Req
      BY <3>1, FieldTypes, ReqUpdates DEF Steps
    <3>. QED  BY <1>4, <2>2, <3>2, <3>3 DEF FindUser
  <2>. QED  BY <1>4, <2>1, <2>2 DEF FindUser
<1>5. ASSUME NEW r \in Requests, RevokeOldSession(r) PROVE TypeOK'
  <2>1. sessions' \in [Tokens -> Session \cup {None}]
    BY <1>5, RevokedType, FieldTypes DEF RevokeOldSession, Defined
  <2>2. req' \in [Requests -> Req] /\ arrived' \in [Requests -> Arrival]
    BY <1>5, AnswerType DEF RevokeOldSession, Continue, Req, Steps
  <2>. QED  BY <1>5, <2>1, <2>2 DEF RevokeOldSession
<1>6. ASSUME NEW r \in Requests, GenerateTokenPair(r) PROVE TypeOK'
  <2>1. req[r].user \in UserRow
    BY <1>6 DEF GenerateTokenPair, Defined, Req
  <2>2. generateToken(req[r].user, AccessTTL) \in Claims
    BY <2>1, ConstantsAssumption DEF generateToken, Claims, UserRow
  <2>3. [user |-> req[r].user.id, createdAt |-> now,
         expiresAt |-> now + RefreshTTL, revoked |-> FALSE] \in Session
    BY <2>1, ConstantsAssumption DEF Session, UserRow
  <2>4. req[r].token \in Tokens \cup {None}
    BY DEF Req
  <2>. QED  BY <1>6, <2>2, <2>3, <2>4, AnswerType DEF GenerateTokenPair
<1>7. ASSUME NEW r \in Requests, NEW a \in Accounts, Login(r, a) PROVE TypeOK'
  <2>1. PICK row \in UpsertedRows(a) :
            /\ users' = [users EXCEPT ![a] = row]
            /\ usedIds' = usedIds \cup {row.id}
            /\ Begin(r, [Quiet EXCEPT !.step = "create", !.user = row], FALSE)
    BY <1>7 DEF Login
  <2>2. row \in UserRow
    BY <2>1, UpsertedRowsType
  <2>3. users' \in [Accounts -> UserRow \cup {None}] /\ usedIds' \in SUBSET UserIds
    BY <2>1, <2>2 DEF UserRow
  <2>4. [Quiet EXCEPT !.step = "create", !.user = row] \in Req
    BY <2>2 DEF Quiet, Req, Steps
  <2>. QED  BY <1>7, <2>1, <2>3, <2>4, BeginType DEF Login
<1>8. ASSUME NEW r \in Requests, NEW a \in Accounts, IssueTestToken(r, a) PROVE TypeOK'
  <2>1. [Quiet EXCEPT !.step = "create", !.user = users[a]] \in Req
    BY <1>8 DEF IssueTestToken, Quiet, Req, Steps
  <2>. QED  BY <1>8, <2>1, BeginType DEF IssueTestToken
<1>9. ASSUME NEW r \in Requests, NEW j \in jwts, AuthenticateJWT(r, j) PROVE TypeOK'
  <2>1. [Quiet EXCEPT !.step = "auth", !.claims = j] \in Req
    BY DEF Quiet, Req, Steps
  <2>. QED  BY <1>9, <2>1, BeginType DEF AuthenticateJWT
<1>10. ASSUME NEW r \in Requests, LoadUser(r) PROVE TypeOK'
  <2>1. CASE Answer(r)
    BY <1>10, <2>1, AnswerType DEF LoadUser
  <2>2. ASSUME NEW row \in RowsById(req[r].claims.user),
               req' = [req EXCEPT ![r].user = row,
                         ![r].step = IF row.active THEN "handle" ELSE "deactivated"],
               UNCHANGED arrived
        PROVE  TypeOK'
    <3>1. row \in UserRow
      BY RowsAreRows DEF RowsById
    <3>2. PICK step \in Steps :
              req' = [req EXCEPT ![r] = [req[r] EXCEPT !.user = row, !.step = step]]
      BY <2>2 DEF Steps
    <3>3. [req[r] EXCEPT !.user = row, !.step = step] \in Req
      BY <3>1, <3>2, FieldTypes, ReqUpdates
    <3>. QED  BY <1>10, <2>2, <3>2, <3>3 DEF LoadUser
  <2>. QED  BY <1>10, <2>1, <2>2 DEF LoadUser
<1>11. ASSUME NEW r \in Requests, RefuseDeactivated(r) PROVE TypeOK'
  <2>1. req[r].user.id \in UserIds
    BY <1>11 DEF RefuseDeactivated, Defined, Req, UserRow
  <2>. QED  BY <1>11, <2>1, RevokeAllOfType, AnswerType DEF RefuseDeactivated
<1>12. ASSUME NEW r \in Requests, Serve(r) PROVE TypeOK'
    BY <1>12, AnswerType DEF Serve
<1>13. ASSUME NEW r \in Requests, RequestFails(r) PROVE TypeOK'
    BY <1>13, AnswerType DEF RequestFails
<1>14. ASSUME NEW t \in Tokens, Logout(t) PROVE TypeOK'
    BY <1>14 DEF Logout, Defined, Session
<1>15. ASSUME NEW a \in Accounts, NEW setting \in Settings, SetPrivileges(a, setting)
       PROVE  TypeOK'
  <2>1. users' \in [Accounts -> UserRow \cup {None}]
    BY <1>15, ConstantsAssumption DEF SetPrivileges, UserRow
  <2>. QED  BY <1>15, <2>1, WitnessedType DEF SetPrivileges
<1>16. CASE Tick
    BY <1>16 DEF Tick
<1>17. CASE Restart
  <2>1. PICK ids \in Draws(UserIds \ usedIds), table \in {NoUsers, users} :
            /\ users' = SeedTestUsers(table, ids)
            /\ usedIds' = usedIds \cup {ids[a] : a \in SeededAdmins \cup SeededAnalysts}
    BY <1>17 DEF Restart
  <2>2. ids \in [SeededAdmins \cup SeededAnalysts -> UserIds]
    BY DEF Draws
  <2>3. table \in [Accounts -> UserRow \cup {None}]
    BY DEF NoUsers
  <2>4. users' \in [Accounts -> UserRow \cup {None}]
    BY <2>1, <2>2, <2>3 DEF SeedTestUsers, NewRow, UserRow, Roles
  <2>5. usedIds' \in SUBSET UserIds
    BY <2>1, <2>2
  <2>. QED  BY <1>17, <2>4, <2>5, QuietType DEF Restart, NoArrival, Arrival
<1>18. CASE UNCHANGED vars
    BY <1>18 DEF vars
<1>. QED  BY <1>1, <1>2, <1>3, <1>4, <1>5, <1>6, <1>7, <1>8, <1>9, <1>10, <1>11,
             <1>12, <1>13, <1>14, <1>15, <1>16, <1>17, <1>18 DEF Next

-----------------------------------------------------------------------------
(* What a step can do to a session, to users and to a request              *)

LEMMA SessionWriters ==
    ASSUME [Next]_vars
    PROVE  \/ sessions' = sessions
           \/ \E r \in Requests : \/ RevokeOldSession(r) \/ GenerateTokenPair(r)
                                   \/ RefuseRefresh(r) \/ RefuseDeactivated(r)
           \/ \E u \in Tokens : Logout(u)
BY DEF Next, vars, RefreshToken, FindSession, FindUser, Login, IssueTestToken,
       AuthenticateJWT, LoadUser, Serve, RequestFails, Tick, SetPrivileges, Restart

(* A row of sessions is never deleted; its user and expiry never change;   *)
(* is_revoked only goes from false to true; the clock does not go back.    *)
LEMMA SessionsOnlyRevoked ==
    ASSUME TypeOK, Defined, [Next]_vars
    PROVE  /\ now <= now'
           /\ \A t \in Tokens : sessions[t] # None =>
                /\ sessions'[t] # None
                /\ sessions'[t].user = sessions[t].user
                /\ sessions'[t].expiresAt = sessions[t].expiresAt
                /\ sessions[t].revoked => sessions'[t].revoked
<1>. DEFINE Kept(t) == /\ sessions'[t] # None
                       /\ sessions'[t].user = sessions[t].user
                       /\ sessions'[t].expiresAt = sessions[t].expiresAt
                       /\ sessions[t].revoked => sessions'[t].revoked
<1>1. now <= now'
  <2>1. now' = now \/ Tick
    BY DEF Next, vars, RefreshToken, FindSession, RefuseRefresh, FindUser,
           RevokeOldSession, GenerateTokenPair, Login, IssueTestToken, Logout,
           AuthenticateJWT, LoadUser, RefuseDeactivated, Serve, RequestFails,
           SetPrivileges, Restart
  <2>. QED  BY <2>1 DEF TypeOK, Tick
<1>2. SUFFICES ASSUME NEW t \in Tokens, sessions[t] # None PROVE Kept(t)
    BY <1>1
<1>3. sessions[t] \in Session /\ [sessions[t] EXCEPT !.revoked = TRUE] \in Session
    BY <1>2 DEF TypeOK, Session
<1>4. ASSUME sessions'[t] \in {sessions[t], [sessions[t] EXCEPT !.revoked = TRUE]}
      PROVE  Kept(t)
    BY <1>2, <1>3, <1>4, NoneAssumption DEF Session
<1>5. ASSUME NEW id, sessions' = RevokeAllOf(id) PROVE Kept(t)
    BY <1>4, <1>5 DEF RevokeAllOf
<1>6. ASSUME NEW u \in Tokens, sessions' = [sessions EXCEPT ![u].revoked = TRUE]
      PROVE  Kept(t)
    BY <1>4, <1>6 DEF TypeOK
<1>7. CASE sessions' = sessions
    BY <1>4, <1>7
<1>8. ASSUME NEW r \in Requests, RevokeOldSession(r) PROVE Kept(t)
  <2>1. req[r].token \in Tokens
    BY <1>8, FieldTypes DEF RevokeOldSession, Defined
  <2>. QED  BY <1>6, <1>8, <2>1 DEF RevokeOldSession
<1>9. ASSUME NEW r \in Requests, GenerateTokenPair(r) PROVE Kept(t)
  <2>1. sessions'[t] = sessions[t]
    BY <1>2, <1>9 DEF GenerateTokenPair, TypeOK
  <2>. QED  BY <1>4, <2>1
<1>. HIDE DEF Kept
<1>10. CASE \E r \in Requests : RefuseRefresh(r) \/ RefuseDeactivated(r)
    BY <1>5, <1>10 DEF RefuseRefresh, RefuseDeactivated
<1>11. CASE \E u \in Tokens : Logout(u)
    BY <1>6, <1>11 DEF Logout
<1>. QED  BY <1>7, <1>8, <1>9, <1>10, <1>11, SessionWriters

(* Until the next start, a user keeps its row and its id.                  *)
LEMMA UsersKeepIds ==
    ASSUME TypeOK, [Next]_vars
    PROVE  \/ Restart
           \/ /\ boots' = boots
              /\ \A id \in UserIds : HasRow(id) => HasRow(id)'
<1>1. CASE users' = users /\ boots' = boots
    BY <1>1 DEF HasRow
<1>2. ASSUME NEW r \in Requests, NEW a \in Accounts, Login(r, a)
      PROVE  boots' = boots /\ \A id \in UserIds : HasRow(id) => HasRow(id)'
  <2>1. PICK row \in UpsertedRows(a) : users' = [users EXCEPT ![a] = row]
    BY <1>2 DEF Login
  <2>2. users[a] # None => row = users[a]
    BY <2>1 DEF UpsertedRows
  <2>. QED  BY <1>2, <2>1, <2>2 DEF Login, HasRow, TypeOK
<1>3. ASSUME NEW a \in Accounts, NEW setting \in Settings, SetPrivileges(a, setting)
      PROVE  boots' = boots /\ \A id \in UserIds : HasRow(id) => HasRow(id)'
  <2>1. users[a] \in UserRow
    BY <1>3 DEF SetPrivileges, TypeOK
  <2>2. users'[a] \in UserRow /\ users'[a].id = users[a].id
    BY <1>3, <2>1, ConstantsAssumption DEF SetPrivileges, TypeOK, UserRow
  <2>3. \A b \in Accounts : b # a => users'[b] = users[b]
    BY <1>3 DEF SetPrivileges, TypeOK
  <2>. QED  BY <1>3, <2>2, <2>3, NoneAssumption DEF SetPrivileges, HasRow
<1>4. \/ Restart
      \/ users' = users /\ boots' = boots
      \/ \E r \in Requests, a \in Accounts : Login(r, a)
      \/ \E a \in Accounts, setting \in Settings : SetPrivileges(a, setting)
    BY DEF Next, vars, RefreshToken, FindSession, FindUser, RefuseRefresh,
           RevokeOldSession, GenerateTokenPair, IssueTestToken, Logout,
           AuthenticateJWT, LoadUser, RefuseDeactivated, Serve, RequestFails, Tick
<1>. QED  BY <1>1, <1>2, <1>3, <1>4

(* A request waits while others move; ends; or starts without a refresh    *)
(* token, as a user that is in the table.                                  *)
Waits(r) ==
    /\ req'[r] = req[r]
    /\ arrived'[r].live = arrived[r].live
    /\ arrived[r].rows \subseteq arrived'[r].rows
    /\ users' = users \/ req[r] = Quiet \/ Rows(users') \subseteq arrived'[r].rows

Starts(r) ==
    /\ req'[r].token = None
    /\ \/ req'[r].step = "auth" /\ req'[r].claims # None
       \/ req'[r].step = "create" /\ req'[r].user \in UserRow /\ HasRow(req[r].user.id)'
    /\ arrived'[r].rows = Rows(users')

Moves(r) ==
    \/ Waits(r) \/ Starts(r) \/ req'[r] = Quiet
    \/ \E t \in Tokens : RefreshToken(r, t)
    \/ FindSession(r) \/ FindUser(r) \/ RevokeOldSession(r) \/ LoadUser(r)

LEMMA WitnessedGrows ==
    ASSUME TypeOK, NEW r \in Requests
    PROVE  /\ Witnessed[r].live = arrived[r].live
           /\ arrived[r].rows \subseteq Witnessed[r].rows
           /\ req[r] # Quiet => Rows(users') \subseteq Witnessed[r].rows
BY DEF Witnessed, TypeOK, Arrival

LEMMA BeginMoves ==
    ASSUME TypeOK, NEW r \in Requests, NEW q \in Requests, NEW request, NEW live,
           Begin(q, request, live)
    PROVE  \/ r # q /\ Waits(r)
           \/ r = q /\ req'[r] = request /\ arrived'[r].rows = Rows(users')
<1>1. CASE r # q
    BY <1>1, WitnessedGrows DEF Begin, Waits, TypeOK, Witnessed
<1>2. CASE r = q
    BY <1>2 DEF Begin, TypeOK, Witnessed
<1>. QED  BY <1>1, <1>2

LEMMA AnswerMoves ==
    ASSUME TypeOK, NEW r \in Requests, NEW q \in Requests, Answer(q), users' = users
    PROVE  Moves(r)
<1>1. CASE r # q
    BY <1>1 DEF Answer, Moves, Waits, TypeOK
<1>2. CASE r = q
    BY <1>2 DEF Answer, Moves, TypeOK
<1>. QED  BY <1>1, <1>2

LEMMA NextMoves ==
    ASSUME TypeOK, Defined, [Next]_vars, NEW r \in Requests
    PROVE  Moves(r)
<1>1. CASE users' = users /\ req' = req /\ arrived' = arrived
    BY <1>1 DEF Moves, Waits
<1>2. ASSUME NEW q \in Requests, users' = users, Answer(q) PROVE Moves(r)
    BY <1>2, AnswerMoves
<1>3. ASSUME NEW q \in Requests, NEW t \in Tokens, RefreshToken(q, t) PROVE Moves(r)
  <2>1. CASE r = q
    BY <1>3, <2>1 DEF Moves
  <2>2. CASE r # q
    BY <1>3, <2>2, BeginMoves DEF RefreshToken, Moves
  <2>. QED  BY <2>1, <2>2
<1>4. ASSUME NEW q \in Requests,
             FindSession(q) \/ FindUser(q) \/ RevokeOldSession(q) \/ LoadUser(q)
      PROVE  Moves(r)
  <2>1. CASE r = q
    BY <1>4, <2>1 DEF Moves
  <2>2. CASE r # q
    BY <1>4, <2>2 DEF Moves, Waits, FindSession, FindUser, RevokeOldSession,
           LoadUser, Answer, Continue, TypeOK
  <2>. QED  BY <2>1, <2>2
<1>5. ASSUME NEW q \in Requests, NEW a \in Accounts, Login(q, a) PROVE Moves(r)
  <2>. DEFINE UserStarts(row) == [Quiet EXCEPT !.step = "create", !.user = row]
  <2>1. PICK row \in UpsertedRows(a) :
            users' = [users EXCEPT ![a] = row] /\ Begin(q, UserStarts(row), FALSE)
    BY <1>5 DEF Login
  <2>2. row \in UserRow
    BY <2>1, UpsertedRowsType
  <2>3. users'[a] = row /\ row # None
    BY <2>1, <2>2, NoneAssumption DEF TypeOK
  <2>5. UserStarts(row).step = "create" /\ UserStarts(row).token = None
            /\ UserStarts(row).user = row
    BY DEF Quiet
  <2>. HIDE DEF UserStarts
  <2>6. CASE r # q
    BY <2>1, <2>6, BeginMoves DEF Moves
  <2>7. CASE r = q
    <3>1. req'[r] = UserStarts(row) /\ arrived'[r].rows = Rows(users')
      BY <2>1, <2>7, BeginMoves
    <3>2. HasRow(req[r].user.id)'
      BY <2>3, <2>5, <3>1 DEF HasRow
    <3>. QED  BY <2>2, <2>5, <3>1, <3>2 DEF Moves, Starts
  <2>. QED  BY <2>6, <2>7
<1>6. ASSUME NEW q \in Requests, NEW a \in Accounts, IssueTestToken(q, a) PROVE Moves(r)
  <2>. DEFINE request == [Quiet EXCEPT !.step = "create", !.user = users[a]]
  <2>0. Begin(q, request, FALSE) /\ users' = users
    BY <1>6 DEF IssueTestToken
  <2>1. users[a] \in UserRow
    BY <1>6 DEF IssueTestToken, TypeOK
  <2>3. request.step = "create" /\ request.token = None /\ request.user = users[a]
    BY DEF Quiet
  <2>. HIDE DEF request
  <2>4. CASE r # q
    BY <2>0, <2>4, BeginMoves DEF Moves
  <2>5. CASE r = q
    <3>1. req'[r] = request /\ arrived'[r].rows = Rows(users')
      BY <2>0, <2>5, BeginMoves
    <3>2. HasRow(req[r].user.id)'
      BY <1>6, <2>3, <3>1 DEF IssueTestToken, HasRow
    <3>. QED  BY <3>1, <2>1, <2>3, <3>2 DEF Moves, Starts
  <2>. QED  BY <2>4, <2>5
<1>7. ASSUME NEW q \in Requests, NEW j \in jwts, AuthenticateJWT(q, j) PROVE Moves(r)
  <2>. DEFINE request == [Quiet EXCEPT !.step = "auth", !.claims = j]
  <2>1. Begin(q, request, FALSE) /\ users' = users
    BY <1>7 DEF AuthenticateJWT
  <2>2. j # None
    BY NoneAssumption DEF TypeOK
  <2>3. request.step = "auth" /\ request.token = None /\ request.claims = j
    BY DEF Quiet
  <2>. HIDE DEF request
  <2>4. CASE r # q
    BY <2>1, <2>4, BeginMoves DEF Moves
  <2>5. CASE r = q
    <3>1. req'[r] = request /\ arrived'[r].rows = Rows(users')
      BY <2>1, <2>5, BeginMoves
    <3>. QED  BY <3>1, <2>1, <2>2, <2>3 DEF Moves, Starts
  <2>. QED  BY <2>4, <2>5
<1>8. ASSUME NEW a \in Accounts, NEW setting \in Settings, SetPrivileges(a, setting)
      PROVE  Moves(r)
    BY <1>8, WitnessedGrows DEF SetPrivileges, Moves, Waits
<1>9. CASE Restart
    BY <1>9 DEF Restart, Moves
<1>10. CASE \E q \in Requests : RefuseRefresh(q) \/ RefuseDeactivated(q) \/ Serve(q)
                                \/ RequestFails(q) \/ GenerateTokenPair(q)
    BY <1>2, <1>10 DEF RefuseRefresh, RefuseDeactivated, Serve, RequestFails,
                       GenerateTokenPair
<1>11. CASE Tick \/ UNCHANGED vars \/ \E t \in Tokens : Logout(t)
    BY <1>1, <1>11 DEF Tick, vars, Logout
<1>. QED  BY <1>3, <1>4, <1>5, <1>6, <1>7, <1>8, <1>9, <1>10, <1>11 DEF Next

(* What each move of a request leaves in it.                               *)
LEMMA RefreshMoves ==
    ASSUME TypeOK, NEW r \in Requests, NEW t \in Tokens, RefreshToken(r, t)
    PROVE  /\ req'[r].step = "find" /\ req'[r].token = t /\ req'[r].user = None
           /\ arrived'[r].live = Live(sessions[t]) /\ arrived'[r].rows = Rows(users')
           /\ t \in issued /\ sessions' = sessions /\ now' = now /\ users' = users
BY DEF RefreshToken, Begin, Quiet, TypeOK, Witnessed

LEMMA FindSessionMoves ==
    ASSUME TypeOK, NEW r \in Requests, FindSession(r)
    PROVE  /\ req[r].step = "find" /\ req'[r].step = "check"
           /\ req'[r].token = req[r].token /\ req'[r].user = req[r].user
           /\ req'[r].found = sessions[req[r].token]
           /\ arrived' = arrived /\ sessions' = sessions /\ now' = now
           /\ users' = users /\ req[r] # Quiet
BY FieldTypes DEF FindSession, TypeOK, Req, Quiet

LEMMA FindUserMoves ==
    ASSUME TypeOK, NEW r \in Requests, FindUser(r), req'[r] # Quiet
    PROVE  /\ req[r].step = "check" /\ ~Refused(req[r].found)
           /\ req'[r].step = "revoke" /\ req'[r].token = req[r].token
           /\ req'[r].user \in Rows(users) /\ req'[r].user.active
           /\ req'[r].user.id = req[r].found.user
           /\ arrived' = arrived /\ sessions' = sessions /\ now' = now
           /\ users' = users /\ req[r] # Quiet
<1>1. PICK row \in RowsById(req[r].found.user) :
        /\ row.active
        /\ req' = [req EXCEPT ![r].step = "revoke", ![r].user = row]
        /\ UNCHANGED arrived
    BY DEF FindUser, Answer, TypeOK
<1>2. row \in Rows(users) /\ row.id = req[r].found.user
    BY DEF RowsById
<1>3. req'[r].step = "revoke" /\ req'[r].token = req[r].token /\ req'[r].user = row
    BY <1>1, FieldTypes DEF TypeOK, Req
<1>. QED  BY <1>1, <1>2, <1>3 DEF FindUser, Quiet

LEMMA RevokeMoves ==
    ASSUME TypeOK, Defined, NEW r \in Requests, RevokeOldSession(r), req'[r] # Quiet
    PROVE  /\ req[r].step = "revoke" /\ req'[r].step = "create"
           /\ req'[r].token = req[r].token /\ req'[r].user = req[r].user
           /\ sessions'[req[r].token].revoked
           /\ arrived' = arrived /\ now' = now /\ users' = users /\ req[r] # Quiet
<1>1. sessions[req[r].token] \in Session /\ req[r].token \in Tokens
    BY FieldTypes DEF RevokeOldSession, Defined, TypeOK
<1>2. sessions'[req[r].token].revoked
    BY <1>1 DEF RevokeOldSession, TypeOK, Session
<1>. QED  BY <1>2, FieldTypes DEF RevokeOldSession, Continue, Answer, TypeOK, Req, Quiet

LEMMA LoadUserMoves ==
    ASSUME TypeOK, NEW r \in Requests, LoadUser(r), req'[r] # Quiet
    PROVE  /\ req[r].step = "auth" /\ req'[r].token = req[r].token
           /\ req'[r].user \in Rows(users)
           /\ req'[r].step = IF req'[r].user.active THEN "handle" ELSE "deactivated"
           /\ arrived' = arrived /\ sessions' = sessions /\ now' = now
           /\ users' = users /\ req[r] # Quiet
<1>1. PICK row \in RowsById(req[r].claims.user) :
        /\ req' = [req EXCEPT ![r].user = row,
                     ![r].step = IF row.active THEN "handle" ELSE "deactivated"]
        /\ UNCHANGED arrived
    BY DEF LoadUser, Answer, TypeOK
<1>2. row \in Rows(users)
    BY DEF RowsById
<1>3. /\ req'[r].user = row /\ req'[r].token = req[r].token
      /\ req'[r].step = IF row.active THEN "handle" ELSE "deactivated"
    BY <1>1, FieldTypes DEF TypeOK, Req
<1>. QED  BY <1>1, <1>2, <1>3 DEF LoadUser, Quiet

-----------------------------------------------------------------------------
(* Each conjunct of the invariant is preserved                             *)

LEMMA MintedType ==
    ASSUME TypeOK, Defined, NEW r \in Requests, GenerateTokenPair(r)
    PROVE  \E t \in Tokens :
            /\ sessions[t] = None /\ sessions'[t] # None
            /\ sessions'[t].user = req[r].user.id
            /\ \A u \in Tokens : u # t => sessions'[u] = sessions[u]
            /\ parent' = [parent EXCEPT ![t] = req[r].token]
            /\ minter' = [minter EXCEPT ![t] = r]
            /\ born' = [born EXCEPT ![t] = boots]
            /\ issued' \subseteq issued \cup {t}
<1>. DEFINE minted == [user |-> req[r].user.id, createdAt |-> now,
                      expiresAt |-> now + RefreshTTL, revoked |-> FALSE]
<1>1. req[r].user \in UserRow
    BY FieldTypes DEF GenerateTokenPair, Defined
<1>2. minted \in Session
    BY <1>1, ConstantsAssumption DEF TypeOK, Session, UserRow
<1>3. minted # None
    BY <1>2, NoneAssumption
<1>4. PICK t \in Tokens :
        /\ sessions[t] = None
        /\ sessions' = [sessions EXCEPT ![t] = minted]
        /\ parent' = [parent EXCEPT ![t] = req[r].token]
        /\ minter' = [minter EXCEPT ![t] = r]
        /\ born' = [born EXCEPT ![t] = boots]
        /\ issued' \subseteq issued \cup {t}
    BY DEF GenerateTokenPair
<1>5. minted.user = req[r].user.id
    OBVIOUS
<1>. HIDE DEF minted
<1>. QED  BY <1>3, <1>4, <1>5 DEF TypeOK

(* Only GenerateTokenPair hands out a token or gives a session a parent.   *)
LEMMA OnlyGenerateMints ==
    ASSUME [Next]_vars
    PROVE  \/ /\ issued' = issued /\ parent' = parent
              /\ minter' = minter /\ born' = born
           \/ \E r \in Requests : GenerateTokenPair(r)
BY DEF Next, vars, RefreshToken, FindSession, RefuseRefresh, FindUser, RevokeOldSession,
       Login, IssueTestToken, Logout, AuthenticateJWT, LoadUser, RefuseDeactivated,
       Serve, RequestFails, Tick, SetPrivileges, Restart

LEMMA OnlyGenerateInserts ==
    ASSUME TypeOK, Defined, [Next]_vars, NEW t \in Tokens,
           sessions[t] = None, sessions'[t] # None
    PROVE  \E r \in Requests : GenerateTokenPair(r)
<1>1. ASSUME NEW id, sessions' = RevokeAllOf(id) PROVE FALSE
    BY <1>1 DEF RevokeAllOf
<1>2. ASSUME NEW u \in Tokens, sessions[u] # None,
             sessions' = [sessions EXCEPT ![u].revoked = TRUE]
      PROVE  FALSE
    BY <1>2 DEF TypeOK
<1>3. ASSUME NEW r \in Requests, RevokeOldSession(r) PROVE FALSE
  <2>1. req[r].token \in Tokens /\ sessions[req[r].token] # None
    BY <1>3, FieldTypes DEF RevokeOldSession, Defined
  <2>. QED  BY <1>2, <1>3, <2>1 DEF RevokeOldSession
<1>4. ASSUME NEW u \in Tokens, Logout(u) PROVE FALSE
    BY <1>2, <1>4 DEF Logout, Defined
<1>5. ASSUME NEW r \in Requests, RefuseRefresh(r) \/ RefuseDeactivated(r) PROVE FALSE
    BY <1>1, <1>5 DEF RefuseRefresh, RefuseDeactivated
<1>. QED  BY <1>3, <1>4, <1>5, SessionWriters

LEMMA IssuedDefined ==
    ASSUME TypeOK, Defined, [Next]_vars
    PROVE  \A t \in issued' : sessions'[t] # None
<1>1. CASE issued' = issued
    BY <1>1, SessionsOnlyRevoked DEF Defined, TypeOK
<1>2. ASSUME NEW r \in Requests, GenerateTokenPair(r)
      PROVE  \A t \in issued' : sessions'[t] # None
    BY <1>2, MintedType, SessionsOnlyRevoked DEF Defined, TypeOK
<1>. QED  BY <1>1, <1>2, OnlyGenerateMints

LEMMA DefinedNext == TypeOK /\ Defined /\ [Next]_vars => Defined'
<1>. SUFFICES ASSUME TypeOK, Defined, [Next]_vars PROVE Defined'
    OBVIOUS
<1>. DEFINE Held(r) ==
        /\ req[r].token # None => sessions[req[r].token] # None
        /\ req[r].step \in {"find", "check", "revoke"} => req[r].token # None
        /\ req[r].step = "check" => req[r].found # None
        /\ req[r].step \in {"revoke", "create", "deactivated", "handle"} =>
            req[r].user # None
        /\ req[r].step = "auth" => req[r].claims # None
<1>1. SUFFICES ASSUME NEW r \in Requests PROVE Held(r)'
    BY IssuedDefined DEF Defined
<1>2. Held(r) /\ req[r].token \in Tokens \cup {None} /\ req[r] \in Req
    BY FieldTypes DEF Defined
<1>3. CASE Waits(r)
    BY <1>2, <1>3, SessionsOnlyRevoked DEF Waits
<1>4. CASE Starts(r)
    BY <1>4, NoneAssumption DEF Starts
<1>5. CASE req'[r] = Quiet
    BY <1>5 DEF Quiet
<1>6. ASSUME NEW t \in Tokens, RefreshToken(r, t) PROVE Held(r)'
  <2>1. t # None /\ sessions'[t] # None
    BY <1>6, RefreshMoves, NoneAssumption DEF Defined
  <2>. QED  BY <1>6, <2>1, RefreshMoves
<1>7. CASE FindSession(r)
    BY <1>2, <1>7, FindSessionMoves
<1>8. CASE FindUser(r) /\ req'[r] # Quiet
    BY <1>2, <1>8, FindUserMoves, NoneAssumption DEF Rows
<1>9. CASE RevokeOldSession(r) /\ req'[r] # Quiet
    BY <1>2, <1>9, RevokeMoves, SessionsOnlyRevoked
<1>10. CASE LoadUser(r) /\ req'[r] # Quiet
    BY <1>2, <1>10, LoadUserMoves, NoneAssumption DEF Rows
<1>. HIDE DEF Held
<1>. QED  BY <1>3, <1>4, <1>5, <1>6, <1>7, <1>8, <1>9, <1>10, NextMoves DEF Moves

LEMMA RevokedBeforeCreateNext ==
    TypeOK /\ Defined /\ RevokedBeforeCreate /\ [Next]_vars => RevokedBeforeCreate'
<1>. SUFFICES ASSUME TypeOK, Defined, RevokedBeforeCreate, [Next]_vars,
                     NEW r \in Requests, req'[r].step = "create", req'[r].token # None
              PROVE  sessions'[req'[r].token].revoked
    BY DEF RevokedBeforeCreate
<1>1. CASE Waits(r)
    BY <1>1, SessionsOnlyRevoked, FieldTypes DEF Waits, RevokedBeforeCreate, Defined
<1>2. CASE RevokeOldSession(r) /\ req'[r] # Quiet
    BY <1>2, RevokeMoves
<1>3. CASE Starts(r) \/ req'[r] = Quiet
    BY <1>3 DEF Starts, Quiet
<1>4. CASE FindSession(r) \/ \E t \in Tokens : RefreshToken(r, t)
    BY <1>4, FindSessionMoves, RefreshMoves
<1>5. CASE (FindUser(r) \/ LoadUser(r)) /\ req'[r] # Quiet
    BY <1>5, FindUserMoves, LoadUserMoves
<1>. QED  BY <1>1, <1>2, <1>3, <1>4, <1>5, NextMoves DEF Moves

(* A dead session stays dead.                                              *)
LEMMA DeadStaysDead ==
    ASSUME TypeOK, Defined, [Next]_vars, NEW t \in Tokens, sessions[t] # None,
           ~Live(sessions[t])
    PROVE  ~Live(sessions[t])'
<1>1. sessions[t] \in Session /\ now \in Nat /\ now' \in Nat
    BY NextTypeOK DEF TypeOK
<1>. QED  BY <1>1, SessionsOnlyRevoked DEF Live, Expired, Session

LEMMA RefusedStaysRefused ==
    ASSUME TypeOK, Defined, [Next]_vars, NEW s \in Session, Refused(s)
    PROVE  Refused(s)'
<1>1. now \in Nat /\ now' \in Nat
    BY NextTypeOK DEF TypeOK
<1>. QED  BY <1>1, SessionsOnlyRevoked DEF Refused, Expired, Session

LEMMA DeadOnArrivalNext ==
    TypeOK /\ Defined /\ DeadOnArrival /\ [Next]_vars => DeadOnArrival'
<1>. SUFFICES ASSUME TypeOK, Defined, DeadOnArrival, [Next]_vars, NEW r \in Requests,
                     req'[r].token # None, ~arrived'[r].live
              PROVE  /\ ~Live(sessions[req[r].token])'
                     /\ req'[r].step = "check" => Refused(req[r].found)'
    BY DEF DeadOnArrival
<1>. DEFINE Old == req[r].token # None /\ req[r].token \in Tokens /\ ~arrived[r].live
            Dead == ~Live(sessions[req[r].token])'
<1>1. ASSUME Old, req'[r].token = req[r].token PROVE Dead
    BY <1>1, DeadStaysDead DEF DeadOnArrival, Defined
<1>2. req[r].token \in Tokens \cup {None} /\ req[r].found \in Session \cup {None}
    BY FieldTypes
<1>3. CASE Waits(r)
  <2>1. Old /\ req'[r].token = req[r].token /\ req'[r].found = req[r].found
    BY <1>2, <1>3 DEF Waits
  <2>2. ASSUME req'[r].step = "check" PROVE Refused(req[r].found)'
    <3>1. req[r].found \in Session /\ Refused(req[r].found)
      BY <1>2, <1>3, <2>1, <2>2 DEF Waits, DeadOnArrival, Defined
    <3>. QED  BY <2>1, <3>1, RefusedStaysRefused DEF Refused, Expired
  <2>. QED  BY <1>1, <2>1, <2>2
<1>4. ASSUME NEW t \in Tokens, RefreshToken(r, t)
      PROVE  Dead /\ req'[r].step # "check"
    BY <1>4, RefreshMoves DEF Live, Expired
<1>5. CASE FindSession(r)
  <2>1. Old /\ ~Live(sessions[req[r].token])
    BY <1>2, <1>5, FindSessionMoves DEF DeadOnArrival
  <2>2. Refused(req[r].found)'
    BY <1>5, <2>1, FindSessionMoves DEF Live, Refused, Expired
  <2>. QED  BY <1>1, <1>5, <2>1, <2>2, FindSessionMoves
<1>6. CASE FindUser(r) /\ req'[r] # Quiet
    BY <1>1, <1>2, <1>6, FindUserMoves
<1>7. CASE RevokeOldSession(r) /\ req'[r] # Quiet
    BY <1>1, <1>2, <1>7, RevokeMoves
<1>8. CASE LoadUser(r) /\ req'[r] # Quiet
    BY <1>1, <1>2, <1>8, LoadUserMoves
<1>9. CASE Starts(r) \/ req'[r] = Quiet
    BY <1>9 DEF Starts, Quiet
<1>. HIDE DEF Dead, Old
<1>. QED  BY <1>3, <1>4, <1>5, <1>6, <1>7, <1>8, <1>9, NextMoves DEF Moves, Dead

LEMMA ReplayNeverSucceedsNext ==
    TypeOK /\ Defined /\ DeadOnArrival /\ ReplayNeverSucceeds /\ [Next]_vars
        => ReplayNeverSucceeds'
<1>. SUFFICES ASSUME TypeOK, Defined, DeadOnArrival, ReplayNeverSucceeds, [Next]_vars,
                     NEW r \in Requests, req'[r].step \in {"revoke", "create"},
                     req'[r].token # None
              PROVE  arrived'[r].live
    BY DEF ReplayNeverSucceeds
<1>1. CASE Waits(r)
    BY <1>1 DEF Waits, ReplayNeverSucceeds
<1>2. CASE FindUser(r) /\ req'[r] # Quiet
    BY <1>2, FindUserMoves DEF DeadOnArrival
<1>3. CASE RevokeOldSession(r) /\ req'[r] # Quiet
    BY <1>3, RevokeMoves DEF ReplayNeverSucceeds
<1>4. CASE LoadUser(r) /\ req'[r] # Quiet
    BY <1>4, LoadUserMoves
<1>5. CASE Starts(r) \/ req'[r] = Quiet
    BY <1>5 DEF Starts, Quiet
<1>6. CASE FindSession(r) \/ \E t \in Tokens : RefreshToken(r, t)
    BY <1>6, FindSessionMoves, RefreshMoves
<1>. QED  BY <1>1, <1>2, <1>3, <1>4, <1>5, <1>6, NextMoves DEF Moves

LEMMA OnlyLeavesLiveNext ==
    TypeOK /\ Defined /\ RevokedBeforeCreate /\ OnlyLeavesLive /\ [Next]_vars
        => OnlyLeavesLive'
<1>. SUFFICES ASSUME TypeOK, Defined, RevokedBeforeCreate, OnlyLeavesLive, [Next]_vars,
                     NEW t \in Tokens, NEW c \in Tokens, parent'[c] = t
              PROVE  sessions'[t] # None /\ sessions'[t].revoked
    BY DEF OnlyLeavesLive
<1>1. CASE parent[c] = t
    BY <1>1, SessionsOnlyRevoked DEF OnlyLeavesLive
<1>2. ASSUME NEW r \in Requests, GenerateTokenPair(r), parent[c] # t
      PROVE  sessions'[t] # None /\ sessions'[t].revoked
  <2>1. req[r].token = t
    BY <1>2, MintedType DEF TypeOK
  <2>2. sessions[t] # None /\ sessions[t].revoked
    BY <1>2, <2>1, NoneAssumption DEF GenerateTokenPair, RevokedBeforeCreate, Defined
  <2>. QED  BY <2>2, SessionsOnlyRevoked
<1>. QED  BY <1>1, <1>2, OnlyGenerateMints

(* The handler that mints holds nothing afterwards.                        *)
LEMMA MintingEnds ==
    ASSUME TypeOK, NEW r \in Requests, GenerateTokenPair(r)
    PROVE  req[r].step = "create" /\ req' = [req EXCEPT ![r] = Quiet]
BY DEF GenerateTokenPair, Answer

LEMMA SuccessorSeenNext ==
    TypeOK /\ Defined /\ OnlyLeavesLive /\ SuccessorSeen /\ [Next]_vars
        => SuccessorSeen'
<1>. SUFFICES ASSUME TypeOK, Defined, OnlyLeavesLive, SuccessorSeen, [Next]_vars,
                     NEW r \in Requests, NEW c \in Tokens,
                     parent'[c] # None, parent'[c] = req'[r].token, minter'[c] = r
              PROVE  \/ req'[r].step = "find"
                     \/ req'[r].step = "check" /\ req'[r].found.revoked
    BY DEF SuccessorSeen
<1>1. ASSUME NEW q \in Requests, GenerateTokenPair(q)
      PROVE  parent'[c] = parent[c] /\ minter'[c] = minter[c] /\ req'[r] = req[r]
  <2>1. q # r
    BY <1>1, MintingEnds DEF TypeOK, Quiet
  <2>2. minter'[c] = minter[c] /\ parent'[c] = parent[c]
    BY <1>1, <2>1, MintedType DEF TypeOK
  <2>. QED  BY <1>1, <2>1, <2>2, MintingEnds DEF TypeOK
<1>2. parent'[c] = parent[c] /\ minter'[c] = minter[c]
    BY <1>1, OnlyGenerateMints
<1>3. CASE req'[r] = req[r]
    BY <1>2, <1>3 DEF SuccessorSeen
<1>4. CASE Starts(r) \/ req'[r] = Quiet
    BY <1>4 DEF Starts, Quiet
<1>5. CASE \E t \in Tokens : RefreshToken(r, t)
    BY <1>5, RefreshMoves
<1>6. CASE FindSession(r)
  <2>1. parent[c] = req[r].token /\ req[r].token \in Tokens
    BY <1>2, <1>6, FindSessionMoves, FieldTypes
  <2>2. sessions[req[r].token].revoked
    BY <2>1 DEF OnlyLeavesLive
  <2>3. req'[r].step = "check" /\ req'[r].found = sessions[req[r].token]
    BY <1>6, FindSessionMoves
  <2>. QED  BY <2>2, <2>3
<1>7. CASE FindUser(r) /\ req'[r] # Quiet
  <2>1. req'[r].token = req[r].token /\ req[r].step = "check"
    BY <1>7, FindUserMoves
  <2>2. ~req[r].found.revoked
    BY <1>7, FindUserMoves DEF Refused
  <2>. QED  BY <1>2, <2>1, <2>2 DEF SuccessorSeen
<1>8. CASE RevokeOldSession(r) /\ req'[r] # Quiet
    BY <1>2, <1>8, RevokeMoves DEF SuccessorSeen
<1>9. CASE LoadUser(r) /\ req'[r] # Quiet
    BY <1>2, <1>9, LoadUserMoves DEF SuccessorSeen
<1>. QED  BY <1>3, <1>4, <1>5, <1>6, <1>7, <1>8, <1>9, NextMoves DEF Moves, Waits

LEMMA OneSuccessorNext ==
    TypeOK /\ Defined /\ SuccessorSeen /\ OneSuccessorPerHandler /\ [Next]_vars
        => OneSuccessorPerHandler'
<1>. SUFFICES ASSUME TypeOK, Defined, SuccessorSeen, OneSuccessorPerHandler, [Next]_vars
              PROVE  OneSuccessorPerHandler'
    OBVIOUS
<1>1. CASE parent' = parent /\ minter' = minter
    BY <1>1 DEF OneSuccessorPerHandler
<1>2. ASSUME NEW r \in Requests, GenerateTokenPair(r) PROVE OneSuccessorPerHandler'
  <2>1. PICK t \in Tokens : /\ parent' = [parent EXCEPT ![t] = req[r].token]
                            /\ minter' = [minter EXCEPT ![t] = r]
    BY <1>2, MintedType
  <2>2. \A c \in Tokens : c # t => parent'[c] = parent[c] /\ minter'[c] = minter[c]
    BY <2>1 DEF TypeOK
  <2>3. parent'[t] = req[r].token /\ minter'[t] = r
    BY <2>1 DEF TypeOK
  <2>4. \A c \in Tokens :
          ~(parent[c] # None /\ parent[c] = req[r].token /\ minter[c] = r)
    BY <1>2, MintingEnds DEF SuccessorSeen
  <2>. QED  BY <2>2, <2>3, <2>4 DEF OneSuccessorPerHandler
<1>. QED  BY <1>1, <1>2, OnlyGenerateMints

LEMMA RowsWitnessedNext ==
    TypeOK /\ Defined /\ RowsWitnessed /\ [Next]_vars => RowsWitnessed'
<1>. SUFFICES ASSUME TypeOK, Defined, RowsWitnessed, [Next]_vars,
                     NEW r \in Requests, req'[r] # Quiet
              PROVE  Rows(users') \subseteq arrived'[r].rows
    BY DEF RowsWitnessed, Rows
<1>1. CASE Waits(r)
    BY <1>1 DEF Waits, RowsWitnessed
<1>2. CASE Starts(r) \/ \E t \in Tokens : RefreshToken(r, t)
    BY <1>2, RefreshMoves DEF Starts
<1>3. CASE FindSession(r) \/ FindUser(r) \/ RevokeOldSession(r) \/ LoadUser(r)
    BY <1>3, FindSessionMoves, FindUserMoves, RevokeMoves, LoadUserMoves
       DEF RowsWitnessed
<1>. QED  BY <1>1, <1>2, <1>3, NextMoves DEF Moves

LEMMA ActsOnCurrentUserNext ==
    TypeOK /\ Defined /\ RowsWitnessed /\ ActsOnCurrentUser /\ [Next]_vars
        => ActsOnCurrentUser'
<1>. SUFFICES ASSUME TypeOK, Defined, RowsWitnessed, ActsOnCurrentUser, [Next]_vars,
                     NEW r \in Requests, req'[r].step \in {"revoke", "handle"}
              PROVE  req'[r].user \in arrived'[r].rows /\ req'[r].user.active
    BY DEF ActsOnCurrentUser
<1>1. CASE Waits(r)
    BY <1>1 DEF Waits, ActsOnCurrentUser
<1>2. CASE Starts(r) \/ req'[r] = Quiet
    BY <1>2 DEF Starts, Quiet
<1>3. CASE FindSession(r) \/ \E t \in Tokens : RefreshToken(r, t)
    BY <1>3, FindSessionMoves, RefreshMoves
<1>4. CASE FindUser(r) /\ req'[r] # Quiet
    BY <1>4, FindUserMoves DEF RowsWitnessed
<1>5. CASE RevokeOldSession(r) /\ req'[r] # Quiet
    BY <1>5, RevokeMoves
<1>6. CASE LoadUser(r) /\ req'[r] # Quiet
    BY <1>6, LoadUserMoves DEF RowsWitnessed
<1>. QED  BY <1>1, <1>2, <1>3, <1>4, <1>5, <1>6, NextMoves DEF Moves

LEMMA UserStaysNext ==
    TypeOK /\ Defined /\ UserStays /\ [Next]_vars => UserStays'
<1>. SUFFICES ASSUME TypeOK, Defined, UserStays, [Next]_vars,
                     NEW r \in Requests, req'[r].step \in {"revoke", "create"}
              PROVE  HasRow(req[r].user.id)'
    BY DEF UserStays
<1>1. ~Restart
    BY DEF Restart, Quiet
<1>2. ASSUME req[r].step \in {"revoke", "create"}, req'[r].user = req[r].user
      PROVE  HasRow(req[r].user.id)'
  <2>1. req[r].user \in UserRow
    BY <1>2, FieldTypes DEF Defined
  <2>2. req[r].user.id \in UserIds /\ HasRow(req[r].user.id)
    BY <1>2, <2>1 DEF UserStays, UserRow
  <2>3. \A id \in UserIds : HasRow(id) => HasRow(id)'
    BY <1>1, UsersKeepIds
  <2>. QED  BY <1>2, <2>2, <2>3 DEF HasRow
<1>3. CASE Waits(r)
    BY <1>2, <1>3 DEF Waits
<1>4. CASE Starts(r) \/ req'[r] = Quiet
    BY <1>4 DEF Starts, Quiet
<1>5. CASE FindSession(r) \/ \E t \in Tokens : RefreshToken(r, t)
    BY <1>5, FindSessionMoves, RefreshMoves
<1>6. CASE FindUser(r) /\ req'[r] # Quiet
    BY <1>6, FindUserMoves DEF Rows, HasRow
<1>7. CASE RevokeOldSession(r) /\ req'[r] # Quiet
    BY <1>2, <1>7, RevokeMoves
<1>8. CASE LoadUser(r) /\ req'[r] # Quiet
    BY <1>8, LoadUserMoves
<1>. QED  BY <1>3, <1>4, <1>5, <1>6, <1>7, <1>8, NextMoves DEF Moves

LEMMA SameUserNext ==
    TypeOK /\ Defined /\ SameUser /\ [Next]_vars => SameUser'
<1>. SUFFICES ASSUME TypeOK, Defined, SameUser, [Next]_vars,
                     NEW r \in Requests, req'[r].token # None
              PROVE  /\ req'[r].step = "check" =>
                            req'[r].found.user = sessions'[req'[r].token].user
                     /\ req'[r].step \in {"revoke", "create"} =>
                            req'[r].user.id = sessions'[req'[r].token].user
    BY DEF SameUser
<1>1. ASSUME req'[r].token = req[r].token
      PROVE  /\ req[r].token \in Tokens
             /\ sessions'[req'[r].token].user = sessions[req[r].token].user
    BY <1>1, SessionsOnlyRevoked, FieldTypes DEF Defined
<1>2. CASE Waits(r)
    BY <1>1, <1>2 DEF Waits, SameUser
<1>3. CASE Starts(r) \/ req'[r] = Quiet
    BY <1>3 DEF Starts, Quiet
<1>4. CASE \E t \in Tokens : RefreshToken(r, t)
    BY <1>4, RefreshMoves
<1>5. CASE FindSession(r)
    BY <1>1, <1>5, FindSessionMoves
<1>6. CASE FindUser(r) /\ req'[r] # Quiet
    BY <1>1, <1>6, FindUserMoves DEF SameUser
<1>7. CASE RevokeOldSession(r) /\ req'[r] # Quiet
    BY <1>1, <1>7, RevokeMoves DEF SameUser
<1>8. CASE LoadUser(r) /\ req'[r] # Quiet
    BY <1>8, LoadUserMoves
<1>. QED  BY <1>2, <1>3, <1>4, <1>5, <1>6, <1>7, <1>8, NextMoves DEF Moves

LEMMA UndrawnHaveNoParentNext ==
    TypeOK /\ Defined /\ UndrawnHaveNoParent /\ [Next]_vars => UndrawnHaveNoParent'
<1>. SUFFICES ASSUME TypeOK, Defined, UndrawnHaveNoParent, [Next]_vars,
                     NEW t \in Tokens, sessions'[t] = None
              PROVE  parent'[t] = None
    BY DEF UndrawnHaveNoParent
<1>1. sessions[t] = None /\ parent[t] = None
    BY SessionsOnlyRevoked DEF UndrawnHaveNoParent
<1>2. ASSUME NEW r \in Requests, GenerateTokenPair(r) PROVE parent'[t] = parent[t]
    BY <1>2, MintedType DEF TypeOK
<1>. QED  BY <1>1, <1>2, OnlyGenerateMints

LEMMA BornInThePastNext ==
    TypeOK /\ Defined /\ BornInThePast /\ [Next]_vars => BornInThePast'
<1>. SUFFICES ASSUME TypeOK, Defined, BornInThePast, [Next]_vars PROVE BornInThePast'
    OBVIOUS
<1>1. boots \in Nat /\ boots <= boots'
    BY UsersKeepIds DEF Restart, TypeOK
<1>2. \A t \in Tokens : born'[t] \in {born[t], boots}
    BY OnlyGenerateMints, MintedType DEF TypeOK
<1>. QED  BY <1>1, <1>2, NextTypeOK DEF BornInThePast, TypeOK

LEMMA SessionsReferenceUsersNext ==
    TypeOK /\ Defined /\ UserStays /\ BornInThePast /\ SessionsReferenceUsers /\ [Next]_vars
        => SessionsReferenceUsers'
<1>. SUFFICES ASSUME TypeOK, Defined, UserStays, BornInThePast, SessionsReferenceUsers,
                     [Next]_vars, NEW t \in Tokens, sessions'[t] # None,
                     born'[t] = boots'
              PROVE  HasRow(sessions[t].user)'
    BY DEF SessionsReferenceUsers, HasRow
<1>1. born[t] <= boots /\ boots \in Nat /\ born[t] \in Nat
    BY DEF BornInThePast, TypeOK
<1>2. ~Restart
    BY <1>1 DEF Restart
<1>3. boots' = boots /\ \A id \in UserIds : HasRow(id) => HasRow(id)'
    BY <1>2, UsersKeepIds
<1>4. CASE sessions[t] # None
  <2>1. sessions[t] \in Session /\ sessions[t].user \in UserIds
    BY <1>4 DEF TypeOK, Session
  <2>2. sessions'[t].user = sessions[t].user
    BY <1>4, SessionsOnlyRevoked
  <2>3. born[t] = boots
    BY <1>3, <1>4, OnlyGenerateMints, MintedType DEF TypeOK
  <2>4. HasRow(sessions[t].user)
    BY <1>4, <2>3 DEF SessionsReferenceUsers, HasRow
  <2>. QED  BY <1>3, <2>1, <2>2, <2>4 DEF HasRow
<1>5. CASE sessions[t] = None
  <2>1. PICK r \in Requests : GenerateTokenPair(r)
    BY <1>5, OnlyGenerateInserts
  <2>2. sessions'[t].user = req[r].user.id
    BY <1>5, <2>1, MintedType
  <2>3. req[r].step = "create" /\ req[r].user \in UserRow
    BY <2>1, MintingEnds, FieldTypes DEF Defined
  <2>4. HasRow(req[r].user.id) /\ req[r].user.id \in UserIds
    BY <2>3 DEF UserStays, UserRow
  <2>. QED  BY <1>3, <2>2, <2>4 DEF HasRow
<1>. QED  BY <1>4, <1>5

-----------------------------------------------------------------------------
(* The theorems                                                            *)

LEMMA InitIInv == Init => IInv
<1>. SUFFICES ASSUME Init PROVE IInv
    OBVIOUS
<1>1. TypeOK
    BY InitTypeOK
<1>2. /\ \A r \in Requests : req[r] = Quiet
      /\ \A t \in Tokens : sessions[t] = None /\ parent[t] = None /\ born[t] = 0
      /\ issued = {} /\ boots = 1
    BY DEF Init
<1>3. Quiet.step = "idle" /\ Quiet.token = None
    BY DEF Quiet
<1>4. Defined /\ RevokedBeforeCreate /\ ReplayNeverSucceeds /\ DeadOnArrival
    BY <1>2, <1>3 DEF Defined, RevokedBeforeCreate, ReplayNeverSucceeds, DeadOnArrival
<1>5. OnlyLeavesLive /\ OneSuccessorPerHandler /\ SuccessorSeen
    BY <1>2, NoneAssumption DEF OnlyLeavesLive, OneSuccessorPerHandler, SuccessorSeen
<1>6. ActsOnCurrentUser /\ RowsWitnessed /\ UserStays
    BY <1>2, <1>3 DEF ActsOnCurrentUser, RowsWitnessed, UserStays
<1>7. SessionsReferenceUsers /\ BornInThePast
    BY <1>2 DEF SessionsReferenceUsers, BornInThePast
<1>8. SameUser /\ UndrawnHaveNoParent
    BY <1>2, <1>3 DEF SameUser, UndrawnHaveNoParent
<1>. QED  BY <1>1, <1>4, <1>5, <1>6, <1>7, <1>8 DEF IInv

LEMMA NextIInv == IInv /\ [Next]_vars => IInv'
BY NextTypeOK, DefinedNext, RevokedBeforeCreateNext, DeadOnArrivalNext,
   ReplayNeverSucceedsNext, OnlyLeavesLiveNext, SuccessorSeenNext, OneSuccessorNext,
   RowsWitnessedNext, ActsOnCurrentUserNext, UserStaysNext, BornInThePastNext,
   SessionsReferenceUsersNext, SameUserNext, UndrawnHaveNoParentNext
   DEF IInv

(* The inductive invariant holds in every state of the token service.      *)
THEOREM Invariance == Spec => []IInv
BY InitIInv, NextIInv, PTL DEF Spec

(* Columns, claims and requests keep their types.                          *)
THEOREM TypeCorrect == Spec => []TypeOK
<1>1. IInv => TypeOK
    BY DEF IInv
<1>. QED  BY <1>1, Invariance, PTL

(* However requests interleave and whichever statements fail, a token from *)
(* which RotateRefreshToken minted a successor is revoked.                 *)
THEOREM RotatedTokensAreRevoked == Spec => []OnlyLeavesLive
<1>1. IInv => OnlyLeavesLive
    BY DEF IInv
<1>. QED  BY <1>1, Invariance, PTL

(* RotateRefreshToken mints nothing for a token that was revoked or        *)
(* expired when the request arrived.                                       *)
THEOREM ReplaysAreRefused == Spec => []ReplayNeverSucceeds
<1>1. IInv => ReplayNeverSucceeds
    BY DEF IInv
<1>. QED  BY <1>1, Invariance, PTL

(* No handler mints two successors of one token, so two successors need    *)
(* two refreshes in progress at once.                                      *)
THEOREM SuccessorsNeedOverlap == Spec => []OneSuccessorPerHandler
<1>1. IInv => OneSuccessorPerHandler
    BY DEF IInv
<1>. QED  BY <1>1, Invariance, PTL

(* A rotation and an authenticated handler act as a user row that was in   *)
(* the table, and active, while the request ran.                           *)
THEOREM UsersAreReloaded == Spec => []ActsOnCurrentUser
<1>1. IInv => ActsOnCurrentUser
    BY DEF IInv
<1>. QED  BY <1>1, Invariance, PTL

(* Sessions created since the process started have a user.                 *)
THEOREM NoNewOrphans == Spec => []SessionsReferenceUsers
<1>1. IInv => SessionsReferenceUsers
    BY DEF IInv
<1>. QED  BY <1>1, Invariance, PTL

(* A login changes neither role nor is_active of an account that has a row.*)
THEOREM PrivilegesSurviveLogin == Spec => LoginKeepsPrivileges
<1>. DEFINE Keeps ==
        \A a \in Accounts :
          boots' = boots /\ users[a] # None /\ users'[a] # users[a] =>
            \E setting \in Settings : SetPrivileges(a, setting)
<1>1. TypeOK /\ [Next]_vars => [Keeps]_vars
  <2>. SUFFICES ASSUME TypeOK, [Next]_vars, NEW a \in Accounts,
                       boots' = boots, users[a] # None, users'[a] # users[a]
                PROVE  \E setting \in Settings : SetPrivileges(a, setting)
      OBVIOUS
  <2>1. ~Restart
      BY DEF Restart, TypeOK
  <2>2. ASSUME NEW r \in Requests, NEW b \in Accounts, Login(r, b) PROVE FALSE
    <3>1. PICK row \in UpsertedRows(b) : users' = [users EXCEPT ![b] = row]
      BY <2>2 DEF Login
    <3>2. users[b] # None => row = users[b]
      BY <3>1 DEF UpsertedRows
    <3>. QED  BY <3>1, <3>2 DEF TypeOK
  <2>3. ASSUME NEW b \in Accounts, NEW setting \in Settings, SetPrivileges(b, setting)
        PROVE  SetPrivileges(a, setting)
    <3>1. a = b
      BY <2>3 DEF SetPrivileges, TypeOK
    <3>. QED  BY <2>3, <3>1
  <2>4. \/ users' = users
        \/ \E r \in Requests, b \in Accounts : Login(r, b)
        \/ \E b \in Accounts, setting \in Settings : SetPrivileges(b, setting)
    BY <2>1 DEF Next, vars, RefreshToken, FindSession, FindUser, RefuseRefresh,
           RevokeOldSession, GenerateTokenPair, IssueTestToken, Logout,
           AuthenticateJWT, LoadUser, RefuseDeactivated, Serve, RequestFails, Tick
  <2>. QED  BY <2>2, <2>3, <2>4
<1>2. Spec => [][Keeps]_vars
    BY <1>1, TypeCorrect, PTL DEF Spec
<1>. QED  BY <1>2 DEF LoginKeepsPrivileges
-----------------------------------------------------------------------------
(* The refinement                                                          *)

(* A session keeps its user, and only GenerateTokenPair draws a token.     *)
LEMMA OwnersStay ==
    ASSUME TypeOK, Defined, [Next]_vars, \A r \in Requests : ~GenerateTokenPair(r)
    PROVE  /\ Owner' = Owner /\ parent' = parent
           /\ \A t \in Tokens : sessions'[t] # None => Owner[t] # None
<1>1. \A t \in Tokens : sessions'[t] = None <=> sessions[t] = None
    BY SessionsOnlyRevoked, OnlyGenerateInserts
<1>2. \A t \in Tokens : sessions[t] # None => sessions'[t].user = sessions[t].user
    BY SessionsOnlyRevoked
<1>3. Owner' = Owner
    BY <1>1, <1>2 DEF Owner
<1>4. ASSUME NEW t \in Tokens, sessions'[t] # None PROVE Owner[t] # None
  <2>1. sessions[t] \in Session
    BY <1>1, <1>4 DEF TypeOK
  <2>. QED  BY <2>1, NoneAssumption DEF Owner, Session
<1>. QED  BY <1>3, <1>4, OnlyGenerateMints

LEMMA DeadStay ==
    ASSUME TypeOK, Defined, [Next]_vars
    PROVE  DeadTokens \subseteq DeadTokens' /\ DeadTokens' \subseteq {t \in Tokens : sessions'[t] # None}
BY DeadStaysDead, SessionsOnlyRevoked DEF DeadTokens

(* A request that does not move holds what it held.                        *)
LEMMA HeldWaits ==
    ASSUME NEW r \in Requests, req'[r] = req[r], arrived'[r].live = arrived[r].live
    PROVE  HeldTokens'[r] = HeldTokens[r] /\ (r \in Spent' <=> r \in Spent)
BY DEF HeldTokens, Spent

(* A request holds what it held, or nothing any more, unless it presents a *)
(* token that is alive or gives up the one it holds.                       *)
LEMMA HeldMoves ==
    ASSUME TypeOK, Defined, [Next]_vars, NEW r \in Requests,
           \A t \in Tokens : RefreshToken(r, t) => ~Live(sessions[t]),
           RevokeOldSession(r) => req'[r] = Quiet
    PROVE  IF req'[r].token = None THEN HeldTokens'[r] = None /\ r \notin Spent'
           ELSE HeldTokens'[r] = HeldTokens[r] /\ (r \in Spent' <=> r \in Spent)
<1>1. CASE req'[r].token = None
    BY <1>1 DEF HeldTokens, Spent
<1>2. CASE Waits(r)
    BY <1>1, <1>2, HeldWaits DEF Waits
<1>3. CASE Starts(r) \/ req'[r] = Quiet
    BY <1>1, <1>3 DEF Starts, Quiet
<1>4. ASSUME NEW t \in Tokens, RefreshToken(r, t), req'[r].token # None
      PROVE  HeldTokens'[r] = HeldTokens[r] /\ r \notin Spent' /\ r \notin Spent
  <2>1. req'[r].step = "find" /\ arrived'[r].live = FALSE
    BY <1>4, RefreshMoves DEF Live
  <2>2. req[r] = Quiet
    BY <1>4 DEF RefreshToken, Begin
  <2>. QED  BY <2>1, <2>2 DEF HeldTokens, Spent, Quiet
<1>5. CASE FindSession(r)
    BY <1>5, FindSessionMoves DEF HeldTokens, Spent
<1>6. CASE FindUser(r) /\ req'[r] # Quiet
    BY <1>6, FindUserMoves DEF HeldTokens, Spent
<1>7. CASE LoadUser(r) /\ req'[r] # Quiet
  <2>1. req[r].step = "auth" /\ req'[r].step # "create"
    BY <1>7, LoadUserMoves
  <2>. QED  BY <1>7, <2>1, LoadUserMoves DEF HeldTokens, Spent
<1>. QED  BY <1>1, <1>2, <1>3, <1>4, <1>5, <1>6, <1>7, NextMoves DEF Moves

LEMMA Lapses ==
    ASSUME TypeOK, Defined, [Next]_vars, \A r \in Requests : ~GenerateTokenPair(r),
           \A r \in Requests, t \in Tokens : RefreshToken(r, t) => ~Live(sessions[t]),
           \A r \in Requests : RevokeOldSession(r) => req'[r] = Quiet
    PROVE  Families!Next
<1>1. PICK tokens \in SUBSET Tokens : tokens = DeadTokens'
    BY DEF DeadTokens
<1>2. DeadTokens' = DeadTokens \cup tokens /\ \A t \in tokens : Owner[t] # None
    BY <1>1, DeadStay, OwnersStay
<1>3. PICK refreshes \in SUBSET Requests :
        refreshes = {r \in Requests : req'[r].token = None}
    OBVIOUS
<1>4. \A r \in Requests : HeldTokens'[r] = (IF r \in refreshes THEN None ELSE HeldTokens[r])
    BY <1>3, HeldMoves
<1>5. HeldTokens' = [r \in Requests |-> IF r \in refreshes THEN None ELSE HeldTokens[r]]
    BY <1>4 DEF HeldTokens
<1>6. \A r \in Requests : r \in Spent' <=> r \in Spent /\ r \notin refreshes
    BY <1>3, HeldMoves
<1>7. Spent' = Spent \ refreshes
    BY <1>6 DEF Spent
<1>8. Families!Lapse(tokens, refreshes)
    BY <1>2, <1>5, <1>7, OwnersStay DEF Families!Lapse
<1>. QED  BY <1>8 DEF Families!Next

LEMMA Presents ==
    ASSUME TypeOK, Defined, [Next]_vars, NEW r \in Requests, NEW t \in Tokens,
           RefreshToken(r, t), Live(sessions[t])
    PROVE  Families!Next
<1>1. /\ req[r] = Quiet /\ t \in issued /\ sessions[t] # None /\ t # None
      /\ UNCHANGED <<now, sessions, parent>>
    BY NoneAssumption DEF RefreshToken, Begin, Defined
<1>2. HeldTokens[r] = None /\ r \notin Spent
    BY <1>1 DEF HeldTokens, Spent, Quiet
<1>3. sessions[t] \in Session
    BY <1>1 DEF TypeOK
<1>4. Owner[t] # None /\ t \notin DeadTokens
    BY <1>1, <1>3, NoneAssumption DEF Owner, DeadTokens, Session
<1>5. Owner' = Owner /\ DeadTokens' = DeadTokens
    BY <1>1 DEF Owner, DeadTokens, Live, Expired
<1>6. HeldTokens'[r] = t /\ r \notin Spent'
    BY RefreshMoves DEF HeldTokens, Spent
<1>7. ASSUME NEW q \in Requests, q # r
      PROVE  HeldTokens'[q] = HeldTokens[q] /\ (q \in Spent' <=> q \in Spent)
  <2>1. req'[q] = req[q] /\ arrived'[q].live = arrived[q].live
    BY <1>7, WitnessedGrows DEF RefreshToken, Begin, TypeOK, Witnessed
  <2>. QED  BY <2>1, HeldWaits
<1>8. HeldTokens' = [HeldTokens EXCEPT ![r] = t]
    BY <1>6, <1>7 DEF HeldTokens
<1>9. Spent' = Spent
    BY <1>2, <1>6, <1>7 DEF Spent
<1>10. Families!Present(r, t)
    BY <1>1, <1>2, <1>4, <1>5, <1>8, <1>9 DEF Families!Present
<1>. QED  BY <1>10 DEF Families!Next

LEMMA GivesUp ==
    ASSUME TypeOK, Defined, ReplayNeverSucceeds, [Next]_vars, NEW r \in Requests,
           RevokeOldSession(r), req'[r] # Quiet
    PROVE  Families!Next
<1>1. PICK t \in Tokens : t = req[r].token /\ sessions[t] # None
    BY FieldTypes DEF RevokeOldSession, Defined
<1>2. sessions[t] \in Session /\ t # None
    BY <1>1, NoneAssumption DEF TypeOK
<1>3. \A q \in Requests : ~GenerateTokenPair(q)
    BY RevokeMoves DEF GenerateTokenPair, Answer, TypeOK
<1>4. Owner' = Owner /\ parent' = parent
    BY <1>3, OwnersStay
<1>5. /\ sessions' = [sessions EXCEPT ![t].revoked = TRUE] /\ now' = now
      /\ sessions'[t].revoked /\ arrived' = arrived
    BY <1>1, RevokeMoves DEF RevokeOldSession
<1>6. t \in DeadTokens'
    BY <1>1, <1>5, SessionsOnlyRevoked DEF DeadTokens, Live
<1>7. \A u \in Tokens : u # t => (u \in DeadTokens' <=> u \in DeadTokens)
    BY <1>5 DEF DeadTokens, Live, Expired, TypeOK
<1>8. DeadTokens' = DeadTokens \cup {t}
    BY <1>6, <1>7 DEF DeadTokens
<1>9. HeldTokens[r] = t /\ HeldTokens'[r] = t /\ r \in Spent'
    BY <1>1, <1>2, RevokeMoves DEF HeldTokens, Spent, ReplayNeverSucceeds
<1>10. ASSUME NEW q \in Requests, q # r
       PROVE  HeldTokens'[q] = HeldTokens[q] /\ (q \in Spent' <=> q \in Spent)
  <2>1. req'[q] = req[q]
    BY <1>10 DEF RevokeOldSession, Continue, Answer, TypeOK
  <2>. QED  BY <1>5, <2>1, HeldWaits
<1>11. HeldTokens' = HeldTokens
    BY <1>9, <1>10 DEF HeldTokens
<1>12. Spent' = Spent \cup {r}
    BY <1>9, <1>10 DEF Spent
<1>13. Families!GiveUp(r)
    BY <1>2, <1>4, <1>8, <1>9, <1>11, <1>12 DEF Families!GiveUp
<1>. QED  BY <1>13 DEF Families!Next

LEMMA Succeeds ==
    ASSUME TypeOK, Defined, ReplayNeverSucceeds, SameUser, UndrawnHaveNoParent, [Next]_vars,
           NEW r \in Requests, GenerateTokenPair(r)
    PROVE  Families!Next
<1>1. PICK t \in Tokens, u \in UserIds, p \in Tokens \cup {None} :
        /\ sessions[t] = None /\ sessions'[t] # None
        /\ u = req[r].user.id /\ sessions'[t].user = u
        /\ \A v \in Tokens : v # t => sessions'[v] = sessions[v]
        /\ p = req[r].token /\ parent' = [parent EXCEPT ![t] = p]
        /\ now' = now /\ sessions'[t].revoked = FALSE /\ sessions'[t].expiresAt >= now
  <2>1. req[r].user.id \in UserIds /\ req[r].token \in Tokens \cup {None}
    BY FieldTypes DEF GenerateTokenPair, Defined, UserRow
  <2>. DEFINE minted == [user |-> req[r].user.id, createdAt |-> now,
                         expiresAt |-> now + RefreshTTL, revoked |-> FALSE]
  <2>2. PICK t \in Tokens : /\ sessions[t] = None
                            /\ sessions' = [sessions EXCEPT ![t] = minted]
                            /\ parent' = [parent EXCEPT ![t] = req[r].token]
    BY DEF GenerateTokenPair
  <2>3. /\ minted.user = req[r].user.id /\ minted.revoked = FALSE
        /\ minted.expiresAt = now + RefreshTTL
    OBVIOUS
  <2>4. now + RefreshTTL >= now
    BY ConstantsAssumption DEF TypeOK
  <2>5. minted # None
    <3>1. minted \in Session
      BY <2>1, ConstantsAssumption DEF TypeOK, Session
    <3>. QED  BY <3>1, NoneAssumption
  <2>. HIDE DEF minted
  <2>6. sessions'[t] = minted /\ \A v \in Tokens : v # t => sessions'[v] = sessions[v]
    BY <2>2 DEF TypeOK
  <2>7. now' = now
    BY DEF GenerateTokenPair
  <2>. QED  BY <2>1, <2>2, <2>3, <2>4, <2>5, <2>6, <2>7
<1>2. Owner[t] = None /\ Owner' = [Owner EXCEPT ![t] = u]
  <2>1. Owner'[t] = u /\ \A v \in Tokens : v # t => Owner'[v] = Owner[v]
    BY <1>1 DEF Owner
  <2>. QED  BY <1>1, <2>1 DEF Owner
<1>3. DeadTokens' = DeadTokens
  <2>1. t \notin DeadTokens /\ t \notin DeadTokens'
    <3>1. now \in Nat /\ sessions'[t].expiresAt \in Nat
      BY <1>1, NextTypeOK DEF TypeOK, Session
    <3>. QED  BY <1>1, <3>1 DEF DeadTokens, Live, Expired
  <2>2. \A v \in Tokens : v # t => (v \in DeadTokens' <=> v \in DeadTokens)
    BY <1>1 DEF DeadTokens, Live, Expired
  <2>. QED  BY <2>1, <2>2 DEF DeadTokens
<1>4. req[r].step = "create" /\ req'[r] = Quiet
      /\ \A q \in Requests : q # r => /\ req'[q] = req[q]
                                       /\ arrived'[q].live = arrived[q].live
    BY DEF GenerateTokenPair, Answer, TypeOK
<1>5. HeldTokens'[r] = None /\ r \notin Spent'
    BY <1>4 DEF HeldTokens, Spent, Quiet
<1>6. \A q \in Requests : q # r => HeldTokens'[q] = HeldTokens[q] /\ (q \in Spent' <=> q \in Spent)
    BY <1>4, HeldWaits
<1>7. HeldTokens' = [HeldTokens EXCEPT ![r] = None] /\ Spent' = Spent \ {r}
    BY <1>5, <1>6 DEF HeldTokens, Spent
<1>8. CASE p = None
  <2>1. HeldTokens[r] = None /\ r \notin Spent
    BY <1>1, <1>8 DEF HeldTokens, Spent
  <2>2. HeldTokens' = HeldTokens /\ Spent' = Spent
    BY <1>7, <2>1 DEF HeldTokens, Spent
  <2>3. parent' = parent
    BY <1>1, <1>8 DEF UndrawnHaveNoParent, TypeOK
  <2>4. Families!Start(t, u)
    BY <1>2, <1>3, <2>2, <2>3 DEF Families!Start
  <2>. QED  BY <2>4 DEF Families!Next
<1>9. CASE p # None
  <2>1. p \in Tokens /\ sessions[p] # None /\ sessions[p].user = u
    BY <1>1, <1>4, <1>9 DEF Defined, SameUser
  <2>2. HeldTokens[r] = p /\ r \in Spent
    BY <1>1, <1>4, <1>9 DEF HeldTokens, Spent, ReplayNeverSucceeds
  <2>3. Owner[HeldTokens[r]] = u
    BY <2>1, <2>2 DEF Owner
  <2>4. Families!Succeed(r, t)
    BY <1>1, <1>2, <1>3, <1>7, <2>2, <2>3 DEF Families!Succeed
  <2>. QED  BY <2>4 DEF Families!Next
<1>. QED  BY <1>8, <1>9

LEMMA FamiliesStep ==
    ASSUME IInv, [Next]_vars
    PROVE  Families!Next
<1>. USE DEF IInv
<1>1. CASE \E r \in Requests : GenerateTokenPair(r)
    BY <1>1, Succeeds
<1>2. CASE \E r \in Requests, t \in Tokens : RefreshToken(r, t) /\ Live(sessions[t])
    BY <1>2, Presents
<1>3. CASE \E r \in Requests : RevokeOldSession(r) /\ req'[r] # Quiet
    BY <1>3, GivesUp
<1>. QED  BY <1>1, <1>2, <1>3, Lapses

LEMMA FamiliesStart ==
    ASSUME Init
    PROVE  Families!Init
<1>1. /\ \A t \in Tokens : sessions[t] = None
      /\ \A r \in Requests : req[r].step = "idle" /\ req[r].token = None
      /\ parent = [t \in Tokens |-> None]
    BY DEF Init, Quiet
<1>2. Owner = [t \in Tokens |-> None] /\ DeadTokens = {}
    BY <1>1 DEF Owner, DeadTokens
<1>3. HeldTokens = [r \in Requests |-> None] /\ Spent = {}
    BY <1>1 DEF HeldTokens, Spent
<1>. QED  BY <1>1, <1>2, <1>3 DEF Families!Init

(* The statements of the token service, however they interleave and        *)
(* whichever fail, amount to families of tokens as TokenFamilies has them. *)
THEOREM Refinement == Spec => ImplementsTokenFamilies
<1>1. Init => Families!Init
    BY FamiliesStart
<1>2. IInv /\ [Next]_vars => [Families!Next]_Families!vars
    BY FamiliesStep
<1>. QED
    BY <1>1, <1>2, Invariance, PTL DEF Spec, ImplementsTokenFamilies, Families!Spec
=============================================================================
