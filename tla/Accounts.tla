------------------------------ MODULE Accounts ------------------------------
(***************************************************************************)
(* Login, sessions, roles and the administration of accounts:              *)
(* src/internal/handler/web/{auth,app_users,roles}.go with the middleware  *)
(* in front of them and the SQL under them.                                *)
(*                                                                         *)
(* HTTP requests run concurrently.  A request reads its session once, its  *)
(* roles once, and decides later; what a handler does inside one SQLite    *)
(* transaction is one step (a transaction that read before another one     *)
(* committed fails with SQLITE_BUSY, which is EndRequest), what it does in *)
(* separate statements is separate steps.                                  *)
(***************************************************************************)
EXTENDS Integers, FiniteSets

CONSTANTS
    User,       \* app_users that may be created
    Nobody,     \* app_user_id NULL: an anonymous session
    Scope,      \* (role, department) pairs that can be granted
    Global,     \* the pair (system_admin, NULL)
    SessId,     \* session ids; session.NewID never repeats one
    Request,    \* concurrent HTTP requests
    MaxRole     \* bound: rows ever inserted in user_department_roles

ASSUME AccountsAssumption ==
    /\ Nobody \notin User
    /\ Global \in Scope
    /\ MaxRole \in Nat

VARIABLES
    users,      \* the app_users rows
    disabled,   \* those with disabled_at
    roles,      \* the rows of user_department_roles with revoked_at NULL
    nextRole,   \* the next row id of user_department_roles
    sessions,   \* [ids of the sessions rows -> user and whether it expired]
    req,        \* [Request -> progress of the handler and what it has read]
    issued,     \* history: [ids ever issued -> the user they were issued to]
    raced       \* history: users disabled while a login of theirs, already
                \* past Authenticate, had not committed

vars == <<users, disabled, roles, nextRole, sessions, req, issued, raced>>
accounts == <<users, disabled, roles, nextRole>>

-----------------------------------------------------------------------------

RoleRow == [id : 1 .. MaxRole, user : User, scope : Scope]
Session == [user : User \cup {Nobody}, expired : BOOLEAN]

Idle == [pc |-> "idle"]

\* loaded: past SessionMiddleware; admin: past RequireRole(systemAdmins);
\* bind: past Authenticate; grant, revoke: past the checks of the handler.
Progress ==
    {Idle}
    \cup [pc : {"loaded", "admin"}, sess : SessId, actor : User \cup {Nobody}]
    \cup [pc : {"bind"}, sess : SessId, user : User]
    \cup [pc : {"grant"}, user : User, scope : Scope]
    \cup [pc : {"revoke"}, user : User, role : 1 .. MaxRole]

HasRole(u, scope) == \E r \in roles : r.user = u /\ r.scope = scope

\* CountActiveSystemAdminUsers counts these.
ActiveAdmins == {u \in User \ disabled : HasRole(u, Global)}

SessionsOf(u) == {s \in DOMAIN sessions : sessions[s].user = u}
Without(ids) == [s \in DOMAIN sessions \ ids |-> sessions[s]]

LoginsPast(u) == \E q \in Request : req[q].pc = "bind" /\ req[q].user = u

Step(q, next) == req' = [req EXCEPT ![q] = next]

\* What a request holds was there when it read it, and rows stay.
Known(r) ==
    /\ r.pc \in {"loaded", "admin"} =>
         r.sess \in DOMAIN issued /\ r.actor \in users \cup {Nobody}
    /\ r.pc = "bind" => r.sess \in DOMAIN issued /\ r.user \in users
    /\ r.pc \in {"grant", "revoke"} => r.user \in users

\* The two partial unique indexes on active roles are the last conjunct.
AccountsTyped ==
    /\ users \subseteq User
    /\ disabled \subseteq users
    /\ raced \subseteq users
    /\ nextRole \in 1 .. MaxRole + 1
    /\ roles \subseteq RoleRow
    /\ \A r \in roles : r.user \in users /\ r.id < nextRole
    /\ \A r, t \in roles :
         r.id = t.id \/ (r.user = t.user /\ r.scope = t.scope) => r = t

SessionsTyped ==
    /\ DOMAIN sessions \subseteq DOMAIN issued
    /\ DOMAIN issued \subseteq SessId
    /\ sessions \in [DOMAIN sessions -> Session]
    /\ issued \in [DOMAIN issued -> User \cup {Nobody}]
    /\ \A s \in DOMAIN sessions : sessions[s].user \in users \cup {Nobody}

RequestsTyped ==
    /\ req \in [Request -> Progress]
    /\ \A q \in Request : Known(req[q])

TypeOK == AccountsTyped /\ SessionsTyped /\ RequestsTyped

Init ==
    /\ users = {}
    /\ disabled = {}
    /\ roles = {}
    /\ nextRole = 1
    /\ sessions = [s \in {} |-> Nobody]
    /\ req = [q \in Request |-> Idle]
    /\ issued = [s \in {} |-> Nobody]
    /\ raced = {}

-----------------------------------------------------------------------------
(* appmgr-create-app-user: the account and its first role in one           *)
(* transaction.                                                            *)

InsertRole(u, scope) ==
    /\ nextRole <= MaxRole
    /\ roles' = roles \cup {[id |-> nextRole, user |-> u, scope |-> scope]}
    /\ nextRole' = nextRole + 1

CreateUser(u, scope) ==
    /\ u \notin users
    /\ users' = users \cup {u}
    /\ InsertRole(u, scope)
    /\ UNCHANGED <<disabled, sessions, req, issued, raced>>

-----------------------------------------------------------------------------
(* SessionMiddleware and AuthMiddleware.                                   *)

\* A request without a valid cookie is given an anonymous session.  It goes
\* no further here: only a request that brings the session back can post.
NewSession(s) ==
    /\ s \notin DOMAIN issued
    /\ issued' = [i \in DOMAIN issued \cup {s} |->
                    IF i = s THEN Nobody ELSE issued[i]]
    /\ sessions' = [i \in DOMAIN sessions \cup {s} |->
                      IF i = s THEN [user |-> Nobody, expired |-> FALSE]
                               ELSE sessions[i]]
    /\ UNCHANGED <<accounts, req, raced>>

LoadSession(q, s) ==
    /\ req[q].pc = "idle"
    /\ s \in DOMAIN sessions
    /\ ~sessions[s].expired
    /\ Step(q, [pc |-> "loaded", sess |-> s, actor |-> sessions[s].user])
    /\ UNCHANGED <<accounts, sessions, issued, raced>>

\* The roles are read for the user the session had when it was loaded;
\* disabled_at is not looked at.
Authorize(q) ==
    /\ req[q].pc = "loaded"
    /\ req[q].actor # Nobody
    /\ HasRole(req[q].actor, Global)
    /\ Step(q, [req[q] EXCEPT !.pc = "admin"])
    /\ UNCHANGED <<accounts, sessions, issued, raced>>

\* Any response that changes nothing: a page, a refusal, a failed statement.
EndRequest(q) ==
    /\ req[q].pc # "idle"
    /\ Step(q, Idle)
    /\ UNCHANGED <<accounts, sessions, issued, raced>>

-----------------------------------------------------------------------------
(* POST /login and POST /logout.                                           *)

Authenticate(q, u) ==
    /\ req[q].pc = "loaded"
    /\ u \in users \ disabled
    /\ Step(q, [pc |-> "bind", sess |-> req[q].sess, user |-> u])
    /\ UNCHANGED <<accounts, sessions, issued, raced>>

\* Variant with a bug: the session keeps its id when it is bound.
BindOnly(q, new) ==
    /\ req[q].pc = "bind"
    /\ new = req[q].sess
    /\ new \in DOMAIN sessions
    /\ sessions' = [sessions EXCEPT ![new].user = req[q].user]
    /\ Step(q, Idle)
    /\ UNCHANGED <<accounts, issued, raced>>

\* RotateSessionID finds no row when the session went in the meantime; then
\* the login fails.  disabled_at is not read again.
RotateAndBind(q, new) ==
    LET old == req[q].sess
    IN  /\ req[q].pc = "bind"
        /\ new \notin DOMAIN issued
        /\ old \in DOMAIN sessions
        /\ sessions' = [s \in (DOMAIN sessions \ {old}) \cup {new} |->
                          IF s = new
                          THEN [sessions[old] EXCEPT !.user = req[q].user]
                          ELSE sessions[s]]
        /\ issued' = [s \in DOMAIN issued \cup {new} |->
                        IF s = new THEN req[q].user ELSE issued[s]]
        /\ Step(q, Idle)
        /\ UNCHANGED <<accounts, raced>>

Logout(q) ==
    /\ req[q].pc = "loaded"
    /\ sessions' = Without({req[q].sess})
    /\ Step(q, Idle)
    /\ UNCHANGED <<accounts, issued, raced>>

-----------------------------------------------------------------------------
(* /admin/app-users.                                                       *)

\* Variant with a bug: the sessions of the user are left alone.
DisableKeepsSessions(q, u) ==
    /\ req[q].pc = "admin"
    /\ u \in users \ disabled
    /\ u # req[q].actor
    /\ disabled' = disabled \cup {u}
    /\ raced' = IF LoginsPast(u) THEN raced \cup {u} ELSE raced
    /\ Step(q, Idle)
    /\ UNCHANGED <<users, roles, nextRole, sessions, issued>>

Disable(q, u) ==
    /\ req[q].pc = "admin"
    /\ u \in users \ disabled
    /\ u # req[q].actor
    /\ disabled' = disabled \cup {u}
    /\ sessions' = Without(SessionsOf(u))
    /\ raced' = IF LoginsPast(u) THEN raced \cup {u} ELSE raced
    /\ Step(q, Idle)
    /\ UNCHANGED <<users, roles, nextRole, issued>>

\* The roles were never touched; the account is as it was.
Enable(q, u) ==
    /\ req[q].pc = "admin"
    /\ u \in disabled
    /\ disabled' = disabled \ {u}
    /\ raced' = raced \ {u}
    /\ Step(q, Idle)
    /\ UNCHANGED <<users, roles, nextRole, sessions, issued>>

-----------------------------------------------------------------------------
(* /admin/roles: the checks run outside the transaction that writes.       *)

CheckGrant(q, u, scope) ==
    /\ req[q].pc = "admin"
    /\ u \in users
    /\ ~HasRole(u, scope)
    /\ Step(q, [pc |-> "grant", user |-> u, scope |-> scope])
    /\ UNCHANGED <<accounts, sessions, issued, raced>>

\* Variant with a bug: no partial unique index behind the check.
GrantTwice(q) ==
    /\ req[q].pc = "grant"
    /\ InsertRole(req[q].user, req[q].scope)
    /\ Step(q, Idle)
    /\ UNCHANGED <<users, disabled, sessions, issued, raced>>

\* The partial unique indexes refuse a second active row.
Grant(q) ==
    /\ req[q].pc = "grant"
    /\ ~HasRole(req[q].user, req[q].scope)
    /\ InsertRole(req[q].user, req[q].scope)
    /\ Step(q, Idle)
    /\ UNCHANGED <<users, disabled, sessions, issued, raced>>

\* One's own system_admin is not for oneself to take.
CheckRevoke(q, r) ==
    /\ req[q].pc = "admin"
    /\ r \in roles
    /\ r.scope = Global => r.user # req[q].actor
    /\ Step(q, [pc |-> "revoke", user |-> r.user, role |-> r.id])
    /\ UNCHANGED <<accounts, sessions, issued, raced>>

\* Variant with a bug: the guard counts role rows, disabled users included.
RevokeCountsAll(q, r) ==
    /\ req[q].pc = "revoke"
    /\ r \in roles /\ r.id = req[q].role /\ r.user = req[q].user
    /\ r.scope = Global =>
         Cardinality({u \in User : HasRole(u, Global)}) > 1
    /\ roles' = roles \ {r}
    /\ Step(q, Idle)
    /\ UNCHANGED <<users, disabled, nextRole, sessions, issued, raced>>

\* The UPDATE counts the active administrators in its own WHERE clause.
Revoke(q, r) ==
    /\ req[q].pc = "revoke"
    /\ r \in roles /\ r.id = req[q].role /\ r.user = req[q].user
    /\ r.scope = Global => Cardinality(ActiveAdmins) > 1
    /\ roles' = roles \ {r}
    /\ Step(q, Idle)
    /\ UNCHANGED <<users, disabled, nextRole, sessions, issued, raced>>

-----------------------------------------------------------------------------
(* The clock, and a restart of the server: requests die, and the start-up  *)
(* removes the sessions that have expired, or fails to and goes on.        *)

Expire(s) ==
    /\ s \in DOMAIN sessions
    /\ ~sessions[s].expired
    /\ sessions' = [sessions EXCEPT ![s].expired = TRUE]
    /\ UNCHANGED <<accounts, req, issued, raced>>

Restart ==
    /\ req' = [q \in Request |-> Idle]
    /\ \/ sessions' = Without({s \in DOMAIN sessions : sessions[s].expired})
       \/ UNCHANGED sessions
    /\ UNCHANGED <<accounts, issued, raced>>

HandlerStep(q) ==
    \/ \E s \in SessId : LoadSession(q, s) \/ RotateAndBind(q, s)
    \/ Authorize(q) \/ Logout(q) \/ EndRequest(q)
    \/ \E u \in User : Authenticate(q, u) \/ Disable(q, u) \/ Enable(q, u)
    \/ \E u \in User, scope \in Scope : CheckGrant(q, u, scope)
    \/ Grant(q)
    \/ \E r \in roles : CheckRevoke(q, r) \/ Revoke(q, r)

Next ==
    \/ \E u \in User, scope \in Scope : CreateUser(u, scope)
    \/ \E s \in SessId : NewSession(s) \/ Expire(s)
    \/ \E q \in Request : HandlerStep(q)
    \/ Restart

Spec == Init /\ [][Next]_vars

-----------------------------------------------------------------------------

(* A session of a disabled user exists only when a login of that user had  *)
(* passed the password check and not yet committed at the moment the       *)
(* account was disabled.  The transaction of disable is what stands        *)
(* between a disabled account and its cookies, since AuthMiddleware never  *)
(* reads disabled_at; sessions of another user, sessions rotated in the    *)
(* meantime and sessions opened after it must all be covered.              *)
DisabledSessionNeedsRace ==
    \A s \in DOMAIN sessions :
      sessions[s].user \in disabled => sessions[s].user \in raced

(* A session id never changes hands: the row under it names the user the   *)
(* id was issued to, so an id that a browser knew before the login, or as  *)
(* another user, never becomes somebody's session, whatever logins run at  *)
(* once on one cookie.                                                     *)
SessionIdsKeepTheirOwner ==
    \A s \in DOMAIN sessions : sessions[s].user = issued[s]

(* Whoever takes away the last active administrator was no administrator   *)
(* any more: of all steps only a disable does it, and only one whose actor *)
(* does not count as one, because the role went after the request was      *)
(* authorized or because the account is itself disabled.  The guard in the *)
(* UPDATE of revoke and the self check of disable leave no other way.      *)
LastAdminFallsToAStaleActor ==
    [][ActiveAdmins # {} /\ ActiveAdmins' = {} =>
         \E q \in Request, u \in User :
           /\ req[q].pc = "admin"
           /\ req[q].actor \notin ActiveAdmins
           /\ disabled' = disabled \cup {u}
           /\ req'[q] = Idle]_vars
=============================================================================
