--------------------------- MODULE AccountsProofs ---------------------------
(***************************************************************************)
(* Safety of Accounts for every set of accounts, roles, sessions and       *)
(* concurrent requests.                                                    *)
(***************************************************************************)
EXTENDS Accounts, FiniteSetTheorems, TLAPS

\* A login that is past Authenticate although its user is disabled is one
\* that the disable overtook.
LoginsOvertaken ==
    \A q \in Request :
      req[q].pc = "bind" /\ req[q].user \in disabled => req[q].user \in raced

IInv ==
    /\ TypeOK
    /\ LoginsOvertaken
    /\ DisabledSessionNeedsRace
    /\ SessionIdsKeepTheirOwner

-----------------------------------------------------------------------------
(* What a handler step keeps, whatever it writes elsewhere.                *)

LEMMA IdleFacts == Idle \in Progress /\ Idle.pc = "idle"
BY DEF Idle, Progress

LEMMA AccountsUntouched ==
  ASSUME AccountsTyped, UNCHANGED <<accounts, raced>>
  PROVE  AccountsTyped'
BY DEF AccountsTyped, accounts

LEMMA SessionsUntouched ==
  ASSUME SessionsTyped, UNCHANGED <<sessions, issued>>, users \subseteq users'
  PROVE  SessionsTyped'
BY DEF SessionsTyped

\* Rows of sessions go, the others stay as they are.
LEMMA SessionsRemoved ==
  ASSUME SessionsTyped, NEW ids, sessions' = Without(ids),
         UNCHANGED <<issued, users>>
  PROVE  /\ SessionsTyped'
         /\ DOMAIN sessions' = DOMAIN sessions \ ids
         /\ \A s \in DOMAIN sessions' : sessions'[s] = sessions[s]
BY DEF SessionsTyped, Without

\* A request moves on, the others stay; users and ids are never forgotten.
LEMMA RequestsStep ==
  ASSUME RequestsTyped, NEW q \in Request, NEW next \in Progress,
         Step(q, next), users \subseteq users',
         DOMAIN issued \subseteq DOMAIN issued',
         Known(next)'
  PROVE  /\ RequestsTyped'
         /\ req'[q] = next
         /\ \A r \in Request : r # q => req'[r] = req[r]
<1>1. /\ req' \in [Request -> Progress]
      /\ req'[q] = next
      /\ \A r \in Request : r # q => req'[r] = req[r]
  BY DEF RequestsTyped, Step
<1>2. ASSUME NEW r \in Request PROVE Known(req[r])'
  <2>1. CASE r = q
    BY <1>1, <2>1 DEF Known
  <2>2. CASE r # q
    BY <1>1, <2>2 DEF RequestsTyped, Known
  <2> QED
    BY <2>1, <2>2
<1> QED
  BY <1>1, <1>2 DEF RequestsTyped

\* A handler that writes nothing but its own progress.
LEMMA ReadStep ==
  ASSUME TypeOK, NEW q \in Request, NEW next \in Progress, Step(q, next),
         UNCHANGED <<accounts, sessions, issued, raced>>, Known(next)
  PROVE  TypeOK'
<1>1. AccountsTyped' /\ SessionsTyped'
  BY AccountsUntouched, SessionsUntouched DEF TypeOK, accounts
<1>2. Known(next)'
  BY DEF Known, accounts
<1>3. RequestsTyped'
  BY <1>2, RequestsStep DEF TypeOK, accounts
<1> QED
  BY <1>1, <1>3 DEF TypeOK

\* A handler that ends, whatever it wrote.
LEMMA LastStep ==
  ASSUME RequestsTyped, NEW q \in Request, Step(q, Idle),
         users \subseteq users', DOMAIN issued \subseteq DOMAIN issued'
  PROVE  RequestsTyped'
<1>1. Idle \in Progress /\ Known(Idle)'
  BY IdleFacts DEF Known
<1> QED
  BY <1>1, RequestsStep

LEMMA RoleInserted ==
  ASSUME AccountsTyped, NEW u \in User, NEW scope \in Scope,
         users \subseteq users', users' \subseteq User, u \in users',
         UNCHANGED <<disabled, raced>>,
         ~HasRole(u, scope), InsertRole(u, scope)
  PROVE  AccountsTyped'
<1> DEFINE new == [id |-> nextRole, user |-> u, scope |-> scope]
<1>1. /\ nextRole \in 1 .. MaxRole
      /\ nextRole' = nextRole + 1
      /\ roles' = roles \cup {new}
      /\ nextRole' \in 1 .. MaxRole + 1
  BY AccountsAssumption DEF AccountsTyped, InsertRole, AccountsAssumption
<1>2. new \in RoleRow /\ new.id = nextRole /\ new.user = u /\ new.scope = scope
  BY <1>1 DEF RoleRow
<1>3. \A r \in roles : r \in RoleRow /\ r.user \in users /\ r.id < nextRole
  BY DEF AccountsTyped
<1>4. \A r \in roles : r.id \in Int /\ r.id # nextRole
                       /\ (r.user # u \/ r.scope # scope)
  BY <1>1, <1>3 DEF RoleRow, HasRole
<1>5. \A r \in roles' : r.user \in users' /\ r.id < nextRole'
  BY <1>1, <1>2, <1>3, <1>4
<1>6. \A r, t \in roles' :
        r.id = t.id \/ (r.user = t.user /\ r.scope = t.scope) => r = t
  BY <1>1, <1>2, <1>4 DEF AccountsTyped
<1> QED
  BY <1>1, <1>2, <1>5, <1>6 DEF AccountsTyped

-----------------------------------------------------------------------------
(* TypeOK is inductive: one lemma per group of actions.                    *)

LEMMA ReadsKeepTypes ==
  ASSUME TypeOK, NEW q \in Request,
         \/ EndRequest(q) \/ Authorize(q)
         \/ \E s \in SessId : LoadSession(q, s)
         \/ \E u \in User : Authenticate(q, u)
         \/ \E u \in User, scope \in Scope : CheckGrant(q, u, scope)
         \/ \E r \in roles : CheckRevoke(q, r)
  PROVE  TypeOK'
<1>1. req[q] \in Progress /\ Known(req[q])
  BY DEF TypeOK, RequestsTyped
<1>2. CASE EndRequest(q)
  BY <1>2, ReadStep, IdleFacts DEF EndRequest, Known
<1>3. CASE Authorize(q)
  <2> DEFINE next == [req[q] EXCEPT !.pc = "admin"]
  <2>1. next \in Progress /\ Known(next)
    BY <1>1, <1>3 DEF Authorize, Progress, Known, Idle
  <2> QED
    BY <1>3, <2>1, ReadStep DEF Authorize
<1>4. ASSUME NEW s \in SessId, LoadSession(q, s) PROVE TypeOK'
  <2> DEFINE next == [pc |-> "loaded", sess |-> s, actor |-> sessions[s].user]
  <2>1. s \in DOMAIN issued /\ sessions[s].user \in users \cup {Nobody}
    BY <1>4 DEF LoadSession, TypeOK, SessionsTyped
  <2>2. next \in Progress /\ Known(next)
    BY <2>1 DEF TypeOK, AccountsTyped, Progress, Known
  <2> QED
    BY <1>4, <2>2, ReadStep DEF LoadSession
<1>5. ASSUME NEW u \in User, Authenticate(q, u) PROVE TypeOK'
  <2> DEFINE next == [pc |-> "bind", sess |-> req[q].sess, user |-> u]
  <2>1. next \in Progress /\ Known(next)
    BY <1>1, <1>5 DEF Authenticate, Progress, Known, Idle
  <2> QED
    BY <1>5, <2>1, ReadStep DEF Authenticate
<1>6. ASSUME NEW u \in User, NEW scope \in Scope, CheckGrant(q, u, scope)
      PROVE  TypeOK'
  <2> DEFINE next == [pc |-> "grant", user |-> u, scope |-> scope]
  <2>1. next \in Progress /\ Known(next)
    BY <1>6 DEF CheckGrant, Progress, Known
  <2> QED
    BY <1>6, <2>1, ReadStep DEF CheckGrant
<1>7. ASSUME NEW r \in roles, CheckRevoke(q, r) PROVE TypeOK'
  <2> DEFINE next == [pc |-> "revoke", user |-> r.user, role |-> r.id]
  <2>1. r.user \in users /\ r.user \in User /\ r.id \in 1 .. MaxRole
    BY DEF TypeOK, AccountsTyped, RoleRow
  <2>2. next \in Progress /\ Known(next)
    BY <2>1 DEF Progress, Known
  <2> QED
    BY <1>7, <2>2, ReadStep DEF CheckRevoke
<1> QED
  BY <1>2, <1>3, <1>4, <1>5, <1>6, <1>7

LEMMA AccountWritesKeepTypes ==
  ASSUME TypeOK, NEW q \in Request,
         \/ \E u \in User : Disable(q, u) \/ Enable(q, u)
         \/ Grant(q)
         \/ \E r \in roles : Revoke(q, r)
  PROVE  TypeOK'
<1>1. req[q] \in Progress /\ Known(req[q])
  BY DEF TypeOK, RequestsTyped
<1>2. RequestsTyped'
  BY LastStep DEF TypeOK, Disable, Enable, Grant, Revoke
<1>3. ASSUME NEW u \in User, Disable(q, u) PROVE TypeOK'
  <2>1. SessionsTyped'
    BY <1>3, SessionsRemoved DEF Disable, TypeOK
  <2>2. AccountsTyped'
    BY <1>3 DEF Disable, TypeOK, AccountsTyped
  <2> QED
    BY <1>2, <2>1, <2>2 DEF TypeOK
<1>4. ASSUME NEW u \in User, Enable(q, u) PROVE TypeOK'
  <2>1. SessionsTyped'
    BY <1>4, SessionsUntouched DEF Enable, TypeOK
  <2>2. AccountsTyped'
    BY <1>4 DEF Enable, TypeOK, AccountsTyped
  <2> QED
    BY <1>2, <2>1, <2>2 DEF TypeOK
<1>5. CASE Grant(q)
  <2>1. req[q].user \in User /\ req[q].user \in users /\ req[q].scope \in Scope
    BY <1>1, <1>5 DEF Grant, Known, Progress, Idle, TypeOK, AccountsTyped
  <2>2. AccountsTyped'
    BY <1>5, <2>1, RoleInserted DEF Grant, TypeOK, AccountsTyped
  <2>3. SessionsTyped'
    BY <1>5, SessionsUntouched DEF Grant, TypeOK
  <2> QED
    BY <1>2, <2>2, <2>3 DEF TypeOK
<1>6. ASSUME NEW r \in roles, Revoke(q, r) PROVE TypeOK'
  <2>1. SessionsTyped'
    BY <1>6, SessionsUntouched DEF Revoke, TypeOK
  <2>2. AccountsTyped'
    BY <1>6 DEF Revoke, TypeOK, AccountsTyped
  <2> QED
    BY <1>2, <2>1, <2>2 DEF TypeOK
<1> QED
  BY <1>3, <1>4, <1>5, <1>6

LEMMA SessionWritesKeepTypes ==
  ASSUME TypeOK, NEW q \in Request,
         Logout(q) \/ \E s \in SessId : RotateAndBind(q, s)
  PROVE  TypeOK'
<1>1. req[q] \in Progress /\ Known(req[q])
  BY DEF TypeOK, RequestsTyped
<1>2. CASE Logout(q)
  <2>1. AccountsTyped'
    BY <1>2, AccountsUntouched DEF Logout, TypeOK
  <2>2. SessionsTyped'
    BY <1>2, SessionsRemoved DEF Logout, TypeOK, accounts
  <2>3. RequestsTyped'
    BY <1>2, LastStep DEF Logout, TypeOK, accounts
  <2> QED
    BY <2>1, <2>2, <2>3 DEF TypeOK
<1>3. ASSUME NEW s \in SessId, RotateAndBind(q, s) PROVE TypeOK'
  <2>1. req[q].user \in User /\ req[q].user \in users
    BY <1>1, <1>3 DEF RotateAndBind, Known, Progress, Idle, TypeOK, AccountsTyped
  <2>2. AccountsTyped'
    BY <1>3, AccountsUntouched DEF RotateAndBind, TypeOK
  <2>3. /\ DOMAIN issued' = DOMAIN issued \cup {s}
        /\ issued' \in [DOMAIN issued' -> User \cup {Nobody}]
    BY <1>3, <2>1 DEF RotateAndBind, TypeOK, SessionsTyped
  <2>4. /\ DOMAIN sessions' \subseteq DOMAIN sessions \cup {s}
        /\ sessions' \in [DOMAIN sessions' -> Session]
        /\ \A i \in DOMAIN sessions' : sessions'[i].user \in users \cup {Nobody}
    BY <1>3, <2>1 DEF RotateAndBind, TypeOK, SessionsTyped, Session
  <2>5. users' = users
    BY <1>3 DEF RotateAndBind, accounts
  <2>6. SessionsTyped'
    BY <2>3, <2>4, <2>5 DEF TypeOK, SessionsTyped
  <2>7. RequestsTyped'
    BY <1>3, <2>3, <2>5, LastStep DEF RotateAndBind, TypeOK
  <2> QED
    BY <2>2, <2>6, <2>7 DEF TypeOK
<1> QED
  BY <1>2, <1>3

LEMMA EnvironmentKeepsTypes ==
  ASSUME TypeOK,
         \/ \E u \in User, scope \in Scope : CreateUser(u, scope)
         \/ \E s \in SessId : NewSession(s) \/ Expire(s)
         \/ Restart
  PROVE  TypeOK'
<1>1. ASSUME users \subseteq users', DOMAIN issued \subseteq DOMAIN issued',
             UNCHANGED req
      PROVE  RequestsTyped'
  BY <1>1 DEF TypeOK, RequestsTyped, Known
<1>2. ASSUME NEW u \in User, NEW scope \in Scope, CreateUser(u, scope) PROVE TypeOK'
  <2>1. /\ users' = users \cup {u} /\ u \notin users
        /\ UNCHANGED <<disabled, sessions, req, issued, raced>>
        /\ InsertRole(u, scope)
    BY <1>2 DEF CreateUser
  <2>2. ~HasRole(u, scope)
    BY <2>1 DEF HasRole, TypeOK, AccountsTyped
  <2>3. AccountsTyped'
    BY <2>1, <2>2, RoleInserted DEF TypeOK, AccountsTyped
  <2>4. SessionsTyped'
    BY <2>1, SessionsUntouched DEF TypeOK
  <2> QED
    BY <1>1, <2>1, <2>3, <2>4 DEF TypeOK
<1>3. ASSUME NEW s \in SessId, NewSession(s) PROVE TypeOK'
  <2>1. AccountsTyped'
    BY <1>3, AccountsUntouched DEF NewSession, TypeOK
  <2>2. /\ DOMAIN issued' = DOMAIN issued \cup {s}
        /\ issued' \in [DOMAIN issued' -> User \cup {Nobody}]
    BY <1>3 DEF NewSession, TypeOK, SessionsTyped
  <2>3. /\ DOMAIN sessions' = DOMAIN sessions \cup {s}
        /\ sessions' \in [DOMAIN sessions' -> Session]
        /\ \A i \in DOMAIN sessions' : sessions'[i].user \in users \cup {Nobody}
    BY <1>3 DEF NewSession, TypeOK, SessionsTyped, Session
  <2>4. UNCHANGED <<users, req>>
    BY <1>3 DEF NewSession, accounts
  <2>5. SessionsTyped'
    BY <2>2, <2>3, <2>4 DEF TypeOK, SessionsTyped
  <2> QED
    BY <1>1, <2>1, <2>2, <2>4, <2>5 DEF TypeOK
<1>4. ASSUME NEW s \in SessId, Expire(s) PROVE TypeOK'
  <2>1. AccountsTyped'
    BY <1>4, AccountsUntouched DEF Expire, TypeOK
  <2>2. UNCHANGED <<users, req, issued>>
    BY <1>4 DEF Expire, accounts
  <2>3. SessionsTyped'
    BY <1>4, <2>2 DEF Expire, TypeOK, SessionsTyped, Session
  <2> QED
    BY <1>1, <2>1, <2>2, <2>3 DEF TypeOK
<1>5. CASE Restart
  <2>1. AccountsTyped'
    BY <1>5, AccountsUntouched DEF Restart, TypeOK
  <2>2. SessionsTyped'
    BY <1>5, SessionsRemoved, SessionsUntouched DEF Restart, TypeOK, accounts
  <2>3. RequestsTyped'
    BY <1>5, IdleFacts DEF Restart, RequestsTyped, Known
  <2> QED
    BY <2>1, <2>2, <2>3 DEF TypeOK
<1> QED
  BY <1>2, <1>3, <1>4, <1>5

LEMMA TypeStep == TypeOK /\ [Next]_vars => TypeOK'
<1>1. ASSUME TypeOK, NEW q \in Request, HandlerStep(q) PROVE TypeOK'
  BY <1>1, ReadsKeepTypes, AccountWritesKeepTypes, SessionWritesKeepTypes
  DEF HandlerStep
<1>2. ASSUME TypeOK, UNCHANGED vars PROVE TypeOK'
  BY <1>2 DEF vars, TypeOK, AccountsTyped, SessionsTyped, RequestsTyped, Known
<1> QED
  BY <1>1, <1>2, EnvironmentKeepsTypes DEF Next

-----------------------------------------------------------------------------
(* The rest of the invariant.                                              *)

\* A request that moved on to anything but bind overtakes nobody.
LEMMA NoNewLogin ==
  ASSUME TypeOK, LoginsOvertaken, NEW q \in Request, NEW next,
         next.pc # "bind", Step(q, next), UNCHANGED <<disabled, raced>>
  PROVE  LoginsOvertaken'
BY DEF TypeOK, RequestsTyped, LoginsOvertaken, Step

LEMMA ReadsKeepInv ==
  ASSUME IInv, NEW q \in Request,
         \/ EndRequest(q) \/ Authorize(q)
         \/ \E s \in SessId : LoadSession(q, s)
         \/ \E u \in User : Authenticate(q, u)
         \/ \E u \in User, scope \in Scope : CheckGrant(q, u, scope)
         \/ \E r \in roles : CheckRevoke(q, r)
  PROVE  LoginsOvertaken' /\ DisabledSessionNeedsRace' /\ SessionIdsKeepTheirOwner'
<1>1. UNCHANGED <<disabled, sessions, issued, raced>>
  BY DEF EndRequest, Authorize, LoadSession, Authenticate, CheckGrant, CheckRevoke,
         accounts
<1>2. DisabledSessionNeedsRace' /\ SessionIdsKeepTheirOwner'
  BY <1>1 DEF IInv, DisabledSessionNeedsRace, SessionIdsKeepTheirOwner
<1>3. req[q] \in Progress
  BY DEF IInv, TypeOK, RequestsTyped
<1>4. CASE Authorize(q)
  <2>1. [req[q] EXCEPT !.pc = "admin"].pc = "admin"
    BY <1>3, <1>4 DEF Authorize, Progress, Idle
  <2> QED
    BY <1>1, <1>2, <1>4, <2>1, NoNewLogin DEF Authorize, IInv
<1>5. ASSUME NEW u \in User, Authenticate(q, u) PROVE LoginsOvertaken'
  BY <1>1, <1>5
  DEF Authenticate, Step, IInv, TypeOK, RequestsTyped, LoginsOvertaken
<1>6. CASE EndRequest(q)
  BY <1>1, <1>2, <1>6, NoNewLogin, IdleFacts DEF EndRequest, IInv
<1>7. CASE \/ \E s \in SessId : LoadSession(q, s)
           \/ \E u \in User, scope \in Scope : CheckGrant(q, u, scope)
           \/ \E r \in roles : CheckRevoke(q, r)
  BY <1>1, <1>2, <1>7, NoNewLogin DEF LoadSession, CheckGrant, CheckRevoke, IInv
<1> QED
  BY <1>2, <1>4, <1>5, <1>6, <1>7

LEMMA AccountWritesKeepInv ==
  ASSUME IInv, NEW q \in Request,
         \/ \E u \in User : Disable(q, u) \/ Enable(q, u)
         \/ Grant(q)
         \/ \E r \in roles : Revoke(q, r)
  PROVE  LoginsOvertaken' /\ DisabledSessionNeedsRace' /\ SessionIdsKeepTheirOwner'
<1> USE DEF IInv, TypeOK
<1>1. ASSUME NEW u \in User, Disable(q, u)
      PROVE  LoginsOvertaken' /\ DisabledSessionNeedsRace' /\ SessionIdsKeepTheirOwner'
  <2>1. LoginsOvertaken'
    <3>1. ASSUME NEW r \in Request, req'[r].pc = "bind", req'[r].user \in disabled'
          PROVE  req'[r].user \in raced'
      <4>1. r # q /\ req'[r] = req[r]
        BY <1>1, <3>1, IdleFacts DEF Disable, Step, RequestsTyped
      <4>2. CASE req[r].user = u
        BY <1>1, <3>1, <4>1, <4>2 DEF Disable, LoginsPast
      <4>3. CASE req[r].user # u
        BY <1>1, <3>1, <4>1, <4>3 DEF Disable, LoginsOvertaken
      <4> QED
        BY <4>2, <4>3
    <3> QED
      BY <3>1 DEF LoginsOvertaken
  <2>2. /\ DOMAIN sessions' = DOMAIN sessions \ SessionsOf(u)
        /\ \A s \in DOMAIN sessions' : sessions'[s] = sessions[s]
        /\ UNCHANGED issued
    BY <1>1 DEF Disable, Without
  <2>3. DisabledSessionNeedsRace'
    BY <1>1, <2>2 DEF Disable, DisabledSessionNeedsRace, SessionsOf
  <2>4. SessionIdsKeepTheirOwner'
    BY <2>2 DEF SessionIdsKeepTheirOwner
  <2> QED
    BY <2>1, <2>3, <2>4
<1>2. ASSUME NEW u \in User, Enable(q, u)
      PROVE  LoginsOvertaken' /\ DisabledSessionNeedsRace' /\ SessionIdsKeepTheirOwner'
  BY <1>2, IdleFacts
  DEF Enable, Step, RequestsTyped, LoginsOvertaken, DisabledSessionNeedsRace,
      SessionIdsKeepTheirOwner
<1>3. ASSUME Grant(q) \/ \E r \in roles : Revoke(q, r)
      PROVE  LoginsOvertaken' /\ DisabledSessionNeedsRace' /\ SessionIdsKeepTheirOwner'
  <2>1. UNCHANGED <<disabled, raced, sessions, issued>> /\ Step(q, Idle)
    BY <1>3 DEF Grant, Revoke
  <2>2. LoginsOvertaken'
    BY <2>1, NoNewLogin, IdleFacts
  <2> QED
    BY <2>1, <2>2 DEF DisabledSessionNeedsRace, SessionIdsKeepTheirOwner
<1> QED
  BY <1>1, <1>2, <1>3

LEMMA SessionWritesKeepInv ==
  ASSUME IInv, NEW q \in Request,
         Logout(q) \/ \E s \in SessId : RotateAndBind(q, s)
  PROVE  LoginsOvertaken' /\ DisabledSessionNeedsRace' /\ SessionIdsKeepTheirOwner'
<1> USE DEF IInv, TypeOK
<1>1. UNCHANGED <<disabled, raced>> /\ Step(q, Idle)
  BY DEF Logout, RotateAndBind, accounts
<1>2. LoginsOvertaken'
  BY <1>1, NoNewLogin, IdleFacts
<1>3. CASE Logout(q)
  BY <1>1, <1>2, <1>3
  DEF Logout, Without, DisabledSessionNeedsRace, SessionIdsKeepTheirOwner
<1>4. ASSUME NEW s \in SessId, RotateAndBind(q, s)
      PROVE  DisabledSessionNeedsRace' /\ SessionIdsKeepTheirOwner'
  <2>1. /\ DOMAIN sessions' \subseteq DOMAIN sessions \cup {s}
        /\ s \in DOMAIN sessions' => sessions'[s].user = req[q].user
        /\ \A i \in DOMAIN sessions' \ {s} : sessions'[i] = sessions[i]
    BY <1>4 DEF RotateAndBind, SessionsTyped, Session
  <2>2. /\ issued'[s] = req[q].user
        /\ \A i \in DOMAIN sessions' \ {s} : issued'[i] = issued[i]
    BY <1>4, <2>1 DEF RotateAndBind, SessionsTyped
  <2>3. req[q].user \in disabled => req[q].user \in raced
    BY <1>4 DEF RotateAndBind, LoginsOvertaken
  <2>4. DisabledSessionNeedsRace'
    BY <1>1, <2>1, <2>3 DEF DisabledSessionNeedsRace
  <2>5. SessionIdsKeepTheirOwner'
    BY <2>1, <2>2 DEF SessionIdsKeepTheirOwner
  <2> QED
    BY <2>4, <2>5
<1> QED
  BY <1>2, <1>3, <1>4

LEMMA EnvironmentKeepsInv ==
  ASSUME IInv,
         \/ \E u \in User, scope \in Scope : CreateUser(u, scope)
         \/ \E s \in SessId : NewSession(s) \/ Expire(s)
         \/ Restart
  PROVE  LoginsOvertaken' /\ DisabledSessionNeedsRace' /\ SessionIdsKeepTheirOwner'
<1> USE DEF IInv, TypeOK
<1>1. UNCHANGED <<disabled, raced>>
      /\ (UNCHANGED req \/ req' = [q \in Request |-> Idle])
  BY DEF CreateUser, NewSession, Expire, Restart, accounts
<1>2. LoginsOvertaken'
  BY <1>1, IdleFacts DEF LoginsOvertaken
<1>3. ASSUME NEW u \in User, NEW scope \in Scope, CreateUser(u, scope)
      PROVE  DisabledSessionNeedsRace' /\ SessionIdsKeepTheirOwner'
  BY <1>1, <1>3 DEF CreateUser, DisabledSessionNeedsRace, SessionIdsKeepTheirOwner
<1>4. ASSUME NEW s \in SessId, NewSession(s)
      PROVE  DisabledSessionNeedsRace' /\ SessionIdsKeepTheirOwner'
  <2>1. /\ DOMAIN sessions' = DOMAIN sessions \cup {s}
        /\ sessions'[s].user = Nobody
        /\ \A i \in DOMAIN sessions' \ {s} : sessions'[i] = sessions[i]
        /\ issued'[s] = Nobody
        /\ \A i \in DOMAIN sessions' \ {s} : issued'[i] = issued[i]
    BY <1>4 DEF NewSession, SessionsTyped
  <2>2. Nobody \notin disabled
    BY AccountsAssumption DEF AccountsAssumption, AccountsTyped
  <2> QED
    BY <1>1, <2>1, <2>2 DEF DisabledSessionNeedsRace, SessionIdsKeepTheirOwner
<1>5. ASSUME NEW s \in SessId, Expire(s)
      PROVE  DisabledSessionNeedsRace' /\ SessionIdsKeepTheirOwner'
  <2>1. /\ DOMAIN sessions' = DOMAIN sessions
        /\ \A i \in DOMAIN sessions' : sessions'[i].user = sessions[i].user
        /\ UNCHANGED issued
    BY <1>5 DEF Expire, SessionsTyped, Session
  <2> QED
    BY <1>1, <2>1 DEF DisabledSessionNeedsRace, SessionIdsKeepTheirOwner
<1>6. CASE Restart
  <2>1. /\ DOMAIN sessions' \subseteq DOMAIN sessions
        /\ \A i \in DOMAIN sessions' : sessions'[i] = sessions[i]
        /\ UNCHANGED issued
    BY <1>6 DEF Restart, Without
  <2> QED
    BY <1>1, <1>2, <2>1 DEF DisabledSessionNeedsRace, SessionIdsKeepTheirOwner
<1> QED
  BY <1>2, <1>3, <1>4, <1>5, <1>6

LEMMA InvStep == IInv /\ [Next]_vars => IInv'
<1>1. ASSUME IInv, Next
      PROVE  LoginsOvertaken' /\ DisabledSessionNeedsRace' /\ SessionIdsKeepTheirOwner'
  <2>1. ASSUME NEW q \in Request, HandlerStep(q)
        PROVE  LoginsOvertaken' /\ DisabledSessionNeedsRace' /\ SessionIdsKeepTheirOwner'
    BY <1>1, <2>1, ReadsKeepInv, AccountWritesKeepInv, SessionWritesKeepInv
    DEF HandlerStep
  <2> QED
    BY <1>1, <2>1, EnvironmentKeepsInv DEF Next
<1>2. ASSUME IInv, UNCHANGED vars
      PROVE  LoginsOvertaken' /\ DisabledSessionNeedsRace' /\ SessionIdsKeepTheirOwner'
  BY <1>2 DEF vars, IInv, LoginsOvertaken, DisabledSessionNeedsRace,
              SessionIdsKeepTheirOwner
<1> QED
  BY <1>1, <1>2, TypeStep DEF IInv

LEMMA InitInv == Init => IInv
<1> SUFFICES ASSUME Init PROVE IInv
  OBVIOUS
<1>1. AccountsTyped
  BY AccountsAssumption DEF Init, AccountsTyped, AccountsAssumption
<1>2. SessionsTyped
  BY DEF Init, SessionsTyped
<1>3. RequestsTyped
  BY IdleFacts DEF Init, RequestsTyped, Known
<1> QED
  BY <1>1, <1>2, <1>3, IdleFacts
  DEF Init, IInv, TypeOK, LoginsOvertaken, DisabledSessionNeedsRace,
      SessionIdsKeepTheirOwner

THEOREM Invariance == Spec => []IInv
BY InitInv, InvStep, PTL DEF Spec

-----------------------------------------------------------------------------
(* The properties of the runs.                                             *)

\* Rows, sessions and requests always refer to what exists, the partial
\* unique indexes hold.
THEOREM TypeCorrect == Spec => []TypeOK
<1>1. IInv => TypeOK
  BY DEF IInv
<1> QED
  BY <1>1, Invariance, PTL

\* A session of a disabled user was opened by a login the disable overtook.
THEOREM DisabledSessionsComeFromRaces == Spec => []DisabledSessionNeedsRace
<1>1. IInv => DisabledSessionNeedsRace
  BY DEF IInv
<1> QED
  BY <1>1, Invariance, PTL

\* A session id never changes hands.
THEOREM SessionIdsStay == Spec => []SessionIdsKeepTheirOwner
<1>1. IInv => SessionIdsKeepTheirOwner
  BY DEF IInv
<1> QED
  BY <1>1, Invariance, PTL

\* The guard of revoke leaves an administrator, by counting.
LEMMA RevokeLeavesOne ==
  ASSUME NEW q \in Request, NEW r \in roles, Revoke(q, r), ActiveAdmins # {}
  PROVE  ActiveAdmins' # {}
<1>1. \A u \in ActiveAdmins : (r.scope = Global /\ r.user = u) \/ u \in ActiveAdmins'
  BY DEF Revoke, ActiveAdmins, HasRole
<1>2. CASE r.scope # Global
  BY <1>1, <1>2
<1>3. CASE r.scope = Global
  <2>1. SUFFICES ASSUME ActiveAdmins' = {} PROVE FALSE
    OBVIOUS
  <2>2. ActiveAdmins = {r.user}
    BY <1>1, <2>1
  <2>3. Cardinality(ActiveAdmins) = 1
    BY <2>2, FS_Singleton
  <2>4. Cardinality(ActiveAdmins) > 1
    BY <1>3 DEF Revoke
  <2> QED
    BY <2>3, <2>4
<1> QED
  BY <1>2, <1>3

\* Only a disable takes away the last active administrator, and its actor
\* was none.
THEOREM LastAdminIsGuarded == Spec => LastAdminFallsToAStaleActor
<1> DEFINE Stale == \E q \in Request, u \in User :
                      /\ req[q].pc = "admin"
                      /\ req[q].actor \notin ActiveAdmins
                      /\ disabled' = disabled \cup {u}
                      /\ req'[q] = Idle
<1>1. ASSUME TypeOK, NEW q \in Request, NEW u \in User, Disable(q, u),
             ActiveAdmins # {}, ActiveAdmins' = {}
      PROVE  Stale
  <2>1. \A v \in ActiveAdmins : v = u \/ v \in ActiveAdmins'
    BY <1>1 DEF Disable, ActiveAdmins, HasRole
  <2>2. req[q].actor \notin ActiveAdmins
    BY <1>1, <2>1 DEF Disable
  <2>3. req'[q] = Idle
    BY <1>1 DEF Disable, Step, TypeOK, RequestsTyped
  <2> QED
    BY <1>1, <2>2, <2>3 DEF Disable
<1>2. ASSUME roles \subseteq roles', disabled' \subseteq disabled, ActiveAdmins # {}
      PROVE  ActiveAdmins' # {}
  BY <1>2 DEF ActiveAdmins, HasRole
<1>3. ASSUME TypeOK, Next, ActiveAdmins # {}, ActiveAdmins' = {}
      PROVE  Stale
  <2>1. ASSUME NEW q \in Request, HandlerStep(q) PROVE Stale
    <3>1. CASE \E u \in User : Disable(q, u)
      BY <1>1, <1>3, <3>1
    <3>2. CASE \E r \in roles : Revoke(q, r)
      BY <1>3, <3>2, RevokeLeavesOne
    <3>3. CASE \/ Authorize(q) \/ Logout(q) \/ EndRequest(q) \/ Grant(q)
               \/ \E s \in SessId : LoadSession(q, s) \/ RotateAndBind(q, s)
               \/ \E u \in User : Authenticate(q, u) \/ Enable(q, u)
               \/ \E u \in User, scope \in Scope : CheckGrant(q, u, scope)
               \/ \E r \in roles : CheckRevoke(q, r)
      <4>1. roles \subseteq roles' /\ disabled' \subseteq disabled
        BY <3>3
        DEF Authorize, Logout, EndRequest, Grant, InsertRole, LoadSession,
            RotateAndBind, Authenticate, Enable, CheckGrant, CheckRevoke, accounts
      <4> QED
        BY <1>2, <1>3, <4>1
    <3> QED
      BY <2>1, <3>1, <3>2, <3>3 DEF HandlerStep
  <2>2. CASE \/ \E u \in User, scope \in Scope : CreateUser(u, scope)
             \/ \E s \in SessId : NewSession(s) \/ Expire(s)
             \/ Restart
    <3>1. roles \subseteq roles' /\ disabled' \subseteq disabled
      BY <2>2 DEF CreateUser, InsertRole, NewSession, Expire, Restart, accounts
    <3> QED
      BY <1>2, <1>3, <3>1
  <2> QED
    BY <1>3, <2>1, <2>2 DEF Next
<1>4. TypeOK /\ [Next]_vars =>
        [ActiveAdmins # {} /\ ActiveAdmins' = {} => Stale]_vars
  BY <1>3
<1> QED
  BY <1>4, TypeCorrect, PTL DEF Spec, LastAdminFallsToAStaleActor
=============================================================================
