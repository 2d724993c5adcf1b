------------------------------ MODULE Registry ------------------------------
(***************************************************************************)
(* What hangs on departments, users and devices, and how they retire:      *)
(* assignments of licences, approvals of products, roles, the ownership of *)
(* licences, the migration of a retired department to its successor, and   *)
(* the bootstrap import of licences and assignments.                       *)
(*                                                                         *)
(* Departments, users and devices are retired softly, by a column, and     *)
(* nothing that hangs on them goes with them.  The handlers look whether   *)
(* the one they name is active in one statement, and write in a later one  *)
(* or in a transaction of its own; the import validates a whole file       *)
(* before its transaction.  In between anybody may write.                  *)
(*                                                                         *)
(* Two looks of one handler are one step here: what may change between     *)
(* them can as well change after the second.  That a revocation within the *)
(* second of an earlier one of the same key fails on UNIQUE(...,           *)
(* revoked_at) is one of the failures that EndRequest stands for.          *)
(***************************************************************************)
EXTENDS Integers, FiniteSets

CONSTANTS
    Dept, User, Device,   \* what can be retired
    Account, Product,     \* what a role is for, what an approval is about
    License,              \* licence ids
    Article,              \* [License -> product and slug of the licence]
    Request,              \* concurrent requests (one of them the import)
    MaxRow,               \* bound: rows of one key over all times
    MaxRequests,          \* bound: requests in a behaviour
    None                  \* no department: the licence does not exist yet

Subject == Dept \cup User \cup Device

Key == [table : {"user"},     of : User,   to : License]
  \cup [table : {"device"},   of : Device, to : License]
  \cup [table : {"approval"}, of : Dept,   to : Product]
  \cup [table : {"role"},     of : Dept,   to : Account]

\* The rows of a key, in the order of their ids.
Row == [key : Key, n : 1 .. MaxRow]

\* A line of an assignments file names the licence by its natural key; a line
\* of a licences file brings a licence.
Line == [table : {"user"},   of : User,   article : {Article[l] : l \in License}, dept : Dept]
   \cup [table : {"device"}, of : Device, article : {Article[l] : l \in License}, dept : Dept]

Idle == [pc |-> "idle"]

\* What a request has looked up.  late: what it relied on has changed since.
Progress == {Idle}
  \cup [pc : {"insert"},  key : Key, late : BOOLEAN]
  \cup [pc : {"revoke"},  row : Row, late : BOOLEAN]
  \cup [pc : {"migrate"}, from : Dept, to : Dept, late : BOOLEAN]
  \cup [pc : {"save"},    license : License, new : BOOLEAN, dept : Dept,
        late : BOOLEAN]
  \cup [pc : {"import"},  lines : SUBSET Line, keys : SUBSET Key, late : BOOLEAN]
  \cup [pc : {"bring"},   place : UNION {[S -> Dept] : S \in SUBSET License},
        late : BOOLEAN]

ASSUME RegistryAssumption ==
    /\ Article \in [License -> {Article[l] : l \in License}]
    /\ None \notin Dept
    /\ Dept \cap User = {} /\ Dept \cap Device = {} /\ User \cap Device = {}
    /\ MaxRow \in Nat /\ MaxRequests \in Nat

VARIABLES
    retired,   \* subjects with valid_to, deactivated_at or retired_at
    owner,     \* [License -> owning department, or None]
    live,      \* rows that are not revoked
    past,      \* revoked rows
    req,       \* [Request -> Progress]
    started    \* how many requests were started

vars == <<retired, owner, live, past, req, started>>

-----------------------------------------------------------------------------
TypeOK ==
    /\ retired \in SUBSET Subject
    /\ owner \in [License -> Dept \cup {None}]
    /\ live \in SUBSET Row
    /\ past \in SUBSET Row
    /\ req \in [Request -> Progress]
    /\ started \in 0 .. MaxRequests

\* The departments, users and devices exist, and some licences.
Init ==
    /\ retired = {}
    /\ owner \in [License -> Dept \cup {None}]
    /\ \A l, m \in License :
         owner[l] = owner[m] /\ Article[l] = Article[m] /\ owner[l] # None => l = m
    /\ live = {}
    /\ past = {}
    /\ req = [q \in Request |-> Idle]
    /\ started = 0

-----------------------------------------------------------------------------
(* What requests rely on                                                   *)

\* The subjects that a request has found active.
Relied(r) ==
    CASE r.pc = "insert"  -> {r.key.of}
      [] r.pc = "migrate" -> {r.to}
      [] r.pc = "save"    -> {r.dept}
      [] r.pc = "import"  -> {k.of : k \in r.keys}
      [] r.pc = "bring"   -> {r.place[l] : l \in DOMAIN r.place}
      [] OTHER            -> {}

\* The licences whose department it has looked up.
Looked(r) ==
    CASE r.pc = "save"   -> {r.license}
      [] r.pc = "import" -> {l \in License : \E x \in r.lines : x.article = Article[l]}
      [] OTHER           -> {}

Late(r) == r.pc # "idle" /\ r.late

\* All requests, those marked that relied on one of the subjects being as it
\* was, or on the owner of one of the licences.
Marked(subjects, licenses) ==
    [q \in Request |->
       LET r == req[q] IN
       IF \/ Relied(r) \cap subjects # {}
          \/ Looked(r) \cap licenses # {}
          \/ r.pc = "migrate" /\ r.from \in subjects
       THEN [r EXCEPT !.late = TRUE] ELSE r]

Begin(q, r) ==
    /\ req[q] = Idle
    /\ started < MaxRequests
    /\ started' = started + 1
    /\ req' = [req EXCEPT ![q] = r]
    /\ UNCHANGED <<retired, owner, live, past>>

Finish(q) == req' = [req EXCEPT ![q] = Idle]

-----------------------------------------------------------------------------
(* Retiring and restoring: one statement each                              *)

Retire(s) ==
    /\ s \notin retired
    /\ retired' = retired \cup {s}
    /\ req' = Marked({s}, {})
    /\ UNCHANGED <<owner, live, past, started>>

Restore(s) ==
    /\ s \in retired
    /\ retired' = retired \ {s}
    /\ req' = Marked({s}, {})
    /\ UNCHANGED <<owner, live, past, started>>

RetireDepartment  == \E d \in Dept : Retire(d)
RestoreDepartment == \E d \in Dept : Restore(d)
DeactivateUser    == \E u \in User : Retire(u)
RestoreUser       == \E u \in User : Restore(u)
RetireDevice      == \E d \in Device : Retire(d)
RestoreDevice     == \E d \in Device : Restore(d)

-----------------------------------------------------------------------------
(* Rows: look, then insert; look, then revoke                              *)

Has(key) == \E r \in live : r.key = key

\* The id of the next row of a key.
IsNext(key, n) ==
    /\ \A r \in live \cup past : r.key = key => r.n < n
    /\ \A m \in 1 .. n - 1 : \E r \in live \cup past : r.key = key /\ r.n = m

CheckInsert(q, key) ==
    /\ key.of \notin retired
    /\ ~Has(key)
    /\ Begin(q, [pc |-> "insert", key |-> key, late |-> FALSE])

CheckAssignUser(q) ==
    \E u \in User, l \in License :
        /\ owner[l] # None
        /\ CheckInsert(q, [table |-> "user", of |-> u, to |-> l])

CheckAssignDevice(q) ==
    \E d \in Device, l \in License :
        /\ owner[l] # None
        /\ CheckInsert(q, [table |-> "device", of |-> d, to |-> l])

\* A variant with a bug: a retired department is let through.
CheckApprovalAny(q) ==
    \E d \in Dept, p \in Product :
        LET key == [table |-> "approval", of |-> d, to |-> p] IN
        /\ ~Has(key)
        /\ Begin(q, [pc |-> "insert", key |-> key, late |-> FALSE])

CheckApproval(q) ==
    \E d \in Dept, p \in Product :
        CheckInsert(q, [table |-> "approval", of |-> d, to |-> p])

CheckGrant(q) ==
    \E d \in Dept, a \in Account :
        CheckInsert(q, [table |-> "role", of |-> d, to |-> a])

\* The rows that an insert of keys makes.
NewRows(keys) ==
    {r \in Row : r.key \in keys /\ IsNext(r.key, r.n)}

\* All keys get a row, or the transaction fails: the unique index stops a
\* second active row.
InsertAll(keys) ==
    /\ \A k \in keys : ~Has(k) /\ \E n \in 1 .. MaxRow : IsNext(k, n)
    /\ live' = live \cup NewRows(keys)

\* A variant with a bug: no unique index on the active rows.
InsertUnindexed(q, table) ==
    /\ req[q].pc = "insert"
    /\ req[q].key.table = table
    /\ live' = live \cup NewRows({req[q].key})
    /\ Finish(q)
    /\ UNCHANGED <<retired, owner, past, started>>

Insert(q, table) ==
    /\ req[q].pc = "insert"
    /\ req[q].key.table = table
    /\ InsertAll({req[q].key})
    /\ Finish(q)
    /\ UNCHANGED <<retired, owner, past, started>>

CreateUserAssignment(q)     == Insert(q, "user")
CreateDeviceAssignment(q)   == Insert(q, "device")
CreateApproval(q)           == Insert(q, "approval")
CreateUserDepartmentRole(q) == Insert(q, "role")

\* The row is on the page, or was read by GetActiveApproval.
See(q, row) ==
    Begin(q, [pc |-> "revoke", row |-> row, late |-> FALSE])

SeeAssignment(q) == \E r \in live : r.key.table \in {"user", "device"} /\ See(q, r)
SeeRole(q)       == \E r \in live : r.key.table = "role" /\ See(q, r)

\* Approvals of a retired department cannot be revoked.
SeeApproval(q) ==
    \E r \in live : /\ r.key.table = "approval"
                    /\ r.key.of \notin retired
                    /\ See(q, r)

\* A variant with a bug: the row is found by its key.
RevokeByKey(q) ==
    /\ req[q].pc = "revoke"
    /\ \E r \in live : /\ r.key = req[q].row.key
                       /\ live' = live \ {r}
                       /\ past' = past \cup {r}
    /\ Finish(q)
    /\ UNCHANGED <<retired, owner, started>>

\* UPDATE ... WHERE id = ? AND revoked_at IS NULL.
Revoke(q) ==
    /\ req[q].pc = "revoke"
    /\ req[q].row \in live
    /\ live' = live \ {req[q].row}
    /\ past' = past \cup {req[q].row}
    /\ Finish(q)
    /\ UNCHANGED <<retired, owner, started>>

-----------------------------------------------------------------------------
(* Ownership: create and edit of a licence, and the migration              *)

\* UNIQUE(product_id, owning_department_id, license_slug).
Free(article, d, but) ==
    \A l \in License \ but : owner[l] = d => Article[l] # article

CheckCreateLicense(q) ==
    \E l \in License, d \in Dept :
        /\ owner[l] = None
        /\ d \notin retired
        /\ Begin(q, [pc |-> "save", license |-> l, new |-> TRUE, dept |-> d,
                     late |-> FALSE])

\* The form of a licence of a retired department may keep it there.
CheckEditLicense(q) ==
    \E l \in License, d \in Dept :
        /\ owner[l] # None
        /\ d \notin retired \/ d = owner[l]
        /\ Begin(q, [pc |-> "save", license |-> l, new |-> FALSE, dept |-> d,
                     late |-> FALSE])

\* The row is written with the department of the form, whoever moved the
\* licence since.
SaveLicense(q) ==
    LET r == req[q] IN
    /\ r.pc = "save"
    /\ r.new <=> owner[r.license] = None
    /\ Free(Article[r.license], r.dept, {r.license})
    /\ owner' = [owner EXCEPT ![r.license] = r.dept]
    /\ req' = [Marked({}, IF owner[r.license] = r.dept THEN {} ELSE {r.license})
                 EXCEPT ![q] = Idle]
    /\ UNCHANGED <<retired, live, past, started>>

CheckMigrate(q) ==
    \E from \in retired \cap Dept, to \in Dept \ retired :
        Begin(q, [pc |-> "migrate", from |-> from, to |-> to, late |-> FALSE])

Movable(from, to) ==
    {l \in License : owner[l] = from /\ Free(Article[l], to, {})}

\* A variant with a bug: revoked approvals of the target count as well.
CopiedUnlessEver(from, to) ==
    {k \in [table : {"approval"}, of : {to}, to : Product] :
       Has([k EXCEPT !.of = from]) /\ \A r \in live \cup past : r.key # k}

Copied(from, to) ==
    {k \in [table : {"approval"}, of : {to}, to : Product] :
       Has([k EXCEPT !.of = from]) /\ ~Has(k)}

\* One transaction; neither department is looked at again.  The source keeps
\* its approvals.
Migrate(q) ==
    LET r == req[q] IN
    /\ r.pc = "migrate"
    /\ LET moved == Movable(r.from, r.to) IN
       /\ owner' = [l \in License |-> IF l \in moved THEN r.to ELSE owner[l]]
       /\ req' = [Marked({}, moved) EXCEPT ![q] = Idle]
    /\ InsertAll(Copied(r.from, r.to))
    /\ UNCHANGED <<retired, past, started>>

-----------------------------------------------------------------------------
(* The bootstrap import: validate a file, then one transaction             *)

Importing == \E q \in Request : req[q].pc \in {"import", "bring"}

\* The keys that a line stands for: at most one, as natural keys are unique.
Resolve(x) ==
    {k \in [table : {x.table}, of : {x.of}, to : License] :
       owner[k.to] = x.dept /\ Article[k.to] = x.article}

Resolved(lines) == UNION {Resolve(x) : x \in lines}

ValidateAssignments(q, table, lines) ==
    /\ ~Importing
    /\ lines # {}
    /\ \A x \in lines : /\ x.table = table
                        /\ Resolve(x) # {}
                        /\ x.of \notin retired
                        /\ \A k \in Resolve(x) : ~Has(k)
    /\ Begin(q, [pc |-> "import", lines |-> lines, keys |-> Resolved(lines),
                 late |-> FALSE])

ValidateUserAssignments(q) ==
    \E lines \in SUBSET Line : ValidateAssignments(q, "user", lines)
ValidateDeviceAssignments(q) ==
    \E lines \in SUBSET Line : ValidateAssignments(q, "device", lines)

\* A variant with a bug: the licence is looked up without its department.
ImportAnyDepartment(q) ==
    LET r == req[q]
        keys == {k \in Key : \E x \in r.lines : /\ k.table = x.table
                                                 /\ k.of = x.of
                                                 /\ owner[k.to] # None
                                                 /\ Article[k.to] = x.article} IN
    /\ r.pc = "import"
    /\ InsertAll(keys)
    /\ Finish(q)
    /\ UNCHANGED <<retired, owner, past, started>>

\* The lines are resolved again; whether the user is active is not asked again.
ImportAssignments(q) ==
    LET r == req[q] IN
    /\ r.pc = "import"
    /\ \A x \in r.lines : Resolve(x) # {}
    /\ InsertAll(Resolved(r.lines))
    /\ Finish(q)
    /\ UNCHANGED <<retired, owner, past, started>>

\* place: the licences of the file with their departments.
Placeable(place) ==
    /\ \A l \in DOMAIN place : owner[l] = None /\ Free(Article[l], place[l], {})
    /\ \A l, m \in DOMAIN place :
         place[l] = place[m] /\ Article[l] = Article[m] => l = m

ValidateLicenses(q) ==
    \E S \in (SUBSET License) \ {{}} : \E place \in [S -> Dept] :
        /\ ~Importing
        /\ Placeable(place)
        /\ \A l \in S : place[l] \notin retired
        /\ Begin(q, [pc |-> "bring", place |-> place, late |-> FALSE])

ImportLicenses(q) ==
    LET place == req[q].place IN
    /\ req[q].pc = "bring"
    /\ Placeable(place)
    /\ owner' = [l \in License |-> IF l \in DOMAIN place THEN place[l] ELSE owner[l]]
    /\ req' = [Marked({}, DOMAIN place) EXCEPT ![q] = Idle]
    /\ UNCHANGED <<retired, live, past, started>>

-----------------------------------------------------------------------------
\* Nothing to update, a conflict, a failing statement, or a crash.
EndRequest(q) ==
    /\ req[q] # Idle
    /\ Finish(q)
    /\ UNCHANGED <<retired, owner, live, past, started>>

Next ==
    \/ RetireDepartment \/ RestoreDepartment
    \/ DeactivateUser \/ RestoreUser
    \/ RetireDevice \/ RestoreDevice
    \/ \E q \in Request :
         \/ CheckAssignUser(q) \/ CheckAssignDevice(q)
         \/ CheckApproval(q) \/ CheckGrant(q)
         \/ CreateUserAssignment(q) \/ CreateDeviceAssignment(q)
         \/ CreateApproval(q) \/ CreateUserDepartmentRole(q)
         \/ SeeAssignment(q) \/ SeeRole(q) \/ SeeApproval(q) \/ Revoke(q)
         \/ CheckCreateLicense(q) \/ CheckEditLicense(q) \/ SaveLicense(q)
         \/ CheckMigrate(q) \/ Migrate(q)
         \/ ValidateUserAssignments(q) \/ ValidateDeviceAssignments(q)
         \/ ImportAssignments(q)
         \/ ValidateLicenses(q) \/ ImportLicenses(q)
         \/ EndRequest(q)

Spec == Init /\ [][Next]_vars

-----------------------------------------------------------------------------
(* Properties                                                              *)

\* Whoever looks and inserts at once, a key never has two active rows: not two
\* assignments of one user, approvals of one product, roles of one scope.
ActiveOnce == \A r, s \in live : r.key = s.key => r = s

\* Nothing new comes under a retired department, user or device, and no
\* licence comes (back) to a retired department, except from a request that
\* was overtaken: the retirement, or a move of the licence, came after its look.
RetiredGetsNothing ==
    [][\/ /\ \A r \in live' \ live : r.key.of \notin retired'
          /\ \A l \in License : owner'[l] # owner[l] => owner'[l] \notin retired'
       \/ \E q \in Request : Late(req[q]) /\ req'[q] = Idle]_vars

\* What a migration leaves with the old department is there in the new one:
\* a licence of the same product and slug, an approval of the same product.
MigrationLeavesConflictsOnly ==
    [][\A q \in Request : LET r == req[q] IN
         r.pc = "migrate" /\ req'[q] = Idle /\ (owner' # owner \/ live' # live) =>
           /\ \A l \in License : owner'[l] = r.from =>
                \E m \in License : owner'[m] = r.to /\ Article[m] = Article[l]
           /\ \A a \in live : a.key.table = "approval" /\ a.key.of = r.from =>
                \E b \in live' : b.key = [a.key EXCEPT !.of = r.to]]_vars

\* A row is only revoked by a request that has looked it up - on the page for
\* assignments and roles, by GetActiveApproval for approvals: never a later row
\* of the same key, and never by a migration.
OnlySeenRowsAreRevoked ==
    [][\A r \in live \ live' :
         \E q \in Request : /\ req[q].pc = "revoke"
                            /\ req[q].row = r
                            /\ req'[q] = Idle]_vars

\* An import assigns what it validated, although it looks the licences up
\* twice, unless a licence changed departments in between.
ImportAsValidated ==
    [][\A q \in Request : LET r == req[q] IN
         r.pc = "import" /\ ~r.late /\ req'[q] = Idle /\ live' # live =>
           {a.key : a \in live' \ live} = r.keys]_vars
=============================================================================
