----------------------------- MODULE Directory ------------------------------
(***************************************************************************)
(* Departments, users and devices: the forms that create and edit them,    *)
(* retirement and return, and the bootstrap import of the three files.     *)
(*                                                                         *)
(* A row has a code and references; a form shows them in selects that list *)
(* what is active (of the users, the first ones), and is shown again with  *)
(* what was posted when the code is taken.  What a select does not list it *)
(* cannot show: an edit form therefore looks up the references of the row  *)
(* and pins them, and a form for a new row does not.                       *)
(***************************************************************************)
EXTENDS Naturals, FiniteSets, Sequences

CONSTANTS
    Department, User, Device,  \* ids; rows are never deleted
    Code,        \* department code, employee code, asset code; numbers, in order
    ListLimit,   \* LIMIT of ListActiveUsers (200)
    Seed,        \* [Id -> the row that earlier requests left, or None]
    Request,     \* concurrent requests (one of them the import)
    MaxRequests, \* bound: requests in a behaviour
    None

Id    == Department \cup User \cup Device
Kinds == {Department, User, Device}
Field == {"parent", "successor", "department", "user"}

KindOf(x) == CHOOSE k \in Kinds : x \in k

Fields(k) == CASE k = Department -> {"parent", "successor"}
               [] k = User       -> {"department"}
               [] k = Device     -> {"department", "user"}

\* What a field refers to.
Target(f) == IF f = "user" THEN User ELSE Department

NoRef == [f \in Field |-> None]

Refs[k \in Kinds] ==
    {ref \in [Field -> Id \cup {None}] :
       \A f \in Field : ref[f] # None => f \in Fields(k) /\ ref[f] \in Target(f)}

Row[k \in Kinds] == [code : Code, ref : Refs[k]]

\* What a form holds; the one for a new row starts without a code.
Entry[k \in Kinds] == Row[k] \cup {[code |-> None, ref |-> NoRef]}

\* A line names what it refers to by codes: a file has no column for the
\* successor of a department.
Columns(k) == Fields(k) \ {"successor"}

Line[k \in Kinds] ==
    [code : Code,
     ref : {ref \in [Field -> Code \cup {None}] :
              \A f \in Field : ref[f] # None => f \in Columns(k)}]

\* The files of an import: of one line, or of two departments, the only lines
\* that may refer to another one (a bound).
Files[k \in Kinds] ==
    {<<x>> : x \in Line[k]}
    \cup (IF k = Department THEN {<<x, y>> : x, y \in Line[k]} ELSE {})

Idle == [pc |-> "idle"]

\* meant: what the user last read or entered, field by field; again: the form
\* was shown a second time.
Progress ==
    {Idle} \cup
    UNION {UNION {
        [pc : {"read", "form", "write"}, kind : {k}, id : k \cup {None}, entry : Entry[k],
         meant : Entry[k], again : BOOLEAN],
        [pc : {"import"}, kind : {k}, lines : Files[k]]} : k \in Kinds}

ASSUME DirectoryAssumption ==
    /\ Code \subseteq Nat
    /\ ListLimit \in Nat /\ MaxRequests \in Nat
    /\ None \notin Id \cup Code \cup UNION {Row[k] : k \in Kinds}
    /\ \A k, l \in Kinds : k # l => k \cap l = {}
    /\ Seed \in [Id -> UNION {Row[k] : k \in Kinds} \cup {None}]
    /\ \A x \in Id : Seed[x] \in Row[KindOf(x)] \cup {None}
    /\ \A x \in Id, f \in Field :  \* foreign keys
         Seed[x] # None /\ Seed[x].ref[f] # None => Seed[Seed[x].ref[f]] # None

VARIABLES
    row,     \* [Id -> its row, or None]
    active,  \* rows without valid_to, deactivated_at or retired_at
    req,     \* [Request -> Progress]
    started, \* how many requests were started
    edited   \* rows that a form has edited (history)

vars == <<row, active, req, started, edited>>

-----------------------------------------------------------------------------
Rows == {x \in Id : row[x] # None}

TypeOK ==
    /\ \A x \in Id : row[x] \in Row[KindOf(x)] \cup {None}
    /\ \A x \in Rows, f \in Field : row[x].ref[f] \in Rows \cup {None}
    /\ active \subseteq Rows
    /\ req \in [Request -> Progress]
    /\ started \in 0 .. MaxRequests
    /\ edited \subseteq Rows

Init ==
    /\ row = Seed
    /\ active = Rows
    /\ req = [q \in Request |-> Idle]
    /\ started = 0
    /\ edited = {}

Begin(q, r) ==
    /\ req[q] = Idle
    /\ started < MaxRequests
    /\ started' = started + 1
    /\ req' = [req EXCEPT ![q] = r]

\* UNIQUE(code) of each table
CodeFree(k, code, but) == \A x \in (k \cap Rows) \ {but} : row[x].code # code

-----------------------------------------------------------------------------
(* Retirement and return                                                   *)

Retire(x) ==
    /\ x \in active
    /\ active' = active \ {x}
    /\ UNCHANGED <<row, req, started, edited>>

Return(x) ==
    /\ x \in Rows \ active
    /\ active' = active \cup {x}
    /\ UNCHANGED <<row, req, started, edited>>

SoftDeleteDepartment == \E d \in Department : Retire(d)
SoftDeleteUser       == \E u \in User : Retire(u)
SoftDeleteDevice     == \E e \in Device : Retire(e)
RestoreDepartment    == \E d \in Department : Return(d)
RestoreUser          == \E u \in User : Return(u)
RestoreDevice        == \E e \in Device : Return(e)

-----------------------------------------------------------------------------
(* Forms                                                                   *)

OpenNew(q, k) ==
    LET blank == [code |-> None, ref |-> NoRef] IN
    /\ Begin(q, [pc |-> "read", kind |-> k, id |-> None, entry |-> blank,
                 meant |-> blank, again |-> FALSE])
    /\ UNCHANGED <<row, active, edited>>

NewDepartment(q) == OpenNew(q, Department)
NewUser(q)       == OpenNew(q, User)
NewDevice(q)     == OpenNew(q, Device)

OpenEdit(q, x) ==
    /\ Begin(q, [pc |-> "read", kind |-> KindOf(x), id |-> x, entry |-> row[x],
                 meant |-> row[x], again |-> FALSE])
    /\ UNCHANGED <<row, active, edited>>

EditDepartment(q) == \E d \in Department \cap Rows : OpenEdit(q, d)
EditUser(q)       == \E u \in User \cap Rows : OpenEdit(q, u)
EditDevice(q)     == \E e \in Device \cap Rows : OpenEdit(q, e)

ListActiveDepartments == active \cap Department

\* The first ones by employee code.
ListActiveUsers ==
    {u \in active \cap User :
       Cardinality({v \in active \cap User : row[v].code < row[u].code}) < ListLimit}

\* A variant with a bug: what is active is taken to be listed.
PinnedRetired(id, y) == id # None /\ y \in Rows \ active

\* resolvePinnedDepartment and its kin: an edit form fetches what is not listed.
Pinned(id, y) == id # None /\ y \in Rows

Option(id, y) ==
    IF y \in ListActiveDepartments \cup ListActiveUsers \/ Pinned(id, y) THEN y ELSE None

\* Lists and pins are statements of their own; as each field depends on one
\* list and rows do not go away, one step has the outcomes of all orders.
Show(q, k) ==
    LET r == req[q] IN
    /\ r.pc = "read" /\ r.kind = k
    /\ req' = [req EXCEPT ![q].pc = "form",
                          ![q].entry.ref = [f \in Field |-> Option(r.id, r.entry.ref[f])]]
    /\ UNCHANGED <<row, active, started, edited>>

ShowDepartment(q) == Show(q, Department)
ShowUser(q)       == Show(q, User)
ShowDevice(q)     == Show(q, Device)

\* What the user means by a post: the fields that differ from what was shown.
Meant(r, posted) ==
    [code |-> IF posted.code # r.entry.code THEN posted.code ELSE r.meant.code,
     ref  |-> [f \in Field |-> IF posted.ref[f] # r.entry.ref[f] THEN posted.ref[f]
                               ELSE r.meant.ref[f]]]

\* A variant with a bug: a department may become its own parent.
RefusedNever(id, posted) == FALSE

\* update: neither parent nor successor of itself.
Refused(id, posted) ==
    id # None /\ (posted.ref["parent"] = id \/ posted.ref["successor"] = id)

\* A post is refused for these, or for a name or a date that does not parse,
\* and the form shown again with what was posted.
Post(q, k) ==
    LET r == req[q] IN
    /\ r.pc = "form" /\ r.kind = k
    /\ \E posted \in Row[k], malformed \in BOOLEAN :
         /\ \A f \in Field : posted.ref[f] \in Rows \cup {None}
         /\ LET refused == malformed \/ Refused(r.id, posted) IN
            req' = [req EXCEPT ![q] =
                      [r EXCEPT !.pc = IF refused THEN "read" ELSE "write",
                                !.again = r.again \/ refused,
                                !.entry = posted,
                                !.meant = Meant(r, posted)]]
    /\ UNCHANGED <<row, active, started, edited>>

PostDepartment(q) == Post(q, Department)
PostUser(q)       == Post(q, User)
PostDevice(q)     == Post(q, Device)

Create(q, k) ==
    LET r == req[q] IN
    /\ r.pc = "write" /\ r.kind = k /\ r.id = None
    /\ CodeFree(k, r.entry.code, None)
    /\ \E x \in k \ Rows :
         /\ row' = [row EXCEPT ![x] = r.entry]
         /\ active' = active \cup {x}
    /\ req' = [req EXCEPT ![q] = Idle]
    /\ UNCHANGED <<started, edited>>

CreateDepartment(q) == Create(q, Department)
CreateUser(q)       == Create(q, User)
CreateDevice(q)     == Create(q, Device)

Update(q, k) ==
    LET r == req[q] IN
    /\ r.pc = "write" /\ r.kind = k /\ r.id # None
    /\ CodeFree(k, r.entry.code, r.id)
    /\ row' = [row EXCEPT ![r.id] = r.entry]
    /\ edited' = edited \cup {r.id}
    /\ req' = [req EXCEPT ![q] = Idle]
    /\ UNCHANGED <<active, started>>

UpdateDepartment(q) == Update(q, Department)
UpdateUser(q)       == Update(q, User)
UpdateDevice(q)     == Update(q, Device)

\* The code is taken: the form is shown again, with what was posted.
Conflict(q, k) ==
    LET r == req[q] IN
    /\ r.pc = "write" /\ r.kind = k
    /\ ~CodeFree(k, r.entry.code, r.id)
    /\ req' = [req EXCEPT ![q].pc = "read", ![q].again = TRUE]
    /\ UNCHANGED <<row, active, started, edited>>

ConflictDepartment(q) == Conflict(q, Department)
ConflictUser(q)       == Conflict(q, User)
ConflictDevice(q)     == Conflict(q, Device)

\* A form that is closed, a failing statement, or a crash.
EndRequest(q) ==
    /\ req[q] # Idle
    /\ req' = [req EXCEPT ![q] = Idle]
    /\ UNCHANGED <<row, active, started, edited>>

-----------------------------------------------------------------------------
(* The import                                                              *)

Importing == \E q \in Request : req[q].pc = "import"

\* GetDepartmentByCode, GetUserByEmployeeCode: the row of a code, retired or not.
ByCode(k, code) == {x \in k \cap Rows : row[x].code = code}

\* The lines before line i that have this code.
Before(lines, i, code) == {j \in 1 .. i - 1 : lines[j].code = code}

Known(lines, i, f) ==
    LET code == lines[i].ref[f] IN
    \/ ByCode(Target(f), code) # {}
    \/ f = "parent" /\ Before(lines, i, code) # {}

Validate(q, k) ==
    \E lines \in Files[k] :
        /\ ~Importing
        /\ \A i \in DOMAIN lines :
             /\ CodeFree(k, lines[i].code, None)
             /\ Before(lines, i, lines[i].code) = {}
             /\ \A f \in Field : lines[i].ref[f] # None => Known(lines, i, f)
             /\ lines[i].ref["parent"] # lines[i].code
        /\ Begin(q, [pc |-> "import", kind |-> k, lines |-> lines])
        /\ UNCHANGED <<row, active, edited>>

ValidateDepartments(q) == Validate(q, Department)
ValidateUsers(q)       == Validate(q, User)
ValidateDevices(q)     == Validate(q, Device)

\* A variant with a bug: codes are all looked up in one table.
ResolvedAnywhere(lines, ids, i, f) ==
    IF lines[i].ref[f] = None THEN None
    ELSE CHOOSE x \in Rows \cup {ids[j] : j \in 1 .. i - 1} :
           x \in ByCode(Id, lines[i].ref[f])
           \/ \E j \in Before(lines, i, lines[i].ref[f]) : ids[j] = x

\* What line i refers to, once the lines before it are inserted.
Resolved(lines, ids, i, f) ==
    IF lines[i].ref[f] = None THEN None
    ELSE CHOOSE x \in Target(f) :
           \/ x \in ByCode(Target(f), lines[i].ref[f])
           \/ f = "parent" /\ \E j \in Before(lines, i, lines[i].ref[f]) : ids[j] = x

Insert(q, k) ==
    LET lines == req[q].lines IN
    /\ req[q].pc = "import" /\ req[q].kind = k
    /\ \A i \in DOMAIN lines :
         /\ CodeFree(k, lines[i].code, None)
         /\ \A f \in Field : lines[i].ref[f] # None => Known(lines, i, f)
    /\ \E ids \in [DOMAIN lines -> k \ Rows] :
         /\ \A i, j \in DOMAIN lines : ids[i] = ids[j] => i = j
         /\ row' = [x \in Id |->
                      IF \E i \in DOMAIN lines : ids[i] = x
                      THEN LET i == CHOOSE i \in DOMAIN lines : ids[i] = x
                           IN  [code |-> lines[i].code,
                                ref  |-> [f \in Field |-> Resolved(lines, ids, i, f)]]
                      ELSE row[x]]
         /\ active' = active \cup {ids[i] : i \in DOMAIN lines}
    /\ req' = [req EXCEPT ![q] = Idle]
    /\ UNCHANGED <<started, edited>>

InsertDepartments(q) == Insert(q, Department)
InsertUsers(q)       == Insert(q, User)
InsertDevices(q)     == Insert(q, Device)

-----------------------------------------------------------------------------
Next ==
    \/ SoftDeleteDepartment \/ SoftDeleteUser \/ SoftDeleteDevice
    \/ RestoreDepartment \/ RestoreUser \/ RestoreDevice
    \/ \E q \in Request :
         \/ NewDepartment(q) \/ NewUser(q) \/ NewDevice(q)
         \/ EditDepartment(q) \/ EditUser(q) \/ EditDevice(q)
         \/ ShowDepartment(q) \/ ShowUser(q) \/ ShowDevice(q)
         \/ PostDepartment(q) \/ PostUser(q) \/ PostDevice(q)
         \/ CreateDepartment(q) \/ CreateUser(q) \/ CreateDevice(q)
         \/ UpdateDepartment(q) \/ UpdateUser(q) \/ UpdateDevice(q)
         \/ ConflictDepartment(q) \/ ConflictUser(q) \/ ConflictDevice(q)
         \/ EndRequest(q)
         \/ ValidateDepartments(q) \/ ValidateUsers(q) \/ ValidateDevices(q)
         \/ InsertDepartments(q) \/ InsertUsers(q) \/ InsertDevices(q)

Spec == Init /\ [][Next]_vars

-----------------------------------------------------------------------------
(* Properties                                                              *)

\* The row that request q writes in this step.
Writes(q, x) ==
    /\ req[q].pc = "write" /\ req'[q] = Idle
    /\ row'[x] # row[x]

\* A save stores what its user has read or entered last, in every field:
\* references that were retired, or are not among the listed users, do not
\* vanish from a form, however often it is shown.  Only the form of a new row
\* that is shown again drops a reference that is listed no more.
SavesWhatWasMeant ==
    [][\A q \in Request, x \in Id : Writes(q, x) =>
         /\ row'[x].code = req[q].meant.code
         /\ \A f \in Field :
              \/ row'[x].ref[f] = req[q].meant.ref[f]
              \/ req[q].id = None /\ req[q].again /\ row'[x].ref[f] = None]_vars

\* No department is above or after itself, and a longer circle has a link that
\* was edited: neither new rows nor the lines of a file close one.
CirclesNeedEdits ==
    \A f \in {"parent", "successor"} :
        /\ \A d \in Department \cap Rows : row[d].ref[f] # d
        /\ \A circle \in (SUBSET (Department \cap Rows)) \ {{}} :
             (\A d \in circle : row[d].ref[f] \in circle) => circle \cap edited # {}
=============================================================================
