--------------------------- MODULE RegistryProofs ---------------------------
(* Proofs about Registry.  The inductive invariant says what a request that *)
(* was not overtaken may still rely on (Fresh).                             *)
EXTENDS Registry, TLAPS

\* What a request that nobody has overtaken found is still so.
FreshRequest(r) ==
    /\ r.pc = "insert" /\ ~r.late => r.key.of \notin retired
    /\ r.pc = "migrate" /\ ~r.late => r.to \notin retired
    /\ r.pc = "save" /\ ~r.late => r.dept \notin retired \/ owner[r.license] = r.dept
    /\ r.pc = "import" /\ ~r.late =>
         /\ r.keys = Resolved(r.lines)
         /\ \A k \in r.keys : k.of \notin retired
    /\ r.pc = "bring" /\ ~r.late =>
         \A l \in DOMAIN r.place : r.place[l] \notin retired

Fresh == \A q \in Request : FreshRequest(req[q])

IInv == TypeOK /\ ActiveOnce /\ Fresh

-----------------------------------------------------------------------------
(* Types of the parts                                                      *)

Inserting == [pc : {"insert"},  key : Key, late : BOOLEAN]
Revoking  == [pc : {"revoke"},  row : Row, late : BOOLEAN]
Migrating == [pc : {"migrate"}, from : Dept, to : Dept, late : BOOLEAN]
Saving    == [pc : {"save"},    license : License, new : BOOLEAN, dept : Dept,
              late : BOOLEAN]
Importers == [pc : {"import"},  lines : SUBSET Line, keys : SUBSET Key, late : BOOLEAN]
Bringing  == [pc : {"bring"},   place : UNION {[S -> Dept] : S \in SUBSET License},
              late : BOOLEAN]

\* The kinds of progress, by name.
LEMMA Kinds ==
    Progress = {Idle} \cup Inserting \cup Revoking \cup Migrating \cup Saving
                      \cup Importers \cup Bringing
BY DEF Progress, Inserting, Revoking, Migrating, Saving, Importers, Bringing

\* What pc says about the kind.
LEMMA KindOf ==
    ASSUME NEW r \in Progress
    PROVE  /\ r.pc = "idle"    => r = Idle
           /\ r.pc = "insert"  => r \in Inserting
           /\ r.pc = "revoke"  => r \in Revoking
           /\ r.pc = "migrate" => r \in Migrating
           /\ r.pc = "save"    => r \in Saving
           /\ r.pc = "import"  => r \in Importers
           /\ r.pc = "bring"   => r \in Bringing
           /\ r.pc \in {"idle", "insert", "revoke", "migrate", "save", "import", "bring"}
<1>1. \A i \in {Idle} : i.pc = "idle"
  BY DEF Idle
<1>2. \A i \in Inserting : i.pc = "insert"
  BY DEF Inserting
<1>3. \A i \in Revoking : i.pc = "revoke"
  BY DEF Revoking
<1>4. \A i \in Migrating : i.pc = "migrate"
  BY DEF Migrating
<1>5. \A i \in Saving : i.pc = "save"
  BY DEF Saving
<1>6. \A i \in Importers : i.pc = "import"
  BY DEF Importers
<1>7. \A i \in Bringing : i.pc = "bring"
  BY DEF Bringing
<1>8. QED
  BY Kinds, <1>1, <1>2, <1>3, <1>4, <1>5, <1>6, <1>7

\* r with its mark set.
Overtaken(r) == [r EXCEPT !.late = TRUE]

\* A mark keeps the kind and everything else that was found.
LEMMA OvertakenIsProgress ==
    ASSUME NEW r \in Progress, r.pc # "idle"
    PROVE  /\ Overtaken(r) \in Progress
           /\ Overtaken(r).pc = r.pc
           /\ Overtaken(r).late
<1>1. CASE r \in Inserting
  <2>1. Overtaken(r) \in Inserting /\ Overtaken(r).pc = r.pc /\ Overtaken(r).late
    BY <1>1 DEF Inserting, Overtaken
  <2>2. QED
    BY <2>1, Kinds
<1>2. CASE r \in Revoking
  <2>1. Overtaken(r) \in Revoking /\ Overtaken(r).pc = r.pc /\ Overtaken(r).late
    BY <1>2 DEF Revoking, Overtaken
  <2>2. QED
    BY <2>1, Kinds
<1>3. CASE r \in Migrating
  <2>1. Overtaken(r) \in Migrating /\ Overtaken(r).pc = r.pc /\ Overtaken(r).late
    BY <1>3 DEF Migrating, Overtaken
  <2>2. QED
    BY <2>1, Kinds
<1>4. CASE r \in Saving
  <2>1. Overtaken(r) \in Saving /\ Overtaken(r).pc = r.pc /\ Overtaken(r).late
    BY <1>4 DEF Saving, Overtaken
  <2>2. QED
    BY <2>1, Kinds
<1>5. CASE r \in Importers
  <2>1. Overtaken(r) \in Importers /\ Overtaken(r).pc = r.pc /\ Overtaken(r).late
    BY <1>5 DEF Importers, Overtaken
  <2>2. QED
    BY <2>1, Kinds
<1>6. CASE r \in Bringing
  <2>1. Overtaken(r) \in Bringing /\ Overtaken(r).pc = r.pc /\ Overtaken(r).late
    BY <1>6 DEF Bringing, Overtaken
  <2>2. QED
    BY <2>1, Kinds
<1>7. QED
  BY <1>1, <1>2, <1>3, <1>4, <1>5, <1>6, KindOf

\* Whether r relies on one of the subjects, or has looked at one of the licences.
Hit(r, subjects, licenses) ==
    \/ Relied(r) \cap subjects # {}
    \/ Looked(r) \cap licenses # {}
    \/ r.pc = "migrate" /\ r.from \in subjects

\* Marked, one request at a time.
LEMMA MarkedAt ==
    ASSUME TypeOK, NEW subjects, NEW licenses, NEW q \in Request
    PROVE  /\ Hit(req[q], subjects, licenses) =>
                Marked(subjects, licenses)[q] = Overtaken(req[q])
           /\ ~Hit(req[q], subjects, licenses) =>
                Marked(subjects, licenses)[q] = req[q]
BY DEF Marked, Hit, Overtaken

\* Only a request under way relies on anything.
LEMMA HitNotIdle ==
    ASSUME NEW r \in Progress, NEW subjects, NEW licenses, Hit(r, subjects, licenses)
    PROVE  r.pc # "idle"
BY DEF Hit, Relied, Looked

\* Marking keeps the type, the kinds, and the requests that are idle.
LEMMA MarkedType ==
    ASSUME TypeOK, NEW subjects, NEW licenses
    PROVE  /\ Marked(subjects, licenses) \in [Request -> Progress]
           /\ \A q \in Request : Marked(subjects, licenses)[q].pc = req[q].pc
<1>1. \A q \in Request : req[q] \in Progress
  BY DEF TypeOK
<1>2. ASSUME NEW q \in Request
      PROVE  /\ Marked(subjects, licenses)[q] \in Progress
             /\ Marked(subjects, licenses)[q].pc = req[q].pc
  BY <1>1, MarkedAt, HitNotIdle, OvertakenIsProgress
<1>3. Marked(subjects, licenses) = [q \in Request |-> Marked(subjects, licenses)[q]]
  BY DEF Marked
<1>4. QED
  BY <1>2, <1>3

LEMMA IdleIsProgress == Idle \in Progress /\ Idle.pc = "idle"
BY DEF Progress, Idle

-----------------------------------------------------------------------------
(* Type correctness                                                        *)

LEMMA BeginType ==
    ASSUME TypeOK, NEW q \in Request, NEW r \in Progress, Begin(q, r)
    PROVE  TypeOK'
BY RegistryAssumption DEF TypeOK, Begin

LEMMA FinishType ==
    ASSUME TypeOK, NEW q \in Request
    PROVE  [req EXCEPT ![q] = Idle] \in [Request -> Progress]
BY IdleIsProgress DEF TypeOK

LEMMA MarkedFinishType ==
    ASSUME TypeOK, NEW q \in Request, NEW subjects, NEW licenses
    PROVE  [Marked(subjects, licenses) EXCEPT ![q] = Idle] \in [Request -> Progress]
BY MarkedType, IdleIsProgress

LEMMA RetireType ==
    ASSUME TypeOK, NEW s \in Subject, Retire(s) \/ Restore(s)
    PROVE  TypeOK'
<1>1. retired' \in SUBSET Subject
  BY DEF TypeOK, Retire, Restore
<1>2. req' \in [Request -> Progress]
  BY MarkedType DEF Retire, Restore
<1>3. QED
  BY <1>1, <1>2 DEF TypeOK, Retire, Restore

LEMMA InsertKeysType ==
    ASSUME TypeOK, NEW keys, InsertAll(keys)
    PROVE  live' \in SUBSET Row
BY DEF TypeOK, InsertAll, NewRows

\* What is begun has its type.
LEMMA BegunInsert ==
    ASSUME NEW key \in Key
    PROVE  [pc |-> "insert", key |-> key, late |-> FALSE] \in Progress
<1>1. [pc |-> "insert", key |-> key, late |-> FALSE] \in Inserting
  BY DEF Inserting
<1>2. QED
  BY <1>1, Kinds

LEMMA BegunRevoke ==
    ASSUME NEW row \in Row
    PROVE  [pc |-> "revoke", row |-> row, late |-> FALSE] \in Progress
<1>1. [pc |-> "revoke", row |-> row, late |-> FALSE] \in Revoking
  BY DEF Revoking
<1>2. QED
  BY <1>1, Kinds

LEMMA BegunMigrate ==
    ASSUME NEW from \in Dept, NEW to \in Dept
    PROVE  [pc |-> "migrate", from |-> from, to |-> to, late |-> FALSE] \in Progress
<1>1. [pc |-> "migrate", from |-> from, to |-> to, late |-> FALSE] \in Migrating
  BY DEF Migrating
<1>2. QED
  BY <1>1, Kinds

LEMMA BegunSave ==
    ASSUME NEW l \in License, NEW d \in Dept, NEW new \in BOOLEAN
    PROVE  [pc |-> "save", license |-> l, new |-> new, dept |-> d, late |-> FALSE]
             \in Progress
<1>1. [pc |-> "save", license |-> l, new |-> new, dept |-> d, late |-> FALSE] \in Saving
  BY DEF Saving
<1>2. QED
  BY <1>1, Kinds

\* A line stands for keys.
LEMMA ResolveKeys ==
    ASSUME NEW lines \in SUBSET Line
    PROVE  Resolved(lines) \in SUBSET Key
<1>1. ASSUME NEW x \in lines, NEW k \in Resolve(x)
      PROVE  k \in Key
  <2>1. k \in [table : {x.table}, of : {x.of}, to : License]
    BY <1>1 DEF Resolve
  <2>2. x \in Line
    OBVIOUS
  <2>3. \/ x.table = "user" /\ x.of \in User
        \/ x.table = "device" /\ x.of \in Device
    BY <2>2 DEF Line
  <2>4. \/ k \in [table : {"user"}, of : User, to : License]
        \/ k \in [table : {"device"}, of : Device, to : License]
    BY <2>1, <2>3
  <2>5. QED
    BY <2>4 DEF Key
<1>2. QED
  BY <1>1 DEF Resolved

LEMMA BegunImport ==
    ASSUME NEW lines \in SUBSET Line
    PROVE  [pc |-> "import", lines |-> lines, keys |-> Resolved(lines), late |-> FALSE]
             \in Progress
<1>1. Resolved(lines) \in SUBSET Key
  BY ResolveKeys
<1>2. [pc |-> "import", lines |-> lines, keys |-> Resolved(lines), late |-> FALSE]
        \in Importers
  BY <1>1 DEF Importers
<1>3. QED
  BY <1>2, Kinds

LEMMA BegunBring ==
    ASSUME NEW S \in SUBSET License, NEW place \in [S -> Dept]
    PROVE  [pc |-> "bring", place |-> place, late |-> FALSE] \in Progress
<1>1. place \in UNION {[X -> Dept] : X \in SUBSET License}
  OBVIOUS
<1>2. [pc |-> "bring", place |-> place, late |-> FALSE] \in Bringing
  BY <1>1 DEF Bringing
<1>3. QED
  BY <1>2, Kinds

\* The keys of the four tables.
LEMMA KeysOfTables ==
    /\ \A u \in User, l \in License : [table |-> "user", of |-> u, to |-> l] \in Key
    /\ \A d \in Device, l \in License : [table |-> "device", of |-> d, to |-> l] \in Key
    /\ \A d \in Dept, p \in Product : [table |-> "approval", of |-> d, to |-> p] \in Key
    /\ \A d \in Dept, a \in Account : [table |-> "role", of |-> d, to |-> a] \in Key
BY DEF Key

-----------------------------------------------------------------------------
(* The steps in groups                                                     *)

\* A look, and what it finds.
Look(q) ==
    \/ \E key \in Key : CheckInsert(q, key)
    \/ \E r \in live : See(q, r)
    \/ CheckCreateLicense(q) \/ CheckEditLicense(q) \/ CheckMigrate(q)
    \/ ValidateUserAssignments(q) \/ ValidateDeviceAssignments(q)
    \/ ValidateLicenses(q)

\* A transaction.
Write(q) ==
    \/ \E table \in {"user", "device", "approval", "role"} : Insert(q, table)
    \/ Revoke(q) \/ SaveLicense(q) \/ Migrate(q)
    \/ ImportAssignments(q) \/ ImportLicenses(q)

\* Every step is one of the groups.
LEMMA Groups ==
    ASSUME TypeOK, Next
    PROVE  \/ \E s \in Subject : Retire(s) \/ Restore(s)
           \/ \E q \in Request : Look(q) \/ Write(q) \/ EndRequest(q)
<1>1. CASE \/ RetireDepartment \/ RestoreDepartment \/ DeactivateUser
           \/ RestoreUser \/ RetireDevice \/ RestoreDevice
  BY <1>1 DEF RetireDepartment, RestoreDepartment, DeactivateUser, RestoreUser,
              RetireDevice, RestoreDevice, Subject
<1>2. ASSUME NEW q \in Request,
             CheckAssignUser(q) \/ CheckAssignDevice(q) \/ CheckApproval(q) \/ CheckGrant(q)
      PROVE  Look(q)
  BY <1>2, KeysOfTables
     DEF CheckAssignUser, CheckAssignDevice, CheckApproval, CheckGrant, Look
<1>3. ASSUME NEW q \in Request, SeeAssignment(q) \/ SeeRole(q) \/ SeeApproval(q)
      PROVE  Look(q)
  BY <1>3 DEF SeeAssignment, SeeRole, SeeApproval, Look
<1>4. ASSUME NEW q \in Request,
             \/ CreateUserAssignment(q) \/ CreateDeviceAssignment(q)
             \/ CreateApproval(q) \/ CreateUserDepartmentRole(q)
      PROVE  Write(q)
  BY <1>4 DEF CreateUserAssignment, CreateDeviceAssignment, CreateApproval,
              CreateUserDepartmentRole, Write
<1>5. QED
  BY <1>1, <1>2, <1>3, <1>4 DEF Next, Look, Write

\* A look begins a request and changes nothing else.
LEMMA LookBegins ==
    ASSUME TypeOK, NEW q \in Request, Look(q)
    PROVE  \E r \in Progress : Begin(q, r) /\ r.pc # "idle"
<1>1. ASSUME NEW key \in Key, CheckInsert(q, key)
      PROVE  \E r \in Progress : Begin(q, r) /\ r.pc # "idle"
  BY <1>1, BegunInsert DEF CheckInsert
<1>2. ASSUME NEW row \in live, See(q, row)
      PROVE  \E r \in Progress : Begin(q, r) /\ r.pc # "idle"
  <2>1. row \in Row
    BY DEF TypeOK
  <2>2. QED
    BY <1>2, <2>1, BegunRevoke DEF See
<1>3. CASE CheckCreateLicense(q)
  BY <1>3, BegunSave DEF CheckCreateLicense
<1>4. CASE CheckEditLicense(q)
  BY <1>4, BegunSave DEF CheckEditLicense
<1>5. CASE CheckMigrate(q)
  BY <1>5, BegunMigrate DEF CheckMigrate
<1>6. CASE ValidateUserAssignments(q) \/ ValidateDeviceAssignments(q)
  BY <1>6, BegunImport
     DEF ValidateUserAssignments, ValidateDeviceAssignments, ValidateAssignments
<1>7. CASE ValidateLicenses(q)
  BY <1>7, BegunBring DEF ValidateLicenses
<1>8. QED
  BY <1>1, <1>2, <1>3, <1>4, <1>5, <1>6, <1>7 DEF Look

LEMMA WriteType ==
    ASSUME TypeOK, NEW q \in Request, Write(q)
    PROVE  TypeOK'
<1>1. ASSUME NEW table, Insert(q, table)
      PROVE  TypeOK'
  <2>1. live' \in SUBSET Row
    BY <1>1, InsertKeysType DEF Insert
  <2>2. req' \in [Request -> Progress]
    BY <1>1, FinishType DEF Insert, Finish
  <2>3. QED
    BY <1>1, <2>1, <2>2 DEF TypeOK, Insert
<1>2. CASE Revoke(q)
  <2>1. live' \in SUBSET Row /\ past' \in SUBSET Row
    BY <1>2 DEF TypeOK, Revoke
  <2>2. req' \in [Request -> Progress]
    BY <1>2, FinishType DEF Revoke, Finish
  <2>3. QED
    BY <1>2, <2>1, <2>2 DEF TypeOK, Revoke
<1>3. CASE SaveLicense(q)
  <2>1. req[q] \in Saving
    BY <1>3, KindOf DEF SaveLicense, TypeOK
  <2>2. owner' \in [License -> Dept \cup {None}]
    BY <1>3, <2>1 DEF TypeOK, SaveLicense, Saving
  <2>3. req' \in [Request -> Progress]
    BY <1>3, MarkedFinishType DEF SaveLicense
  <2>4. QED
    BY <1>3, <2>2, <2>3 DEF TypeOK, SaveLicense
<1>4. CASE Migrate(q)
  <2>1. req[q] \in Migrating
    BY <1>4, KindOf DEF Migrate, TypeOK
  <2>2. owner' \in [License -> Dept \cup {None}]
    BY <1>4, <2>1 DEF TypeOK, Migrate, Migrating
  <2>3. req' \in [Request -> Progress]
    BY <1>4, MarkedFinishType DEF Migrate
  <2>4. live' \in SUBSET Row
    BY <1>4, InsertKeysType DEF Migrate
  <2>5. QED
    BY <1>4, <2>2, <2>3, <2>4 DEF TypeOK, Migrate
<1>5. CASE ImportAssignments(q)
  <2>1. live' \in SUBSET Row
    BY <1>5, InsertKeysType DEF ImportAssignments
  <2>2. req' \in [Request -> Progress]
    BY <1>5, FinishType DEF ImportAssignments, Finish
  <2>3. QED
    BY <1>5, <2>1, <2>2 DEF TypeOK, ImportAssignments
<1>6. CASE ImportLicenses(q)
  <2>1. req[q] \in Bringing
    BY <1>6, KindOf DEF ImportLicenses, TypeOK
  <2>2. \A l \in DOMAIN req[q].place : req[q].place[l] \in Dept
    BY <2>1 DEF Bringing
  <2>3. owner' \in [License -> Dept \cup {None}]
    BY <1>6, <2>2 DEF TypeOK, ImportLicenses
  <2>4. req' \in [Request -> Progress]
    BY <1>6, MarkedFinishType DEF ImportLicenses
  <2>5. QED
    BY <1>6, <2>3, <2>4 DEF TypeOK, ImportLicenses
<1>7. QED
  BY <1>1, <1>2, <1>3, <1>4, <1>5, <1>6 DEF Write

LEMMA TypeStep ==
    ASSUME TypeOK, [Next]_vars
    PROVE  TypeOK'
<1>1. ASSUME NEW s \in Subject, Retire(s) \/ Restore(s)
      PROVE  TypeOK'
  BY <1>1, RetireType
<1>2. ASSUME NEW q \in Request, Look(q)
      PROVE  TypeOK'
  BY <1>2, LookBegins, BeginType
<1>3. ASSUME NEW q \in Request, Write(q)
      PROVE  TypeOK'
  BY <1>3, WriteType
<1>4. ASSUME NEW q \in Request, EndRequest(q)
      PROVE  TypeOK'
  <2>1. req' \in [Request -> Progress]
    BY <1>4, FinishType DEF EndRequest, Finish
  <2>2. QED
    BY <1>4, <2>1 DEF TypeOK, EndRequest
<1>5. CASE UNCHANGED vars
  BY <1>5 DEF TypeOK, vars
<1>6. QED
  BY <1>1, <1>2, <1>3, <1>4, <1>5, Groups

-----------------------------------------------------------------------------
(* One active row of a key                                                 *)

\* Ids are not given twice.
LEMMA NextIdIsOne ==
    ASSUME NEW key, NEW m \in 1 .. MaxRow, NEW n \in 1 .. MaxRow,
           IsNext(key, m), IsNext(key, n)
    PROVE  m = n
<1>1. ASSUME NEW i \in 1 .. MaxRow, NEW j \in 1 .. MaxRow,
             IsNext(key, i), IsNext(key, j), i < j
      PROVE  FALSE
  <2>1. i \in 1 .. j - 1
    BY <1>1, RegistryAssumption
  <2>2. PICK r \in live \cup past : r.key = key /\ r.n = i
    BY <1>1, <2>1 DEF IsNext
  <2>3. r.n < i
    BY <1>1, <2>2 DEF IsNext
  <2>4. QED
    BY <2>2, <2>3, RegistryAssumption
<1>2. QED
  BY <1>1, RegistryAssumption

LEMMA InsertKeepsOne ==
    ASSUME TypeOK, ActiveOnce, NEW keys, InsertAll(keys)
    PROVE  ActiveOnce'
<1>1. SUFFICES ASSUME NEW r \in live', NEW s \in live', r.key = s.key
               PROVE  r = s
  BY DEF ActiveOnce
<1>2. r \in Row /\ s \in Row
  BY InsertKeysType DEF TypeOK
<1>3. r \in live \/ r \in NewRows(keys)
  BY DEF InsertAll
<1>4. s \in live \/ s \in NewRows(keys)
  BY DEF InsertAll
<1>5. \A t \in NewRows(keys) : ~Has(t.key) /\ IsNext(t.key, t.n)
  BY DEF InsertAll, NewRows
<1>6. CASE r \in live /\ s \in live
  BY <1>1, <1>6 DEF ActiveOnce
<1>7. CASE r \in live /\ s \in NewRows(keys)
  BY <1>1, <1>5, <1>7 DEF Has
<1>8. CASE s \in live /\ r \in NewRows(keys)
  BY <1>1, <1>5, <1>8 DEF Has
<1>9. CASE r \in NewRows(keys) /\ s \in NewRows(keys)
  <2>1. r.n = s.n
    BY <1>1, <1>2, <1>5, <1>9, NextIdIsOne DEF Row
  <2>2. QED
    BY <1>1, <1>2, <2>1 DEF Row
<1>10. QED
  BY <1>3, <1>4, <1>6, <1>7, <1>8, <1>9

\* Only a transaction that inserts can add an active row.
LEMMA OnceStep ==
    ASSUME TypeOK, ActiveOnce, [Next]_vars
    PROVE  ActiveOnce'
<1>1. ASSUME live' \subseteq live
      PROVE  ActiveOnce'
  BY <1>1 DEF ActiveOnce
<1>2. ASSUME NEW s \in Subject, Retire(s) \/ Restore(s)
      PROVE  ActiveOnce'
  BY <1>1, <1>2 DEF Retire, Restore
<1>3. ASSUME NEW q \in Request, Look(q)
      PROVE  ActiveOnce'
  BY <1>1, <1>3, LookBegins DEF Begin
<1>4. ASSUME NEW q \in Request, Write(q)
      PROVE  ActiveOnce'
  <2>1. ASSUME NEW table, Insert(q, table)
        PROVE  ActiveOnce'
    BY <2>1, InsertKeepsOne DEF Insert
  <2>2. CASE Revoke(q)
    BY <2>2, <1>1 DEF Revoke
  <2>3. CASE SaveLicense(q)
    BY <2>3, <1>1 DEF SaveLicense
  <2>4. CASE Migrate(q)
    BY <2>4, InsertKeepsOne DEF Migrate
  <2>5. CASE ImportAssignments(q)
    BY <2>5, InsertKeepsOne DEF ImportAssignments
  <2>6. CASE ImportLicenses(q)
    BY <2>6, <1>1 DEF ImportLicenses
  <2>7. QED
    BY <1>4, <2>1, <2>2, <2>3, <2>4, <2>5, <2>6 DEF Write
<1>5. ASSUME NEW q \in Request, EndRequest(q)
      PROVE  ActiveOnce'
  BY <1>1, <1>5 DEF EndRequest
<1>6. CASE UNCHANGED vars
  BY <1>1, <1>6 DEF vars
<1>7. QED
  BY <1>2, <1>3, <1>4, <1>5, <1>6, Groups

-----------------------------------------------------------------------------
(* What requests rely on                                                   *)

\* A request that is not hit by a change finds what it found before.
LEMMA NotHitKeeps ==
    ASSUME TypeOK, NEW r \in Progress, FreshRequest(r),
           NEW subjects, NEW licenses, ~Hit(r, subjects, licenses),
           \A s \in Subject : s \notin subjects => (s \in retired' <=> s \in retired),
           \A l \in License : l \notin licenses => owner'[l] = owner[l]
    PROVE  FreshRequest(r)'
<1>0. \A s \in Subject : s \notin subjects => (s \in retired' <=> s \in retired)
  OBVIOUS
<1>1. CASE r.pc = "insert"
  <2>1. r \in Inserting
    BY <1>1, KindOf
  <2>2. r.key.of \in Subject
    BY <2>1 DEF Inserting, Key, Subject
  <2>3. r.key.of \notin subjects
    BY <1>1 DEF Hit, Relied
  <2>4. QED
    BY <1>1, <2>2, <2>3 DEF FreshRequest
<1>2. CASE r.pc = "migrate"
  <2>1. r \in Migrating
    BY <1>2, KindOf
  <2>2. r.to \in Subject
    BY <2>1 DEF Migrating, Subject
  <2>3. r.to \notin subjects
    BY <1>2 DEF Hit, Relied
  <2>4. QED
    BY <1>2, <2>2, <2>3 DEF FreshRequest
<1>3. CASE r.pc = "save"
  <2>1. r \in Saving
    BY <1>3, KindOf
  <2>2. r.dept \in Subject /\ r.license \in License
    BY <2>1 DEF Saving, Subject
  <2>3. r.dept \notin subjects /\ r.license \notin licenses
    BY <1>3 DEF Hit, Relied, Looked
  <2>4. QED
    BY <1>3, <2>2, <2>3 DEF FreshRequest
<1>4. CASE r.pc = "import"
  <2>1. r \in Importers
    BY <1>4, KindOf
  <2>2. ASSUME NEW x \in r.lines
        PROVE  Resolve(x)' = Resolve(x)
    <3>1. ASSUME NEW l \in License, Article[l] = x.article
          PROVE  owner'[l] = owner[l]
      <4>1. l \in Looked(r)
        BY <1>4, <3>1 DEF Looked
      <4>2. l \notin licenses
        BY <4>1 DEF Hit
      <4>3. QED
        BY <4>2
    <3>2. QED
      BY <3>1 DEF Resolve
  <2>3. Resolved(r.lines)' = Resolved(r.lines)
    BY <2>2 DEF Resolved
  <2>4. ASSUME NEW k \in r.keys
        PROVE  k.of \in Subject /\ k.of \notin subjects
    <3>1. k \in Key
      BY <2>1 DEF Importers
    <3>2. k.of \in Relied(r)
      BY <1>4 DEF Relied
    <3>3. QED
      BY <3>1, <3>2 DEF Hit, Key, Subject
  <2>5. QED
    BY <1>4, <2>3, <2>4 DEF FreshRequest
<1>5. CASE r.pc = "bring"
  <2>1. r \in Bringing
    BY <1>5, KindOf
  <2>2. ASSUME NEW l \in DOMAIN r.place
        PROVE  r.place[l] \in Subject /\ r.place[l] \notin subjects
    <3>1. r.place[l] \in Dept
      BY <2>1 DEF Bringing
    <3>2. r.place[l] \in Relied(r)
      BY <1>5 DEF Relied
    <3>3. QED
      BY <3>1, <3>2 DEF Hit, Subject
  <2>3. QED
    BY <1>5, <2>2 DEF FreshRequest
<1>6. CASE r.pc \in {"idle", "revoke"}
  BY <1>6 DEF FreshRequest
<1>7. QED
  BY <1>1, <1>2, <1>3, <1>4, <1>5, <1>6, KindOf

\* What is marked relies on nothing; what is not, still finds it.
LEMMA MarkedKeeps ==
    ASSUME TypeOK, Fresh, NEW subjects, NEW licenses, NEW p \in Request,
           \A s \in Subject : s \notin subjects => (s \in retired' <=> s \in retired),
           \A l \in License : l \notin licenses => owner'[l] = owner[l],
           req'[p] = Marked(subjects, licenses)[p]
    PROVE  FreshRequest(req[p])'
<1>1. req[p] \in Progress /\ FreshRequest(req[p])
  BY DEF TypeOK, Fresh
<1>2. CASE Hit(req[p], subjects, licenses)
  <2>1. req'[p] = Overtaken(req[p])
    BY <1>2, MarkedAt
  <2>2. req'[p].late
    BY <1>1, <1>2, <2>1, HitNotIdle, OvertakenIsProgress
  <2>3. QED
    BY <2>2 DEF FreshRequest
<1>3. CASE ~Hit(req[p], subjects, licenses)
  <2>1. req'[p] = req[p]
    BY <1>3, MarkedAt
  <2>2. FreshRequest(req[p])'
    BY <1>1, <1>3, <2>1, NotHitKeeps
  <2>3. QED
    BY <2>2
<1>4. QED
  BY <1>2, <1>3

\* Nothing that requests rely on changes.
LEMMA NothingHit ==
    ASSUME TypeOK, Fresh, NEW p \in Request,
           retired' = retired, owner' = owner, req'[p] = req[p]
    PROVE  FreshRequest(req[p])'
<1>1. ~Hit(req[p], {}, {})
  BY DEF Hit
<1>2. Marked({}, {})[p] = req[p]
  BY <1>1, MarkedAt
<1>3. QED
  BY <1>2, MarkedKeeps

LEMMA IdleIsFresh ==
    ASSUME NEW q \in Request, req'[q] = Idle
    PROVE  FreshRequest(req[q])'
BY DEF FreshRequest, Idle

\* A look finds what it relies on.
LEMMA LookIsFresh ==
    ASSUME TypeOK, NEW q \in Request, Look(q)
    PROVE  FreshRequest(req[q])'
<1>0. DOMAIN req = Request
  BY DEF TypeOK
<1>1. ASSUME NEW r, Begin(q, r)
      PROVE  req'[q] = r /\ retired' = retired /\ owner' = owner
  BY <1>0, <1>1 DEF Begin
<1>2. ASSUME NEW key \in Key, CheckInsert(q, key)
      PROVE  FreshRequest(req[q])'
  BY <1>1, <1>2 DEF CheckInsert, FreshRequest
<1>3. ASSUME NEW row \in live, See(q, row)
      PROVE  FreshRequest(req[q])'
  BY <1>1, <1>3 DEF See, FreshRequest
<1>4. CASE CheckCreateLicense(q)
  BY <1>1, <1>4 DEF CheckCreateLicense, FreshRequest
<1>5. CASE CheckEditLicense(q)
  BY <1>1, <1>5 DEF CheckEditLicense, FreshRequest
<1>6. CASE CheckMigrate(q)
  BY <1>1, <1>6 DEF CheckMigrate, FreshRequest
<1>7. CASE ValidateUserAssignments(q) \/ ValidateDeviceAssignments(q)
  <2>0. PICK table \in {"user", "device"} :
          \E lines \in SUBSET Line : ValidateAssignments(q, table, lines)
    BY <1>7 DEF ValidateUserAssignments, ValidateDeviceAssignments
  <2>1. PICK lines \in SUBSET Line : ValidateAssignments(q, table, lines)
    BY <2>0
  <2>2. /\ req'[q] = [pc |-> "import", lines |-> lines, keys |-> Resolved(lines),
                      late |-> FALSE]
        /\ retired' = retired /\ owner' = owner
    BY <1>1, <2>1 DEF ValidateAssignments
  <2>3. ASSUME NEW k \in Resolved(lines)
        PROVE  k.of \notin retired
    <3>1. PICK x \in lines : k \in Resolve(x)
      BY DEF Resolved
    <3>2. k.of = x.of
      BY <3>1 DEF Resolve
    <3>3. QED
      BY <2>1, <3>1, <3>2 DEF ValidateAssignments
  <2>4. Resolved(lines)' = Resolved(lines)
    BY <2>2 DEF Resolved, Resolve
  <2>5. QED
    BY <2>2, <2>3, <2>4 DEF FreshRequest
<1>8. CASE ValidateLicenses(q)
  BY <1>1, <1>8 DEF ValidateLicenses, FreshRequest
<1>9. QED
  BY <1>2, <1>3, <1>4, <1>5, <1>6, <1>7, <1>8 DEF Look

\* The requests that a transaction is not of.
LEMMA WriteKeepsOthers ==
    ASSUME TypeOK, Fresh, NEW q \in Request, Write(q), NEW p \in Request, p # q
    PROVE  FreshRequest(req[p])'
<1>0. DOMAIN req = Request
  BY DEF TypeOK
<1>1. CASE \/ \E table : Insert(q, table)
           \/ Revoke(q) \/ ImportAssignments(q)
  <2>1. req'[p] = req[p] /\ retired' = retired /\ owner' = owner
    BY <1>0, <1>1 DEF Insert, Revoke, ImportAssignments, Finish
  <2>2. QED
    BY <2>1, NothingHit
<1>2. CASE SaveLicense(q)
  <2>1. PICK moved : /\ moved = IF owner[req[q].license] = req[q].dept
                                THEN {} ELSE {req[q].license}
                     /\ req' = [Marked({}, moved) EXCEPT ![q] = Idle]
    BY <1>2 DEF SaveLicense
  <2>2. req'[p] = Marked({}, moved)[p]
    BY <2>1 DEF Marked
  <2>3. \A l \in License : l \notin moved => owner'[l] = owner[l]
    BY <1>2, <2>1 DEF SaveLicense, TypeOK
  <2>4. retired' = retired
    BY <1>2 DEF SaveLicense
  <2>5. QED
    BY <2>2, <2>3, <2>4, MarkedKeeps
<1>3. CASE Migrate(q)
  <2>1. PICK moved : /\ moved = Movable(req[q].from, req[q].to)
                     /\ req' = [Marked({}, moved) EXCEPT ![q] = Idle]
                     /\ owner' = [l \in License |-> IF l \in moved THEN req[q].to
                                                    ELSE owner[l]]
    BY <1>3 DEF Migrate
  <2>2. req'[p] = Marked({}, moved)[p]
    BY <2>1 DEF Marked
  <2>3. retired' = retired
    BY <1>3 DEF Migrate
  <2>4. QED
    BY <2>1, <2>2, <2>3, MarkedKeeps
<1>4. CASE ImportLicenses(q)
  <2>1. PICK moved : /\ moved = DOMAIN req[q].place
                     /\ req' = [Marked({}, moved) EXCEPT ![q] = Idle]
                     /\ owner' = [l \in License |-> IF l \in moved
                                                    THEN req[q].place[l] ELSE owner[l]]
    BY <1>4 DEF ImportLicenses
  <2>2. req'[p] = Marked({}, moved)[p]
    BY <2>1 DEF Marked
  <2>3. retired' = retired
    BY <1>4 DEF ImportLicenses
  <2>4. QED
    BY <2>1, <2>2, <2>3, MarkedKeeps
<1>5. QED
  BY <1>1, <1>2, <1>3, <1>4 DEF Write

\* A transaction ends its request.
LEMMA WriteEnds ==
    ASSUME TypeOK, NEW q \in Request, Write(q)
    PROVE  req'[q] = Idle
BY DEF Write, Insert, Revoke, SaveLicense, Migrate, ImportAssignments, ImportLicenses,
       Finish, Marked, TypeOK

LEMMA FreshStep ==
    ASSUME TypeOK, Fresh, [Next]_vars
    PROVE  Fresh'
<1>0. DOMAIN req = Request
  BY DEF TypeOK
<1>1. ASSUME NEW s \in Subject, Retire(s) \/ Restore(s), NEW p \in Request
      PROVE  FreshRequest(req[p])'
  <2>1. req'[p] = Marked({s}, {})[p] /\ owner' = owner
    BY <1>1 DEF Retire, Restore
  <2>2. \A t \in Subject : t \notin {s} => (t \in retired' <=> t \in retired)
    BY <1>1 DEF Retire, Restore
  <2>3. QED
    BY <2>1, <2>2, MarkedKeeps
<1>2. ASSUME NEW q \in Request, Look(q), NEW p \in Request
      PROVE  FreshRequest(req[p])'
  <2>1. CASE p = q
    BY <1>2, <2>1, LookIsFresh
  <2>2. CASE p # q
    <3>1. req'[p] = req[p] /\ retired' = retired /\ owner' = owner
      BY <1>0, <1>2, <2>2, LookBegins DEF Begin
    <3>2. QED
      BY <3>1, NothingHit
  <2>3. QED
    BY <2>1, <2>2
<1>3. ASSUME NEW q \in Request, Write(q), NEW p \in Request
      PROVE  FreshRequest(req[p])'
  <2>1. CASE p = q
    BY <1>3, <2>1, WriteEnds, IdleIsFresh
  <2>2. CASE p # q
    BY <1>3, <2>2, WriteKeepsOthers
  <2>3. QED
    BY <2>1, <2>2
<1>4. ASSUME NEW q \in Request, EndRequest(q), NEW p \in Request
      PROVE  FreshRequest(req[p])'
  <2>1. CASE p = q
    <3>1. req'[p] = Idle
      BY <1>0, <1>4, <2>1 DEF EndRequest, Finish
    <3>2. QED
      BY <3>1, IdleIsFresh
  <2>2. CASE p # q
    <3>1. req'[p] = req[p] /\ retired' = retired /\ owner' = owner
      BY <1>0, <1>4, <2>2 DEF EndRequest, Finish
    <3>2. QED
      BY <3>1, NothingHit
  <2>3. QED
    BY <2>1, <2>2
<1>5. ASSUME UNCHANGED vars, NEW p \in Request
      PROVE  FreshRequest(req[p])'
  <2>1. req'[p] = req[p] /\ retired' = retired /\ owner' = owner
    BY <1>5 DEF vars
  <2>2. QED
    BY <2>1, NothingHit
<1>6. QED
  BY <1>1, <1>2, <1>3, <1>4, <1>5, Groups DEF Fresh

-----------------------------------------------------------------------------
(* The invariants                                                          *)

LEMMA InitIInv == Init => IInv
<1>1. SUFFICES ASSUME Init PROVE IInv
  OBVIOUS
<1>2. TypeOK
  BY <1>1, IdleIsProgress, RegistryAssumption DEF Init, TypeOK
<1>3. ActiveOnce
  BY <1>1 DEF Init, ActiveOnce
<1>4. Fresh
  BY <1>1 DEF Init, Fresh, FreshRequest, Idle
<1>5. QED
  BY <1>2, <1>3, <1>4 DEF IInv

LEMMA IInvStep == IInv /\ [Next]_vars => IInv'
BY TypeStep, OnceStep, FreshStep DEF IInv

\* What not overtaken requests found holds, with the types and the unique rows.
THEOREM Invariance == Spec => []IInv
BY InitIInv, IInvStep, PTL DEF Spec

\* The registers and the requests have their types, for every set of
\* departments, users, devices, licences and requests.
THEOREM TypeCorrect == Spec => []TypeOK
<1>1. IInv => TypeOK
  BY DEF IInv
<1>2. QED
  BY <1>1, Invariance, PTL

\* However many requests look and insert at once, a key has one active row.
THEOREM OneActiveRow == Spec => []ActiveOnce
<1>1. IInv => ActiveOnce
  BY DEF IInv
<1>2. QED
  BY <1>1, Invariance, PTL

-----------------------------------------------------------------------------
(* What steps may do                                                       *)

\* Every key that is inserted gets a row, and nothing else does.
LEMMA InsertedKeys ==
    ASSUME TypeOK, NEW keys \in SUBSET Key, InsertAll(keys)
    PROVE  /\ live \subseteq live'
           /\ \A r \in live' \ live : r.key \in keys
           /\ \A k \in keys : \E r \in live' \ live : r.key = k
<1>1. live \subseteq live' /\ \A r \in live' \ live : r.key \in keys
  BY DEF InsertAll, NewRows
<1>2. ASSUME NEW k \in keys
      PROVE  \E r \in live' \ live : r.key = k
  <2>1. PICK n \in 1 .. MaxRow : IsNext(k, n)
    BY DEF InsertAll
  <2>2. [key |-> k, n |-> n] \in NewRows(keys)
    BY <2>1 DEF NewRows, Row
  <2>3. [key |-> k, n |-> n] \notin live
    BY DEF InsertAll, Has
  <2>4. QED
    BY <2>2, <2>3 DEF InsertAll
<1>3. QED
  BY <1>1, <1>2

\* The keys that the transaction of a request inserts.
LEMMA KeysOfRequest ==
    ASSUME TypeOK, NEW q \in Request
    PROVE  /\ req[q].pc = "insert" => {req[q].key} \in SUBSET Key
           /\ req[q].pc = "migrate" => Copied(req[q].from, req[q].to) \in SUBSET Key
           /\ req[q].pc = "import" => Resolved(req[q].lines) \in SUBSET Key
<1>1. req[q] \in Progress
  BY DEF TypeOK
<1>2. req[q].pc = "insert" => {req[q].key} \in SUBSET Key
  BY <1>1, KindOf DEF Inserting
<1>3. req[q].pc = "migrate" => Copied(req[q].from, req[q].to) \in SUBSET Key
  BY <1>1, KindOf DEF Migrating, Copied, Key
<1>4. req[q].pc = "import" => Resolved(req[q].lines) \in SUBSET Key
  BY <1>1, KindOf, ResolveKeys DEF Importers
<1>5. QED
  BY <1>2, <1>3, <1>4

\* A row is revoked only by who has seen it, for every number of requests.
THEOREM SeenRowsRevoked == Spec => OnlySeenRowsAreRevoked
<1>. DEFINE P == \A r \in live \ live' :
                    \E q \in Request : /\ req[q].pc = "revoke"
                                       /\ req[q].row = r
                                       /\ req'[q] = Idle
<1>1. ASSUME IInv, [Next]_vars PROVE P
  <2>0. TypeOK
    BY <1>1 DEF IInv
  <2>1. ASSUME live \subseteq live' PROVE P
    BY <2>1
  <2>2. ASSUME NEW s \in Subject, Retire(s) \/ Restore(s) PROVE P
    BY <2>1, <2>2 DEF Retire, Restore
  <2>3. ASSUME NEW q \in Request, Look(q) PROVE P
    BY <2>0, <2>1, <2>3, LookBegins DEF Begin
  <2>4. ASSUME NEW q \in Request, Write(q) PROVE P
    <3>1. CASE Revoke(q)
      BY <2>0, <3>1 DEF Revoke, Finish, TypeOK
    <3>2. CASE \/ \E table : Insert(q, table)
               \/ SaveLicense(q) \/ Migrate(q) \/ ImportAssignments(q) \/ ImportLicenses(q)
      BY <2>1, <3>2 DEF Insert, SaveLicense, Migrate, ImportAssignments, ImportLicenses,
                        InsertAll
    <3>3. QED
      BY <2>4, <3>1, <3>2 DEF Write
  <2>5. ASSUME NEW q \in Request, EndRequest(q) PROVE P
    BY <2>1, <2>5 DEF EndRequest
  <2>6. CASE UNCHANGED vars
    BY <2>1, <2>6 DEF vars
  <2>7. QED
    BY <1>1, <2>0, <2>2, <2>3, <2>4, <2>5, <2>6, Groups
<1>2. QED
  BY <1>1, Invariance, PTL DEF Spec, OnlySeenRowsAreRevoked

\* Nothing new comes under what is retired, but from a request that was
\* overtaken between its look and its transaction.
THEOREM RetiredUntouched == Spec => RetiredGetsNothing
<1>. DEFINE A == /\ \A r \in live' \ live : r.key.of \notin retired'
                 /\ \A l \in License : owner'[l] # owner[l] => owner'[l] \notin retired'
            B == \E q \in Request : Late(req[q]) /\ req'[q] = Idle
<1>1. ASSUME IInv, [Next]_vars PROVE A \/ B
  <2>0. TypeOK /\ Fresh
    BY <1>1 DEF IInv
  <2>1. ASSUME live' \subseteq live, owner' = owner PROVE A
    BY <2>1
  <2>2. ASSUME NEW s \in Subject, Retire(s) \/ Restore(s) PROVE A
    BY <2>1, <2>2 DEF Retire, Restore
  <2>3. ASSUME NEW q \in Request, Look(q) PROVE A
    BY <2>0, <2>1, <2>3, LookBegins DEF Begin
  <2>4. ASSUME NEW q \in Request, Write(q), ~Late(req[q]) PROVE A
    <3>0. FreshRequest(req[q]) /\ req[q] \in Progress
      BY <2>0 DEF Fresh, TypeOK
    <3>1. CASE \E table : Insert(q, table)
      <4>1. /\ InsertAll({req[q].key}) /\ owner' = owner /\ retired' = retired
            /\ req[q].pc = "insert"
        BY <3>1 DEF Insert
      <4>2. req[q].key.of \notin retired
        BY <2>4, <3>0, <4>1 DEF FreshRequest, Late
      <4>3. \A r \in live' \ live : r.key = req[q].key
        BY <4>1 DEF InsertAll, NewRows
      <4>4. QED
        BY <4>1, <4>2, <4>3
    <3>2. CASE Revoke(q)
      BY <2>1, <3>2 DEF Revoke
    <3>3. CASE SaveLicense(q)
      <4>1. req[q].dept \notin retired \/ owner[req[q].license] = req[q].dept
        BY <2>4, <3>0, <3>3 DEF FreshRequest, Late, SaveLicense
      <4>2. QED
        BY <2>0, <3>3, <4>1 DEF SaveLicense, TypeOK
    <3>4. CASE Migrate(q)
      <4>1. req[q].to \notin retired
        BY <2>4, <3>0, <3>4 DEF FreshRequest, Late, Migrate
      <4>2. \A r \in live' \ live : r.key.of = req[q].to
        BY <3>4 DEF Migrate, InsertAll, NewRows, Copied
      <4>3. QED
        BY <2>0, <3>4, <4>1, <4>2 DEF Migrate, TypeOK
    <3>5. CASE ImportAssignments(q)
      <4>1. /\ req[q].keys = Resolved(req[q].lines)
            /\ \A k \in req[q].keys : k.of \notin retired
        BY <2>4, <3>0, <3>5 DEF FreshRequest, Late, ImportAssignments
      <4>2. \A r \in live' \ live : r.key \in req[q].keys
        BY <3>5, <4>1 DEF ImportAssignments, InsertAll, NewRows
      <4>3. QED
        BY <3>5, <4>1, <4>2 DEF ImportAssignments
    <3>6. CASE ImportLicenses(q)
      <4>1. \A l \in DOMAIN req[q].place : req[q].place[l] \notin retired
        BY <2>4, <3>0, <3>6 DEF FreshRequest, Late, ImportLicenses
      <4>2. QED
        BY <2>0, <3>6, <4>1 DEF ImportLicenses, TypeOK
    <3>7. QED
      BY <2>4, <3>1, <3>2, <3>3, <3>4, <3>5, <3>6 DEF Write
  <2>5. ASSUME NEW q \in Request, Write(q), Late(req[q]) PROVE B
    BY <2>0, <2>5, WriteEnds
  <2>6. ASSUME NEW q \in Request, EndRequest(q) PROVE A
    BY <2>1, <2>6 DEF EndRequest
  <2>7. CASE UNCHANGED vars
    BY <2>1, <2>7 DEF vars
  <2>8. QED
    BY <1>1, <2>0, <2>2, <2>3, <2>4, <2>5, <2>6, <2>7, Groups
<1>2. QED
  BY <1>1, Invariance, PTL DEF Spec, RetiredGetsNothing

\* A request ends by its own transaction, or by failing.
LEMMA EndsItself ==
    ASSUME TypeOK, [Next]_vars, NEW q \in Request, req[q].pc # "idle", req'[q] = Idle
    PROVE  Write(q) \/ EndRequest(q)
<1>0. DOMAIN req = Request /\ req[q] # Idle
  BY IdleIsProgress DEF TypeOK
<1>1. SUFFICES ASSUME ~Write(q), ~EndRequest(q) PROVE req'[q] # Idle
  OBVIOUS
<1>2. ASSUME NEW s, Retire(s) \/ Restore(s) PROVE req'[q] # Idle
  <2>1. req'[q].pc = req[q].pc
    BY <1>2, MarkedType DEF Retire, Restore
  <2>2. QED
    BY <2>1, IdleIsProgress
<1>3. ASSUME NEW p \in Request, Look(p) PROVE req'[q] # Idle
  <2>1. PICK r \in Progress : Begin(p, r) /\ r.pc # "idle"
    BY <1>3, LookBegins
  <2>2. QED
    BY <1>0, <2>1, IdleIsProgress DEF Begin
<1>4. ASSUME NEW p \in Request, Write(p) PROVE req'[q] # Idle
  <2>1. p # q
    BY <1>1, <1>4
  <2>2. CASE \/ \E table : Insert(p, table)
             \/ Revoke(p) \/ ImportAssignments(p)
    BY <1>0, <2>1, <2>2 DEF Insert, Revoke, ImportAssignments, Finish
  <2>3. CASE SaveLicense(p) \/ Migrate(p) \/ ImportLicenses(p)
    <3>1. PICK moved : req' = [Marked({}, moved) EXCEPT ![p] = Idle]
      BY <2>3 DEF SaveLicense, Migrate, ImportLicenses
    <3>2. req'[q] = Marked({}, moved)[q]
      BY <2>1, <3>1 DEF Marked
    <3>3. req'[q].pc = req[q].pc
      BY <3>2, MarkedType
    <3>4. QED
      BY <3>3, IdleIsProgress
  <2>4. QED
    BY <1>4, <2>2, <2>3 DEF Write
<1>5. ASSUME NEW p \in Request, EndRequest(p) PROVE req'[q] # Idle
  <2>1. p # q
    BY <1>1, <1>5
  <2>2. QED
    BY <1>0, <1>5, <2>1 DEF EndRequest, Finish
<1>6. CASE UNCHANGED vars
  BY <1>0, <1>6 DEF vars
<1>7. QED
  BY <1>2, <1>3, <1>4, <1>5, <1>6, Groups

\* An import assigns what it validated, unless it was overtaken.
THEOREM ImportsWhatItValidated == Spec => ImportAsValidated
<1>. DEFINE P(q) == LET r == req[q] IN
         r.pc = "import" /\ ~r.late /\ req'[q] = Idle /\ live' # live =>
           {a.key : a \in live' \ live} = r.keys
<1>1. ASSUME IInv, [Next]_vars, NEW q \in Request PROVE P(q)
  <2>0. TypeOK /\ Fresh
    BY <1>1 DEF IInv
  <2>1. SUFFICES ASSUME req[q].pc = "import", ~req[q].late, req'[q] = Idle, live' # live
                 PROVE  {a.key : a \in live' \ live} = req[q].keys
    OBVIOUS
  <2>2. Write(q)
    BY <1>1, <2>0, <2>1, EndsItself DEF EndRequest
  <2>3. ImportAssignments(q)
    BY <2>1, <2>2 DEF Write, Insert, Revoke, SaveLicense, Migrate, ImportLicenses
  <2>4. req[q].keys = Resolved(req[q].lines)
    BY <2>0, <2>1 DEF Fresh, FreshRequest
  <2>5. InsertAll(req[q].keys) /\ req[q].keys \in SUBSET Key
    BY <2>0, <2>1, <2>3, <2>4, KeysOfRequest DEF ImportAssignments
  <2>6. QED
    BY <2>0, <2>5, InsertedKeys
<1>2. ASSUME IInv, [Next]_vars PROVE \A q \in Request : P(q)
  BY <1>1, <1>2
<1>3. QED
  BY <1>2, Invariance, PTL DEF Spec, ImportAsValidated

\* What a migration leaves behind is there in the new department.
THEOREM MigrationIsComplete == Spec => MigrationLeavesConflictsOnly
<1>. DEFINE P(q) == LET r == req[q] IN
         r.pc = "migrate" /\ req'[q] = Idle /\ (owner' # owner \/ live' # live) =>
           /\ \A l \in License : owner'[l] = r.from =>
                \E m \in License : owner'[m] = r.to /\ Article[m] = Article[l]
           /\ \A a \in live : a.key.table = "approval" /\ a.key.of = r.from =>
                \E b \in live' : b.key = [a.key EXCEPT !.of = r.to]
<1>1. ASSUME IInv, [Next]_vars, NEW q \in Request PROVE P(q)
  <2>0. TypeOK
    BY <1>1 DEF IInv
  <2>1. SUFFICES ASSUME req[q].pc = "migrate", req'[q] = Idle,
                        owner' # owner \/ live' # live
                 PROVE  /\ \A l \in License : owner'[l] = req[q].from =>
                             \E m \in License : /\ owner'[m] = req[q].to
                                                /\ Article[m] = Article[l]
                        /\ \A a \in live :
                             a.key.table = "approval" /\ a.key.of = req[q].from =>
                               \E b \in live' : b.key = [a.key EXCEPT !.of = req[q].to]
    OBVIOUS
  <2>2. Write(q)
    BY <1>1, <2>0, <2>1, EndsItself DEF EndRequest
  <2>3. Migrate(q)
    BY <2>1, <2>2 DEF Write, Insert, Revoke, SaveLicense, ImportAssignments, ImportLicenses
  <2>4. req[q] \in Migrating
    BY <2>0, <2>1, KindOf DEF TypeOK
  <2>5. ASSUME NEW l \in License, owner'[l] = req[q].from
        PROVE  \E m \in License : owner'[m] = req[q].to /\ Article[m] = Article[l]
    <3>1. \A m \in License : owner'[m] = IF m \in Movable(req[q].from, req[q].to)
                                         THEN req[q].to ELSE owner[m]
      BY <2>3 DEF Migrate
    <3>2. CASE l \in Movable(req[q].from, req[q].to)
      BY <3>1, <3>2
    <3>3. CASE l \notin Movable(req[q].from, req[q].to)
      <4>1. owner[l] = req[q].from
        BY <2>5, <3>1, <3>3
      <4>2. PICK m \in License : owner[m] = req[q].to /\ Article[m] = Article[l]
        BY <3>3, <4>1 DEF Movable, Free
      <4>3. QED
        BY <3>1, <4>2
    <3>4. QED
      BY <3>2, <3>3
  <2>6. ASSUME NEW a \in live, a.key.table = "approval", a.key.of = req[q].from
        PROVE  \E b \in live' : b.key = [a.key EXCEPT !.of = req[q].to]
    <3>1. a.key \in [table : {"approval"}, of : Dept, to : Product]
      <4>1. a.key \in Key
        BY <2>0 DEF TypeOK, Row
      <4>2. QED
        BY <2>6, <4>1 DEF Key
    <3>2. PICK k : k = [a.key EXCEPT !.of = req[q].to]
      OBVIOUS
    <3>3. /\ k \in [table : {"approval"}, of : {req[q].to}, to : Product]
          /\ [k EXCEPT !.of = req[q].from] = a.key
      BY <2>6, <3>1, <3>2
    <3>4. CASE Has(k)
      BY <2>3, <3>2, <3>4 DEF Has, Migrate, InsertAll
    <3>5. CASE ~Has(k)
      <4>1. k \in Copied(req[q].from, req[q].to)
        BY <3>3, <3>5 DEF Copied, Has
      <4>2. QED
        BY <2>0, <2>1, <2>3, <3>2, <4>1, InsertedKeys, KeysOfRequest DEF Migrate
    <3>6. QED
      BY <3>4, <3>5
  <2>7. QED
    BY <2>5, <2>6
<1>2. ASSUME IInv, [Next]_vars PROVE \A q \in Request : P(q)
  BY <1>1, <1>2
<1>3. QED
  BY <1>2, Invariance, PTL DEF Spec, MigrationLeavesConflictsOnly
=============================================================================
