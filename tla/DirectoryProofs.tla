-------------------------- MODULE DirectoryProofs ---------------------------
(***************************************************************************)
(* What holds of departments, users and devices for every set of ids and   *)
(* codes, every limit of the lists and any number of requests.  The        *)
(* inductive invariant says what a form knows: what it shows is what its   *)
(* user means (FormKnows), from the moment it is opened to its write.      *)
(***************************************************************************)
EXTENDS Directory, TLAPS

Shown == {"read", "form", "write"}
Blank == [code |-> None, ref |-> NoRef]

Forms(k) == [pc : Shown, kind : {k}, id : k \cup {None}, entry : Entry[k],
             meant : Entry[k], again : BOOLEAN]
Imports(k) == [pc : {"import"}, kind : {k}, lines : Files[k]]

\* What a form shows is there, and is what its user means but for what a form
\* that is shown again could not list.
FormKnows(r) ==
    /\ r.id # None => r.id \in Rows
    /\ \A f \in Field : r.entry.ref[f] \in Rows \cup {None}
    /\ r.pc = "write" => r.entry \in Row[r.kind] /\ ~Refused(r.id, r.entry)
    /\ r.id = None /\ ~r.again /\ r.pc # "write" => r.entry = Blank
    /\ r.entry.code = r.meant.code
    /\ \A f \in Field :
         \/ r.entry.ref[f] = r.meant.ref[f]
         \/ r.id = None /\ r.again /\ r.entry.ref[f] = None

FormsKnow == \A q \in Request : req[q].pc \in Shown => FormKnows(req[q])

RowsListed == row = [x \in Id |-> row[x]]

IInv == DirectoryAssumption /\ TypeOK /\ RowsListed /\ FormsKnow

-----------------------------------------------------------------------------
\* A row has one kind.
LEMMA KindFacts ==
  ASSUME DirectoryAssumption, NEW k \in Kinds, NEW x \in k
  PROVE  KindOf(x) = k /\ x \in Id /\ x # None
<1>1. \A l \in Kinds : x \in l => l = k
  BY DEF DirectoryAssumption
<1>2. KindOf(x) = k
  BY <1>1 DEF KindOf
<1> QED
  BY <1>2 DEF DirectoryAssumption, Kinds, Id

\* Which fields refer to departments only, and which a file has.
LEMMA FieldFacts ==
  /\ \A k \in Kinds : "parent" \in Fields(k) => k = Department
  /\ \A k \in Kinds : Columns(k) \subseteq Fields(k) /\ "successor" \notin Columns(k)
  /\ Target("parent") = Department
BY DEF Fields, Kinds, Columns, Target

\* The references of a row, field by field.
LEMMA RefsFacts ==
  ASSUME NEW k \in Kinds, NEW ref
  PROVE  ref \in Refs[k] <=>
           /\ ref \in [Field -> Id \cup {None}]
           /\ \A f \in Field : ref[f] # None => f \in Fields(k) /\ ref[f] \in Target(f)
BY DEF Refs

\* The type of a row.
LEMMA RowFacts ==
  ASSUME NEW k \in Kinds PROVE Row[k] = [code : Code, ref : Refs[k]]
BY DEF Row

\* A form holds a row, or nothing yet.
LEMMA EntryFacts ==
  ASSUME NEW k \in Kinds
  PROVE  Entry[k] = Row[k] \cup {Blank}
BY DEF Entry, Blank

\* A row, by its fields.
LEMMA RowFields ==
  ASSUME NEW k \in Kinds, NEW e
  PROVE  e \in Row[k] <=>
           e = [code |-> e.code, ref |-> e.ref] /\ e.code \in Code /\ e.ref \in Refs[k]
<1>1. e \in [code : Code, ref : Refs[k]]
        <=> e = [code |-> e.code, ref |-> e.ref] /\ e.code \in Code /\ e.ref \in Refs[k]
  OBVIOUS
<1> QED
  BY <1>1, RowFacts

\* What a request does, by where it is.
LEMMA ProgressFacts ==
  ASSUME NEW r
  PROVE  /\ r \in Progress <=> r = Idle \/ \E k \in Kinds : r \in Forms(k) \/ r \in Imports(k)
         /\ r \in Progress /\ r.pc \in Shown => r.kind \in Kinds /\ r \in Forms(r.kind)
         /\ r \in Progress /\ r.pc = "import" => r.kind \in Kinds /\ r.lines \in Files[r.kind]
<1>1. r \in Progress <=> r = Idle \/ \E k \in Kinds : r \in Forms(k) \/ r \in Imports(k)
  BY DEF Progress, Forms, Imports, Shown
<1>2. Idle.pc \notin Shown /\ Idle.pc # "import"
  BY DEF Idle, Shown
<1>3. \A k \in Kinds :
        /\ r \in Forms(k) => r.kind = k /\ r.pc # "import"
        /\ r \in Imports(k) => r.kind = k /\ r.pc \notin Shown /\ r.lines \in Files[k]
  BY DEF Forms, Imports, Shown
<1> QED
  BY <1>1, <1>2, <1>3

\* One request moves on; no row goes, so the others still know what they knew.
LEMMA RequestStep ==
  ASSUME IInv, NEW q \in Request, NEW r \in Progress, req' = [req EXCEPT ![q] = r],
         Rows \subseteq Rows', r.pc \in Shown => FormKnows(r)'
  PROVE  req' \in [Request -> Progress] /\ FormsKnow'
<1>1. req' \in [Request -> Progress]
  BY DEF IInv, TypeOK
<1>2. ASSUME NEW p \in Request, req'[p].pc \in Shown PROVE FormKnows(req[p])'
  <2>1. CASE p = q
    <3>1. req'[p] = r
      BY <2>1 DEF IInv, TypeOK
    <3> QED
      BY <1>2, <3>1 DEF FormKnows, Refused
  <2>2. CASE p # q
    <3>1. req'[p] = req[p]
      BY <2>2 DEF IInv, TypeOK
    <3> QED
      BY <1>2, <3>1 DEF FormKnows, Refused, IInv, FormsKnow
  <2> QED
    BY <2>1, <2>2
<1> QED
  BY <1>1, <1>2 DEF FormsKnow

\* A step that touches one form and nothing else.
LEMMA FormStep ==
  ASSUME IInv, NEW q \in Request, NEW r \in Progress, req' = [req EXCEPT ![q] = r],
         UNCHANGED <<row, active, edited>>, started' \in 0 .. MaxRequests,
         r.pc \in Shown => FormKnows(r)
  PROVE  IInv'
<1>1. Rows' = Rows
  BY DEF Rows
<1>2. r.pc \in Shown => FormKnows(r)'
  BY <1>1 DEF FormKnows, Refused
<1>3. req' \in [Request -> Progress] /\ FormsKnow'
  BY <1>1, <1>2, RequestStep
<1> QED
  BY <1>1, <1>3 DEF IInv, TypeOK, RowsListed

\* An idle request shows no form.
LEMMA IdleFacts == Idle \in Progress /\ Idle.pc \notin Shown
BY ProgressFacts DEF Idle, Shown

\* The form of a new row is empty.
LEMMA BlankFacts ==
  /\ \A k \in Kinds : Blank \in Entry[k]
  /\ Blank.code = None /\ Blank.ref = NoRef /\ \A f \in Field : NoRef[f] = None
BY EntryFacts DEF Blank, NoRef

\* A request starts.
LEMMA BeginStep ==
  ASSUME IInv, NEW q \in Request, NEW r \in Progress, Begin(q, r),
         UNCHANGED <<row, active, edited>>, r.pc \in Shown => FormKnows(r)
  PROVE  IInv'
<1>1. started' \in 0 .. MaxRequests
  BY DEF DirectoryAssumption, Begin, IInv, TypeOK
<1> QED
  BY <1>1, FormStep DEF Begin

\* The form of a new row is opened.
LEMMA OpenNewStep ==
  ASSUME IInv, NEW q \in Request, NEW k \in Kinds, OpenNew(q, k) PROVE IInv'
<1> DEFINE r == [pc |-> "read", kind |-> k, id |-> None, entry |-> Blank,
                 meant |-> Blank, again |-> FALSE]
<1>1. r \in Forms(k)
  BY BlankFacts DEF Forms, Shown
<1>2. r \in Progress
  BY <1>1, ProgressFacts
<1>3. FormKnows(r)
  BY BlankFacts DEF FormKnows
<1>4. Begin(q, r) /\ UNCHANGED <<row, active, edited>>
  BY DEF OpenNew, Blank
<1> HIDE DEF r
<1> QED
  BY <1>2, <1>3, <1>4, BeginStep

\* The form of a row is opened with what the row holds.
LEMMA OpenEditStep ==
  ASSUME IInv, NEW q \in Request, NEW k \in Kinds, NEW x \in k \cap Rows, OpenEdit(q, x)
  PROVE  IInv'
<1> DEFINE r == [pc |-> "read", kind |-> k, id |-> x, entry |-> row[x],
                 meant |-> row[x], again |-> FALSE]
<1>1. KindOf(x) = k /\ x # None /\ row[x] \in Row[k]
  BY KindFacts DEF IInv, TypeOK, Rows
<1>2. r \in Forms(k)
  BY <1>1, EntryFacts DEF Forms, Shown
<1>3. r \in Progress
  BY <1>2, ProgressFacts
<1>4. FormKnows(r)
  BY <1>1 DEF FormKnows, IInv, TypeOK
<1>5. Begin(q, r) /\ UNCHANGED <<row, active, edited>>
  BY <1>1 DEF OpenEdit
<1> HIDE DEF r
<1> QED
  BY <1>3, <1>4, <1>5, BeginStep

\* The types of what a form holds.
LEMMA FormFacts ==
  ASSUME IInv, NEW q \in Request, req[q].pc \in Shown
  PROVE  /\ req[q].kind \in Kinds /\ req[q] \in Forms(req[q].kind) /\ FormKnows(req[q])
         /\ req[q].entry \in Entry[req[q].kind] /\ req[q].meant \in Entry[req[q].kind]
<1>1. req[q] \in Progress /\ FormKnows(req[q])
  BY DEF IInv, TypeOK, FormsKnow
<1> QED
  BY <1>1, ProgressFacts DEF Forms

\* What the lists and the pins offer is a row; of a row that is edited they
\* offer all that it refers to.
LEMMA OptionFacts ==
  ASSUME IInv, NEW id, NEW y \in Rows \cup {None}
  PROVE  /\ Option(id, y) \in {y, None} /\ Option(id, y) \in Rows \cup {None}
         /\ id # None => Option(id, y) = y
BY DEF Option, Pinned, ListActiveDepartments, ListActiveUsers

\* Showing drops nothing but, from a new row shown again, what is not listed.
LEMMA ShowStep ==
  ASSUME IInv, NEW q \in Request, NEW k \in Kinds, Show(q, k) PROVE IInv'
<1> DEFINE r == req[q]
           ref == [f \in Field |-> Option(r.id, r.entry.ref[f])]
           s == [r EXCEPT !.pc = "form", !.entry = [r.entry EXCEPT !.ref = ref]]
<1>1. /\ r.pc = "read" /\ r.kind = k /\ r \in Forms(k) /\ FormKnows(r)
      /\ r.entry \in Entry[k] /\ req \in [Request -> Progress]
  BY FormFacts DEF Show, Shown, IInv, TypeOK
<1>2. req' = [req EXCEPT ![q] = s] /\ UNCHANGED <<row, active, started, edited>>
  BY <1>1 DEF Show, Forms
<1>3. \A f \in Field : /\ ref[f] \in {r.entry.ref[f], None} /\ ref[f] \in Rows \cup {None}
                       /\ r.id # None => ref[f] = r.entry.ref[f]
  BY <1>1, OptionFacts DEF FormKnows
<1>4. s = [r EXCEPT !.pc = "form", !.entry = [code |-> r.entry.code, ref |-> ref]]
  <2>1. [r.entry EXCEPT !.ref = ref] = [code |-> r.entry.code, ref |-> ref]
    <3> HIDE DEF r, ref
    <3>1. r.entry \in Row[k] \cup {Blank}
      BY <1>1, EntryFacts
    <3> QED
      BY <3>1, RowFields DEF Blank
  <2> QED
    BY <2>1
<1>5. [code |-> r.entry.code, ref |-> ref] \in Entry[k]
  <2>1. CASE r.entry \in Row[k]
    <3>1. r.entry.ref \in Refs[k] /\ r.entry.code \in Code
      BY <2>1, RowFields
    <3>2. ref \in Refs[k]
      <4>1. \A f \in Field : r.entry.ref[f] \in Id \cup {None}
        BY <3>1, RefsFacts
      <4>2. ref \in [Field -> Id \cup {None}]
        BY <1>3, <4>1
      <4> HIDE DEF r, ref
      <4> QED
        BY <1>3, <3>1, <4>2, RefsFacts
    <3> HIDE DEF r, ref
    <3> QED
      BY <3>1, <3>2, RowFacts, EntryFacts
  <2>2. CASE r.entry = Blank
    <3>1. ref = NoRef
      <4>1. \A f \in Field : ref[f] = None
        BY <1>3, <2>2, BlankFacts
      <4> QED
        BY <4>1 DEF NoRef
    <3> HIDE DEF r, ref
    <3> QED
      BY <2>2, <3>1, BlankFacts DEF Blank
  <2> QED
    BY <1>1, <2>1, <2>2, EntryFacts
<1>6. /\ s.pc = "form" /\ s.kind = k /\ s.id = r.id /\ s.meant = r.meant /\ s.again = r.again
      /\ s.entry = [code |-> r.entry.code, ref |-> ref]
      /\ s \in Forms(k)
  <2> HIDE DEF ref
  <2> QED
    BY <1>1, <1>4, <1>5 DEF Forms, Shown
<1> HIDE DEF ref, s
<1>7. s \in Progress
  BY <1>6, ProgressFacts
<1>8. r.id = None /\ ~r.again => ref = NoRef
  <2>1. r.id = None /\ ~r.again => r.entry.ref = NoRef
    BY <1>1, BlankFacts DEF FormKnows
  <2>2. (\A f \in Field : ref[f] = None) => ref = NoRef
    BY DEF ref, NoRef
  <2> QED
    BY <1>3, <2>1, <2>2, BlankFacts
<1>9. FormKnows(s)
  <2>1. \A f \in Field : \/ ref[f] = r.meant.ref[f]
                         \/ r.id = None /\ r.again /\ ref[f] = None
    BY <1>1, <1>3, <1>8, BlankFacts DEF FormKnows
  <2>2. r.id = None /\ ~r.again => [code |-> r.entry.code, ref |-> ref] = Blank
    BY <1>1, <1>8, BlankFacts DEF FormKnows, Blank
  <2> HIDE DEF r
  <2> QED
    BY <1>1, <1>3, <1>6, <2>1, <2>2 DEF FormKnows
<1> HIDE DEF r
<1>10. started' \in 0 .. MaxRequests
  BY <1>2 DEF IInv, TypeOK
<1> QED
  BY <1>2, <1>7, <1>9, <1>10, FormStep

\* What is posted, and what its user means by it.
LEMMA PostStep ==
  ASSUME IInv, NEW q \in Request, NEW k \in Kinds, Post(q, k) PROVE IInv'
<1> DEFINE r == req[q]
<1>1. /\ r.pc = "form" /\ r.kind = k /\ r \in Forms(k) /\ FormKnows(r)
      /\ r.entry \in Entry[k] /\ r.meant \in Entry[k] /\ req \in [Request -> Progress]
  BY FormFacts DEF Post, Shown, IInv, TypeOK
<1>2. PICK posted \in Row[k], malformed \in BOOLEAN :
        /\ \A f \in Field : posted.ref[f] \in Rows \cup {None}
        /\ req' = [req EXCEPT ![q] =
             [r EXCEPT !.pc = IF malformed \/ Refused(r.id, posted) THEN "read" ELSE "write",
                       !.again = r.again \/ malformed \/ Refused(r.id, posted),
                       !.entry = posted,
                       !.meant = Meant(r, posted)]]
        /\ UNCHANGED <<row, active, started, edited>>
  BY DEF Post
<1> DEFINE refused == malformed \/ Refused(r.id, posted)
           meant == Meant(r, posted)
<1>3. PICK b \in BOOLEAN : b <=> refused
  OBVIOUS
<1> DEFINE s == [r EXCEPT !.pc = IF b THEN "read" ELSE "write", !.again = r.again \/ b,
                          !.entry = posted, !.meant = meant]
<1>4. req' = [req EXCEPT ![q] = s]
  <2>1. (r.again \/ malformed \/ Refused(r.id, posted)) = (r.again \/ b)
    BY <1>3
  <2> QED
    BY <1>2, <1>3, <2>1
<1>5. /\ meant.code = posted.code
      /\ \A f \in Field : meant.ref[f] = IF posted.ref[f] # r.entry.ref[f] THEN posted.ref[f]
                                         ELSE r.meant.ref[f]
      /\ meant = [code |-> posted.code, ref |-> meant.ref]
  BY <1>1 DEF Meant, FormKnows
<1>6. meant \in Row[k]
  <2>1. posted.ref \in Refs[k] /\ posted.code \in Code
    BY <1>2, RowFields
  <2>2. r.meant.ref \in Refs[k]
    <3>1. r.meant \in Row[k] \/ r.meant = Blank
      BY <1>1, EntryFacts
    <3>2. NoRef \in Refs[k]
      BY RefsFacts DEF NoRef
    <3> HIDE DEF r
    <3> QED
      BY <3>1, <3>2, RowFields, BlankFacts
  <2>3. meant.ref \in [Field -> Id \cup {None}]
    <3>1. \A f \in Field :
            posted.ref[f] \in Id \cup {None} /\ r.meant.ref[f] \in Id \cup {None}
      BY <2>1, <2>2, RefsFacts
    <3> QED
      BY <3>1 DEF Meant
  <2> HIDE DEF r, meant
  <2>4. \A f \in Field : meant.ref[f] # None => f \in Fields(k) /\ meant.ref[f] \in Target(f)
    BY <1>5, <2>1, <2>2, RefsFacts
  <2>5. meant.ref \in Refs[k]
    BY <2>3, <2>4, RefsFacts
  <2> QED
    BY <1>5, <2>1, <2>5, RowFacts
<1> HIDE DEF meant
<1>7. /\ s.pc = (IF b THEN "read" ELSE "write") /\ s.kind = k /\ s.id = r.id
      /\ s.meant = meant /\ s.again = (r.again \/ b) /\ s.entry = posted /\ s \in Forms(k)
  BY <1>1, <1>2, <1>6, EntryFacts DEF Forms, Shown
<1> HIDE DEF s
<1>8. s \in Progress
  BY <1>7, ProgressFacts
<1>9. FormKnows(s)
  <2>1. \A f \in Field : \/ posted.ref[f] = meant.ref[f]
                         \/ r.id = None /\ r.again /\ posted.ref[f] = None
    BY <1>1, <1>5 DEF FormKnows
  <2>2. r.id # None => r.id \in Rows
    BY <1>1 DEF FormKnows
  <2>3. ~b => ~Refused(r.id, posted)
    BY <1>3
  <2> HIDE DEF r
  <2>4. s.id = None /\ ~s.again => s.pc = "write"
    BY <1>7
  <2> QED
    BY <1>2, <1>5, <1>7, <2>1, <2>2, <2>3, <2>4 DEF FormKnows
<1>10. started' \in 0 .. MaxRequests
  BY <1>2 DEF IInv, TypeOK
<1> QED
  BY <1>2, <1>4, <1>8, <1>9, <1>10, FormStep

\* The code is taken: the form is as it was, and shown again.
LEMMA ConflictStep ==
  ASSUME IInv, NEW q \in Request, NEW k \in Kinds, Conflict(q, k) PROVE IInv'
<1> DEFINE r == req[q]
           s == [r EXCEPT !.pc = "read", !.again = TRUE]
<1>1. /\ r.pc = "write" /\ r.kind = k /\ r \in Forms(k) /\ FormKnows(r)
      /\ req \in [Request -> Progress]
  BY FormFacts DEF Conflict, Shown, IInv, TypeOK
<1>2. req' = [req EXCEPT ![q] = s] /\ UNCHANGED <<row, active, started, edited>>
  BY DEF Conflict
<1>3. /\ s.pc = "read" /\ s.kind = k /\ s.id = r.id /\ s.meant = r.meant /\ s.again = TRUE
      /\ s.entry = r.entry /\ s \in Forms(k)
  BY <1>1 DEF Forms, Shown
<1> HIDE DEF s
<1>4. s \in Progress
  BY <1>3, ProgressFacts
<1>5. FormKnows(s)
  <2> HIDE DEF r
  <2> QED
    BY <1>1, <1>3 DEF FormKnows
<1>6. started' \in 0 .. MaxRequests
  BY <1>2 DEF IInv, TypeOK
<1> QED
  BY <1>2, <1>4, <1>5, <1>6, FormStep

\* A request that ends leaves the rows alone.
LEMMA EndRequestStep ==
  ASSUME IInv, NEW q \in Request, EndRequest(q) PROVE IInv'
<1>1. started' \in 0 .. MaxRequests
  BY DEF EndRequest, IInv, TypeOK
<1> QED
  BY <1>1, IdleFacts, FormStep DEF EndRequest

\* An import starts with a file of lines.
LEMMA ValidateStep ==
  ASSUME IInv, NEW q \in Request, NEW k \in Kinds, Validate(q, k) PROVE IInv'
<1>1. PICK lines \in Files[k] :
        /\ Begin(q, [pc |-> "import", kind |-> k, lines |-> lines])
        /\ UNCHANGED <<row, active, edited>>
  BY DEF Validate
<1> DEFINE r == [pc |-> "import", kind |-> k, lines |-> lines]
<1>2. r \in Imports(k) /\ r.pc \notin Shown
  BY DEF Imports, Shown
<1>3. r \in Progress
  BY <1>2, ProgressFacts
<1> HIDE DEF r
<1> QED
  BY <1>1, <1>2, <1>3, BeginStep DEF r

\* Retirement and return move rows out of the lists, not out of the table.
LEMMA RetireStep ==
  ASSUME IInv, NEW x, Retire(x) \/ Return(x) PROVE IInv'
<1>1. UNCHANGED <<row, req, started, edited>> /\ active' \subseteq Rows /\ Rows' = Rows
  BY DEF Retire, Return, Rows, IInv, TypeOK
<1> QED
  BY <1>1 DEF IInv, TypeOK, RowsListed, FormsKnow, FormKnows, Refused

\* New rows, or one with new contents: the rows that were there still are.
LEMMA TableStep ==
  ASSUME IInv, NEW q \in Request, req' = [req EXCEPT ![q] = Idle],
         row' = [x \in Id |-> row'[x]],
         \A x \in Id : row'[x] \in Row[KindOf(x)] \cup {None},
         Rows \subseteq Rows', active' \subseteq Rows', edited' \subseteq Rows',
         \A x \in Rows', f \in Field :
           row'[x] = row[x] \/ row'[x].ref[f] \in Rows' \cup {None},
         started' = started
  PROVE  IInv'
<1>1. req' \in [Request -> Progress] /\ FormsKnow'
  BY IdleFacts, RequestStep
<1>2. \A x \in Rows', f \in Field : row'[x].ref[f] \in Rows' \cup {None}
  BY DEF IInv, TypeOK, Rows
<1> QED
  BY <1>1, <1>2 DEF IInv, TypeOK, RowsListed

\* What a form that passed the checks writes.
LEMMA WriteFacts ==
  ASSUME IInv, NEW q \in Request, NEW k \in Kinds, req[q].pc = "write", req[q].kind = k
  PROVE  /\ req[q].entry \in Row[k] /\ req[q].entry # None
         /\ \A f \in Field : req[q].entry.ref[f] \in Rows \cup {None}
         /\ req[q].id # None => req[q].id \in k \cap Rows
<1>1. FormKnows(req[q]) /\ req[q] \in Forms(k)
  BY FormFacts DEF Shown
<1>2. req[q].entry \in Row[k] /\ req[q].id \in k \cup {None}
  BY <1>1 DEF FormKnows, Forms
<1>4. req[q].entry # None
  BY <1>2 DEF IInv, DirectoryAssumption
<1> QED
  BY <1>1, <1>2, <1>4 DEF FormKnows

\* What a create does to the table.
LEMMA CreateForms ==
  ASSUME IInv, NEW q \in Request, NEW k \in Kinds, Create(q, k)
  PROVE  \E x \in k \ Rows :
           /\ x \in Id /\ KindOf(x) = k /\ row' = [row EXCEPT ![x] = req[q].entry]
           /\ active' = active \cup {x} /\ row'[x] = req[q].entry
           /\ Rows' = Rows \cup {x} /\ \A y \in Id \ {x} : row'[y] = row[y]
<1>1. PICK x \in k \ Rows : row' = [row EXCEPT ![x] = req[q].entry] /\ active' = active \cup {x}
  BY DEF Create
<1>2. x \in Id /\ KindOf(x) = k
  BY <1>1, KindFacts DEF IInv
<1>3. row'[x] = req[q].entry /\ \A y \in Id \ {x} : row'[y] = row[y]
  BY <1>1, <1>2 DEF IInv, RowsListed
<1>4. req[q].entry # None
  BY WriteFacts DEF Create
<1>5. Rows' = Rows \cup {x}
  BY <1>2, <1>3, <1>4 DEF Rows
<1> QED
  BY <1>1, <1>2, <1>3, <1>5

\* A create keeps the invariant.
LEMMA CreateStep ==
  ASSUME IInv, NEW q \in Request, NEW k \in Kinds, Create(q, k) PROVE IInv'
<1>1. /\ req[q].entry \in Row[k]
      /\ \A f \in Field : req[q].entry.ref[f] \in Rows \cup {None}
  BY WriteFacts DEF Create
<1>2. PICK x \in k \ Rows :
        /\ x \in Id /\ KindOf(x) = k /\ row' = [row EXCEPT ![x] = req[q].entry]
        /\ active' = active \cup {x} /\ row'[x] = req[q].entry
        /\ Rows' = Rows \cup {x} /\ \A y \in Id \ {x} : row'[y] = row[y]
  BY CreateForms
<1>3. row' = [y \in Id |-> row'[y]]
  BY <1>2 DEF IInv, RowsListed
<1>4. \A y \in Id : row'[y] \in Row[KindOf(y)] \cup {None}
  BY <1>1, <1>2 DEF IInv, TypeOK
<1>5. active' \subseteq Rows' /\ edited' \subseteq Rows' /\ Rows \subseteq Rows'
  BY <1>2 DEF IInv, TypeOK, Create
<1>6. \A y \in Rows', f \in Field : row'[y] = row[y] \/ row'[y].ref[f] \in Rows' \cup {None}
  BY <1>1, <1>2 DEF Rows
<1> QED
  BY <1>3, <1>4, <1>5, <1>6, TableStep DEF Create

\* What an update does to the table.
LEMMA UpdateForms ==
  ASSUME IInv, NEW q \in Request, NEW k \in Kinds, Update(q, k)
  PROVE  /\ req[q].id \in k \cap Rows /\ req[q].id \in Id /\ KindOf(req[q].id) = k
         /\ row'[req[q].id] = req[q].entry /\ Rows' = Rows
         /\ \A y \in Id \ {req[q].id} : row'[y] = row[y]
<1>1. req[q].id \in k \cap Rows /\ req[q].entry # None
  BY WriteFacts DEF Update
<1>2. req[q].id \in Id /\ KindOf(req[q].id) = k
  BY <1>1, KindFacts DEF IInv
<1>3. row'[req[q].id] = req[q].entry /\ \A y \in Id \ {req[q].id} : row'[y] = row[y]
  BY <1>2 DEF IInv, RowsListed, Update
<1>4. Rows' = Rows
  BY <1>1, <1>3 DEF Rows
<1> QED
  BY <1>1, <1>2, <1>3, <1>4

\* An update keeps the invariant.
LEMMA UpdateStep ==
  ASSUME IInv, NEW q \in Request, NEW k \in Kinds, Update(q, k) PROVE IInv'
<1>1. /\ req[q].entry \in Row[k]
      /\ \A f \in Field : req[q].entry.ref[f] \in Rows \cup {None}
  BY WriteFacts DEF Update
<1>2. row' = [y \in Id |-> row'[y]]
  BY DEF IInv, RowsListed, Update
<1>3. \A y \in Id : row'[y] \in Row[KindOf(y)] \cup {None}
  BY <1>1, UpdateForms DEF IInv, TypeOK
<1>4. active' \subseteq Rows' /\ edited' \subseteq Rows' /\ Rows \subseteq Rows'
  <2>1. active \subseteq Rows /\ edited \subseteq Rows
    BY DEF IInv, TypeOK
  <2>2. active' = active /\ edited' = edited \cup {req[q].id}
    BY DEF Update
  <2> QED
    BY <2>1, <2>2, UpdateForms
<1>5. \A y \in Rows', f \in Field : row'[y] = row[y] \/ row'[y].ref[f] \in Rows' \cup {None}
  BY <1>1, UpdateForms DEF Rows
<1> QED
  BY <1>2, <1>3, <1>4, <1>5, TableStep DEF Update

-----------------------------------------------------------------------------
\* The lines of a file.
LEMMA FileFacts ==
  ASSUME NEW k \in Kinds, NEW lines \in Files[k]
  PROVE  /\ DOMAIN lines = 1 .. 1 \/ DOMAIN lines = 1 .. 2
         /\ \A i \in DOMAIN lines :
              /\ lines[i] \in Line[k] /\ lines[i].code \in Code
              /\ \A f \in Field : lines[i].ref[f] # None => f \in Columns(k)
<1>1. \/ \E x \in Line[k] : lines = <<x>>
      \/ \E x, y \in Line[k] : lines = <<x, y>>
  BY DEF Files
<1>2. /\ DOMAIN lines = 1 .. 1 \/ DOMAIN lines = 1 .. 2
      /\ \A i \in DOMAIN lines : lines[i] \in Line[k]
  BY <1>1
<1>3. \A x \in Line[k] :
        x.code \in Code /\ \A f \in Field : x.ref[f] # None => f \in Columns(k)
  BY DEF Line
<1> QED
  BY <1>2, <1>3

\* What a line refers to is a row, or comes with a line before it.
LEMMA ResolvedFacts ==
  ASSUME IInv, NEW k \in Kinds, NEW lines \in Files[k],
         NEW ids \in [DOMAIN lines -> k \ Rows], NEW i \in DOMAIN lines, NEW f \in Field,
         lines[i].ref[f] # None => Known(lines, i, f)
  PROVE  \/ Resolved(lines, ids, i, f) = None
         \/ /\ f \in Columns(k) /\ Resolved(lines, ids, i, f) \in Target(f)
            /\ \/ Resolved(lines, ids, i, f) \in Rows
               \/ \E j \in DOMAIN lines : j < i /\ Resolved(lines, ids, i, f) = ids[j]
<1> DEFINE x == Resolved(lines, ids, i, f)
           good(y) ==
             \/ y \in ByCode(Target(f), lines[i].ref[f])
             \/ f = "parent" /\ \E j \in Before(lines, i, lines[i].ref[f]) : ids[j] = y
<1>1. CASE lines[i].ref[f] = None
  BY <1>1 DEF Resolved
<1>2. CASE lines[i].ref[f] # None
  <2>1. f \in Columns(k)
    BY <1>2, FileFacts
  <2>2. \A j \in Before(lines, i, lines[i].ref[f]) : j \in DOMAIN lines /\ j < i
    <3>1. DOMAIN lines = 1 .. 1 \/ DOMAIN lines = 1 .. 2
      BY FileFacts
    <3> QED
      BY <3>1 DEF Before
  <2>3. \E y \in Target(f) : good(y)
    <3>1. CASE ByCode(Target(f), lines[i].ref[f]) # {}
      BY <3>1 DEF ByCode
    <3>2. CASE f = "parent" /\ Before(lines, i, lines[i].ref[f]) # {}
      <4>1. k = Target(f)
        BY <2>1, <3>2, FieldFacts
      <4>2. PICK j \in Before(lines, i, lines[i].ref[f]) : TRUE
        BY <3>2
      <4>3. ids[j] \in Target(f) /\ good(ids[j])
        BY <2>2, <3>2, <4>1, <4>2
      <4> QED
        BY <4>3
    <3> QED
      BY <1>2, <3>1, <3>2 DEF Known
  <2>4. x = CHOOSE y \in Target(f) : good(y)
    BY <1>2 DEF Resolved
  <2> HIDE DEF x, good
  <2>5. x \in Target(f) /\ good(x)
    BY <2>3, <2>4
  <2>6. x \in Rows \/ \E j \in DOMAIN lines : j < i /\ x = ids[j]
    BY <2>2, <2>5 DEF good, ByCode
  <2> QED
    BY <2>1, <2>5, <2>6 DEF x
<1> QED
  BY <1>1, <1>2

\* What the import does to the table.
LEMMA InsertForms ==
  ASSUME IInv, NEW q \in Request, NEW k \in Kinds, Insert(q, k)
  PROVE  \E lines \in Files[k], ids \in [DOMAIN req[q].lines -> k \ Rows] :
           /\ lines = req[q].lines
           /\ \A i \in DOMAIN lines, f \in Field : lines[i].ref[f] # None => Known(lines, i, f)
           /\ \A i, j \in DOMAIN lines : ids[i] = ids[j] => i = j
           /\ row' = [x \in Id |-> row'[x]]
           /\ \A i \in DOMAIN lines :
                /\ ids[i] \in Id /\ KindOf(ids[i]) = k
                /\ row'[ids[i]] = [code |-> lines[i].code,
                                   ref  |-> [f \in Field |-> Resolved(lines, ids, i, f)]]
           /\ \A x \in Id : x \in {ids[i] : i \in DOMAIN lines} \/ row'[x] = row[x]
           /\ active' = active \cup {ids[i] : i \in DOMAIN lines}
<1> DEFINE lines == req[q].lines
<1>1. lines \in Files[k]
  BY ProgressFacts DEF Insert, IInv, TypeOK
<1>2. \A i \in DOMAIN lines, f \in Field : lines[i].ref[f] # None => Known(lines, i, f)
  BY DEF Insert
<1>3. PICK ids \in [DOMAIN lines -> k \ Rows] :
         /\ \A i, j \in DOMAIN lines : ids[i] = ids[j] => i = j
         /\ row' = [x \in Id |->
                      IF \E i \in DOMAIN lines : ids[i] = x
                      THEN LET i == CHOOSE i \in DOMAIN lines : ids[i] = x
                           IN  [code |-> lines[i].code,
                                ref  |-> [f \in Field |-> Resolved(lines, ids, i, f)]]
                      ELSE row[x]]
         /\ active' = active \cup {ids[i] : i \in DOMAIN lines}
  BY DEF Insert
<1> DEFINE new(i) == [code |-> lines[i].code,
                      ref  |-> [f \in Field |-> Resolved(lines, ids, i, f)]]
           at(x) == CHOOSE i \in DOMAIN lines : ids[i] = x
<1>4. row' = [x \in Id |-> IF \E i \in DOMAIN lines : ids[i] = x THEN new(at(x)) ELSE row[x]]
  BY <1>3
<1>5. \A i \in DOMAIN lines : ids[i] \in Id /\ KindOf(ids[i]) = k
  BY <1>3, KindFacts DEF IInv
<1>6. \A i \in DOMAIN lines : at(ids[i]) = i
  BY <1>3
<1> HIDE DEF new, at, lines
<1>7. \A i \in DOMAIN lines : row'[ids[i]] = new(i)
  BY <1>4, <1>5, <1>6
<1>8. \A x \in Id : x \in {ids[i] : i \in DOMAIN lines} \/ row'[x] = row[x]
  BY <1>4
<1>9. row' = [x \in Id |-> row'[x]]
  BY <1>4
<1>10. \A i \in DOMAIN lines :
         row'[ids[i]] = [code |-> lines[i].code,
                         ref  |-> [f \in Field |-> Resolved(lines, ids, i, f)]]
  BY <1>7 DEF new
<1>11. ids \in [DOMAIN req[q].lines -> k \ Rows]
  BY <1>3 DEF lines
<1> WITNESS lines \in Files[k], ids \in [DOMAIN req[q].lines -> k \ Rows]
<1>12. lines = req[q].lines
  BY DEF lines
<1> QED
  BY <1>2, <1>3, <1>5, <1>8, <1>9, <1>10, <1>12

\* The import keeps the invariant: its references are to rows, or to its own lines.
LEMMA InsertStep ==
  ASSUME IInv, NEW q \in Request, NEW k \in Kinds, Insert(q, k) PROVE IInv'
<1>1. PICK lines \in Files[k], ids \in [DOMAIN req[q].lines -> k \ Rows] :
           /\ lines = req[q].lines
           /\ \A i \in DOMAIN lines, f \in Field : lines[i].ref[f] # None => Known(lines, i, f)
           /\ \A i, j \in DOMAIN lines : ids[i] = ids[j] => i = j
           /\ row' = [x \in Id |-> row'[x]]
           /\ \A i \in DOMAIN lines :
                /\ ids[i] \in Id /\ KindOf(ids[i]) = k
                /\ row'[ids[i]] = [code |-> lines[i].code,
                                   ref  |-> [f \in Field |-> Resolved(lines, ids, i, f)]]
           /\ \A x \in Id : x \in {ids[i] : i \in DOMAIN lines} \/ row'[x] = row[x]
           /\ active' = active \cup {ids[i] : i \in DOMAIN lines}
  BY InsertForms
<1>2. ids \in [DOMAIN lines -> k \ Rows]
  BY <1>1
<1>3. ASSUME NEW i \in DOMAIN lines
      PROVE  /\ row'[ids[i]] \in Row[k] /\ row'[ids[i]] # None
             /\ \A f \in Field : \/ row'[ids[i]].ref[f] \in Rows \cup {None}
                                 \/ \E j \in DOMAIN lines : row'[ids[i]].ref[f] = ids[j]
  <2> DEFINE ref == [f \in Field |-> Resolved(lines, ids, i, f)]
  <2>1. \A f \in Field : 
          \/ ref[f] = None
          \/ /\ f \in Columns(k) /\ ref[f] \in Target(f)
             /\ ref[f] \in Rows \/ \E j \in DOMAIN lines : j < i /\ ref[f] = ids[j]
    BY <1>1, <1>2, ResolvedFacts
  <2>2. row'[ids[i]] = [code |-> lines[i].code, ref |-> ref]
    BY <1>1
  <2> HIDE DEF ref
  <2>3. ref \in Refs[k]
    <3>1. \A f \in Field : ref[f] \in Id \cup {None}
      BY <1>1, <2>1 DEF Rows
    <3>2. ref \in [Field -> Id \cup {None}]
      BY <3>1 DEF ref
    <3>3. \A f \in Field : ref[f] # None => f \in Fields(k) /\ ref[f] \in Target(f)
      BY <2>1, FieldFacts
    <3> QED
      BY <3>2, <3>3, RefsFacts
  <2>4. lines[i].code \in Code
    BY <1>3, FileFacts
  <2>5. row'[ids[i]] \in Row[k]
    BY <2>2, <2>3, <2>4, RowFields
  <2>6. row'[ids[i]] # None
    BY <2>5 DEF IInv, DirectoryAssumption
  <2> QED
    BY <2>1, <2>2, <2>5, <2>6
<1> DEFINE news == {ids[i] : i \in DOMAIN lines}
<1>8. ASSUME NEW x \in news
      PROVE  x \in Id /\ row'[x] # None /\ row'[x] \in Row[KindOf(x)]
  <2>1. PICK i \in DOMAIN lines : x = ids[i]
    OBVIOUS
  <2> QED
    BY <1>1, <1>3, <2>1
<1>9. \A x \in Id \ news : row'[x] = row[x]
  BY <1>1
<1>10. active' = active \cup news
  BY <1>1
<1> HIDE DEF news
<1>4. Rows' = Rows \cup news
  BY <1>8, <1>9 DEF Rows
<1>5. \A x \in Id : row'[x] \in Row[KindOf(x)] \cup {None}
  BY <1>8, <1>9 DEF IInv, TypeOK
<1>6. active' \subseteq Rows' /\ edited' \subseteq Rows' /\ Rows \subseteq Rows'
  BY <1>4, <1>10 DEF IInv, TypeOK, Insert
<1>7. \A x \in Rows', f \in Field : row'[x] = row[x] \/ row'[x].ref[f] \in Rows' \cup {None}
  <2> SUFFICES ASSUME NEW x \in Rows', NEW f \in Field, row'[x] # row[x]
               PROVE  row'[x].ref[f] \in Rows' \cup {None}
    OBVIOUS
  <2>1. x \in news
    BY <1>9 DEF Rows
  <2>2. PICK i \in DOMAIN lines : x = ids[i]
    BY <2>1 DEF news
  <2>3. \A j \in DOMAIN lines : ids[j] \in news
    BY DEF news
  <2> QED
    BY <1>3, <1>4, <2>2, <2>3
<1> QED
  BY <1>1, <1>5, <1>6, <1>7, TableStep DEF Insert

-----------------------------------------------------------------------------
(* Every step                                                              *)

\* The operations of the three kinds are the operations of a kind.
LEMMA KindsListed ==
  ASSUME NEW q
  PROVE  /\ NewDepartment(q) \/ NewUser(q) \/ NewDevice(q) =>
              \E k \in Kinds : OpenNew(q, k)
         /\ EditDepartment(q) \/ EditUser(q) \/ EditDevice(q) =>
              \E k \in Kinds : \E x \in k \cap Rows : OpenEdit(q, x)
         /\ ShowDepartment(q) \/ ShowUser(q) \/ ShowDevice(q) =>
              \E k \in Kinds : Show(q, k)
         /\ PostDepartment(q) \/ PostUser(q) \/ PostDevice(q) =>
              \E k \in Kinds : Post(q, k)
         /\ CreateDepartment(q) \/ CreateUser(q) \/ CreateDevice(q) =>
              \E k \in Kinds : Create(q, k)
         /\ UpdateDepartment(q) \/ UpdateUser(q) \/ UpdateDevice(q) =>
              \E k \in Kinds : Update(q, k)
         /\ ConflictDepartment(q) \/ ConflictUser(q) \/ ConflictDevice(q) =>
              \E k \in Kinds : Conflict(q, k)
         /\ ValidateDepartments(q) \/ ValidateUsers(q) \/ ValidateDevices(q) =>
              \E k \in Kinds : Validate(q, k)
         /\ InsertDepartments(q) \/ InsertUsers(q) \/ InsertDevices(q) =>
              \E k \in Kinds : Insert(q, k)
<1>1. Department \in Kinds /\ User \in Kinds /\ Device \in Kinds
  BY DEF Kinds
<1> QED
  BY <1>1
     DEF NewDepartment, NewUser, NewDevice, EditDepartment, EditUser, EditDevice,
         ShowDepartment, ShowUser, ShowDevice, PostDepartment, PostUser, PostDevice,
         CreateDepartment, CreateUser, CreateDevice, UpdateDepartment, UpdateUser,
         UpdateDevice, ConflictDepartment, ConflictUser, ConflictDevice,
         ValidateDepartments, ValidateUsers, ValidateDevices,
         InsertDepartments, InsertUsers, InsertDevices

\* What a step is, but for the kind of thing it is about.
LEMMA NextForms ==
  ASSUME Next
  PROVE  \/ \E x \in Id : Retire(x) \/ Return(x)
         \/ \E q \in Request :
              \/ EndRequest(q)
              \/ \E k \in Kinds :
                   \/ OpenNew(q, k) \/ \E x \in k \cap Rows : OpenEdit(q, x)
                   \/ Show(q, k) \/ Post(q, k) \/ Conflict(q, k) \/ Validate(q, k)
                   \/ Create(q, k) \/ Update(q, k) \/ Insert(q, k)
<1>1. CASE \/ SoftDeleteDepartment \/ SoftDeleteUser \/ SoftDeleteDevice
           \/ RestoreDepartment \/ RestoreUser \/ RestoreDevice
  BY <1>1 DEF SoftDeleteDepartment, SoftDeleteUser, SoftDeleteDevice,
              RestoreDepartment, RestoreUser, RestoreDevice, Id
<1>2. CASE \E q \in Request :
         \/ NewDepartment(q) \/ NewUser(q) \/ NewDevice(q)
         \/ EditDepartment(q) \/ EditUser(q) \/ EditDevice(q)
         \/ ShowDepartment(q) \/ ShowUser(q) \/ ShowDevice(q)
         \/ PostDepartment(q) \/ PostUser(q) \/ PostDevice(q)
         \/ CreateDepartment(q) \/ CreateUser(q) \/ CreateDevice(q)
         \/ UpdateDepartment(q) \/ UpdateUser(q) \/ UpdateDevice(q)
         \/ ConflictDepartment(q) \/ ConflictUser(q) \/ ConflictDevice(q)
         \/ EndRequest(q)
         \/ ValidateDepartments(q) \/ ValidateUsers(q) \/ ValidateDevices(q)
         \/ InsertDepartments(q) \/ InsertUsers(q) \/ InsertDevices(q)
  BY <1>2, KindsListed, Zenon
<1> QED
  BY <1>1, <1>2 DEF Next

\* What earlier requests left satisfies the invariant.
LEMMA InitIInv == DirectoryAssumption /\ Init => IInv
<1> SUFFICES ASSUME DirectoryAssumption, Init PROVE IInv
  OBVIOUS
<1>1. RowsListed /\ \A x \in Id : row[x] \in Row[KindOf(x)] \cup {None}
  BY DEF DirectoryAssumption, Init, RowsListed
<1>2. \A x \in Rows, f \in Field : row[x].ref[f] \in Rows \cup {None}
  <2> SUFFICES ASSUME NEW x \in Rows, NEW f \in Field, row[x].ref[f] # None
               PROVE  row[x].ref[f] \in Rows
    OBVIOUS
  <2>1. KindOf(x) \in Kinds /\ row[x] \in Row[KindOf(x)]
    <3>1. PICK k \in Kinds : x \in k
      BY DEF Rows, Id, Kinds
    <3> QED
      BY <1>1, <3>1, KindFacts DEF Rows
  <2>2. row[x].ref[f] \in Id
    BY <2>1, RowFields, RefsFacts
  <2> QED
    BY <2>2 DEF DirectoryAssumption, Init, Rows
<1>3. active \subseteq Rows /\ edited \subseteq Rows
  BY DEF Init
<1>4. started \in 0 .. MaxRequests
  BY DEF DirectoryAssumption, Init
<1>5. req \in [Request -> Progress] /\ FormsKnow
  BY IdleFacts DEF Init, FormsKnow
<1> QED
  BY <1>1, <1>2, <1>3, <1>4, <1>5 DEF IInv, TypeOK

\* Every step keeps it.
LEMMA NextIInv == IInv /\ [Next]_vars => IInv'
<1> SUFFICES ASSUME IInv, [Next]_vars PROVE IInv'
  OBVIOUS
<1>1. CASE UNCHANGED vars
  <2>1. row' = row /\ active' = active /\ req' = req /\ started' = started /\ edited' = edited
    BY <1>1 DEF vars
  <2>2. Rows' = Rows
    BY <2>1 DEF Rows
  <2>3. TypeOK' /\ RowsListed'
    BY <2>1, <2>2 DEF IInv, TypeOK, RowsListed
  <2>4. FormsKnow'
    BY <2>1, <2>2 DEF IInv, FormsKnow, FormKnows, Refused
  <2> QED
    BY <2>3, <2>4 DEF IInv
<1>2. CASE Next
  BY <1>2, NextForms, RetireStep, EndRequestStep, OpenNewStep, OpenEditStep, ShowStep,
     PostStep, ConflictStep, ValidateStep, CreateStep, UpdateStep, InsertStep
<1> QED
  BY <1>1, <1>2

\* Departments, users and devices: every row keeps its shape, and every
\* reference leads to a row, for rows never go and an import takes the ids of
\* the lines before it (bootstrap.Run, the forms of the three handlers).
THEOREM DirectoryTypes == ASSUME DirectoryAssumption PROVE Spec => []TypeOK
<1>1. Init => IInv
  BY InitIInv
<1>2. IInv => TypeOK
  BY DEF IInv
<1> QED
  BY <1>1, <1>2, NextIInv, PTL DEF Spec

\* What the form of a request knows is what its write stores.
LEMMA SaveMeant ==
  ASSUME IInv, Next, NEW q \in Request, NEW x \in Id, Writes(q, x)
  PROVE  /\ row'[x].code = req[q].meant.code
         /\ \A f \in Field :
              \/ row'[x].ref[f] = req[q].meant.ref[f]
              \/ req[q].id = None /\ req[q].again /\ row'[x].ref[f] = None
<1>1. FormKnows(req[q]) /\ req[q].pc = "write" /\ req'[q] = Idle /\ row'[x] # row[x]
  BY FormFacts DEF Writes, Shown
<1>2. req \in [Request -> Progress] /\ req[q] # Idle
  BY <1>1 DEF IInv, TypeOK, Idle
<1>3. ASSUME NEW p \in Request, NEW k \in Kinds, Create(p, k) \/ Update(p, k)
      PROVE  row'[x] = req[q].entry
  <2>1. p = q
    BY <1>1, <1>2, <1>3 DEF Create, Update
  <2> QED
    BY <1>1, <1>3, <2>1, CreateForms, UpdateForms
<1>4. ASSUME NEW p \in Request, NEW k \in Kinds, Insert(p, k) PROVE FALSE
  <2>1. p = q
    BY <1>1, <1>2, <1>4 DEF Insert
  <2> QED
    BY <1>1, <1>4, <2>1 DEF Insert
<1>5. row'[x] = req[q].entry
  BY <1>1, <1>3, <1>4, NextForms
     DEF Retire, Return, EndRequest, OpenNew, OpenEdit,
         Show, Post, Conflict, Validate
<1> QED
  BY <1>1, <1>5 DEF FormKnows

\* A save stores what its user read or entered last, in every field: the edit
\* form pins what its selects do not list, however often it is shown, and the
\* form of a new row can only drop a reference that is listed no more
\* (resolvePinnedDepartment and its kin).
THEOREM SavesAreMeant == ASSUME DirectoryAssumption PROVE Spec => SavesWhatWasMeant
<1> DEFINE P == \A q \in Request, x \in Id : Writes(q, x) =>
         /\ row'[x].code = req[q].meant.code
         /\ \A f \in Field :
              \/ row'[x].ref[f] = req[q].meant.ref[f]
              \/ req[q].id = None /\ req[q].again /\ row'[x].ref[f] = None
<1>1. Init => IInv
  BY InitIInv
<1>2. IInv /\ [Next]_vars => [P]_vars
  <2> SUFFICES ASSUME IInv, Next PROVE P
    OBVIOUS
  <2> QED
    BY SaveMeant
<1> HIDE DEF P
<1>3. Spec => [][P]_vars
  BY <1>1, <1>2, NextIInv, PTL DEF Spec
<1> QED
  BY <1>3 DEF SavesWhatWasMeant, P

-----------------------------------------------------------------------------
(* Circles of departments                                                  *)

Circular == {"parent", "successor"}

\* What earlier requests left closes no circle: no edit has happened yet.
SeedIsOpen ==
    \A f \in Circular, circle \in (SUBSET {d \in Department : Seed[d] # None}) \ {{}} :
      \E d \in circle : Seed[d].ref[f] \notin circle

\* The fields that can close a circle lead from departments to departments.
LEMMA CircularFacts ==
  ASSUME DirectoryAssumption
  PROVE  /\ Circular \subseteq Field /\ Department \in Kinds /\ Department \subseteq Id
         /\ None \notin Id
BY DEF Circular, Field, Kinds, Id, DirectoryAssumption

\* A circle that is closed after a step was closed before it, or has a row that
\* was edited, or has new rows only.
LEMMA CircleShrinks ==
  ASSUME IInv, CirclesNeedEdits, NEW f \in Circular,
         NEW circle \in (SUBSET (Department \cap Rows')) \ {{}},
         \A d \in circle : row'[d].ref[f] \in circle,
         \A d \in circle \cap Rows : row'[d] = row[d],
         edited \subseteq edited', circle \cap edited' = {},
         circle \cap Rows # {}
  PROVE  FALSE
<1> DEFINE old == circle \cap Rows
<1>1. old \in (SUBSET (Department \cap Rows)) \ {{}}
  OBVIOUS
<1>2. \A d \in old : row[d].ref[f] \in old
  <2> SUFFICES ASSUME NEW d \in old PROVE row[d].ref[f] \in old
    OBVIOUS
  <2>1. row[d].ref[f] \in circle
    OBVIOUS
  <2>2. row[d].ref[f] \in Rows \cup {None}
    BY CircularFacts DEF IInv, TypeOK
  <2>3. None \notin circle
    BY CircularFacts DEF IInv
  <2> QED
    BY <2>1, <2>2, <2>3
<1>3. old \cap edited # {}
  BY <1>1, <1>2 DEF CirclesNeedEdits, Circular
<1> QED
  BY <1>3

\* No department refers to itself.
LEMMA NoneAboveItself ==
  ASSUME NEW f \in Circular, CirclesNeedEdits, NEW d \in Department \cap Rows
  PROVE  row[d].ref[f] # d
BY DEF CirclesNeedEdits, Circular

\* So a step closes no circle when its new rows refer to older ones only and
\* an edited row not to itself.
LEMMA CircleStep ==
  ASSUME IInv, CirclesNeedEdits, edited \subseteq edited',
         \A f \in Circular, d \in Department \cap Rows' : row'[d].ref[f] # d,
         \A d \in Rows \ edited' : row'[d] = row[d],
         \A f \in Circular, circle \in (SUBSET (Department \cap Rows')) \ {{}} :
           (\A d \in circle : row'[d].ref[f] \in circle) => circle \cap Rows # {}
  PROVE  CirclesNeedEdits'
<1>1. ASSUME NEW f \in Circular, NEW circle \in (SUBSET (Department \cap Rows')) \ {{}},
             \A d \in circle : row'[d].ref[f] \in circle, circle \cap edited' = {}
      PROVE  FALSE
  <2>1. circle \cap Rows # {}
    BY <1>1
  <2>2. \A d \in circle \cap Rows : row'[d] = row[d]
    BY <1>1
  <2> QED
    BY <1>1, <2>1, <2>2, CircleShrinks
<1> QED
  BY <1>1 DEF CirclesNeedEdits, Circular

\* A new row refers to older ones only.
LEMMA CreateCircles ==
  ASSUME IInv, CirclesNeedEdits, NEW q \in Request, NEW k \in Kinds, Create(q, k)
  PROVE  CirclesNeedEdits'
<1>1. PICK x \in k \ Rows :
        /\ row'[x] = req[q].entry /\ Rows' = Rows \cup {x}
        /\ \A y \in Id \ {x} : row'[y] = row[y]
  BY CreateForms
<1>2. edited' = edited /\ Rows \subseteq Id /\ Circular \subseteq Field
  BY CircularFacts DEF Create, Rows, IInv
<1>3. \A f \in Field : row'[x].ref[f] \in Rows \cup {None}
  BY <1>1, WriteFacts DEF Create
<1>4. x # None
  BY KindFacts DEF IInv
<1>5. ASSUME NEW f \in Circular, NEW d \in Department \cap Rows' PROVE row'[d].ref[f] # d
  BY <1>1, <1>2, <1>3, <1>4, NoneAboveItself
<1>6. \A d \in Rows \ edited' : row'[d] = row[d]
  BY <1>1, <1>2
<1>7. ASSUME NEW f \in Circular, NEW circle \in (SUBSET (Department \cap Rows')) \ {{}},
             \A d \in circle : row'[d].ref[f] \in circle
      PROVE  circle \cap Rows # {}
  <2>1. CASE x \in circle
    BY <1>1, <1>2, <1>3, <1>7, <2>1, CircularFacts DEF IInv
  <2>2. CASE x \notin circle
    BY <1>1, <2>2
  <2> QED
    BY <2>1, <2>2
<1> QED
  BY <1>2, <1>5, <1>6, <1>7, CircleStep

\* An edited department does not refer to itself.
LEMMA UpdateCircles ==
  ASSUME IInv, CirclesNeedEdits, NEW q \in Request, NEW k \in Kinds, Update(q, k)
  PROVE  CirclesNeedEdits'
<1> DEFINE x == req[q].id
<1>1. /\ x \in Rows /\ row'[x] = req[q].entry /\ Rows' = Rows
      /\ \A y \in Id \ {x} : row'[y] = row[y]
  BY UpdateForms
<1>2. edited' = edited \cup {x} /\ Rows \subseteq Id
  BY DEF Update, Rows
<1>3. \A f \in Circular : row'[x].ref[f] # x
  <2>1. ~Refused(x, req[q].entry) /\ x # None
    BY <1>1, <1>2, FormFacts, CircularFacts DEF Update, Shown, FormKnows, IInv
  <2> QED
    BY <1>1, <2>1 DEF Refused, Circular
<1> HIDE DEF x
<1>4. ASSUME NEW f \in Circular, NEW d \in Department \cap Rows' PROVE row'[d].ref[f] # d
  BY <1>1, <1>2, <1>3, NoneAboveItself
<1>5. \A d \in Rows \ edited' : row'[d] = row[d]
  BY <1>1, <1>2
<1>6. \A circle \in (SUBSET (Department \cap Rows')) \ {{}} : circle \cap Rows # {}
  BY <1>1
<1> QED
  BY <1>2, <1>4, <1>5, <1>6, CircleStep

\* A line refers to older rows and to lines before it.
LEMMA InsertCircles ==
  ASSUME IInv, CirclesNeedEdits, NEW q \in Request, NEW k \in Kinds, Insert(q, k)
  PROVE  CirclesNeedEdits'
<1>1. PICK lines \in Files[k], ids \in [DOMAIN req[q].lines -> k \ Rows] :
           /\ lines = req[q].lines
           /\ \A i \in DOMAIN lines, f \in Field : lines[i].ref[f] # None => Known(lines, i, f)
           /\ \A i, j \in DOMAIN lines : ids[i] = ids[j] => i = j
           /\ row' = [x \in Id |-> row'[x]]
           /\ \A i \in DOMAIN lines :
                /\ ids[i] \in Id /\ KindOf(ids[i]) = k
                /\ row'[ids[i]] = [code |-> lines[i].code,
                                   ref  |-> [f \in Field |-> Resolved(lines, ids, i, f)]]
           /\ \A x \in Id : x \in {ids[i] : i \in DOMAIN lines} \/ row'[x] = row[x]
           /\ active' = active \cup {ids[i] : i \in DOMAIN lines}
  BY InsertForms
<1>2. /\ ids \in [DOMAIN lines -> k \ Rows] /\ edited' = edited /\ Rows \subseteq Id
      /\ Circular \subseteq Field /\ None \notin Id
  BY <1>1, CircularFacts DEF Insert, Rows, IInv
\* A line refers to a row that was there, or to a line before it.
<1>3. ASSUME NEW i \in DOMAIN lines, NEW f \in Circular
      PROVE  \/ row'[ids[i]].ref[f] \in Rows \cup {None}
             \/ \E j \in DOMAIN lines : j < i /\ row'[ids[i]].ref[f] = ids[j]
  <2>1. row'[ids[i]].ref[f] = Resolved(lines, ids, i, f)
    <3>1. f \in Field
      BY <1>2
    <3>2. row'[ids[i]].ref = [g \in Field |-> Resolved(lines, ids, i, g)]
      <4>1. row'[ids[i]] = [code |-> lines[i].code,
                            ref  |-> [g \in Field |-> Resolved(lines, ids, i, g)]]
        BY <1>1
      <4> QED
        BY <4>1
    <3> QED
      BY <3>1, <3>2
  <2> QED
    BY <1>1, <1>2, <2>1, ResolvedFacts
<1>4. \A x \in Rows : row'[x] = row[x]
  <2> SUFFICES ASSUME NEW x \in Rows PROVE row'[x] = row[x]
    OBVIOUS
  <2>1. x \notin {ids[i] : i \in DOMAIN lines}
    BY <1>2
  <2> QED
    BY <1>1, <1>2, <2>1
<1>5. \A x \in Rows' : x \in Rows \/ \E i \in DOMAIN lines : x = ids[i]
  BY <1>1 DEF Rows
<1>6. DOMAIN lines = 1 .. 1 \/ DOMAIN lines = 1 .. 2
  BY FileFacts
<1>7. ASSUME NEW f \in Circular, NEW d \in Department \cap Rows' PROVE row'[d].ref[f] # d
  <2>1. CASE d \in Rows
    BY <1>4, <2>1, NoneAboveItself
  <2>2. CASE d \notin Rows
    <3>1. PICK i \in DOMAIN lines : d = ids[i]
      BY <1>5, <2>2
    <3>2. \A j \in DOMAIN lines : j < i => ids[j] # ids[i]
      BY <1>1, <1>6
    <3>3. d # None
      BY <1>2 DEF Rows
    <3> QED
      BY <1>3, <2>2, <3>1, <3>2, <3>3
  <2> QED
    BY <2>1, <2>2
<1>8. ASSUME NEW f \in Circular, NEW circle \in (SUBSET (Department \cap Rows')) \ {{}},
             \A d \in circle : row'[d].ref[f] \in circle, circle \cap Rows = {}
      PROVE  FALSE
  <2>1. \A d \in circle : \E i \in DOMAIN lines : d = ids[i]
    BY <1>5, <1>8
  <2>2. None \notin circle
    BY <1>2, <1>8 DEF Rows
  <2>3. \A i \in DOMAIN lines : ids[i] \in circle =>
          \E j \in DOMAIN lines : j < i /\ ids[j] \in circle
    BY <1>3, <1>8, <2>2
  <2>4. \A i \in DOMAIN lines : ids[i] \notin circle
    BY <1>6, <2>3
  <2> QED
    BY <1>8, <2>1, <2>4
<1> QED
  BY <1>2, <1>4, <1>7, <1>8, CircleStep

\* No department is its own parent or successor, and a longer circle has a
\* row that a form edited: creates and imports close none, of any length
\* (departments.update refuses only a department's own id).
THEOREM OnlyEditsCloseCircles ==
  ASSUME DirectoryAssumption, SeedIsOpen PROVE Spec => []CirclesNeedEdits
<1> DEFINE Inv == IInv /\ CirclesNeedEdits
<1>1. Init => Inv
  <2> SUFFICES ASSUME Init PROVE CirclesNeedEdits
    BY InitIInv
  <2>1. \A f \in Circular, circle \in (SUBSET (Department \cap Rows)) \ {{}} :
          \E d \in circle : row[d].ref[f] \notin circle
    BY CircularFacts DEF SeedIsOpen, Init, Rows
  <2>2. \A f \in Circular, d \in Department \cap Rows : row[d].ref[f] # d
    <3> SUFFICES ASSUME NEW f \in Circular, NEW d \in Department \cap Rows PROVE row[d].ref[f] # d
      OBVIOUS
    <3>1. {d} \in (SUBSET (Department \cap Rows)) \ {{}}
      OBVIOUS
    <3>2. \E e \in {d} : row[e].ref[f] \notin {d}
      BY <2>1, <3>1
    <3> QED
      BY <3>2
  <2> QED
    BY <2>1, <2>2 DEF CirclesNeedEdits, Circular
<1>2. Inv /\ [Next]_vars => Inv'
  <2> SUFFICES ASSUME Inv, [Next]_vars PROVE CirclesNeedEdits'
    BY NextIInv
  <2>1. ASSUME row' = row, edited' = edited PROVE CirclesNeedEdits'
    <3>1. Rows' = Rows
      BY <2>1 DEF Rows
    <3> QED
      BY <2>1, <3>1 DEF CirclesNeedEdits
  <2>2. CASE UNCHANGED vars
    BY <2>1, <2>2 DEF vars
  <2>3. CASE Next
    BY <2>1, <2>3, NextForms, CreateCircles, UpdateCircles, InsertCircles
       DEF Retire, Return, EndRequest, OpenNew, OpenEdit,
           Show, Post, Conflict, Validate
  <2> QED
    BY <2>2, <2>3
<1>3. Inv => CirclesNeedEdits
  OBVIOUS
<1> HIDE DEF Inv
<1> QED
  BY <1>1, <1>2, <1>3, PTL DEF Spec
=============================================================================
