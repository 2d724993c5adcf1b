------------------------- MODULE LicenseStoreProofs -------------------------
(***************************************************************************)
(* Safety of LicenseStore for every set of licences, keys, directories,    *)
(* documents and concurrent requests.                                      *)
(***************************************************************************)
EXTENDS LicenseStore, TLAPS

Resolving == {"count", "look"}
Placing == {"stat", "prepare", "rename", "commit"}
Uploading == {"mkdir", "create", "write", "record"}
Reporting == {"list", "ready", "temp", "publish"}

\* What a request has read and decided by the step it has come to.
Sound(r) ==
    /\ r \in Progress
    /\ r.pc # "idle" => r.lic \in License
    /\ r.pc = "idle" => r = Idle
    /\ r.kind \in {"create", "update"} <=>
         r.pc \in Resolving \cup {"insert"} \cup Placing
    /\ r.pc \in Resolving => r.key \in Key /\ r.i \in DOMAIN Candidates[r.key]
    /\ r.pc \in Resolving /\ r.kind = "update" => r.from \in Dir
    /\ r.pc = "insert" => r.key \in Key /\ r.to \in Dir /\ ~r.back
    /\ r.pc \in Resolving => ~r.back
    /\ r.pc \in Placing => r.key \in Key /\ r.from \in Dir /\ r.to \in Dir
    /\ r.pc = "commit" => ~r.back
    /\ r.pc \in Uploading => r.to \in Dir /\ r.doc \in Doc
    /\ r.pc \in {"write", "record"} => r.name \in Name
    /\ r.pc \in Uploading \cup Reporting \cup {"read"} => r.lic \in DOMAIN rows
    /\ r.pc \in Reporting => r.key \in Key /\ r.to \in Dir

RowsTyped ==
    /\ DOMAIN rows \subseteq License
    /\ \A l \in DOMAIN rows : rows[l] \in [key : Key, path : Dir]
    /\ \A l, m \in DOMAIN rows : rows[l].key = rows[m].key => l = m

DocsTyped ==
    /\ DOMAIN docs \subseteq Doc
    /\ \A d \in DOMAIN docs :
         docs[d] \in [lic : DOMAIN rows, dir : Dir, name : Name]

FilesTyped ==
    /\ DOMAIN fs \subseteq Dir
    /\ \A d \in DOMAIN fs : fs[d] \in Contents

MarksTyped ==
    /\ hit \subseteq License /\ behind \subseteq License
    /\ rivals \subseteq SUBSET License
    /\ served \in 0 .. MaxRequests

RequestsTyped ==
    /\ req \in [Request -> Progress]
    /\ \A q \in Request : Sound(req[q])

Typed == RowsTyped /\ DocsTyped /\ FilesTyped /\ MarksTyped /\ RequestsTyped

\* Requests that look for a directory at the same time are known as rivals.
Seeking(r) == r.kind \in {"create", "update"}

SeekersAreRivals ==
    \A p, q \in Request :
      p # q /\ Seeking(req[p]) /\ Seeking(req[q]) => {req[p].lic, req[q].lic} \in rivals

\* The directory that a request is about to take or has taken.
Claims(r, dir) ==
    \/ r.pc = "look" /\ dir = Candidates[r.key][r.i]
    \/ r.pc \in {"insert"} \cup Placing /\ ~r.back /\ dir = r.to

ClaimsApart ==
    \A q \in Request, m \in DOMAIN rows :
      m # req[q].lic /\ Claims(req[q], rows[m].path) => {req[q].lic, m} \in rivals

Apart == SeekersAreRivals /\ ClaimsApart /\ DirsApart

IInv == Typed /\ Apart

-----------------------------------------------------------------------------
(* Helpers                                                                 *)

LEMMA IdleFacts ==
  /\ Idle \in Progress
  /\ Sound(Idle) /\ Sound(Idle)'
  /\ Idle.pc = "idle" /\ Idle.kind = "none"
BY DEF Idle, Progress, Sound, Resolving, Placing, Uploading, Reporting

LEMMA EmptyDirFacts == EmptyDir \in Contents
BY DEF EmptyDir, Contents

LEMMA CandidateType ==
  ASSUME NEW k \in Key, NEW i \in DOMAIN Candidates[k]
  PROVE  Candidates[k][i] \in Dir
BY LicenseStoreAssumption DEF LicenseStoreAssumption

LEMMA TypedIsTypeOK == Typed => TypeOK
BY DEF Typed, TypeOK, RowsTyped, DocsTyped, FilesTyped, MarksTyped, RequestsTyped

LEMMA InitTyped == Init => Typed
<1> SUFFICES ASSUME Init PROVE Typed
  OBVIOUS
<1>1. RowsTyped /\ DocsTyped /\ FilesTyped
  BY DEF Init, RowsTyped, DocsTyped, FilesTyped
<1>2. MarksTyped
  BY LicenseStoreAssumption DEF Init, MarksTyped, LicenseStoreAssumption
<1>3. RequestsTyped
  BY IdleFacts DEF Init, RequestsTyped
<1> QED
  BY <1>1, <1>2, <1>3 DEF Typed

\* A request takes a step, the others stay where they are.
Moves(q, r) == req' = [req EXCEPT ![q] = r]

LEMMA RequestStep ==
  ASSUME RequestsTyped, NEW q \in Request, NEW r, Moves(q, r), Sound(r)',
         DOMAIN rows \subseteq DOMAIN rows'
  PROVE  /\ RequestsTyped'
         /\ req'[q] = r
         /\ \A p \in Request : p # q => req'[p] = req[p]
<1>1. r \in Progress
  BY DEF Sound
<1>2. /\ req' \in [Request -> Progress]
      /\ req'[q] = r
      /\ \A p \in Request : p # q => req'[p] = req[p]
  BY <1>1 DEF RequestsTyped, Moves
<1>3. ASSUME NEW p \in Request PROVE Sound(req[p])'
  <2>1. CASE p = q
    BY <1>2, <2>1 DEF Sound
  <2>2. CASE p # q
    BY <1>2, <2>2 DEF RequestsTyped, Sound
  <2> QED
    BY <2>1, <2>2
<1> QED
  BY <1>2, <1>3 DEF RequestsTyped

\* A step that leaves the database as it is.
LEMMA TablesUntouched ==
  ASSUME RowsTyped, DocsTyped, UNCHANGED <<rows, docs>>
  PROVE  RowsTyped' /\ DocsTyped'
BY DEF RowsTyped, DocsTyped

LEMMA FileStep ==
  ASSUME Typed, NEW q \in Request, NEW r, Moves(q, r), Sound(r),
         UNCHANGED <<rows, docs>>, FilesTyped', MarksTyped'
  PROVE  Typed'
<1>1. RowsTyped' /\ DocsTyped'
  BY TablesUntouched DEF Typed
<1>2. Sound(r)'
  BY DEF Sound
<1>3. RequestsTyped'
  BY <1>2, RequestStep DEF Typed
<1> QED
  BY <1>1, <1>3 DEF Typed

LEMMA LocalStep ==
  ASSUME Typed, NEW q \in Request, NEW r, Moves(q, r), Sound(r),
         UNCHANGED <<rows, docs, fs, marks>>
  PROVE  Typed'
<1>1. FilesTyped' /\ MarksTyped'
  BY DEF Typed, FilesTyped, MarksTyped, marks
<1> QED
  BY <1>1, FileStep

-----------------------------------------------------------------------------
(* Typed is inductive: one lemma per action.                               *)

LEMMA NextSound ==
  ASSUME NEW q \in Request, Typed, req[q].pc \in Resolving, NextCandidate(q)
  PROVE  LET next == [req[q] EXCEPT !.pc = "count", !.i = @ + 1]
         IN  Moves(q, next) /\ Sound(next)
<1> DEFINE next == [req[q] EXCEPT !.pc = "count", !.i = @ + 1]
           seq == Candidates[req[q].key]
<1>1. Sound(req[q]) /\ req \in [Request -> Progress] /\ req[q] \in Progress
  BY DEF Typed, RequestsTyped, Sound
<1>2. seq \in Seq(Dir) /\ req[q].i \in DOMAIN seq
  BY <1>1, LicenseStoreAssumption DEF Sound, LicenseStoreAssumption
<1>3. req[q].i + 1 \in Nat /\ req[q].i + 1 \in DOMAIN seq
  BY <1>2 DEF NextCandidate
<1>4. next \in Progress
  BY <1>1, <1>3 DEF Progress
<1>5. Sound(next)
  BY <1>1, <1>3, <1>4 DEF Sound, Progress, Resolving, Placing, Uploading, Reporting
<1>6. Moves(q, next)
  BY <1>1 DEF NextCandidate, Moves
<1> QED
  BY <1>5, <1>6

LEMMA CountTyped ==
  ASSUME Typed, NEW q \in Request, Count(q) PROVE Typed'
<1> DEFINE next == [req[q] EXCEPT !.pc = "count", !.i = @ + 1]
           look == [req[q] EXCEPT !.pc = "look"]
<1>1. Sound(req[q]) /\ req[q].pc = "count" /\ req \in [Request -> Progress]
  BY DEF Typed, RequestsTyped, Count, At
<1>2. CASE NextCandidate(q)
  <2>1. Moves(q, next) /\ Sound(next)
    BY <1>1, <1>2, NextSound DEF Resolving
  <2> QED
    BY <2>1, LocalStep DEF Count
<1>3. CASE Goto(q, "look")
  <2>1. Moves(q, look)
    BY <1>1, <1>3 DEF Goto, Moves
  <2>2. Sound(look)
    BY <1>1 DEF Sound, Progress, Resolving, Placing, Uploading, Reporting
  <2> QED
    BY <2>1, <2>2, LocalStep DEF Count
<1> QED
  BY <1>2, <1>3 DEF Count

LEMMA LookTyped ==
  ASSUME Typed, NEW q \in Request, Look(q) PROVE Typed'
<1> DEFINE next == [req[q] EXCEPT !.pc = "count", !.i = @ + 1]
           pc == IF req[q].kind = "create" THEN "insert" ELSE "stat"
           found == [req[q] EXCEPT !.to = Candidate(q), !.i = 0, !.pc = pc]
<1>1. Sound(req[q]) /\ req[q].pc = "look" /\ req \in [Request -> Progress]
  BY DEF Typed, RequestsTyped, Look, At
<1>2. CASE NextCandidate(q)
  <2>1. Moves(q, next) /\ Sound(next)
    BY <1>1, <1>2, NextSound DEF Resolving
  <2> QED
    BY <2>1, LocalStep DEF Look
<1>3. CASE Vacant(Candidate(q))
  <2>1. Candidate(q) \in Dir
    BY <1>1, CandidateType DEF Sound, Resolving, Candidate
  <2>2. Moves(q, found)
    BY <1>1, <1>3 DEF Look, Moves
  <2>3. found \in Progress
    <3>1. pc \in {"insert", "stat"}
      OBVIOUS
    <3> HIDE DEF pc
    <3> QED
      BY <1>1, <2>1, <3>1 DEF Sound, Progress
  <2>4. /\ found.lic = req[q].lic /\ found.key = req[q].key
        /\ found.from = req[q].from /\ found.to = Candidate(q)
        /\ found.kind = req[q].kind /\ found.back = req[q].back /\ found.pc = pc
    BY <1>1 DEF Sound, Progress
  <2>5. req[q].kind \in {"create", "update"}
    BY <1>1 DEF Sound, Resolving
  <2>6. Sound(found)
    <3>1. CASE req[q].kind = "create"
      BY <1>1, <2>1, <2>3, <2>4, <3>1
         DEF Sound, Resolving, Placing, Uploading, Reporting
    <3>2. CASE req[q].kind = "update"
      BY <1>1, <2>1, <2>3, <2>4, <3>2
         DEF Sound, Resolving, Placing, Uploading, Reporting
    <3> QED
      BY <2>5, <3>1, <3>2
  <2> QED
    BY <2>2, <2>6, LocalStep DEF Look
<1> QED
  BY <1>2, <1>3 DEF Look

LEMMA GotoMoves ==
  ASSUME Typed, NEW q \in Request, NEW pc, Goto(q, pc)
  PROVE  Moves(q, [req[q] EXCEPT !.pc = pc])
BY DEF Typed, RequestsTyped, Goto, Moves

\* The steps that only move on within one kind of request.
LEMMA GotoSound ==
  ASSUME NEW r, NEW pc, Sound(r), 
         \/ r.pc = "stat" /\ pc = "prepare"
         \/ r.pc = "prepare" /\ pc = "rename"
         \/ r.pc = "mkdir" /\ pc = "create"
         \/ r.pc = "write" /\ pc = "record"
         \/ r.pc = "ready" /\ pc = "temp"
         \/ r.pc = "temp" /\ pc = "publish"
  PROVE  Sound([r EXCEPT !.pc = pc])
<1>1. [r EXCEPT !.pc = pc] \in Progress
  BY DEF Sound, Progress
<1> QED
  BY <1>1 DEF Sound, Progress, Resolving, Placing, Uploading, Reporting

LEMMA RegenerateSound ==
  ASSUME Typed, NEW q \in Request, Regenerate(q), req[q].lic \in License,
         req[q].lic \in DOMAIN rows'
  PROVE  \E r : Moves(q, r) /\ Sound(r)' /\ r.kind = "meta" /\ r.pc = "read"
<1>1. req[q].alone \in BOOLEAN
  BY DEF Typed, RequestsTyped, Progress
<1>2. PICK r : r = [Idle EXCEPT !.pc = "read", !.kind = "meta",
                                !.lic = req[q].lic, !.alone = req[q].alone]
  OBVIOUS
<1>3. Moves(q, r)
  BY <1>2 DEF Regenerate, Moves
<1>4. /\ r \in Progress
      /\ r.kind = "meta" /\ r.pc = "read" /\ r.lic = req[q].lic
  BY <1>1, <1>2 DEF Idle, Progress
<1>5. r.lic \in License /\ r.lic \in DOMAIN rows'
  BY <1>4
<1>6. Sound(r)'
  BY <1>4, <1>5 DEF Sound, Resolving, Placing, Uploading, Reporting
<1> QED
  BY <1>3, <1>4, <1>6

LEMMA EndMoves == ASSUME NEW q \in Request, End(q) PROVE Moves(q, Idle)
BY DEF End, Moves

LEMMA StatTyped ==
  ASSUME Typed, NEW q \in Request, Stat(q) PROVE Typed'
<1> DEFINE go == [req[q] EXCEPT !.pc = "commit", !.moved = TRUE]
<1>1. Sound(req[q]) /\ req[q].pc = "stat" /\ req \in [Request -> Progress]
  BY DEF Typed, RequestsTyped, Stat, At
<1>2. CASE Goto(q, "prepare")
  BY <1>1, <1>2, GotoMoves, GotoSound, LocalStep DEF Stat
<1>3. CASE End(q)
  BY <1>3, EndMoves, IdleFacts, LocalStep DEF Stat
<1>4. CASE ~req[q].back /\ req' = [req EXCEPT ![q].pc = "commit", ![q].moved = TRUE]
  <2>1. Moves(q, go)
    BY <1>1, <1>4 DEF Moves
  <2>2. go \in Progress
    BY <1>1 DEF Sound, Progress
  <2>3. Sound(go)
    BY <1>1, <1>4, <2>2
       DEF Sound, Progress, Resolving, Placing, Uploading, Reporting
  <2> QED
    BY <2>1, <2>3, LocalStep DEF Stat
<1> QED
  BY <1>2, <1>3, <1>4 DEF Stat

LEMMA RollBackTyped ==
  ASSUME Typed, NEW q \in Request, RollBack(q) PROVE Typed'
<1> DEFINE undo == [req[q] EXCEPT !.pc = "stat", !.back = TRUE,
                      !.from = req[q].to, !.to = req[q].from]
<1>1. Sound(req[q]) /\ req[q].pc = "commit" /\ req \in [Request -> Progress]
  BY DEF Typed, RequestsTyped, RollBack, At
<1>2. CASE End(q)
  BY <1>2, EndMoves, IdleFacts, LocalStep DEF RollBack
<1>3. CASE ~End(q)
  <2>1. Moves(q, undo)
    BY <1>1, <1>3 DEF RollBack, Moves
  <2>2. undo \in Progress
    BY <1>1 DEF Sound, Progress
  <2>3. Sound(undo)
    BY <1>1, <2>2 DEF Sound, Progress, Resolving, Placing, Uploading, Reporting
  <2> QED
    BY <2>1, <2>3, LocalStep DEF RollBack
<1> QED
  BY <1>2, <1>3

LEMMA WriteTyped ==
  ASSUME Typed, NEW q \in Request, Write(q) PROVE Typed'
<1>1. Sound(req[q]) /\ req[q].pc = "write"
  BY DEF Typed, RequestsTyped, Write, At
<1> QED
  BY <1>1, GotoMoves, GotoSound, LocalStep DEF Write

LEMMA ReadRowTyped ==
  ASSUME Typed, NEW q \in Request, ReadRow(q) PROVE Typed'
<1> DEFINE row == rows[req[q].lic]
           next == [req[q] EXCEPT !.pc = "list", !.key = row.key, !.to = row.path]
<1>1. Sound(req[q]) /\ req[q].pc = "read" /\ req \in [Request -> Progress]
  BY DEF Typed, RequestsTyped, ReadRow, At
<1>2. row.key \in Key /\ row.path \in Dir
  BY <1>1 DEF Sound, Typed, RowsTyped
<1>3. Moves(q, next)
  BY <1>1 DEF ReadRow, Moves
<1>4. next \in Progress
  BY <1>1, <1>2 DEF Sound, Progress
<1>5. Sound(next)
  BY <1>1, <1>2, <1>4
     DEF Sound, Progress, Resolving, Placing, Uploading, Reporting
<1> QED
  BY <1>3, <1>5, LocalStep DEF ReadRow

LEMMA ListedType ==
  ASSUME Typed, NEW l
  PROVE  Listed(l) \in SUBSET (Name \X Doc)
BY DEF Typed, DocsTyped, Listed, DocsOf

LEMMA ListDocsTyped ==
  ASSUME Typed, NEW q \in Request, ListDocs(q) PROVE Typed'
<1> DEFINE list == Listed(req[q].lic)
           next == [req[q] EXCEPT !.pc = "ready", !.seen = list]
<1>1. Sound(req[q]) /\ req[q].pc = "list" /\ req \in [Request -> Progress]
  BY DEF Typed, RequestsTyped, ListDocs, At
<1>2. list \in SUBSET (Name \X Doc)
  BY ListedType
<1>3. Moves(q, next)
  BY <1>1 DEF ListDocs, Moves
<1>4. next \in Progress
  BY <1>1, <1>2 DEF Sound, Progress
<1>5. Sound(next)
  BY <1>1, <1>4 DEF Sound, Progress, Resolving, Placing, Uploading, Reporting
<1> QED
  BY <1>3, <1>5, LocalStep DEF ListDocs

-----------------------------------------------------------------------------
(* Steps on the file server.                                               *)

LEMMA PrepareTyped ==
  ASSUME Typed, NEW q \in Request, Prepare(q) PROVE Typed'
<1>1. Sound(req[q]) /\ req[q].pc = "prepare"
  BY DEF Typed, RequestsTyped, Prepare, At
<1>2. FilesTyped'
  BY DEF Prepare, Typed, FilesTyped, Drop
<1>3. MarksTyped'
  BY DEF Prepare, Typed, MarksTyped, marks
<1> QED
  BY <1>1, <1>2, <1>3, GotoMoves, GotoSound, FileStep DEF Prepare

LEMMA WithinType ==
  ASSUME Typed, NEW dir
  PROVE  Within(dir) \subseteq License
<1>1. DOMAIN rows \subseteq License
  BY DEF Typed, RowsTyped
<1>2. ASSUME NEW p \in Request, req[p].moved PROVE req[p].lic \in License
  BY <1>2 DEF Typed, RequestsTyped, Sound, Idle
<1> QED
  BY <1>1, <1>2 DEF Within

LEMMA RenameTyped ==
  ASSUME Typed, NEW q \in Request, Rename(q) PROVE Typed'
<1> DEFINE next == [req[q] EXCEPT !.pc = "commit", !.moved = TRUE]
<1>1. Sound(req[q]) /\ req[q].pc = "rename" /\ req \in [Request -> Progress]
  BY DEF Typed, RequestsTyped, Rename, At
<1>2. req[q].from \in Dir /\ req[q].to \in Dir
  BY <1>1 DEF Sound, Placing
<1>3. FilesTyped'
  <2>1. fs[req[q].from] \in Contents
    BY DEF Rename, Exists, Typed, FilesTyped
  <2> QED
    BY <1>2, <2>1 DEF Rename, Typed, FilesTyped, Put, Drop
<1>4. MarksTyped'
  BY WithinType DEF Rename, Typed, MarksTyped
<1>5. CASE End(q)
  BY <1>3, <1>4, <1>5, EndMoves, IdleFacts, FileStep DEF Rename
<1>6. CASE ~req[q].back /\ ~End(q)
  <2>1. Moves(q, next)
    BY <1>1, <1>6 DEF Rename, Moves
  <2>2. next \in Progress
    BY <1>1 DEF Sound, Progress
  <2>3. Sound(next)
    BY <1>1, <1>6, <2>2
       DEF Sound, Progress, Resolving, Placing, Uploading, Reporting
  <2> QED
    BY <1>3, <1>4, <2>1, <2>3, FileStep DEF Rename
<1> QED
  BY <1>5, <1>6 DEF Rename

LEMMA MkdirAllTyped ==
  ASSUME Typed, NEW q \in Request, 
         \/ MkdirAll(q, "mkdir", "create")
         \/ MkdirAll(q, "ready", "temp")
  PROVE  Typed'
<1>1. Sound(req[q]) /\ req[q].pc \in {"mkdir", "ready"}
  BY DEF Typed, RequestsTyped, MkdirAll, At
<1>2. req[q].to \in Dir
  BY <1>1 DEF Sound, Uploading, Reporting
<1>3. FilesTyped'
  BY <1>2, EmptyDirFacts DEF MkdirAll, Made, Typed, FilesTyped, Put
<1>4. MarksTyped'
  BY DEF MkdirAll, Typed, MarksTyped, marks
<1>5. CASE MkdirAll(q, "mkdir", "create")
  BY <1>1, <1>3, <1>4, <1>5, GotoMoves, GotoSound, FileStep DEF MkdirAll, At
<1>6. CASE MkdirAll(q, "ready", "temp")
  BY <1>1, <1>3, <1>4, <1>6, GotoMoves, GotoSound, FileStep DEF MkdirAll, At
<1> QED
  BY <1>5, <1>6

LEMMA CreateFileTyped ==
  ASSUME Typed, NEW q \in Request, CreateFile(q) PROVE Typed'
<1>1. Sound(req[q]) /\ req[q].pc = "create" /\ req \in [Request -> Progress]
  BY DEF Typed, RequestsTyped, CreateFile, At
<1>2. req[q].doc \in Doc
  BY <1>1 DEF Sound, Uploading
<1>3. PICK n \in Name :
        /\ fs' = [fs EXCEPT ![req[q].to].files = @ \cup {<<n, req[q].doc>>}]
        /\ req' = [req EXCEPT ![q].pc = "write", ![q].name = n]
  BY DEF CreateFile
<1> DEFINE next == [req[q] EXCEPT !.pc = "write", !.name = n]
<1>4. FilesTyped'
  BY <1>2, <1>3 DEF Typed, FilesTyped, Contents
<1>5. MarksTyped'
  BY DEF CreateFile, Typed, MarksTyped, marks
<1>6. Moves(q, next)
  BY <1>1, <1>3 DEF Moves
<1>7. next \in Progress
  BY <1>1, <1>3 DEF Sound, Progress
<1>8. Sound(next)
  BY <1>1, <1>3, <1>7 DEF Sound, Progress, Resolving, Placing, Uploading, Reporting
<1> QED
  BY <1>4, <1>5, <1>6, <1>8, FileStep DEF CreateFile

LEMMA FailWriteTyped ==
  ASSUME Typed, NEW q \in Request, FailWrite(q) PROVE Typed'
<1>1. FilesTyped'
  BY DEF FailWrite, Typed, FilesTyped, Contents
<1>2. MarksTyped'
  BY WithinType DEF FailWrite, Typed, MarksTyped
<1> QED
  BY <1>1, <1>2, EndMoves, IdleFacts, FileStep DEF FailWrite

LEMMA WriteTempTyped ==
  ASSUME Typed, NEW q \in Request, WriteTemp(q) PROVE Typed'
<1>1. Sound(req[q]) /\ req[q].pc = "temp"
  BY DEF Typed, RequestsTyped, WriteTemp, At
<1>2. FilesTyped'
  BY DEF WriteTemp, Typed, FilesTyped, Contents
<1>3. MarksTyped'
  BY DEF WriteTemp, Typed, MarksTyped, marks
<1> QED
  BY <1>1, <1>2, <1>3, GotoMoves, GotoSound, FileStep DEF WriteTemp

LEMMA PublishTyped ==
  ASSUME Typed, NEW q \in Request, Publish(q) PROVE Typed'
<1>1. Sound(req[q]) /\ req[q].pc = "publish" /\ req[q] \in Progress
  BY DEF Typed, RequestsTyped, Publish, At
<1>2. [key |-> req[q].key, docs |-> req[q].seen] \in Meta
  BY <1>1 DEF Sound, Progress, Reporting, Meta
<1>3. FilesTyped'
  BY <1>2 DEF Publish, Typed, FilesTyped, Contents
<1>4. MarksTyped'
  BY WithinType DEF Publish, Typed, MarksTyped
<1> QED
  BY <1>3, <1>4, EndMoves, IdleFacts, FileStep DEF Publish

LEMMA FailTyped ==
  ASSUME Typed, NEW q \in Request, Fail(q) PROVE Typed'
<1>1. Sound(req[q]) /\ req[q].pc # "idle"
  BY DEF Typed, RequestsTyped, Fail
<1>2. FilesTyped'
  BY DEF Fail, WithoutTemp, Typed, FilesTyped, Contents
<1>3. MarksTyped'
  BY <1>1 DEF Sound, Fail, Typed, MarksTyped
<1> QED
  BY <1>2, <1>3, EndMoves, IdleFacts, FileStep DEF Fail

-----------------------------------------------------------------------------
(* Steps on the database.                                                  *)

\* Both writes of a row: the key is not another licence's.
LEMMA RowPut ==
  ASSUME RowsTyped, NEW l \in License, NEW k \in Key, NEW dir \in Dir,
         Unused(k, l), rows' = Put(rows, l, [key |-> k, path |-> dir])
  PROVE  /\ RowsTyped'
         /\ DOMAIN rows' = DOMAIN rows \cup {l}
         /\ rows'[l].path = dir
         /\ \A m \in DOMAIN rows : m # l => rows'[m] = rows[m]
<1>1. /\ DOMAIN rows' = DOMAIN rows \cup {l}
      /\ rows'[l] = [key |-> k, path |-> dir]
      /\ \A m \in DOMAIN rows : m # l => rows'[m] = rows[m]
  BY DEF Put
<1>2. \A m, n \in DOMAIN rows' : rows'[m].key = rows'[n].key => m = n
  BY <1>1 DEF RowsTyped, Unused
<1> QED
  BY <1>1, <1>2 DEF RowsTyped

\* The last write of a handler before it turns to meta.yml.
LEMMA WriteStep ==
  ASSUME Typed, NEW q \in Request, Regenerate(q), req[q].lic \in DOMAIN rows',
         RowsTyped', DocsTyped', DOMAIN rows \subseteq DOMAIN rows',
         UNCHANGED <<fs, marks>>
  PROVE  Typed'
<1>1. FilesTyped' /\ MarksTyped'
  BY DEF Typed, FilesTyped, MarksTyped, marks
<1>2. req[q].lic \in License
  BY DEF RowsTyped
<1>3. RequestsTyped'
  BY <1>2, RegenerateSound, RequestStep DEF Typed
<1> QED
  BY <1>1, <1>3 DEF Typed

LEMMA InsertTyped ==
  ASSUME Typed, NEW q \in Request, Insert(q) PROVE Typed'
<1>1. Sound(req[q]) /\ req[q].pc = "insert"
  BY DEF Typed, RequestsTyped, Insert, At
<1>2. req[q].lic \in License /\ req[q].key \in Key /\ req[q].to \in Dir
  BY <1>1 DEF Sound
<1>3. RowsTyped' /\ DOMAIN rows' = DOMAIN rows \cup {req[q].lic}
  BY <1>2, RowPut DEF Insert, Typed
<1>4. DocsTyped'
  BY <1>3 DEF Insert, Typed, DocsTyped
<1> QED
  BY <1>3, <1>4, WriteStep DEF Insert

LEMMA CommitTyped ==
  ASSUME Typed, NEW q \in Request, Commit(q) PROVE Typed'
<1>1. Sound(req[q]) /\ req[q].pc = "commit"
  BY DEF Typed, RequestsTyped, Commit, At
<1>2. req[q].lic \in License /\ req[q].key \in Key /\ req[q].to \in Dir
  BY <1>1 DEF Sound, Placing
<1>3. RowsTyped' /\ DOMAIN rows' = DOMAIN rows \cup {req[q].lic}
  BY <1>2, RowPut DEF Commit, Typed
<1>4. DocsTyped'
  <2>1. ASSUME NEW d \in DOMAIN docs, NEW dir \in Dir
        PROVE  [docs[d] EXCEPT !.dir = dir] \in [lic : DOMAIN rows, dir : Dir, name : Name]
    BY DEF Typed, DocsTyped
  <2>2. /\ DOMAIN docs' = DOMAIN docs
        /\ \A d \in DOMAIN docs : docs'[d] \in [lic : DOMAIN rows, dir : Dir, name : Name]
    BY <1>2, <2>1 DEF Commit, Typed, DocsTyped
  <2>3. \A d \in DOMAIN docs' : docs'[d] \in [lic : DOMAIN rows', dir : Dir, name : Name]
    BY <1>3, <2>2
  <2> QED
    BY <2>2, <2>3 DEF Typed, DocsTyped
<1> QED
  BY <1>3, <1>4, WriteStep DEF Commit

LEMMA RecordTyped ==
  ASSUME Typed, NEW q \in Request, Record(q) PROVE Typed'
<1>1. Sound(req[q]) /\ req[q].pc = "record"
  BY DEF Typed, RequestsTyped, Record, At
<1>2. /\ req[q].lic \in DOMAIN rows /\ req[q].to \in Dir
      /\ req[q].doc \in Doc /\ req[q].name \in Name
  BY <1>1 DEF Sound, Uploading
<1>3. RowsTyped'
  BY DEF Record, Typed, RowsTyped
<1>4. DocsTyped'
  BY <1>2 DEF Record, Typed, DocsTyped, Put
<1> QED
  BY <1>2, <1>3, <1>4, WriteStep DEF Record

-----------------------------------------------------------------------------
(* Requests start, and all end at a crash.                                 *)

LEMMA BeginTyped ==
  ASSUME Typed, NEW q \in Request, NEW r, Begin(q, r), Sound(r),
         r.lic \in License
  PROVE  Typed'
<1>1. RowsTyped' /\ DocsTyped' /\ FilesTyped'
  BY TablesUntouched DEF Begin, Typed, FilesTyped
<1>2. ASSUME NEW p \in Request PROVE Sound(req'[p])
  <2>1. CASE p = q
    <3>1. PICK alone \in BOOLEAN : req'[p] = [r EXCEPT !.alone = alone]
      BY <2>1 DEF Begin
    <3>2. req'[p] \in Progress
      BY <3>1 DEF Sound, Progress
    <3>3. r.pc # "idle"
      BY LicenseStoreAssumption DEF Sound, Idle, LicenseStoreAssumption
    <3> QED
      BY <3>1, <3>2, <3>3 DEF Sound, Progress
  <2>2. CASE p # q /\ p \in Active(r.lic)
    <3>1. req'[p] = [req[p] EXCEPT !.alone = FALSE]
      BY <2>2 DEF Begin
    <3>2. Sound(req[p]) /\ req[p].pc # "idle"
      BY <2>2 DEF Typed, RequestsTyped, Active
    <3>3. req'[p] \in Progress
      BY <3>1, <3>2 DEF Sound, Progress
    <3> QED
      BY <3>1, <3>2, <3>3 DEF Sound, Progress
  <2>3. CASE p # q /\ p \notin Active(r.lic)
    BY <2>3 DEF Begin, Typed, RequestsTyped
  <2> QED
    BY <2>1, <2>2, <2>3
<1>3. RequestsTyped'
  <2>1. req' \in [Request -> Progress]
    <3>1. DOMAIN req' = Request /\ req' = [p \in Request |-> req'[p]]
      BY DEF Begin
    <3>2. \A p \in Request : req'[p] \in Progress
      BY <1>2 DEF Sound
    <3> QED
      BY <3>1, <3>2
  <2>2. ASSUME NEW p \in Request PROVE Sound(req[p])'
    BY <1>2 DEF Begin, Sound
  <2> QED
    BY <2>1, <2>2 DEF RequestsTyped
<1>4. MarksTyped'
  <2>1. served' \in 0 .. MaxRequests
    BY LicenseStoreAssumption DEF Begin, Typed, MarksTyped, LicenseStoreAssumption
  <2>2. rivals' \subseteq SUBSET License
    <3>1. ASSUME NEW p \in Request, req[p].kind \in {"create", "update"}
          PROVE  req[p].lic \in License
      BY <3>1 DEF Typed, RequestsTyped, Sound, Idle
    <3>2. CASE rivals' = rivals
      BY <3>2 DEF Typed, MarksTyped
    <3>3. CASE rivals' = rivals \cup
            {{r.lic, req[p].lic} : p \in {p \in Request : req[p].kind \in {"create", "update"}}}
      BY <3>1, <3>3 DEF Typed, MarksTyped
    <3> QED
      BY <3>2, <3>3 DEF Begin
  <2>3. hit' \subseteq License /\ behind' \subseteq License
    BY DEF Begin, Typed, MarksTyped
  <2> QED
    BY <2>1, <2>2, <2>3 DEF MarksTyped
<1> QED
  BY <1>1, <1>3, <1>4 DEF Typed

LEMMA StartTyped ==
  ASSUME Typed, NEW q \in Request, NEW l \in License, Start(q, l)
  PROVE  Typed'
<1>1. CASE \E k \in Key : StartCreate(q, l, k)
  <2>1. PICK k \in Key : StartCreate(q, l, k)
    BY <1>1
  <2> DEFINE r == [Idle EXCEPT !.pc = "count", !.kind = "create", !.lic = l,
                               !.key = k, !.i = 1]
  <2>2. 1 \in DOMAIN Candidates[k]
    <3>1. Candidates[k] \in Seq(Dir) /\ Candidates[k] # <<>>
      BY LicenseStoreAssumption DEF LicenseStoreAssumption
    <3> QED
      BY <3>1
  <2>3. r \in Progress
    BY DEF Idle, Progress
  <2>4. Sound(r)
    BY <2>2, <2>3
       DEF Sound, Idle, Progress, Resolving, Placing, Uploading, Reporting
  <2>5. r.lic = l
    BY DEF Idle
  <2> QED
    BY <2>1, <2>4, <2>5, BeginTyped DEF StartCreate
<1>2. CASE \E k \in Key : StartUpdate(q, l, k)
  <2>1. PICK k \in Key : StartUpdate(q, l, k)
    BY <1>2
  <2> DEFINE old == rows[l].path
             same == [Idle EXCEPT !.kind = "update", !.lic = l, !.key = k,
                                  !.from = old, !.pc = "commit", !.to = old]
             other == [Idle EXCEPT !.kind = "update", !.lic = l, !.key = k,
                                   !.from = old, !.pc = "count", !.i = 1]
  <2>2. 1 \in DOMAIN Candidates[k]
    <3>1. Candidates[k] \in Seq(Dir) /\ Candidates[k] # <<>>
      BY LicenseStoreAssumption DEF LicenseStoreAssumption
    <3> QED
      BY <3>1
  <2>3. old \in Dir /\ l \in DOMAIN rows
    BY <2>1 DEF StartUpdate, Typed, RowsTyped
  <2>4. Sound(same) /\ same.lic = l
    <3>1. same \in Progress
      BY <2>3 DEF Idle, Progress
    <3> QED
      BY <2>3, <3>1
         DEF Sound, Idle, Progress, Resolving, Placing, Uploading, Reporting
  <2>5. Sound(other) /\ other.lic = l
    <3>1. other \in Progress
      BY <2>3 DEF Idle, Progress
    <3> QED
      BY <2>2, <2>3, <3>1
         DEF Sound, Idle, Progress, Resolving, Placing, Uploading, Reporting
  <2>6. Begin(q, same) \/ Begin(q, other)
    BY <2>1 DEF StartUpdate, Idle
  <2> QED
    BY <2>4, <2>5, <2>6, BeginTyped
<1>3. CASE \E d \in Doc : StartUpload(q, l, d)
  <2>1. PICK d \in Doc : StartUpload(q, l, d)
    BY <1>3
  <2> DEFINE r == [Idle EXCEPT !.pc = "mkdir", !.kind = "upload", !.lic = l,
                               !.to = rows[l].path, !.doc = d]
  <2>2. rows[l].path \in Dir /\ l \in DOMAIN rows
    BY <2>1 DEF StartUpload, Typed, RowsTyped
  <2>3. r \in Progress
    BY <2>2 DEF Idle, Progress
  <2>4. Sound(r) /\ r.lic = l
    BY <2>2, <2>3
       DEF Sound, Idle, Progress, Resolving, Placing, Uploading, Reporting
  <2> QED
    BY <2>1, <2>4, BeginTyped DEF StartUpload
<1>4. CASE StartMeta(q, l)
  <2> DEFINE r == [Idle EXCEPT !.pc = "read", !.kind = "meta", !.lic = l]
  <2>1. l \in DOMAIN rows
    BY <1>4 DEF StartMeta
  <2>2. r \in Progress
    BY DEF Idle, Progress
  <2>3. Sound(r) /\ r.lic = l
    BY <2>1, <2>2
       DEF Sound, Idle, Progress, Resolving, Placing, Uploading, Reporting
  <2> QED
    BY <1>4, <2>3, BeginTyped DEF StartMeta
<1> QED
  BY <1>1, <1>2, <1>3, <1>4 DEF Start

LEMMA CrashTyped ==
  ASSUME Typed, Crash PROVE Typed'
<1>1. RowsTyped' /\ DocsTyped'
  BY TablesUntouched DEF Crash, Typed
<1>2. FilesTyped'
  BY DEF Crash, Typed, FilesTyped, Contents
<1>3. RequestsTyped'
  BY IdleFacts DEF Crash, RequestsTyped
<1>4. MarksTyped'
  <2>1. ASSUME NEW p \in Request, req[p].moved \/ ~At(p, "idle")
        PROVE  req[p].lic \in License
    BY <2>1 DEF Typed, RequestsTyped, Sound, Idle, At
  <2> QED
    BY <2>1 DEF Crash, Typed, MarksTyped
<1> QED
  BY <1>1, <1>2, <1>3, <1>4 DEF Typed

LEMMA StepTyped ==
  ASSUME Typed, NEW q \in Request, Step(q) PROVE Typed'
BY CountTyped, LookTyped, InsertTyped, StatTyped, PrepareTyped, RenameTyped,
   CommitTyped, RollBackTyped, MkdirAllTyped, CreateFileTyped, WriteTyped,
   RecordTyped, ReadRowTyped, ListDocsTyped, WriteTempTyped, PublishTyped,
   FailWriteTyped, FailTyped DEF Step

LEMMA StutterTyped == Typed /\ UNCHANGED vars => Typed'
BY DEF vars, marks, Typed, RowsTyped, DocsTyped, FilesTyped, MarksTyped,
       RequestsTyped, Sound

LEMMA NextTyped == Typed /\ [Next]_vars => Typed'
BY StepTyped, StartTyped, CrashTyped, StutterTyped DEF Next

(* The tables, the directories and what every handler has read of them     *)
(* keep their types, and no two licences have one product, department and  *)
(* slug (the unique index of licenses).                                    *)
THEOREM TypeCorrect == Spec => []TypeOK
<1>1. Init => Typed
  BY InitTyped
<1>2. Typed /\ [Next]_vars => Typed'
  BY NextTyped
<1>3. Typed => TypeOK
  BY TypedIsTypeOK
<1> QED
  BY <1>1, <1>2, <1>3, PTL DEF Spec

-----------------------------------------------------------------------------
(* Files stay.                                                             *)

LEMMA FilesGrow ==
  ASSUME DOMAIN fs \subseteq DOMAIN fs',
         \A e \in DOMAIN fs : fs[e].files \subseteq fs'[e].files
  PROVE  Stored \subseteq Stored'
BY DEF Stored

LEMMA StartBegins ==
  ASSUME NEW q \in Request, NEW l \in License, Start(q, l)
  PROVE  \E r : Begin(q, r)
<1>1. CASE \E k \in Key : StartCreate(q, l, k)
  BY <1>1 DEF StartCreate
<1>2. CASE \E k \in Key : StartUpdate(q, l, k)
  BY <1>2 DEF StartUpdate
<1>3. CASE \E d \in Doc : StartUpload(q, l, d)
  BY <1>3 DEF StartUpload
<1>4. CASE StartMeta(q, l)
  BY <1>4 DEF StartMeta
<1> QED
  BY <1>1, <1>2, <1>3, <1>4 DEF Start

LEMMA StepKeepsFiles ==
  ASSUME Typed, NEW q \in Request, Step(q), ~FailWrite(q)
  PROVE  Stored \subseteq Stored'
<1>1. \A e \in DOMAIN fs : fs[e] \in Contents
  BY DEF Typed, FilesTyped
<1>2. CASE UNCHANGED fs
  BY <1>2, FilesGrow
<1>3. CASE Prepare(q)
  <2>1. \A e \in DOMAIN fs \ {req[q].to} : e \in DOMAIN fs' /\ fs'[e] = fs[e]
    BY <1>3 DEF Prepare, Drop
  <2>2. req[q].to \in DOMAIN fs => fs[req[q].to].files = {}
    BY <1>3 DEF Prepare, Vacant, Exists, EmptyDir
  <2> QED
    BY <2>1, <2>2 DEF Stored
<1>4. CASE Rename(q)
  <2> DEFINE from == req[q].from
             to == req[q].to
  <2>1. from \in DOMAIN fs /\ to \notin DOMAIN fs
    BY <1>4 DEF Rename, Exists
  <2>2. to \in DOMAIN fs' /\ fs'[to] = fs[from]
    BY <1>4, <2>1 DEF Rename, Put
  <2>3. \A e \in DOMAIN fs \ {from} : e \in DOMAIN fs' /\ fs'[e] = fs[e]
    BY <1>4, <2>1 DEF Rename, Put, Drop
  <2> QED
    BY <2>2, <2>3 DEF Stored
<1>5. CASE MkdirAll(q, "mkdir", "create") \/ MkdirAll(q, "ready", "temp")
  BY <1>5, FilesGrow DEF MkdirAll, Made, Exists, Put
<1>6. CASE CreateFile(q)
  <2>1. PICK f : fs' = [fs EXCEPT ![req[q].to].files = @ \cup {f}]
    BY <1>6 DEF CreateFile
  <2> QED
    BY <1>1, <2>1, FilesGrow DEF Contents
<1>7. CASE WriteTemp(q)
  BY <1>1, <1>7, FilesGrow DEF WriteTemp, Contents
<1>8. CASE Publish(q)
  BY <1>1, <1>8, FilesGrow DEF Publish, Contents
<1>9. CASE Fail(q)
  BY <1>1, <1>9, FilesGrow DEF Fail, WithoutTemp, Contents
<1> QED
  BY <1>2, <1>3, <1>4, <1>5, <1>6, <1>7, <1>8, <1>9
     DEF Step, Count, Look, Insert, Stat, Commit, RollBack, Write, Record,
         ReadRow, ListDocs

LEMMA FailWriteKeepsOthers ==
  ASSUME Typed, NEW q \in Request, FailWrite(q), NEW d \in Stored \ Stored'
  PROVE  /\ At(q, "write")
         /\ Exists(req[q].to)
         /\ <<req[q].name, d>> \in fs[req[q].to].files
         /\ req'[q] = Idle
<1> DEFINE dir == req[q].to
<1>1. At(q, "write") /\ req'[q] = Idle
  BY DEF FailWrite, End, Typed, RequestsTyped
<1>2. PICK e \in DOMAIN fs, n \in Name : <<n, d>> \in fs[e].files
  BY DEF Stored
<1>3. DOMAIN fs' = DOMAIN fs /\ <<n, d>> \notin fs'[e].files
  BY <1>2 DEF FailWrite, Stored
<1>4. e = dir
  BY <1>2, <1>3 DEF FailWrite
<1>5. fs[e] \in Contents
  BY DEF Typed, FilesTyped
<1>6. fs'[e].files = {f \in fs[e].files : f[1] # req[q].name}
  BY <1>4, <1>5 DEF FailWrite, Contents
<1>7. n = req[q].name
  BY <1>2, <1>3, <1>6
<1> QED
  BY <1>1, <1>2, <1>4, <1>7 DEF Exists

(* No step of any handler, no failure and no crash removes a document that *)
(* is on the file server, but the failing write of an upload that goes by  *)
(* the same path.                                                          *)
THEOREM FilesStay == Spec => FilesNeverLost
<1> DEFINE Kept ==
      \A d \in Stored \ Stored' :
         \E q \in Request :
           /\ At(q, "write")
           /\ Exists(req[q].to)
           /\ <<req[q].name, d>> \in fs[req[q].to].files
           /\ req'[q] = Idle
<1>1. ASSUME Typed, [Next]_vars PROVE [Kept]_vars
  <2>1. CASE \E q \in Request : Step(q)
    BY <1>1, <2>1, StepKeepsFiles, FailWriteKeepsOthers
  <2>2. CASE \E q \in Request, l \in License : Start(q, l)
    <3>1. UNCHANGED fs
      BY <2>2, StartBegins DEF Begin
    <3> QED
      BY <3>1, FilesGrow
  <2>3. CASE Crash
    <3>1. \A e \in DOMAIN fs : fs[e] \in Contents
      BY <1>1 DEF Typed, FilesTyped
    <3> QED
      BY <2>3, <3>1, FilesGrow DEF Crash, Contents
  <2> QED
    BY <1>1, <2>1, <2>2, <2>3 DEF Next
<1>2. Typed /\ [Next]_vars => Typed'
  BY NextTyped
<1> QED
  BY <1>1, <1>2, InitTyped, PTL DEF Spec, FilesNeverLost

-----------------------------------------------------------------------------
(* Directories stay apart.                                                 *)

\* A step that touches no row: what matters is what the request goes on to.
LEMMA ApartStep ==
  ASSUME Typed, Apart, NEW q \in Request, NEW r, Moves(q, r),
         UNCHANGED <<rows, rivals>>,
         Seeking(r) => Seeking(req[q]) /\ r.lic = req[q].lic,
         \A m \in DOMAIN rows :
           m # r.lic /\ Claims(r, rows[m].path) => {r.lic, m} \in rivals
  PROVE  Apart'
<1>1. /\ req'[q] = r
      /\ \A p \in Request : p # q => req'[p] = req[p]
  BY DEF Typed, RequestsTyped, Moves
<1>2. SeekersAreRivals'
  BY <1>1 DEF Apart, SeekersAreRivals
<1>3. ClaimsApart'
  BY <1>1 DEF Apart, ClaimsApart
<1>4. DirsApart'
  BY DEF Apart, DirsApart
<1> QED
  BY <1>2, <1>3, <1>4 DEF Apart

\* A step of a request that has no claim and gets none.
LEMMA QuietStep ==
  ASSUME Typed, Apart, NEW q \in Request, NEW r, Moves(q, r),
         UNCHANGED <<rows, rivals>>,
         ~Seeking(r) \/ r.pc = "count",
         Seeking(r) => Seeking(req[q]) /\ r.lic = req[q].lic,
         ~Seeking(r) => r.pc \notin Resolving \cup {"insert"} \cup Placing
  PROVE  Apart'
<1>1. \A dir : ~Claims(r, dir)
  BY DEF Claims, Resolving, Placing
<1> QED
  BY <1>1, ApartStep

LEMMA EndApart ==
  ASSUME Typed, Apart, NEW q \in Request, End(q), UNCHANGED <<rows, rivals>>
  PROVE  Apart'
BY EndMoves, QuietStep DEF Idle, Seeking, Resolving, Placing

LEMMA NextCandidateApart ==
  ASSUME Typed, Apart, NEW q \in Request, NextCandidate(q),
         req[q].pc \in Resolving, UNCHANGED <<rows, rivals>>
  PROVE  Apart'
<1> DEFINE next == [req[q] EXCEPT !.pc = "count", !.i = @ + 1]
<1>1. Moves(q, next) /\ Sound(next)
  BY NextSound
<1>2. next.pc = "count" /\ next.kind = req[q].kind /\ next.lic = req[q].lic
  BY DEF Typed, RequestsTyped, Progress
<1>3. Seeking(next)
  BY <1>1, <1>2 DEF Sound, Seeking, Resolving
<1> QED
  BY <1>1, <1>2, <1>3, QuietStep DEF Seeking

\* Steps that move on and keep a claim, or have none.
LEMMA GotoApart ==
  ASSUME Typed, Apart, NEW q \in Request, NEW pc, Goto(q, pc),
         UNCHANGED <<rows, rivals>>,
         pc \in {"prepare", "rename"} => req[q].pc \in Placing,
         pc \notin {"look", "insert", "stat", "commit"}
  PROVE  Apart'
<1> DEFINE r == [req[q] EXCEPT !.pc = pc]
<1>1. /\ r.pc = pc /\ r.kind = req[q].kind /\ r.lic = req[q].lic
      /\ r.to = req[q].to /\ r.back = req[q].back
  BY DEF Typed, RequestsTyped, Progress
<1>2. \A dir : Claims(r, dir) => Claims(req[q], dir)
  BY <1>1 DEF Claims, Placing
<1> QED
  BY <1>1, <1>2, GotoMoves, ApartStep DEF Apart, ClaimsApart, Seeking

LEMMA CountApart ==
  ASSUME Typed, Apart, NEW q \in Request, Count(q) PROVE Apart'
<1> DEFINE r == [req[q] EXCEPT !.pc = "look"]
<1>1. req[q].pc = "count" /\ UNCHANGED <<rows, rivals>>
  BY DEF Count, At, marks
<1>2. CASE NextCandidate(q)
  BY <1>1, <1>2, NextCandidateApart DEF Resolving
<1>3. CASE /\ Goto(q, "look")
           /\ \A m \in DOMAIN rows \ {req[q].lic} : rows[m].path # Candidate(q)
  <2>1. /\ r.pc = "look" /\ r.kind = req[q].kind /\ r.lic = req[q].lic
        /\ r.key = req[q].key /\ r.i = req[q].i
    BY DEF Typed, RequestsTyped, Progress
  <2>2. \A m \in DOMAIN rows : m # r.lic => ~Claims(r, rows[m].path)
    BY <1>3, <2>1 DEF Claims, Candidate, Placing
  <2> QED
    BY <1>1, <1>3, <2>1, <2>2, GotoMoves, ApartStep DEF Seeking
<1> QED
  BY <1>2, <1>3 DEF Count

LEMMA LookApart ==
  ASSUME Typed, Apart, NEW q \in Request, Look(q) PROVE Apart'
<1> DEFINE pc == IF req[q].kind = "create" THEN "insert" ELSE "stat"
           found == [req[q] EXCEPT !.to = Candidate(q), !.i = 0, !.pc = pc]
<1>1. /\ req[q].pc = "look" /\ UNCHANGED <<rows, rivals>>
      /\ req[q] \in Progress /\ req \in [Request -> Progress]
  BY DEF Look, At, marks, Typed, RequestsTyped
<1>2. CASE NextCandidate(q)
  BY <1>1, <1>2, NextCandidateApart DEF Resolving
<1>3. CASE Vacant(Candidate(q))
  <2>1. Moves(q, found)
    BY <1>1, <1>3 DEF Look, Moves
  <2>2. /\ found.pc = pc /\ found.kind = req[q].kind /\ found.lic = req[q].lic
        /\ found.to = Candidate(q)
    BY <1>1 DEF Progress
  <2>3. \A dir : Claims(found, dir) => Claims(req[q], dir)
    BY <1>1, <2>2 DEF Claims, Candidate
  <2> QED
    BY <1>1, <2>1, <2>2, <2>3, ApartStep DEF Apart, ClaimsApart, Seeking
<1> QED
  BY <1>2, <1>3 DEF Look

LEMMA StatApart ==
  ASSUME Typed, Apart, NEW q \in Request, Stat(q) PROVE Apart'
<1> DEFINE go == [req[q] EXCEPT !.pc = "commit", !.moved = TRUE]
<1>1. /\ req[q].pc = "stat" /\ UNCHANGED <<rows, rivals>>
      /\ req[q] \in Progress /\ req \in [Request -> Progress]
  BY DEF Stat, At, marks, Typed, RequestsTyped
<1>2. CASE Goto(q, "prepare")
  BY <1>1, <1>2, GotoApart DEF Placing
<1>3. CASE End(q)
  BY <1>1, <1>3, EndApart
<1>4. CASE req' = [req EXCEPT ![q].pc = "commit", ![q].moved = TRUE]
  <2>1. Moves(q, go)
    BY <1>1, <1>4 DEF Moves
  <2>2. /\ go.pc = "commit" /\ go.kind = req[q].kind /\ go.lic = req[q].lic
        /\ go.to = req[q].to /\ go.back = req[q].back
    BY <1>1 DEF Progress
  <2>3. \A dir : Claims(go, dir) => Claims(req[q], dir)
    BY <1>1, <2>2 DEF Claims, Placing
  <2> QED
    BY <1>1, <2>1, <2>2, <2>3, ApartStep DEF Apart, ClaimsApart, Seeking
<1> QED
  BY <1>2, <1>3, <1>4 DEF Stat

LEMMA RenameApart ==
  ASSUME Typed, Apart, NEW q \in Request, Rename(q) PROVE Apart'
<1> DEFINE next == [req[q] EXCEPT !.pc = "commit", !.moved = TRUE]
<1>1. /\ req[q].pc = "rename" /\ UNCHANGED <<rows, rivals>>
      /\ req[q] \in Progress /\ req \in [Request -> Progress]
  BY DEF Rename, At, Typed, RequestsTyped
<1>2. CASE End(q)
  BY <1>1, <1>2, EndApart
<1>3. CASE req' = [req EXCEPT ![q].pc = "commit", ![q].moved = TRUE]
  <2>1. Moves(q, next)
    BY <1>1, <1>3 DEF Moves
  <2>2. /\ next.pc = "commit" /\ next.kind = req[q].kind
        /\ next.lic = req[q].lic
        /\ next.to = req[q].to /\ next.back = req[q].back
    BY <1>1 DEF Progress
  <2>3. \A dir : Claims(next, dir) => Claims(req[q], dir)
    BY <1>1, <2>2 DEF Claims, Placing
  <2> QED
    BY <1>1, <2>1, <2>2, <2>3, ApartStep DEF Apart, ClaimsApart, Seeking
<1> QED
  BY <1>2, <1>3 DEF Rename

LEMMA RollBackApart ==
  ASSUME Typed, Apart, NEW q \in Request, RollBack(q) PROVE Apart'
<1> DEFINE undo == [req[q] EXCEPT !.pc = "stat", !.back = TRUE,
                      !.from = req[q].to, !.to = req[q].from]
<1>1. /\ req[q].pc = "commit" /\ UNCHANGED <<rows, rivals>>
      /\ req[q] \in Progress /\ req \in [Request -> Progress]
  BY DEF RollBack, At, marks, Typed, RequestsTyped
<1>2. CASE End(q)
  BY <1>1, <1>2, EndApart
<1>3. CASE ~End(q)
  <2>1. Moves(q, undo)
    BY <1>1, <1>3 DEF RollBack, Moves
  <2>2. /\ undo.pc = "stat" /\ undo.kind = req[q].kind
        /\ undo.lic = req[q].lic /\ undo.back
    BY <1>1 DEF Progress
  <2>3. \A dir : ~Claims(undo, dir)
    BY <2>2 DEF Claims
  <2> QED
    BY <1>1, <2>1, <2>2, <2>3, ApartStep DEF Seeking
<1> QED
  BY <1>2, <1>3

\* A row is written with the directory that the request has claimed.
LEMMA RowWriteApart ==
  ASSUME Typed, Apart, Typed', NEW q \in Request, Regenerate(q),
         UNCHANGED rivals,
         Seeking(req[q]), Claims(req[q], req[q].to),
         DOMAIN rows' = DOMAIN rows \cup {req[q].lic},
         rows'[req[q].lic].path = req[q].to,
         \A m \in DOMAIN rows : m # req[q].lic => rows'[m] = rows[m]
  PROVE  Apart'
<1> DEFINE l == req[q].lic
<1>1. PICK r : Moves(q, r) /\ r.kind = "meta" /\ r.pc = "read"
  <2>1. l \in License
    BY DEF Typed, RowsTyped
  <2> QED
    BY <2>1, RegenerateSound
<1>2. /\ req'[q] = r
      /\ \A p \in Request : p # q => req'[p] = req[p]
  BY <1>1 DEF Typed, RequestsTyped, Moves
<1>3. SeekersAreRivals'
  BY <1>1, <1>2 DEF Apart, SeekersAreRivals, Seeking
<1>4. ClaimsApart'
  <2>1. ASSUME NEW p \in Request, NEW m \in DOMAIN rows',
               m # req'[p].lic, Claims(req'[p], rows'[m].path)
        PROVE  {req'[p].lic, m} \in rivals'
    <3>1. p # q
      BY <1>1, <1>2, <2>1 DEF Claims, Placing
    <3>2. Seeking(req[p])
      BY <1>2, <2>1, <3>1
         DEF Typed, RequestsTyped, Sound, Claims, Seeking, Resolving
    <3>3. CASE m = l
      BY <1>2, <3>1, <3>2, <3>3 DEF Apart, SeekersAreRivals
    <3>4. CASE m # l
      BY <1>2, <2>1, <3>1, <3>4 DEF Apart, ClaimsApart
    <3> QED
      BY <3>3, <3>4
  <2> QED
    BY <2>1 DEF ClaimsApart
<1>5. DirsApart'
  <2>1. \A m \in DOMAIN rows : m # l /\ rows[m].path = req[q].to => {l, m} \in rivals
    BY DEF Apart, ClaimsApart
  <2> QED
    BY <2>1 DEF Apart, DirsApart
<1> QED
  BY <1>3, <1>4, <1>5 DEF Apart

LEMMA InsertApart ==
  ASSUME Typed, Apart, NEW q \in Request, Insert(q) PROVE Apart'
<1>1. Sound(req[q]) /\ req[q].pc = "insert"
  BY DEF Insert, At, Typed, RequestsTyped
<1>2. req[q].lic \in License /\ req[q].key \in Key /\ req[q].to \in Dir
  BY <1>1 DEF Sound
<1>3. Seeking(req[q]) /\ Claims(req[q], req[q].to)
  BY <1>1 DEF Sound, Seeking, Claims
<1>4. /\ DOMAIN rows' = DOMAIN rows \cup {req[q].lic}
      /\ rows'[req[q].lic].path = req[q].to
      /\ \A m \in DOMAIN rows : m # req[q].lic => rows'[m] = rows[m]
  BY <1>2, RowPut DEF Insert, Typed
<1> QED
  BY <1>3, <1>4, InsertTyped, RowWriteApart DEF Insert, marks

LEMMA CommitApart ==
  ASSUME Typed, Apart, NEW q \in Request, Commit(q) PROVE Apart'
<1>1. Sound(req[q]) /\ req[q].pc = "commit"
  BY DEF Commit, At, Typed, RequestsTyped
<1>2. req[q].lic \in License /\ req[q].key \in Key /\ req[q].to \in Dir
  BY <1>1 DEF Sound, Placing
<1>3. Seeking(req[q]) /\ Claims(req[q], req[q].to)
  BY <1>1 DEF Sound, Seeking, Claims, Placing
<1>4. /\ DOMAIN rows' = DOMAIN rows \cup {req[q].lic}
      /\ rows'[req[q].lic].path = req[q].to
      /\ \A m \in DOMAIN rows : m # req[q].lic => rows'[m] = rows[m]
  BY <1>2, RowPut DEF Commit, Typed
<1> QED
  BY <1>3, <1>4, CommitTyped, RowWriteApart DEF Commit, marks

\* Uploads and writings of meta.yml look for no directory.
LEMMA UploadApart ==
  ASSUME Typed, Apart, NEW q \in Request,
         CreateFile(q) \/ Record(q) \/ ReadRow(q) \/ ListDocs(q)
  PROVE  Apart'
<1>1. /\ Sound(req[q]) /\ req[q] \in Progress /\ req \in [Request -> Progress]
      /\ UNCHANGED <<rows, rivals>>
  BY DEF Typed, RequestsTyped, CreateFile, Record, ReadRow, ListDocs, marks
<1>2. CASE CreateFile(q)
  <2>1. PICK n \in Name : req' = [req EXCEPT ![q].pc = "write", ![q].name = n]
    BY <1>2 DEF CreateFile
  <2> DEFINE r == [req[q] EXCEPT !.pc = "write", !.name = n]
  <2>2. Moves(q, r)
    BY <1>1, <2>1 DEF Moves
  <2>3. r.pc = "write" /\ r.kind = req[q].kind /\ ~Seeking(req[q])
    BY <1>1, <1>2 DEF Sound, Progress, Seeking, CreateFile, At, Resolving, Placing
  <2> QED
    BY <1>1, <2>2, <2>3, QuietStep DEF Seeking, Resolving, Placing
<1>3. CASE Record(q)
  <2>1. req[q].lic \in License /\ req[q].lic \in DOMAIN rows'
    BY <1>1, <1>3 DEF Sound, Record, At, Uploading
  <2>2. PICK r : Moves(q, r) /\ r.kind = "meta" /\ r.pc = "read"
    BY <1>3, <2>1, RegenerateSound DEF Record
  <2> QED
    BY <1>1, <2>2, QuietStep DEF Seeking, Resolving, Placing
<1>4. CASE ReadRow(q)
  <2> DEFINE r == [req[q] EXCEPT !.pc = "list", !.key = rows[req[q].lic].key,
                                 !.to = rows[req[q].lic].path]
  <2>1. Moves(q, r)
    BY <1>1, <1>4 DEF ReadRow, Moves
  <2>2. r.pc = "list" /\ r.kind = req[q].kind /\ ~Seeking(req[q])
    BY <1>1, <1>4 DEF Sound, Progress, Seeking, ReadRow, At, Resolving, Placing
  <2> QED
    BY <1>1, <2>1, <2>2, QuietStep DEF Seeking, Resolving, Placing
<1>5. CASE ListDocs(q)
  <2> DEFINE r == [req[q] EXCEPT !.pc = "ready", !.seen = Listed(req[q].lic)]
  <2>1. Moves(q, r)
    BY <1>1, <1>5 DEF ListDocs, Moves
  <2>2. r.pc = "ready" /\ r.kind = req[q].kind /\ ~Seeking(req[q])
    BY <1>1, <1>5 DEF Sound, Progress, Seeking, ListDocs, At, Resolving, Placing
  <2> QED
    BY <1>1, <2>1, <2>2, QuietStep DEF Seeking, Resolving, Placing
<1> QED
  BY <1>2, <1>3, <1>4, <1>5

LEMMA StepApart ==
  ASSUME Typed, Apart, NEW q \in Request, Step(q) PROVE Apart'
<1>1. CASE Prepare(q)
  BY <1>1, GotoApart DEF Prepare, At, marks, Placing
<1>2. CASE MkdirAll(q, "mkdir", "create") \/ MkdirAll(q, "ready", "temp")
  BY <1>2, GotoApart DEF MkdirAll, marks
<1>3. CASE Write(q)
  BY <1>3, GotoApart DEF Write, marks
<1>4. CASE WriteTemp(q)
  BY <1>4, GotoApart DEF WriteTemp, marks
<1>5. CASE Publish(q)
  BY <1>5, EndApart DEF Publish
<1>6. CASE FailWrite(q)
  BY <1>6, EndApart DEF FailWrite
<1>7. CASE Fail(q)
  BY <1>7, EndApart DEF Fail
<1> QED
  BY <1>1, <1>2, <1>3, <1>4, <1>5, <1>6, <1>7, CountApart, LookApart, InsertApart,
     StatApart, RenameApart, CommitApart, RollBackApart, UploadApart DEF Step

\* A request starts: it becomes a rival of those that look for a directory.
LEMMA BeginApart ==
  ASSUME Typed, Apart, NEW q \in Request, NEW r, Begin(q, r),
         \A m \in DOMAIN rows :
           m # r.lic /\ Claims(r, rows[m].path) => {r.lic, m} \in rivals,
         r \in Progress
  PROVE  Apart'
<1>1. UNCHANGED rows /\ rivals \subseteq rivals'
  BY DEF Begin
<1>2. ASSUME NEW p \in Request
      PROVE  /\ p = q => /\ req'[p].lic = r.lic /\ req'[p].kind = r.kind
                         /\ \A dir : Claims(req'[p], dir) <=> Claims(r, dir)
             /\ p # q => /\ req'[p].lic = req[p].lic
                         /\ req'[p].kind = req[p].kind
                         /\ \A dir : Claims(req'[p], dir) <=> Claims(req[p], dir)
  <2>1. req[p] \in Progress
    BY DEF Typed, RequestsTyped
  <2>2. CASE p = q
    <3>1. PICK alone : req'[p] = [r EXCEPT !.alone = alone]
      BY <2>2 DEF Begin
    <3> QED
      BY <2>2, <3>1 DEF Progress, Claims
  <2>3. CASE p # q /\ p \in Active(r.lic)
    <3>1. req'[p] = [req[p] EXCEPT !.alone = FALSE]
      BY <2>3 DEF Begin
    <3> QED
      BY <2>1, <2>3, <3>1 DEF Progress, Claims
  <2>4. CASE p # q /\ p \notin Active(r.lic)
    BY <2>4 DEF Begin
  <2> QED
    BY <2>2, <2>3, <2>4
<1>3. SeekersAreRivals'
  <2>1. ASSUME NEW p \in Request, NEW t \in Request, p # t,
               Seeking(req'[p]), Seeking(req'[t])
        PROVE  {req'[p].lic, req'[t].lic} \in rivals'
    <3>1. CASE p # q /\ t # q
      BY <1>1, <1>2, <2>1, <3>1 DEF Apart, SeekersAreRivals, Seeking
    <3>2. CASE p = q
      <4>1. Seeking(r) /\ Seeking(req[t]) /\ req'[t].lic = req[t].lic
            /\ req'[p].lic = r.lic
        BY <1>2, <2>1, <3>2 DEF Seeking
      <4> QED
        BY <4>1 DEF Begin, Seeking
    <3>3. CASE t = q
      <4>1. Seeking(r) /\ Seeking(req[p]) /\ req'[p].lic = req[p].lic
            /\ req'[t].lic = r.lic
        BY <1>2, <2>1, <3>3 DEF Seeking
      <4>2. {r.lic, req[p].lic} \in rivals'
        BY <4>1 DEF Begin, Seeking
      <4>3. {r.lic, req[p].lic} = {req'[p].lic, req'[t].lic}
        BY <4>1
      <4> QED
        BY <4>2, <4>3
    <3> QED
      BY <3>1, <3>2, <3>3
  <2> QED
    BY <2>1 DEF SeekersAreRivals
<1>4. ClaimsApart'
  BY <1>1, <1>2 DEF Apart, ClaimsApart
<1>5. DirsApart'
  BY <1>1 DEF Apart, DirsApart
<1> QED
  BY <1>3, <1>4, <1>5 DEF Apart

LEMMA StartApart ==
  ASSUME Typed, Apart, NEW q \in Request, NEW l \in License, Start(q, l)
  PROVE  Apart'
<1>1. CASE \E k \in Key : StartCreate(q, l, k)
  <2>1. PICK k \in Key : StartCreate(q, l, k)
    BY <1>1
  <2> DEFINE r == [Idle EXCEPT !.pc = "count", !.kind = "create", !.lic = l,
                               !.key = k, !.i = 1]
  <2>2. r \in Progress /\ Seeking(r) /\ \A dir : ~Claims(r, dir)
    BY DEF Idle, Progress, Seeking, Claims, Placing
  <2> QED
    BY <2>1, <2>2, BeginApart DEF StartCreate
<1>2. CASE \E k \in Key : StartUpdate(q, l, k)
  <2>1. PICK k \in Key : StartUpdate(q, l, k)
    BY <1>2
  <2> DEFINE old == rows[l].path
             same == [Idle EXCEPT !.kind = "update", !.lic = l, !.key = k,
                                  !.from = old, !.pc = "commit", !.to = old]
             other == [Idle EXCEPT !.kind = "update", !.lic = l, !.key = k,
                                   !.from = old, !.pc = "count", !.i = 1]
  <2>2. old \in Dir /\ l \in DOMAIN rows
    BY <2>1 DEF StartUpdate, Typed, RowsTyped
  <2>3. CASE Begin(q, same)
    <3>1. same \in Progress /\ Seeking(same) /\ same.lic = l
      BY <2>2 DEF Idle, Progress, Seeking
    <3>2. \A dir : Claims(same, dir) => dir = rows[l].path
      BY DEF Idle, Claims
    <3>3. \A m \in DOMAIN rows :
            m # l /\ Claims(same, rows[m].path) => {l, m} \in rivals
      BY <2>2, <3>2 DEF Apart, DirsApart
    <3> QED
      BY <2>3, <3>1, <3>3, BeginApart
  <2>4. CASE Begin(q, other)
    <3>1. other \in Progress /\ Seeking(other) /\ \A dir : ~Claims(other, dir)
      BY <2>2 DEF Idle, Progress, Seeking, Claims, Placing
    <3> QED
      BY <2>4, <3>1, BeginApart
  <2>5. Begin(q, same) \/ Begin(q, other)
    BY <2>1 DEF StartUpdate, Idle
  <2> QED
    BY <2>3, <2>4, <2>5
<1>3. CASE \E d \in Doc : StartUpload(q, l, d)
  <2>1. PICK d \in Doc : StartUpload(q, l, d)
    BY <1>3
  <2> DEFINE r == [Idle EXCEPT !.pc = "mkdir", !.kind = "upload", !.lic = l,
                               !.to = rows[l].path, !.doc = d]
  <2>2. rows[l].path \in Dir
    BY <2>1 DEF StartUpload, Typed, RowsTyped
  <2>3. r \in Progress /\ r.pc = "mkdir"
    BY <2>2 DEF Idle, Progress
  <2> QED
    BY <2>1, <2>3, BeginApart DEF StartUpload, Claims, Resolving, Placing
<1>4. CASE StartMeta(q, l)
  <2> DEFINE r == [Idle EXCEPT !.pc = "read", !.kind = "meta", !.lic = l]
  <2>1. r \in Progress /\ r.pc = "read"
    BY DEF Idle, Progress
  <2> QED
    BY <1>4, <2>1, BeginApart DEF StartMeta, Claims, Resolving, Placing
<1> QED
  BY <1>1, <1>2, <1>3, <1>4 DEF Start

LEMMA CrashApart ==
  ASSUME Apart, Crash PROVE Apart'
<1>1. ~Seeking(Idle) /\ \A dir : ~Claims(Idle, dir)
  BY DEF Idle, Seeking, Claims, Placing
<1> QED
  BY <1>1 DEF Crash, Apart, SeekersAreRivals, ClaimsApart, DirsApart

(* The inductive invariant: types, with what a request has read by each of *)
(* its steps; and the directories of rows and of requests in progress are  *)
(* apart unless their licences are rivals.                                 *)
THEOREM Invariance == Spec => []IInv
<1>1. Init => IInv
  BY InitTyped, IdleFacts
     DEF Init, IInv, Apart, SeekersAreRivals, ClaimsApart, DirsApart, Seeking
<1>2. IInv /\ [Next]_vars => IInv'
  <2>1. IInv /\ [Next]_vars => Typed'
    BY NextTyped DEF IInv
  <2>2. ASSUME IInv, UNCHANGED vars PROVE Apart'
    BY <2>2 DEF IInv, Apart, SeekersAreRivals, ClaimsApart, DirsApart, vars, marks
  <2> QED
    BY <2>1, <2>2, StepApart, StartApart, CrashApart DEF Next, IInv
<1> QED
  BY <1>1, <1>2, PTL DEF Spec

(* Two licences share a directory only when a create or an update of one   *)
(* overlapped one of the other: neither deletions of empty directories nor *)
(* renames, failures or crashes lead there by themselves.                  *)
THEOREM SharingNeedsRivalry == Spec => []DirsApart
<1>1. IInv => DirsApart
  BY DEF IInv, Apart
<1> QED
  BY <1>1, Invariance, PTL

-----------------------------------------------------------------------------
(* Documents and meta.yml in their places: what else holds of a request.   *)

\* What the steps of each kind of request are, and when a rename stands.
Steady(r) ==
    /\ r.pc = "insert" => r.kind = "create"
    /\ r.pc \in Placing => r.kind = "update"
    /\ r.kind = "upload" <=> r.pc \in Uploading
    /\ r.kind = "meta" <=> r.pc \in Reporting \cup {"read"}
    /\ r.moved => r.pc = "commit" \/ r.back
    /\ r.back => r.moved /\ r.pc \in {"stat", "prepare", "rename"}
    /\ r.pc = "commit" /\ ~r.moved => r.to = r.from

Lawful == \A q \in Request : Steady(req[q])

\* A request ends, turns to writing meta.yml, or goes on as what it is.
Ended(q) == req'[q] = Idle
Turned(q) ==
    req'[q] = [Idle EXCEPT !.pc = "read", !.kind = "meta", !.lic = req[q].lic,
                           !.alone = req[q].alone]
WentOn(q) ==
    /\ req'[q].pc # "idle"
    /\ req'[q].kind = req[q].kind /\ req'[q].lic = req[q].lic
    /\ req'[q].doc = req[q].doc /\ req'[q].alone = req[q].alone

LEMMA IdleSteady == Steady(Idle) /\ ~Idle.moved /\ ~Idle.alone /\ ~Idle.back
BY DEF Idle, Steady, Placing, Uploading, Reporting

LEMMA TurnedFacts ==
  ASSUME NEW q, Turned(q)
  PROVE  /\ Steady(req'[q]) /\ ~req'[q].moved /\ ~req'[q].back
         /\ req'[q].pc = "read" /\ req'[q].kind = "meta"
         /\ req'[q].lic = req[q].lic /\ req'[q].alone = req[q].alone
BY DEF Turned, Idle, Steady, Placing, Uploading, Reporting

LEMMA OthersStay ==
  ASSUME Typed, NEW q \in Request, Step(q)
  PROVE  /\ \A p \in Request \ {q} : req'[p] = req[p]
         /\ req[q].pc # "idle" /\ req[q] \in Progress /\ Sound(req[q])
<1>1. req \in [Request -> Progress] /\ Sound(req[q])
  BY DEF Typed, RequestsTyped
<1>2. \A p \in Request \ {q} : req'[p] = req[p]
  BY <1>1 DEF Step, Count, Look, Insert, Stat, Prepare, Rename, Commit, RollBack, MkdirAll,
     CreateFile, Write, Record, ReadRow, ListDocs, WriteTemp, Publish, FailWrite, Fail,
     NextCandidate, Goto, Regenerate, End
<1>3. req[q].pc # "idle"
  BY DEF Step, Count, Look, Insert, Stat, Prepare, Rename, Commit, RollBack, MkdirAll,
     CreateFile, Write, Record, ReadRow, ListDocs, WriteTemp, Publish, FailWrite, Fail, At
<1> QED
  BY <1>1, <1>2, <1>3

LEMMA GotoWentOn ==
  ASSUME NEW q \in Request, req \in [Request -> Progress], NEW pc, pc # "idle", Goto(q, pc)
  PROVE  /\ WentOn(q) /\ req'[q].pc = pc /\ req'[q].moved = req[q].moved
         /\ req'[q].back = req[q].back /\ req'[q].from = req[q].from /\ req'[q].to = req[q].to
         /\ req'[q].key = req[q].key /\ req'[q].name = req[q].name /\ req'[q].seen = req[q].seen
BY DEF Goto, WentOn, Progress

LEMMA NextCandidateWentOn ==
  ASSUME NEW q \in Request, req \in [Request -> Progress], NextCandidate(q)
  PROVE  /\ WentOn(q) /\ req'[q].pc = "count" /\ req'[q].moved = req[q].moved
         /\ req'[q].back = req[q].back /\ req'[q].from = req[q].from
BY DEF NextCandidate, WentOn, Progress

\* What a request is after each of its steps.
LEMMA StepForms ==
  ASSUME Typed, Lawful, NEW q \in Request, Step(q)
  PROVE  /\ Steady(req'[q])
         /\ Ended(q) \/ WentOn(q) \/ (Turned(q) /\ (Insert(q) \/ Commit(q) \/ Record(q)))
<1>1. /\ req \in [Request -> Progress] /\ req[q] \in Progress /\ Sound(req[q])
      /\ Steady(req[q])
  BY DEF Typed, RequestsTyped, Lawful
<1> USE DEF Resolving, Placing, Uploading, Reporting
<1>2. ASSUME End(q) PROVE Steady(req'[q]) /\ Ended(q)
  BY <1>1, <1>2, IdleSteady DEF End, Ended
<1>3. ASSUME Regenerate(q) PROVE Steady(req'[q]) /\ Turned(q)
  <2>1. Turned(q)
    BY <1>1, <1>3 DEF Regenerate, Turned
  <2> QED
    BY <2>1, TurnedFacts
<1>4. ASSUME NextCandidate(q), req[q].pc \in Resolving PROVE Steady(req'[q]) /\ WentOn(q)
  <2>1. /\ WentOn(q) /\ req'[q].pc = "count" /\ req'[q].moved = req[q].moved
        /\ req'[q].back = req[q].back
    BY <1>1, <1>4, NextCandidateWentOn
  <2> QED
    BY <1>1, <1>4, <2>1 DEF Steady, WentOn, Sound
<1>5. ASSUME NEW pc, pc # "idle", Goto(q, pc),
             \/ req[q].pc = "count" /\ pc = "look"
             \/ req[q].pc = "stat" /\ pc = "prepare"
             \/ req[q].pc = "prepare" /\ pc = "rename"
             \/ req[q].pc = "mkdir" /\ pc = "create"
             \/ req[q].pc = "write" /\ pc = "record"
             \/ req[q].pc = "ready" /\ pc = "temp"
             \/ req[q].pc = "temp" /\ pc = "publish"
      PROVE  Steady(req'[q]) /\ WentOn(q)
  <2>1. /\ WentOn(q) /\ req'[q].pc = pc /\ req'[q].moved = req[q].moved
        /\ req'[q].back = req[q].back
    BY <1>1, <1>5, GotoWentOn
  <2> QED
    BY <1>1, <1>5, <2>1 DEF Steady, WentOn
<1>6. CASE Count(q)
  BY <1>4, <1>5, <1>6 DEF Count, At
<1>7. CASE Look(q)
  <2> DEFINE pc == IF req[q].kind = "create" THEN "insert" ELSE "stat"
  <2>1. CASE NextCandidate(q)
    BY <1>4, <1>7, <2>1 DEF Look, At
  <2>2. CASE req' = [req EXCEPT ![q].to = Candidate(q), ![q].i = 0, ![q].pc = pc]
    <3>1. req[q].kind \in {"create", "update"} /\ ~req[q].back /\ ~req[q].moved
      BY <1>1, <1>7 DEF Look, At, Sound, Steady
    <3>2. /\ WentOn(q) /\ req'[q].pc = pc /\ req'[q].moved = req[q].moved
          /\ req'[q].back = req[q].back
      BY <1>1, <2>2 DEF WentOn, Progress
    <3> QED
      BY <3>1, <3>2 DEF Steady, WentOn
  <2> QED
    BY <1>7, <2>1, <2>2 DEF Look
<1>8. CASE Insert(q) \/ Commit(q) \/ Record(q)
  BY <1>3, <1>8 DEF Insert, Commit, Record
<1>9. CASE Stat(q)
  <2>1. CASE req' = [req EXCEPT ![q].pc = "commit", ![q].moved = TRUE] /\ ~req[q].back
    <3>1. WentOn(q) /\ req'[q].pc = "commit" /\ req'[q].moved /\ ~req'[q].back
      BY <1>1, <2>1 DEF WentOn, Progress
    <3> QED
      BY <1>1, <1>9, <3>1 DEF Steady, WentOn, Stat, At
  <2> QED
    BY <1>2, <1>5, <1>9, <2>1 DEF Stat, At
<1>10. CASE Prepare(q)
  BY <1>5, <1>10 DEF Prepare, At
<1>11. CASE Rename(q)
  <2>1. CASE req' = [req EXCEPT ![q].pc = "commit", ![q].moved = TRUE] /\ ~req[q].back
    <3>1. WentOn(q) /\ req'[q].pc = "commit" /\ req'[q].moved /\ ~req'[q].back
      BY <1>1, <2>1 DEF WentOn, Progress
    <3> QED
      BY <1>1, <1>11, <3>1 DEF Steady, WentOn, Rename, At
  <2> QED
    BY <1>2, <1>11, <2>1 DEF Rename
<1>12. CASE RollBack(q)
  <2>1. CASE req' = [req EXCEPT ![q].pc = "stat", ![q].back = TRUE,
                                ![q].from = req[q].to, ![q].to = req[q].from] /\ req[q].moved
    <3>1. WentOn(q) /\ req'[q].pc = "stat" /\ req'[q].moved /\ req'[q].back
      BY <1>1, <2>1 DEF WentOn, Progress
    <3> QED
      BY <1>1, <1>12, <3>1 DEF Steady, WentOn, RollBack, At
  <2> QED
    BY <1>2, <1>12, <2>1 DEF RollBack
<1>13. CASE MkdirAll(q, "mkdir", "create") \/ MkdirAll(q, "ready", "temp")
  BY <1>5, <1>13 DEF MkdirAll, At
<1>14. CASE CreateFile(q)
  <2>1. PICK n \in Name : req' = [req EXCEPT ![q].pc = "write", ![q].name = n]
    BY <1>14 DEF CreateFile
  <2>2. /\ WentOn(q) /\ req'[q].pc = "write" /\ req'[q].moved = req[q].moved
        /\ req'[q].back = req[q].back
    BY <1>1, <2>1 DEF WentOn, Progress
  <2> QED
    BY <1>1, <1>14, <2>2 DEF Steady, WentOn, CreateFile, At
<1>15. CASE Write(q)
  BY <1>5, <1>15 DEF Write, At
<1>16. CASE ReadRow(q)
  <2>1. /\ WentOn(q) /\ req'[q].pc = "list" /\ req'[q].moved = req[q].moved
        /\ req'[q].back = req[q].back
    BY <1>1, <1>16 DEF WentOn, Progress, ReadRow
  <2> QED
    BY <1>1, <1>16, <2>1 DEF Steady, WentOn, ReadRow, At
<1>17. CASE ListDocs(q)
  <2>1. /\ WentOn(q) /\ req'[q].pc = "ready" /\ req'[q].moved = req[q].moved
        /\ req'[q].back = req[q].back
    BY <1>1, <1>17 DEF WentOn, Progress, ListDocs
  <2> QED
    BY <1>1, <1>17, <2>1 DEF Steady, WentOn, ListDocs, At
<1>18. CASE WriteTemp(q)
  BY <1>5, <1>18 DEF WriteTemp, At
<1>19. CASE Publish(q) \/ FailWrite(q) \/ Fail(q)
  BY <1>2, <1>19 DEF Publish, FailWrite, Fail
<1> QED
  BY <1>6, <1>7, <1>8, <1>9, <1>10, <1>11, <1>12, <1>13, <1>14, <1>15, <1>16, <1>17,
     <1>18, <1>19 DEF Step

\* A request starts: no other one is what it is, but for the company it keeps.
LEMMA BeginForms ==
  ASSUME Typed, NEW q \in Request, NEW r \in Progress, Begin(q, r)
  PROVE  /\ req[q] = Idle /\ UNCHANGED <<rows, docs, fs>> /\ hit \subseteq hit'
         /\ behind \subseteq behind'
         /\ req'[q] = [r EXCEPT !.alone = Active(r.lic) = {}]
         /\ \A p \in Request \ {q} :
              \/ req'[p] = req[p] /\ ~(req[p].pc # "idle" /\ req[p].lic = r.lic)
              \/ /\ req'[p] = [req[p] EXCEPT !.alone = FALSE]
                 /\ req[p].pc # "idle" /\ req[p].lic = r.lic
         /\ Active(r.lic) # {} => r.lic \in behind'
         /\ \A p \in Active(r.lic) :
              {req[p].kind, r.kind} \in {{"update"}, {"update", "upload"}} => r.lic \in hit'
<1>1. req[q] = Idle /\ q \notin Active(r.lic)
  BY DEF Begin, At, Active, Typed, RequestsTyped, Sound
<1>2. ASSUME NEW p \in Request \ {q} PROVE p \in Active(r.lic) <=> (req[p].pc # "idle" /\ req[p].lic = r.lic)
  BY DEF Active
<1>3. /\ req'[q] = [r EXCEPT !.alone = Active(r.lic) = {}]
      /\ \A p \in Request \ {q} : 
           req'[p] = IF p \in Active(r.lic) THEN [req[p] EXCEPT !.alone = FALSE] ELSE req[p]
  BY DEF Begin
<1>4. ASSUME NEW p \in Active(r.lic),
             {req[p].kind, r.kind} \in {{"update"}, {"update", "upload"}}
      PROVE  r.lic \in hit'
  BY <1>4 DEF Begin
<1>5. hit \subseteq hit' /\ behind \subseteq behind' /\ UNCHANGED <<rows, docs, fs>>
      /\ (Active(r.lic) # {} => r.lic \in behind')
  BY DEF Begin
<1> QED
  BY <1>1, <1>2, <1>3, <1>4, <1>5

\* What a request is when it starts.
StartsAs(r, l) ==
    /\ r.lic = l /\ r.pc # "idle" /\ Steady(r) /\ ~r.moved /\ ~r.back
    /\ \/ r.kind = "create" /\ l \notin DOMAIN rows /\ Active(l) = {}
       \/ r.kind = "update" /\ l \in DOMAIN rows /\ r.from = rows[l].path
       \/ /\ r.kind = "upload" /\ l \in DOMAIN rows /\ r.pc = "mkdir" /\ r.to = rows[l].path
          /\ r.doc \notin DOMAIN docs /\ \A p \in Request : req[p].doc # r.doc
       \/ r.kind = "meta" /\ l \in DOMAIN rows /\ r.pc = "read"

LEMMA StartForms ==
  ASSUME Typed, NEW q \in Request, NEW l \in License, Start(q, l)
  PROVE  \E r \in Progress : Begin(q, r) /\ StartsAs(r, l)
<1> USE DEF Placing, Uploading, Reporting
<1>1. ASSUME NEW k \in Key, StartCreate(q, l, k)
      PROVE  \E r \in Progress : Begin(q, r) /\ StartsAs(r, l)
  <2> DEFINE r == [Idle EXCEPT !.pc = "count", !.kind = "create", !.lic = l,
                               !.key = k, !.i = 1]
  <2>1. r \in Progress /\ StartsAs(r, l)
    BY <1>1 DEF Idle, Progress, StartsAs, Steady, StartCreate
  <2> QED
    BY <1>1, <2>1 DEF StartCreate
<1>2. ASSUME NEW k \in Key, StartUpdate(q, l, k)
      PROVE  \E r \in Progress : Begin(q, r) /\ StartsAs(r, l)
  <2> DEFINE old == rows[l].path
             same == [Idle EXCEPT !.kind = "update", !.lic = l, !.key = k,
                                  !.from = old, !.pc = "commit", !.to = old]
             other == [Idle EXCEPT !.kind = "update", !.lic = l, !.key = k,
                                   !.from = old, !.pc = "count", !.i = 1]
  <2>1. old \in Dir /\ l \in DOMAIN rows
    BY <1>2 DEF StartUpdate, Typed, RowsTyped
  <2>2. same \in Progress /\ StartsAs(same, l)
    BY <2>1 DEF Idle, Progress, StartsAs, Steady
  <2>3. other \in Progress /\ StartsAs(other, l)
    BY <2>1 DEF Idle, Progress, StartsAs, Steady
  <2>4. Begin(q, same) \/ Begin(q, other)
    BY <1>2 DEF StartUpdate, Idle
  <2> QED
    BY <2>2, <2>3, <2>4
<1>3. ASSUME NEW d \in Doc, StartUpload(q, l, d)
      PROVE  \E r \in Progress : Begin(q, r) /\ StartsAs(r, l)
  <2> DEFINE r == [Idle EXCEPT !.pc = "mkdir", !.kind = "upload", !.lic = l,
                               !.to = rows[l].path, !.doc = d]
  <2>1. rows[l].path \in Dir /\ l \in DOMAIN rows
    BY <1>3 DEF StartUpload, Typed, RowsTyped
  <2>2. r \in Progress /\ StartsAs(r, l)
    BY <1>3, <2>1 DEF Idle, Progress, StartsAs, Steady, StartUpload
  <2> QED
    BY <1>3, <2>2 DEF StartUpload
<1>4. CASE StartMeta(q, l)
  <2> DEFINE r == [Idle EXCEPT !.pc = "read", !.kind = "meta", !.lic = l]
  <2>1. r \in Progress /\ StartsAs(r, l)
    BY <1>4 DEF Idle, Progress, StartsAs, Steady, StartMeta
  <2> QED
    BY <1>4, <2>1 DEF StartMeta
<1> QED
  BY <1>1, <1>2, <1>3, <1>4 DEF Start

LEMMA StepLawful ==
  ASSUME Typed, Lawful, NEW q \in Request, Step(q) PROVE Lawful'
BY StepForms, OthersStay DEF Lawful

LEMMA StartLawful ==
  ASSUME Typed, Lawful, NEW q \in Request, NEW l \in License, Start(q, l) PROVE Lawful'
<1>1. PICK r \in Progress : Begin(q, r) /\ StartsAs(r, l)
  BY StartForms
<1>2. \A s \in Progress, b \in BOOLEAN : Steady(s) => Steady([s EXCEPT !.alone = b])
  BY DEF Steady, Progress
<1>3. \A p \in Request : req[p] \in Progress
  BY DEF Typed, RequestsTyped
<1>4. \A p \in Request \ {q} : \/ req'[p] = req[p] \/ req'[p] = [req[p] EXCEPT !.alone = FALSE]
  BY <1>1, BeginForms
<1>5. PICK b \in BOOLEAN : req'[q] = [r EXCEPT !.alone = b]
  BY <1>1, BeginForms
<1>6. Steady(req'[q])
  BY <1>1, <1>2, <1>5 DEF StartsAs
<1>7. \A p \in Request \ {q} : Steady(req'[p])
  BY <1>2, <1>3, <1>4 DEF Lawful
<1> QED
  BY <1>6, <1>7 DEF Lawful

\* What a step does to the tables and to the marks of a licence.
LEMMA StepTables ==
  ASSUME Typed, Lawful, NEW q \in Request, Step(q)
  PROVE  /\ hit \subseteq hit'
         /\ behind \ {req[q].lic} \subseteq behind'
         /\ ~(Publish(q) /\ req[q].alone) => behind \subseteq behind'
         /\ ~Insert(q) /\ ~Commit(q) => rows' = rows
         /\ ~Record(q) /\ ~Commit(q) => docs' = docs
         /\ \A l \in DOMAIN rows : l \in DOMAIN rows' /\ (l # req[q].lic => rows'[l] = rows[l])
         /\ \A l \in DOMAIN rows' : l # req[q].lic => l \in DOMAIN rows
<1>1. req[q].pc # "idle" /\ Sound(req[q]) /\ req[q].lic \in License
  BY OthersStay DEF Sound
<1>2. hit \subseteq hit'
  BY DEF Step, Count, Look, Insert, Stat, Prepare, Rename, Commit, RollBack, MkdirAll,
     CreateFile, Write, Record, ReadRow, ListDocs, WriteTemp, Publish, FailWrite, Fail, marks
<1>3. behind \ {req[q].lic} \subseteq behind'
      /\ (~(Publish(q) /\ req[q].alone) => behind \subseteq behind')
  BY DEF Step, Count, Look, Insert, Stat, Prepare, Rename, Commit, RollBack, MkdirAll,
     CreateFile, Write, Record, ReadRow, ListDocs, WriteTemp, Publish, FailWrite, Fail, marks
<1>4. ~Insert(q) /\ ~Commit(q) => rows' = rows
  BY DEF Step, Count, Look, Stat, Prepare, Rename, RollBack, MkdirAll,
     CreateFile, Write, Record, ReadRow, ListDocs, WriteTemp, Publish, FailWrite, Fail, marks
<1>5. ~Record(q) /\ ~Commit(q) => docs' = docs
  BY DEF Step, Count, Look, Insert, Stat, Prepare, Rename, RollBack, MkdirAll,
     CreateFile, Write, ReadRow, ListDocs, WriteTemp, Publish, FailWrite, Fail, marks
<1>6. Insert(q) \/ Commit(q) =>
        /\ DOMAIN rows' = DOMAIN rows \cup {req[q].lic}
        /\ \A l \in DOMAIN rows : l # req[q].lic => rows'[l] = rows[l]
  BY DEF Insert, Commit, Put
<1> QED
  BY <1>2, <1>3, <1>4, <1>5, <1>6

-----------------------------------------------------------------------------
(* Who may be at work on a licence at a time                               *)

Busy(q, l) == req[q].pc # "idle" /\ req[q].lic = l

FilersApart ==
    \A p, q \in Request :
      p # q /\ req[p].kind = "update" /\ req[q].kind \in {"update", "upload"}
        /\ req[p].lic = req[q].lic => req[p].lic \in hit

UpdatesHaveRows == \A q \in Request : req[q].kind = "update" => req[q].lic \in DOMAIN rows

CreatesAlone ==
    \A p \in Request : req[p].kind = "create" =>
      req[p].lic \notin DOMAIN rows /\ \A q \in Request \ {p} : ~Busy(q, req[p].lic)

UploadsFresh ==
    \A p \in Request : req[p].kind = "upload" =>
      /\ req[p].doc \notin DOMAIN docs
      /\ \A q \in Request \ {p} : req[q].kind = "upload" => req[q].doc # req[p].doc

AloneIsAlone ==
    \A p \in Request : req[p].alone => \A q \in Request \ {p} : ~Busy(q, req[p].lic)

CrowdsAreBehind ==
    \A p \in Request : req[p].pc # "idle" /\ ~req[p].alone => req[p].lic \in behind

Overlaps ==
    /\ FilersApart /\ UpdatesHaveRows /\ CreatesAlone
    /\ UploadsFresh /\ AloneIsAlone /\ CrowdsAreBehind

\* What a step makes of a request, as far as the others are concerned.
LEMMA StepSummary ==
  ASSUME Typed, Lawful, NEW q \in Request, Step(q), NEW p \in Request
  PROVE  /\ req'[p].kind # "meta" => req'[p] = Idle \/
              (req'[p].kind = req[p].kind /\ req'[p].lic = req[p].lic /\ req'[p].doc = req[p].doc)
         /\ req'[p].pc # "idle" =>
              req[p].pc # "idle" /\ req'[p].lic = req[p].lic /\ req'[p].alone = req[p].alone
         /\ req'[p].alone => req'[p].pc # "idle"
         /\ p = q /\ (Insert(q) \/ Commit(q) \/ Record(q)) => req'[p].kind = "meta"
<1>1. p # q => req'[p] = req[p]
  BY OthersStay
<1>2. req[q].pc # "idle"
  BY OthersStay
<1>3. Ended(q) \/ WentOn(q) \/ Turned(q)
  BY StepForms
<1>4. req[p].pc = "idle" => req[p] = Idle
  BY DEF Typed, RequestsTyped, Sound
<1>5. ASSUME Insert(q) \/ Commit(q) \/ Record(q) PROVE req'[q].kind = "meta"
  <2>1. Turned(q)
    BY <1>5 DEF Insert, Commit, Record, Regenerate, Turned, Typed, RequestsTyped
  <2> QED
    BY <2>1, TurnedFacts
<1>6. CASE p # q
  BY <1>1, <1>4, <1>6, IdleSteady
<1>7. CASE p = q
  BY <1>2, <1>3, <1>5, <1>7, TurnedFacts, IdleFacts, IdleSteady DEF Ended, WentOn
<1> QED
  BY <1>6, <1>7

LEMMA StepOverlaps ==
  ASSUME Typed, Lawful, Overlaps, NEW q \in Request, Step(q) PROVE Overlaps'
<1> USE DEF Overlaps
<1>1. /\ hit \subseteq hit' /\ DOMAIN rows \subseteq DOMAIN rows'
      /\ DOMAIN rows' \subseteq DOMAIN rows \cup {req[q].lic}
  BY StepTables
<1>2. Idle.kind = "none" /\ Idle.pc = "idle"
  BY IdleFacts
<1>3. FilersApart'
  BY <1>1, <1>2, StepSummary DEF FilersApart
<1>4. UpdatesHaveRows'
  BY <1>1, <1>2, StepSummary DEF UpdatesHaveRows
<1>5. CreatesAlone'
  <2> SUFFICES ASSUME NEW p \in Request, req'[p].kind = "create"
               PROVE  /\ req'[p].lic \notin DOMAIN rows'
                      /\ \A t \in Request \ {p} : ~(req'[t].pc # "idle" /\ req'[t].lic = req'[p].lic)
    BY DEF CreatesAlone, Busy
  <2>1. req[p].kind = "create" /\ req'[p].lic = req[p].lic
    BY <1>2, StepSummary
  <2>2. \A t \in Request \ {p} : ~(req'[t].pc # "idle" /\ req'[t].lic = req'[p].lic)
    BY <2>1, StepSummary DEF CreatesAlone, Busy
  <2>3. p = q => rows' = rows
    BY StepTables, StepSummary
  <2>4. p # q => req[q].lic # req[p].lic
    BY <2>1, OthersStay DEF CreatesAlone, Busy
  <2>5. req[p].lic \notin DOMAIN rows
    BY <2>1 DEF CreatesAlone
  <2> QED
    BY <1>1, <2>1, <2>2, <2>3, <2>4, <2>5
<1>6. UploadsFresh'
  <2> SUFFICES ASSUME NEW p \in Request, req'[p].kind = "upload"
               PROVE  /\ req'[p].doc \notin DOMAIN docs'
                      /\ \A t \in Request \ {p} : req'[t].kind = "upload" => req'[t].doc # req'[p].doc
    BY DEF UploadsFresh
  <2>1. \A t \in Request : req'[t].kind = "upload" =>
          req[t].kind = "upload" /\ req'[t].doc = req[t].doc
    BY <1>2, StepSummary
  <2>2. \A t \in Request \ {p} : req'[t].kind = "upload" => req'[t].doc # req'[p].doc
    BY <2>1 DEF UploadsFresh
  <2>3. Commit(q) => DOMAIN docs' = DOMAIN docs
    BY DEF Commit
  <2>4. ASSUME Record(q) PROVE DOMAIN docs' = DOMAIN docs \cup {req[q].doc} /\ p # q
                               /\ req[q].kind = "upload"
    <3>1. req[q].pc = "record" /\ Steady(req[q])
      BY <2>4 DEF Record, At, Lawful
    <3> QED
      BY <2>4, <3>1, StepSummary DEF Record, Put, Steady, Uploading
  <2>5. req'[p].doc \notin DOMAIN docs'
    BY <2>1, <2>3, <2>4, StepTables DEF UploadsFresh
  <2> QED
    BY <2>2, <2>5
<1>7. AloneIsAlone'
  BY StepSummary DEF AloneIsAlone, Busy
<1>8. CrowdsAreBehind'
  <2> SUFFICES ASSUME NEW p \in Request, req'[p].pc # "idle", ~req'[p].alone
               PROVE  req'[p].lic \in behind'
    BY DEF CrowdsAreBehind
  <2>1. req[p].pc # "idle" /\ req'[p].lic = req[p].lic /\ ~req[p].alone /\ req[p].lic \in behind
    BY StepSummary DEF CrowdsAreBehind
  <2>2. CASE Publish(q) /\ req[q].alone
    <3>1. p # q
      BY <2>1, <2>2
    <3> QED
      BY <2>1, <2>2, <3>1, StepTables DEF AloneIsAlone, Busy
  <2> QED
    BY <2>1, <2>2, StepTables
<1> QED
  BY <1>3, <1>4, <1>5, <1>6, <1>7, <1>8

LEMMA StartOverlaps ==
  ASSUME Typed, Lawful, Overlaps, NEW q \in Request, NEW l \in License, Start(q, l)
  PROVE  Overlaps'
<1> USE DEF Overlaps
<1>1. PICK r \in Progress : Begin(q, r) /\ StartsAs(r, l)
  BY StartForms
<1>2. /\ UNCHANGED <<rows, docs>> /\ hit \subseteq hit' /\ behind \subseteq behind'
      /\ r.lic = l /\ r.pc # "idle" /\ req[q] = Idle
  BY <1>1, BeginForms DEF StartsAs
<1>3. \A p \in Request : req[p] \in Progress /\ (req[p].pc = "idle" => req[p] = Idle)
  BY DEF Typed, RequestsTyped, Sound
<1>4. /\ req'[q].kind = r.kind /\ req'[q].pc = r.pc /\ req'[q].lic = l /\ req'[q].doc = r.doc
      /\ (req'[q].alone <=> Active(l) = {})
  <2>1. req'[q] = [r EXCEPT !.alone = Active(r.lic) = {}]
    BY <1>1, BeginForms
  <2>2. PICK b \in BOOLEAN : b <=> Active(l) = {}
    OBVIOUS
  <2>3. req'[q] = [r EXCEPT !.alone = b]
    BY <1>2, <2>1, <2>2
  <2> QED
    BY <1>2, <2>2, <2>3 DEF Progress
<1>5. \A p \in Request \ {q} :
        /\ req'[p].kind = req[p].kind /\ req'[p].pc = req[p].pc /\ req'[p].lic = req[p].lic
        /\ req'[p].doc = req[p].doc
        /\ req'[p].alone <=> req[p].alone /\ ~Busy(p, l)
  <2> SUFFICES ASSUME NEW p \in Request \ {q}
               PROVE  /\ req'[p].kind = req[p].kind /\ req'[p].pc = req[p].pc
                      /\ req'[p].lic = req[p].lic /\ req'[p].doc = req[p].doc
                      /\ req'[p].alone <=> req[p].alone /\ ~Busy(p, l)
    OBVIOUS
  <2>1. \/ req'[p] = req[p] /\ ~Busy(p, l)
        \/ req'[p] = [req[p] EXCEPT !.alone = FALSE] /\ Busy(p, l)
    <3>1. \/ req'[p] = req[p] /\ ~(req[p].pc # "idle" /\ req[p].lic = r.lic)
          \/ /\ req'[p] = [req[p] EXCEPT !.alone = FALSE]
             /\ req[p].pc # "idle" /\ req[p].lic = r.lic
      BY <1>1, BeginForms
    <3> QED
      BY <1>2, <3>1 DEF Busy
  <2>2. CASE req'[p] = req[p] /\ ~Busy(p, l)
    BY <1>3, <2>2
  <2>3. CASE req'[p] = [req[p] EXCEPT !.alone = FALSE] /\ Busy(p, l)
    BY <1>3, <2>3 DEF Progress
  <2> QED
    BY <2>1, <2>2, <2>3
<1>6. \A p \in Request \ {q} : p \in Active(l) <=> Busy(p, l)
  BY DEF Active, Busy
<1>7. FilersApart'
  <2>1. ASSUME NEW p \in Request \ {q}, req[p].lic = l,
               {req[p].kind, r.kind} \in {{"update"}, {"update", "upload"}}
        PROVE  l \in hit'
    <3>1. p \in Active(l)
      BY <1>3, <1>6, <2>1, IdleFacts DEF Busy
    <3> QED
      BY <1>1, <1>2, <2>1, <3>1, BeginForms
  <2>2. ASSUME NEW p \in Request, NEW t \in Request, p # t, req'[p].kind = "update",
               req'[t].kind \in {"update", "upload"}, req'[p].lic = req'[t].lic
        PROVE  req'[p].lic \in hit'
    <3>1. CASE p # q /\ t # q
      BY <1>2, <1>5, <2>2, <3>1 DEF FilersApart
    <3>2. CASE p = q
      <4>1. req[t].lic = l /\ {req[t].kind, r.kind} \in {{"update"}, {"update", "upload"}}
        BY <1>4, <1>5, <2>2, <3>2
      <4> QED
        BY <1>4, <2>1, <2>2, <3>2, <4>1
    <3>3. CASE t = q
      <4>1. req[p].lic = l /\ {req[p].kind, r.kind} \in {{"update"}, {"update", "upload"}}
        BY <1>4, <1>5, <2>2, <3>3
      <4> QED
        BY <1>4, <1>5, <2>1, <2>2, <3>3, <4>1
    <3> QED
      BY <3>1, <3>2, <3>3
  <2> QED
    BY <2>2 DEF FilersApart
<1>8. UpdatesHaveRows'
  BY <1>1, <1>2, <1>4, <1>5 DEF UpdatesHaveRows, StartsAs
<1>9. CreatesAlone'
  <2>1. ASSUME NEW p \in Request \ {q}, req[p].kind = "create" PROVE req[p].lic # l
    <3>1. SUFFICES ASSUME req[p].lic = l PROVE FALSE
      OBVIOUS
    <3>2. p \in Active(l) /\ l \notin DOMAIN rows
      BY <1>3, <1>6, <2>1, <3>1, IdleFacts DEF Busy, CreatesAlone
    <3> QED
      BY <1>1, <3>2 DEF StartsAs
  <2>2. ASSUME r.kind = "create" PROVE l \notin DOMAIN rows /\ \A p \in Request \ {q} : ~Busy(p, l)
    BY <1>1, <1>6, <2>2 DEF StartsAs
  <2> QED
    BY <1>2, <1>4, <1>5, <2>1, <2>2 DEF CreatesAlone, Busy
<1>10. UploadsFresh'
  BY <1>1, <1>2, <1>4, <1>5 DEF UploadsFresh, StartsAs
<1>11. AloneIsAlone'
  BY <1>3, <1>4, <1>5, <1>6, IdleSteady DEF AloneIsAlone, Busy
<1>12. CrowdsAreBehind'
  <2>1. Active(l) # {} => l \in behind'
    BY <1>1, <1>2, BeginForms
  <2> QED
    BY <1>2, <1>4, <1>5, <1>6, <2>1 DEF CrowdsAreBehind, Busy
<1> QED
  BY <1>7, <1>8, <1>9, <1>10, <1>11, <1>12

LEMMA CrashOverlaps ==
  ASSUME Crash PROVE Lawful' /\ Overlaps'
<1>1. \A q \in Request : req'[q] = Idle
  BY DEF Crash
<1> QED
  BY <1>1, IdleSteady, IdleFacts
     DEF Lawful, Overlaps, FilersApart, UpdatesHaveRows, CreatesAlone, UploadsFresh,
         AloneIsAlone, CrowdsAreBehind, Busy

-----------------------------------------------------------------------------
(* Where the files of a licence are                                        *)

\* A request has moved the files of the licence and not committed it yet.
Moving(q, l) == req[q].moved /\ req[q].lic = l

\* Where it has put them; it may be about to put them back.
Away(r) == IF r.back THEN r.from ELSE r.to

IsHome(l, a) ==
    IF \E q \in Request : Moving(q, l)
    THEN \E q \in Request : Moving(q, l) /\ a = Away(req[q])
    ELSE a = rows[l].path

In(n, d, dir) == Exists(dir) /\ <<n, d>> \in fs[dir].files

UpdatesKnow ==
    \A q \in Request : req[q].kind = "update" /\ req[q].lic \notin hit =>
      rows[req[q].lic].path = IF req[q].back THEN req[q].to ELSE req[q].from

UploadsKnow ==
    \A q \in Request : req[q].kind = "upload" /\ req[q].lic \notin hit =>
      /\ req[q].to = rows[req[q].lic].path
      /\ req[q].pc \in {"write", "record"} => In(req[q].name, req[q].doc, req[q].to)

DocsInPlace ==
    \A d \in DOMAIN docs : docs[d].lic \notin hit =>
      /\ docs[d].dir = rows[docs[d].lic].path
      /\ \A a \in Dir : IsHome(docs[d].lic, a) => In(docs[d].name, d, a)

LEMMA MoversUpdate ==
  ASSUME Typed, Lawful, NEW q \in Request, req[q].moved
  PROVE  /\ req[q].kind = "update" /\ req[q].pc \in Placing /\ req[q].pc # "idle"
         /\ req[q].from \in Dir /\ req[q].to \in Dir
BY DEF Typed, RequestsTyped, Lawful, Steady, Sound, Placing

LEMMA HomeWithin ==
  ASSUME NEW l \in DOMAIN rows, NEW a, IsHome(l, a)
  PROVE  l \in Within(a)
BY DEF IsHome, Within, Moving, Away

\* Only an update moves files, and only those of its licence.
LEMMA HomeOf ==
  ASSUME Typed, Lawful, Overlaps, NEW q \in Request, req[q].kind \in {"update", "upload"},
         req[q].lic \notin hit, NEW a
  PROVE  IsHome(req[q].lic, a) <=>
           a = IF req[q].moved THEN Away(req[q]) ELSE rows[req[q].lic].path
<1>1. ASSUME NEW p \in Request, Moving(p, req[q].lic) PROVE p = q
  <2>1. req[p].kind = "update" /\ req[p].lic = req[q].lic
    BY <1>1, MoversUpdate DEF Moving
  <2> QED
    BY <2>1 DEF Overlaps, FilersApart
<1>2. Moving(q, req[q].lic) <=> req[q].moved
  BY DEF Moving
<1> QED
  BY <1>1, <1>2 DEF IsHome

\* What is in a directory of a licence stays there, in spite of the others.
LEMMA Keeps ==
  ASSUME Typed, Lawful, NEW q \in Request, Step(q), NEW l \in DOMAIN rows, l \notin hit',
         NEW a \in DOMAIN fs, l \in Within(a), fs[a] # EmptyDir,
         ~(Rename(q) /\ req[q].lic = l)
  PROVE  /\ a \in DOMAIN fs'
         /\ \A n, d : <<n, d>> \in fs[a].files /\ ~(req[q].kind = "upload" /\ d = req[q].doc)
                        => <<n, d>> \in fs'[a].files
         /\ fs'[a].meta = fs[a].meta \/ (Publish(q) /\ req[q].to = a)
<1>1. fs[a] \in Contents
  BY DEF Typed, FilesTyped
<1>2. CASE fs' = fs
  BY <1>2
<1>3. CASE Prepare(q)
  BY <1>3 DEF Prepare, Vacant, Drop, Exists
<1>4. CASE Rename(q)
  <2>1. a # req[q].from
    BY <1>4 DEF Rename
  <2> QED
    BY <1>4, <2>1 DEF Rename, Put, Drop, Exists
<1>5. CASE MkdirAll(q, "mkdir", "create") \/ MkdirAll(q, "ready", "temp")
  BY <1>5 DEF MkdirAll, Made, Put, Exists
<1>6. CASE CreateFile(q)
  <2>1. PICK n \in Name : fs' = [fs EXCEPT ![req[q].to].files = @ \cup {<<n, req[q].doc>>}]
    BY <1>6 DEF CreateFile
  <2>2. a \in DOMAIN fs' /\ fs[a].files \subseteq fs'[a].files /\ fs'[a].meta = fs[a].meta
    BY <1>1, <2>1 DEF Contents
  <2> QED
    BY <2>2
<1>7. CASE FailWrite(q)
  <2>1. a \in DOMAIN fs' /\ (a # req[q].to => fs'[a] = fs[a])
    BY <1>7 DEF FailWrite
  <2>2. req[q].kind = "upload"
    BY <1>7 DEF FailWrite, At, Lawful, Steady, Uploading
  <2>3. CASE a = req[q].to
    <3>1. fs'[a] = [fs[a] EXCEPT !.files = {f \in @ : f[1] # req[q].name}]
      BY <1>7, <2>3 DEF FailWrite
    <3>2. fs'[a].files = {f \in fs[a].files : f[1] # req[q].name} /\ fs'[a].meta = fs[a].meta
      BY <1>1, <3>1 DEF Contents
    <3>3. \A d \in Doc : <<req[q].name, d>> \in fs[a].files => d = req[q].doc
      BY <1>7, <2>3 DEF FailWrite, Exists
    <3>4. \A n, d : <<n, d>> \in fs[a].files => d \in Doc
      BY <1>1 DEF Contents
    <3> QED
      BY <2>1, <2>2, <3>2, <3>3, <3>4
  <2> QED
    BY <2>1, <2>3
<1>8. CASE WriteTemp(q)
  BY <1>1, <1>8 DEF WriteTemp, Contents
<1>9. CASE Publish(q)
  <2>1. fs' = [fs EXCEPT ![req[q].to].temps = @ \ {q},
                         ![req[q].to].meta = [key |-> req[q].key, docs |-> req[q].seen]]
    BY <1>9 DEF Publish
  <2>2. a \in DOMAIN fs' /\ fs'[a].files = fs[a].files /\ (a # req[q].to => fs'[a] = fs[a])
    BY <1>1, <2>1 DEF Contents
  <2> QED
    BY <1>9, <2>2
<1>10. CASE Fail(q)
  BY <1>1, <1>10 DEF Fail, WithoutTemp, Contents
<1> QED
  BY <1>2, <1>3, <1>4, <1>5, <1>6, <1>7, <1>8, <1>9, <1>10
     DEF Step, Count, Look, Insert, Stat, Commit, RollBack, Write, Record, ReadRow, ListDocs

\* What an update is after a step that does not bring it to its end.
LEMMA UpdateForms ==
  ASSUME Typed, Lawful, NEW q \in Request, Step(q), req[q].kind = "update"
  PROVE  \/ /\ Count(q) \/ Look(q)
            /\ ~req[q].moved /\ ~req'[q].moved /\ ~req'[q].back
            /\ req'[q].from = req[q].from
         \/ /\ (Stat(q) /\ Exists(req[q].from)) \/ Prepare(q)
            /\ req'[q].moved = req[q].moved /\ req'[q].back = req[q].back
            /\ req'[q].from = req[q].from /\ req'[q].to = req[q].to
         \/ Stat(q) /\ ~Exists(req[q].from)
         \/ Rename(q) /\ req[q].back /\ ~req'[q].moved
         \/ /\ Rename(q) /\ ~req[q].back /\ ~req[q].moved /\ req'[q].moved /\ ~req'[q].back
            /\ req'[q].from = req[q].from /\ req'[q].to = req[q].to
         \/ Commit(q) /\ ~req'[q].moved
         \/ /\ RollBack(q) /\ req[q].moved /\ ~req[q].back /\ req'[q].moved /\ req'[q].back
            /\ req'[q].from = req[q].to /\ req'[q].to = req[q].from
         \/ RollBack(q) /\ ~req[q].moved /\ ~req'[q].moved
         \/ Fail(q) /\ ~req[q].back /\ ~req[q].moved /\ ~req'[q].moved
         \/ Fail(q) /\ req[q].lic \in hit'
<1>1. /\ req \in [Request -> Progress] /\ req[q] \in Progress /\ Sound(req[q])
      /\ Steady(req[q]) /\ req[q].pc \in Resolving \cup Placing \cup {"insert"}
      /\ req[q].pc # "insert"
  BY DEF Typed, RequestsTyped, Lawful, Steady, Sound
<1> USE DEF Resolving, Placing, Uploading, Reporting
<1>2. CASE Count(q)
  <2>1. ~req[q].moved /\ ~req[q].back
    BY <1>1, <1>2 DEF Count, At, Steady
  <2> QED
    BY <1>1, <1>2, <2>1, NextCandidateWentOn, GotoWentOn DEF Count
<1>3. CASE Look(q)
  <2>1. ~req[q].moved /\ ~req[q].back
    BY <1>1, <1>3 DEF Look, At, Steady
  <2>2. CASE NextCandidate(q)
    BY <1>1, <1>3, <2>1, <2>2, NextCandidateWentOn
  <2>3. CASE req' = [req EXCEPT ![q].to = Candidate(q), ![q].i = 0,
                      ![q].pc = IF req[q].kind = "create" THEN "insert" ELSE "stat"]
    BY <1>1, <1>3, <2>1, <2>3 DEF Progress
  <2> QED
    BY <1>3, <2>2, <2>3 DEF Look
<1>4. CASE Stat(q)
  BY <1>1, <1>4, GotoWentOn DEF Stat
<1>5. CASE Prepare(q)
  BY <1>1, <1>5, GotoWentOn DEF Prepare
<1>6. CASE Rename(q)
  <2>1. ~req[q].back => ~req[q].moved
    BY <1>1, <1>6 DEF Rename, At, Steady
  <2>2. req[q].back => ~req'[q].moved
    BY <1>1, <1>6, IdleSteady DEF Rename, End
  <2>3. ~req[q].back => /\ req'[q].moved /\ ~req'[q].back
                        /\ req'[q].from = req[q].from /\ req'[q].to = req[q].to
    BY <1>1, <1>6 DEF Rename, Progress
  <2> QED
    BY <1>6, <2>1, <2>2, <2>3
<1>7. CASE Commit(q)
  <2>1. Turned(q)
    BY <1>1, <1>7 DEF Commit, Regenerate, Turned
  <2> QED
    BY <1>7, <2>1, TurnedFacts
<1>8. CASE RollBack(q)
  <2>1. ~req[q].back
    BY <1>1, <1>8 DEF RollBack, At, Steady
  <2>2. req[q].moved => /\ req'[q].moved /\ req'[q].back
                        /\ req'[q].from = req[q].to /\ req'[q].to = req[q].from
    BY <1>1, <1>8 DEF RollBack, Progress
  <2>3. ~req[q].moved => ~req'[q].moved
    BY <1>1, <1>8, IdleSteady DEF RollBack, End
  <2> QED
    BY <1>8, <2>1, <2>2, <2>3
<1>9. CASE Fail(q)
  <2>1. req[q].back => req[q].lic \in hit'
    BY <1>9 DEF Fail
  <2>2. ~req[q].back => ~req[q].moved
    BY <1>1, <1>9 DEF Fail, Steady
  <2>3. ~req'[q].moved
    BY <1>1, <1>9, IdleSteady DEF Fail, End
  <2> QED
    BY <1>9, <2>1, <2>2, <2>3
<1> QED
  BY <1>1, <1>2, <1>3, <1>4, <1>5, <1>6, <1>7, <1>8, <1>9
     DEF Step, Insert, MkdirAll, CreateFile, Write, Record, ReadRow, ListDocs, WriteTemp,
         Publish, FailWrite, At

\* What a step of another kind of request leaves as it is.
LEMMA NoMover ==
  ASSUME Typed, Lawful, Overlaps, NEW q \in Request, Step(q), req[q].kind # "update"
  PROVE  /\ ~req[q].moved /\ ~req'[q].moved
         /\ \A l \in DOMAIN rows : rows'[l] = rows[l]
<1>1. ~req[q].moved
  BY MoversUpdate
<1>2. req'[q].kind # "update"
  BY StepSummary, IdleFacts, StepForms, IdleSteady
<1>3. ~req'[q].moved
  BY <1>2, StepForms DEF Steady, Placing
<1>4. ~Commit(q)
  BY DEF Commit, At, Lawful, Steady, Placing
<1>5. CASE Insert(q)
  <2>1. req[q].lic \notin DOMAIN rows
    BY <1>5 DEF Insert, At, Lawful, Steady, Overlaps, CreatesAlone
  <2> QED
    BY <1>1, <1>3, <2>1, StepTables
<1> QED
  BY <1>1, <1>3, <1>4, <1>5, StepTables

\* A step may bring the files of a licence to a new home, not away from one.
LEMMA HomeStep ==
  ASSUME Typed, Lawful, Overlaps, UpdatesKnow, NEW q \in Request, Step(q),
         NEW l \in DOMAIN rows, l \notin hit', \A b \in Dir : IsHome(l, b) => Exists(b),
         NEW a \in Dir, IsHome(l, a)'
  PROVE  \/ IsHome(l, a) /\ ~(Rename(q) /\ req[q].lic = l)
         \/ Rename(q) /\ req[q].lic = l /\ a = req[q].to /\ IsHome(l, req[q].from)
<1>1. /\ \A p \in Request \ {q} : req'[p] = req[p]
      /\ \A m \in DOMAIN rows : m # req[q].lic => rows'[m] = rows[m]
      /\ l \notin hit
  BY OthersStay, StepTables
<1>2. IsHome(l, a)' <=>
        IF \E p \in Request : req'[p].moved /\ req'[p].lic = l
        THEN \E p \in Request : req'[p].moved /\ req'[p].lic = l /\ a = Away(req'[p])
        ELSE a = rows'[l].path
  BY DEF IsHome, Moving, Away
<1>3. IsHome(l, a) <=>
        IF \E p \in Request : req[p].moved /\ req[p].lic = l
        THEN \E p \in Request : req[p].moved /\ req[p].lic = l /\ a = Away(req[p])
        ELSE a = rows[l].path
  BY DEF IsHome, Moving
<1>4. req'[q].moved => req'[q].lic = req[q].lic
  BY StepForms, IdleSteady, TurnedFacts DEF Ended, WentOn
<1>5. CASE req[q].lic # l
  BY <1>1, <1>2, <1>3, <1>4, <1>5
<1>6. CASE req[q].lic = l /\ req[q].kind # "update"
  <2>1. ~Rename(q)
    BY <1>6 DEF Rename, At, Lawful, Steady, Placing
  <2>2. ~req[q].moved /\ ~req'[q].moved /\ rows'[l] = rows[l]
    BY <1>6, NoMover
  <2>3. (\E p \in Request : req'[p].moved /\ req'[p].lic = l)
           <=> (\E p \in Request : req[p].moved /\ req[p].lic = l)
    BY <1>1, <2>2
  <2>4. (\E p \in Request : req'[p].moved /\ req'[p].lic = l /\ a = Away(req'[p]))
           <=> (\E p \in Request : req[p].moved /\ req[p].lic = l /\ a = Away(req[p]))
    BY <1>1, <2>2
  <2> QED
    BY <1>2, <1>3, <2>1, <2>2, <2>3, <2>4
<1>7. CASE req[q].lic = l /\ req[q].kind = "update"
  <2>1. \A b : IsHome(l, b) <=> b = IF req[q].moved THEN Away(req[q]) ELSE rows[l].path
    BY <1>1, <1>7, HomeOf
  <2>2. ASSUME NEW p \in Request \ {q} PROVE ~(req'[p].moved /\ req'[p].lic = l)
    <3>1. req[p].moved /\ req[p].lic = l => req[p].kind = "update"
      BY MoversUpdate
    <3> QED
      BY <1>1, <1>7, <3>1 DEF Overlaps, FilersApart
  <2>3. IsHome(l, a)' <=> a = IF req'[q].moved THEN Away(req'[q]) ELSE rows'[l].path
    BY <1>2, <1>4, <1>7, <2>2
  <2>4. rows[l].path = IF req[q].back THEN req[q].to ELSE req[q].from
    BY <1>1, <1>7 DEF UpdatesKnow
  <2>5. rows[l].path \in Dir /\ (req[q].moved => req[q].to \in Dir /\ req[q].from \in Dir)
    BY MoversUpdate DEF Typed, RowsTyped
  <2>6. ~Commit(q) => rows'[l] = rows[l]
    <3>1. ~Insert(q)
      BY <1>7 DEF Insert, At, Lawful, Steady
    <3> QED
      BY <3>1, StepTables
  <2>7. CASE Stat(q) /\ ~Exists(req[q].from)
    <3>1. req[q].moved <=> req[q].back
      BY <2>7 DEF Stat, At, Lawful, Steady
    <3>2. IsHome(l, req[q].from)
      BY <2>1, <2>4, <3>1 DEF Away
    <3> QED
      BY <2>4, <2>5, <2>7, <3>1, <3>2
  <2>8. CASE Commit(q)
    <3>1. rows'[l].path = req[q].to
      BY <1>7, <2>8 DEF Commit, Put
    <3>2. req[q].to = (IF req[q].moved THEN Away(req[q]) ELSE rows[l].path)
      BY <2>4, <2>8 DEF Commit, At, Lawful, Steady, Away
    <3>3. ~Rename(q)
      BY <2>8 DEF Commit, Rename, At
    <3>4. ~req'[q].moved
      <4>1. Turned(q)
        BY <2>8 DEF Commit, Regenerate, Turned, Typed, RequestsTyped
      <4> QED
        BY <4>1, TurnedFacts
    <3> QED
      BY <2>1, <2>3, <3>1, <3>2, <3>3, <3>4
  <2>9. CASE Rename(q)
    <3>1. a = req[q].to
      <4>1. /\ ~Count(q) /\ ~Look(q) /\ ~Stat(q) /\ ~Prepare(q)
            /\ ~Commit(q) /\ ~RollBack(q)
        BY <2>9 DEF Commit, Count, Look, Stat, Prepare, Rename, RollBack, At
      <4>2. ~req[q].back => ~Fail(q)
        BY <2>9, <1>1, <1>7 DEF Rename, Fail, End, Typed, RequestsTyped, Idle
      <4>3. req[q].back => ~req'[q].moved
        BY <1>7, <2>9, IdleSteady DEF Rename, End, Typed, RequestsTyped
      <4>4. ~req[q].back => /\ req'[q].moved /\ ~req'[q].back
                            /\ req'[q].from = req[q].from /\ req'[q].to = req[q].to
        BY <1>7, <4>1, <4>2, UpdateForms
      <4> QED
        BY <2>3, <2>4, <2>6, <4>1, <4>3, <4>4 DEF Away
    <3>2. req[q].moved <=> req[q].back
      BY <2>9 DEF Rename, At, Lawful, Steady
    <3>3. IsHome(l, req[q].from)
      BY <2>1, <2>4, <3>2 DEF Away
    <3> QED
      BY <1>7, <2>9, <3>1, <3>3
  <2>10. CASE ~Commit(q) /\ ~Rename(q) /\ ~(Stat(q) /\ ~Exists(req[q].from))
    BY <1>1, <1>7, <2>1, <2>3, <2>4, <2>6, <2>10, UpdateForms DEF Away
  <2> QED
    BY <2>7, <2>8, <2>9, <2>10
<1> QED
  BY <1>5, <1>6, <1>7

\* So what is in every home of a licence is in every home after a step.
LEMMA Carried ==
  ASSUME Typed, Lawful, Overlaps, UpdatesKnow, NEW q \in Request, Step(q),
         NEW l \in DOMAIN rows, l \notin hit',
         \A b \in Dir : IsHome(l, b) => Exists(b) /\ fs[b] # EmptyDir,
         NEW a \in Dir, IsHome(l, a)'
  PROVE  \E b \in Dir :
           /\ IsHome(l, b) /\ a \in DOMAIN fs'
           /\ \A n, d : <<n, d>> \in fs[b].files /\ ~(req[q].kind = "upload" /\ d = req[q].doc)
                          => <<n, d>> \in fs'[a].files
           /\ fs'[a].meta = fs[b].meta \/ (Publish(q) /\ req[q].to = a /\ b = a)
<1>1. CASE IsHome(l, a) /\ ~(Rename(q) /\ req[q].lic = l)
  <2>1. a \in DOMAIN fs /\ fs[a] # EmptyDir /\ l \in Within(a)
    BY <1>1, HomeWithin DEF Exists
  <2> QED
    BY <1>1, <2>1, Keeps
<1>2. CASE Rename(q) /\ req[q].lic = l /\ a = req[q].to /\ IsHome(l, req[q].from)
  <2>1. a \in DOMAIN fs' /\ fs'[a] = fs[req[q].from] /\ req[q].from \in Dir
    BY <1>2 DEF Rename, Put, Exists, Typed, FilesTyped
  <2> QED
    BY <1>2, <2>1
<1> QED
  BY <1>1, <1>2, HomeStep

Places == UpdatesKnow /\ UploadsKnow /\ DocsInPlace

LEMMA UpdateKeepsPath ==
  ASSUME Typed, Lawful, NEW q \in Request, Step(q), req'[q].kind = "update"
  PROVE  (IF req'[q].back THEN req'[q].to ELSE req'[q].from)
           = (IF req[q].back THEN req[q].to ELSE req[q].from)
<1>1. /\ req \in [Request -> Progress] /\ req[q] \in Progress /\ Sound(req[q])
      /\ Steady(req[q]) /\ req[q].kind = "update"
  BY StepSummary, IdleFacts DEF Typed, RequestsTyped, Lawful
<1>2. ~End(q)
  BY <1>1, IdleFacts DEF End
<1>3. ~Regenerate(q)
  BY <1>1 DEF Regenerate, Idle
<1>4. CASE Count(q)
  BY <1>1, <1>4, NextCandidateWentOn, GotoWentOn DEF Count, At, Steady
<1>5. CASE Look(q)
  <2>1. ~req[q].back
    BY <1>1, <1>5 DEF Look, At, Steady
  <2>2. CASE NextCandidate(q)
    BY <1>1, <2>1, <2>2, NextCandidateWentOn
  <2>3. CASE req' = [req EXCEPT ![q].to = Candidate(q), ![q].i = 0,
                      ![q].pc = IF req[q].kind = "create" THEN "insert" ELSE "stat"]
    BY <1>1, <2>1, <2>3 DEF Progress
  <2> QED
    BY <1>5, <2>2, <2>3 DEF Look
<1>6. CASE Stat(q)
  <2>1. CASE Goto(q, "prepare")
    BY <1>1, <2>1, GotoWentOn
  <2>2. CASE req' = [req EXCEPT ![q].pc = "commit", ![q].moved = TRUE]
    BY <1>1, <2>2 DEF Progress
  <2> QED
    BY <1>2, <1>6, <2>1, <2>2 DEF Stat
<1>7. CASE Prepare(q)
  BY <1>1, <1>7, GotoWentOn DEF Prepare
<1>8. CASE Rename(q)
  BY <1>1, <1>2, <1>8 DEF Rename, Progress
<1>9. CASE RollBack(q)
  <2>1. ~req[q].back
    BY <1>1, <1>9 DEF RollBack, At, Steady
  <2> QED
    BY <1>1, <1>2, <1>9, <2>1 DEF RollBack, Progress
<1> QED
  BY <1>1, <1>2, <1>3, <1>4, <1>5, <1>6, <1>7, <1>8, <1>9
     DEF Step, Insert, Commit, MkdirAll, CreateFile, Write, Record, ReadRow, ListDocs,
         WriteTemp, Publish, FailWrite, Fail, At, Steady, Uploading, Reporting

LEMMA StepUpdatesKnow ==
  ASSUME Typed, Lawful, Overlaps, UpdatesKnow, NEW q \in Request, Step(q)
  PROVE  UpdatesKnow'
<1> SUFFICES ASSUME NEW p \in Request, req'[p].kind = "update", req'[p].lic \notin hit'
             PROVE  rows'[req'[p].lic].path = IF req'[p].back THEN req'[p].to ELSE req'[p].from
  BY DEF UpdatesKnow
<1>1. req[p].kind = "update" /\ req'[p].lic = req[p].lic
  BY StepSummary, IdleFacts
<1>2. req[p].lic \notin hit /\ req[p].lic \in DOMAIN rows
  BY <1>1, StepTables DEF Overlaps, UpdatesHaveRows
<1>3. rows[req[p].lic].path = IF req[p].back THEN req[p].to ELSE req[p].from
  BY <1>1, <1>2 DEF UpdatesKnow
<1>4. CASE p # q
  <2>1. req'[p] = req[p]
    BY <1>4, OthersStay
  <2>2. rows'[req[p].lic] = rows[req[p].lic]
    <3>1. CASE req[q].kind = "update"
      BY <1>1, <1>2, <1>4, <3>1, StepTables DEF Overlaps, FilersApart
    <3>2. CASE req[q].kind # "update"
      BY <1>2, <3>2, NoMover
    <3> QED
      BY <3>1, <3>2
  <2> QED
    BY <1>1, <1>3, <2>1, <2>2
<1>5. CASE p = q
  <2>1. ~Commit(q) /\ ~Insert(q)
    BY <1>5, StepSummary
  <2>2. rows' = rows
    BY <2>1, StepTables
  <2> QED
    BY <1>1, <1>3, <1>5, <2>2, UpdateKeepsPath
<1> QED
  BY <1>4, <1>5

LEMMA StepUploadsKnow ==
  ASSUME Typed, Lawful, Overlaps, UploadsKnow, NEW q \in Request, Step(q)
  PROVE  UploadsKnow'
<1> SUFFICES ASSUME NEW p \in Request, req'[p].kind = "upload", req'[p].lic \notin hit'
             PROVE  /\ req'[p].to = rows'[req'[p].lic].path
                    /\ req'[p].pc \in {"write", "record"} =>
                         /\ req'[p].to \in DOMAIN fs'
                         /\ <<req'[p].name, req'[p].doc>> \in fs'[req'[p].to].files
  BY DEF UploadsKnow, In, Exists
<1> DEFINE l == req[p].lic
<1>1. req[p].kind = "upload" /\ req'[p].lic = l /\ req'[p].doc = req[p].doc
  BY StepSummary, IdleFacts
<1>2. /\ l \notin hit /\ l \in DOMAIN rows /\ req[p].to \in Dir /\ ~req[p].moved
      /\ Sound(req[p]) /\ req[p] \in Progress
  BY <1>1, StepTables, MoversUpdate
     DEF Lawful, Steady, Typed, RequestsTyped, Sound, Uploading
<1>3. /\ req[p].to = rows[l].path
      /\ req[p].pc \in {"write", "record"} =>
           req[p].to \in DOMAIN fs /\ <<req[p].name, req[p].doc>> \in fs[req[p].to].files
  BY <1>1, <1>2 DEF UploadsKnow, In, Exists
<1>4. req[q].kind = "update" => req[q].lic # l
  BY <1>1, <1>2 DEF Overlaps, FilersApart
<1>5. rows'[l] = rows[l]
  BY <1>2, <1>4, NoMover, StepTables
<1>6. CASE p # q
  <2>1. req'[p] = req[p]
    BY <1>6, OthersStay
  <2>2. ASSUME req[p].pc \in {"write", "record"}
        PROVE  req[p].to \in DOMAIN fs' /\ <<req[p].name, req[p].doc>> \in fs'[req[p].to].files
    <3>1. IsHome(l, req[p].to)
      BY <1>1, <1>2, <1>3, HomeOf
    <3>2. l \in Within(req[p].to)
      BY <1>2, <3>1, HomeWithin
    <3>3. fs[req[p].to] # EmptyDir
      BY <1>3, <2>2 DEF EmptyDir
    <3>4. ~(Rename(q) /\ req[q].lic = l)
      BY <1>4 DEF Rename, At, Lawful, Steady, Placing
    <3>5. ~(req[q].kind = "upload" /\ req[p].doc = req[q].doc)
      BY <1>1, <1>6 DEF Overlaps, UploadsFresh
    <3>6. l \notin hit'
      BY <1>1
    <3> HIDE DEF l
    <3> QED
      BY <1>2, <1>3, <2>2, <3>2, <3>3, <3>4, <3>5, <3>6, Keeps
  <2> QED
    BY <1>1, <1>3, <1>5, <2>1, <2>2
<1>7. CASE p = q
  <2>1. ~End(q) /\ ~Regenerate(q) /\ Steady(req[q]) /\ req \in [Request -> Progress]
    BY <1>1, <1>7, IdleFacts DEF End, Regenerate, Typed, RequestsTyped, Lawful, Idle
  <2>2. CASE MkdirAll(q, "mkdir", "create")
    BY <1>1, <1>3, <1>5, <1>7, <2>1, <2>2, GotoWentOn DEF MkdirAll
  <2>3. CASE CreateFile(q)
    <3>1. PICK n \in Name :
            /\ fs' = [fs EXCEPT ![req[q].to].files = @ \cup {<<n, req[q].doc>>}]
            /\ req' = [req EXCEPT ![q].pc = "write", ![q].name = n]
            /\ req[q].to \in DOMAIN fs
      BY <2>3 DEF CreateFile, Exists
    <3>2. req'[q].to = req[q].to /\ req'[q].name = n /\ req'[q].doc = req[q].doc
      BY <2>1, <3>1 DEF Progress
    <3>3. req[q].to \in DOMAIN fs' /\ <<n, req[q].doc>> \in fs'[req[q].to].files
      <4>1. fs[req[q].to] \in Contents
        BY <3>1 DEF Typed, FilesTyped
      <4> QED
        BY <3>1, <4>1 DEF Contents
    <3> QED
      BY <1>1, <1>3, <1>5, <1>7, <3>2, <3>3
  <2>4. CASE Write(q)
    BY <1>1, <1>3, <1>5, <1>7, <2>1, <2>4, GotoWentOn DEF Write, At
  <2> QED
    BY <1>1, <1>7, <2>1, <2>2, <2>3, <2>4
       DEF Step, Count, Look, Insert, Stat, Prepare, Rename, Commit, RollBack,
           MkdirAll, Record, ReadRow, ListDocs, WriteTemp, Publish, FailWrite, Fail, At,
           Steady, Uploading
<1> QED
  BY <1>6, <1>7

LEMMA StepDocsInPlace ==
  ASSUME Typed, Lawful, Overlaps, Places, NEW q \in Request, Step(q)
  PROVE  DocsInPlace'
<1> SUFFICES ASSUME NEW d \in DOMAIN docs', NEW l, l = docs'[d].lic, l \notin hit'
             PROVE  /\ docs'[d].dir = rows'[l].path
                    /\ \A a \in Dir : IsHome(l, a)' =>
                         a \in DOMAIN fs' /\ <<docs'[d].name, d>> \in fs'[a].files
  BY DEF DocsInPlace, In, Exists, IsHome, Moving
<1> USE DEF Places
<1>1. CASE d \in DOMAIN docs /\ ~(Record(q) /\ d = req[q].doc)
  <2>1. /\ docs[d].lic = l /\ docs'[d].name = docs[d].name
        /\ ~(Commit(q) /\ req[q].lic = l) => docs'[d] = docs[d]
    <3>1. docs[d] \in [lic : DOMAIN rows, dir : Dir, name : Name]
      BY <1>1 DEF Typed, DocsTyped
    <3>2. CASE Commit(q)
      BY <1>1, <3>1, <3>2 DEF Commit
    <3>3. CASE Record(q)
      BY <1>1, <3>3 DEF Record, Put, Commit, At
    <3> QED
      BY <3>2, <3>3, StepTables
  <2>2. l \in DOMAIN rows /\ l \notin hit /\ l \notin hit'
    BY <1>1, <2>1, StepTables DEF Typed, DocsTyped
  <2>3. /\ docs[d].dir = rows[l].path
        /\ \A a \in Dir : IsHome(l, a) => Exists(a) /\ <<docs[d].name, d>> \in fs[a].files
    BY <1>1, <2>1, <2>2 DEF DocsInPlace, In
  <2>4. docs'[d].dir = rows'[l].path
    <3>1. CASE Commit(q) /\ req[q].lic = l
      <4>1. req[q].kind = "update" /\ ~req[q].back /\ (~req[q].moved => req[q].to = req[q].from)
        BY <3>1 DEF Commit, At, Lawful, Steady, Placing
      <4>2. docs[d].dir = req[q].from
        BY <2>2, <2>3, <3>1, <4>1 DEF UpdatesKnow
      <4>3. docs'[d].dir = req[q].to
        <5>1. docs[d] \in [lic : DOMAIN rows, dir : Dir, name : Name]
          BY <1>1 DEF Typed, DocsTyped
        <5> QED
          BY <1>1, <3>1, <4>1, <4>2, <5>1 DEF Commit
      <4>4. rows'[l].path = req[q].to
        BY <3>1 DEF Commit, Put
      <4> QED
        BY <4>3, <4>4
    <3>2. CASE ~(Commit(q) /\ req[q].lic = l)
      <4>1. ~(Insert(q) /\ req[q].lic = l)
        BY <2>2 DEF Insert, At, Lawful, Steady, Overlaps, CreatesAlone
      <4> QED
        BY <2>1, <2>2, <2>3, <3>2, <4>1, StepTables
    <3> QED
      BY <3>1, <3>2
  <2>5. ASSUME NEW a \in Dir, IsHome(l, a)'
        PROVE  a \in DOMAIN fs' /\ <<docs[d].name, d>> \in fs'[a].files
    <3>1. \A b \in Dir : IsHome(l, b) => Exists(b) /\ fs[b] # EmptyDir
      BY <2>3 DEF EmptyDir
    <3>2. ~(req[q].kind = "upload" /\ d = req[q].doc)
      BY <1>1 DEF Overlaps, UploadsFresh
    <3>3. PICK b \in Dir :
            /\ IsHome(l, b) /\ a \in DOMAIN fs'
            /\ \A n, e : <<n, e>> \in fs[b].files /\ ~(req[q].kind = "upload" /\ e = req[q].doc)
                           => <<n, e>> \in fs'[a].files
      BY <2>2, <2>5, <3>1, Carried
    <3> QED
      BY <2>3, <3>2, <3>3
  <2> QED
    BY <2>1, <2>4, <2>5
<1>2. CASE d \notin DOMAIN docs \/ (Record(q) /\ d = req[q].doc)
  <2>1. Record(q) /\ d = req[q].doc
    <3>1. Commit(q) => DOMAIN docs' = DOMAIN docs
      BY DEF Commit
    <3>2. Record(q) => DOMAIN docs' = DOMAIN docs \cup {req[q].doc}
      BY DEF Record, Put
    <3> QED
      BY <1>2, <3>1, <3>2, StepTables
  <2>2. /\ l = req[q].lic /\ docs'[d].dir = req[q].to /\ docs'[d].name = req[q].name
        /\ rows' = rows /\ fs' = fs /\ hit' = hit
    BY <2>1 DEF Record, Put, marks
  <2>3. req[q].kind = "upload" /\ req[q].pc = "record" /\ l \notin hit
    BY <2>1, <2>2 DEF Record, At, Lawful, Steady, Uploading
  <2>4. /\ req[q].to = rows[l].path /\ req[q].to \in DOMAIN fs
        /\ <<req[q].name, d>> \in fs[req[q].to].files
    BY <2>1, <2>2, <2>3 DEF UploadsKnow, In, Exists
  <2>5. l \in DOMAIN rows /\ ~req[q].moved
    BY <2>2, <2>3, MoversUpdate DEF Typed, RequestsTyped, Sound, Uploading
  <2>6. \A b : IsHome(l, b) <=> b = req[q].to
    BY <2>2, <2>3, <2>4, <2>5, HomeOf
  <2>7. \A b \in Dir : IsHome(l, b) => Exists(b)
    BY <2>4, <2>6 DEF Exists
  <2>8. ~Rename(q) /\ l \notin hit'
    BY <2>2, <2>3 DEF Rename, At
  <2>9. ASSUME NEW a \in Dir, IsHome(l, a)' PROVE a = req[q].to
    <3>1. IsHome(l, a)
      BY <2>5, <2>7, <2>8, <2>9, HomeStep
    <3> QED
      BY <2>6, <3>1
  <2> QED
    BY <2>2, <2>4, <2>9
<1> QED
  BY <1>1, <1>2

\* Only alone changes of a request when another one starts.
LEMMA StartOthers ==
  ASSUME Typed, NEW q \in Request, NEW r \in Progress, Begin(q, r), NEW p \in Request \ {q}
  PROVE  /\ req'[p].pc = req[p].pc /\ req'[p].kind = req[p].kind
         /\ req'[p].lic = req[p].lic /\ req'[p].key = req[p].key
         /\ req'[p].from = req[p].from /\ req'[p].to = req[p].to
         /\ req'[p].moved = req[p].moved /\ req'[p].back = req[p].back
         /\ req'[p].doc = req[p].doc /\ req'[p].name = req[p].name
         /\ req'[p].seen = req[p].seen /\ (req'[p].alone => req[p].alone)
<1>1. req'[p] = req[p] \/ req'[p] = [req[p] EXCEPT !.alone = FALSE]
  BY BeginForms
<1>2. req[p] \in Progress
  BY DEF Typed, RequestsTyped
<1>3. CASE req'[p] = req[p]
  BY <1>3
<1>4. CASE req'[p] = [req[p] EXCEPT !.alone = FALSE]
  BY <1>2, <1>4 DEF Progress
<1> QED
  BY <1>1, <1>3, <1>4

\* A request that starts has moved nothing.
LEMMA StartHomes ==
  ASSUME Typed, NEW q \in Request, NEW r \in Progress, NEW k \in License,
         Begin(q, r), StartsAs(r, k), NEW l, NEW a
  PROVE  IsHome(l, a)' <=> IsHome(l, a)
<1>1. /\ req'[q] = [r EXCEPT !.alone = Active(r.lic) = {}]
      /\ req[q] = Idle /\ rows' = rows
  BY BeginForms
<1>3. \A p \in Request \ {q} :
        /\ req'[p].lic = req[p].lic /\ req'[p].moved = req[p].moved
        /\ req'[p].back = req[p].back
        /\ req'[p].from = req[p].from /\ req'[p].to = req[p].to
  BY StartOthers
<1>4. ~req'[q].moved /\ ~req[q].moved
  BY <1>1, IdleSteady DEF StartsAs, Progress
<1>5. IsHome(l, a)' <=>
        IF \E p \in Request : req'[p].moved /\ req'[p].lic = l
        THEN \E p \in Request :
               /\ req'[p].moved /\ req'[p].lic = l
               /\ a = IF req'[p].back THEN req'[p].from ELSE req'[p].to
        ELSE a = rows'[l].path
  BY DEF IsHome, Moving, Away
<1>6. IsHome(l, a) <=>
        IF \E p \in Request : req[p].moved /\ req[p].lic = l
        THEN \E p \in Request :
               /\ req[p].moved /\ req[p].lic = l
               /\ a = IF req[p].back THEN req[p].from ELSE req[p].to
        ELSE a = rows[l].path
  BY DEF IsHome, Moving, Away
<1>7. (\E p \in Request : req'[p].moved /\ req'[p].lic = l)
         <=> (\E p \in Request : req[p].moved /\ req[p].lic = l)
  BY <1>3, <1>4
<1>8. (\E p \in Request : /\ req'[p].moved /\ req'[p].lic = l
                          /\ a = IF req'[p].back THEN req'[p].from ELSE req'[p].to)
         <=> (\E p \in Request : /\ req[p].moved /\ req[p].lic = l
                                 /\ a = IF req[p].back THEN req[p].from ELSE req[p].to)
  BY <1>3, <1>4
<1> QED
  BY <1>1, <1>3, <1>4, <1>5, <1>6, <1>7, <1>8

LEMMA StartPlaces ==
  ASSUME Typed, Places, NEW q \in Request, NEW l \in License, Start(q, l)
  PROVE  Places'
<1>1. PICK r \in Progress : Begin(q, r) /\ StartsAs(r, l)
  BY StartForms
<1>2. /\ UNCHANGED <<rows, docs, fs>> /\ hit \subseteq hit'
      /\ req'[q] = [r EXCEPT !.alone = Active(r.lic) = {}]
  BY <1>1, BeginForms
<1>3. /\ req'[q].kind = r.kind /\ req'[q].lic = r.lic /\ req'[q].pc = r.pc
      /\ req'[q].from = r.from /\ req'[q].to = r.to /\ req'[q].back = r.back
  BY <1>2 DEF Progress
<1>4. UpdatesKnow'
  <2> SUFFICES ASSUME NEW p \in Request, req'[p].kind = "update", req'[p].lic \notin hit'
               PROVE  rows'[req'[p].lic].path = IF req'[p].back THEN req'[p].to ELSE req'[p].from
    BY DEF UpdatesKnow
  <2>1. CASE p = q
    BY <1>1, <1>2, <1>3, <2>1 DEF StartsAs
  <2>2. CASE p # q
    BY <1>1, <1>2, <2>2, StartOthers DEF UpdatesKnow, Places
  <2> QED
    BY <2>1, <2>2
<1>5. UploadsKnow'
  <2> SUFFICES ASSUME NEW p \in Request, req'[p].kind = "upload", req'[p].lic \notin hit'
               PROVE  /\ req'[p].to = rows'[req'[p].lic].path
                      /\ req'[p].pc \in {"write", "record"} =>
                           /\ req'[p].to \in DOMAIN fs'
                           /\ <<req'[p].name, req'[p].doc>> \in fs'[req'[p].to].files
    BY DEF UploadsKnow, In, Exists
  <2>1. CASE p = q
    BY <1>1, <1>2, <1>3, <2>1 DEF StartsAs
  <2>2. CASE p # q
    BY <1>1, <1>2, <2>2, StartOthers DEF UploadsKnow, Places, In, Exists
  <2> QED
    BY <2>1, <2>2
<1>6. DocsInPlace'
  <2> SUFFICES ASSUME NEW d \in DOMAIN docs', NEW m, m = docs'[d].lic, m \notin hit'
               PROVE  /\ docs'[d].dir = rows'[m].path
                      /\ \A a \in Dir : IsHome(m, a)' =>
                           a \in DOMAIN fs' /\ <<docs'[d].name, d>> \in fs'[a].files
    BY DEF DocsInPlace, In, Exists, IsHome, Moving
  <2>1. \A a : IsHome(m, a)' => IsHome(m, a)
    BY <1>1, StartHomes
  <2> QED
    BY <1>2, <2>1 DEF Places, DocsInPlace, In, Exists
<1> QED
  BY <1>4, <1>5, <1>6 DEF Places

LEMMA StepPlaces ==
  ASSUME Typed, Lawful, Overlaps, Places, NEW q \in Request, Step(q) PROVE Places'
BY StepUpdatesKnow, StepUploadsKnow, StepDocsInPlace DEF Places

\* A crash leaves nobody at work; what was moved and not committed is marked.
LEMMA CrashHomes ==
  ASSUME Typed, Lawful, Crash, NEW l, l \notin hit', NEW a, IsHome(l, a)'
  PROVE  IsHome(l, a) /\ (l \in DOMAIN rows => a = rows[l].path)
<1>1. /\ \A p \in Request : req'[p] = Idle /\ ~(req[p].moved /\ req[p].lic = l)
      /\ rows' = rows
  BY DEF Crash
<1>2. a = rows[l].path
  BY <1>1, IdleSteady DEF IsHome, Moving
<1> QED
  BY <1>1, <1>2 DEF IsHome, Moving

LEMMA CrashFiles ==
  ASSUME Typed, Crash
  PROVE  /\ DOMAIN fs' = DOMAIN fs /\ UNCHANGED <<rows, docs>> /\ hit \subseteq hit'
         /\ \A a \in DOMAIN fs : fs'[a].files = fs[a].files /\ fs'[a].meta = fs[a].meta
<1>1. \A a \in DOMAIN fs : fs[a] \in Contents
  BY DEF Typed, FilesTyped
<1> QED
  BY <1>1 DEF Crash, Contents

LEMMA CrashPlaces ==
  ASSUME Typed, Lawful, Places, Crash PROVE Places'
<1>1. \A p \in Request : req'[p] = Idle
  BY DEF Crash
<1>2. UpdatesKnow' /\ UploadsKnow'
  BY <1>1, IdleFacts DEF UpdatesKnow, UploadsKnow
<1>3. DocsInPlace'
  <2> SUFFICES ASSUME NEW d \in DOMAIN docs', NEW m, m = docs'[d].lic, m \notin hit'
               PROVE  /\ docs'[d].dir = rows'[m].path
                      /\ \A a \in Dir : IsHome(m, a)' =>
                           a \in DOMAIN fs' /\ <<docs'[d].name, d>> \in fs'[a].files
    BY DEF DocsInPlace, In, Exists, IsHome, Moving
  <2>1. \A a : IsHome(m, a)' => IsHome(m, a)
    BY CrashHomes
  <2> QED
    BY <2>1, CrashFiles DEF Places, DocsInPlace, In, Exists
<1> QED
  BY <1>2, <1>3 DEF Places

-----------------------------------------------------------------------------
(* What meta.yml says of a licence                                         *)

Fact(l) == [key |-> rows[l].key, docs |-> Listed(l)]

\* A writer that nobody disturbed has read what the tables still say.
ReportersKnow ==
    \A q \in Request : req[q].alone =>
      /\ req[q].pc \in Reporting =>
           req[q].key = rows[req[q].lic].key /\ req[q].to = rows[req[q].lic].path
      /\ req[q].pc \in Reporting \ {"list"} => req[q].seen = Listed(req[q].lic)

MetaInPlace ==
    \A l \in DOMAIN rows \ (hit \cup behind) :
      (\A q \in Active(l) : req[q].kind # "meta") =>
        \A a \in Dir : IsHome(l, a) => Exists(a) /\ fs[a].meta = Fact(l)

Facts == ReportersKnow /\ MetaInPlace

LEMMA FactIsMeta ==
  ASSUME Typed, NEW l \in DOMAIN rows PROVE Fact(l) \in Meta /\ Fact(l) # EmptyDir.meta
<1>1. Fact(l) \in Meta
  BY ListedType DEF Fact, Meta, Typed, RowsTyped
<1> QED
  BY <1>1, LicenseStoreAssumption DEF EmptyDir, LicenseStoreAssumption

\* Only an upload of the licence changes what it has.
LEMMA ListedStep ==
  ASSUME Typed, Lawful, Overlaps, NEW q \in Request, Step(q), NEW l,
         ~(Record(q) /\ req[q].lic = l)
  PROVE  Listed(l)' = Listed(l)
<1>1. Listed(l)' = {<<docs'[d].name, d>> : d \in {e \in DOMAIN docs' : docs'[e].lic = l}}
  BY DEF Listed, DocsOf
<1>2. Listed(l) = {<<docs[d].name, d>> : d \in {e \in DOMAIN docs : docs[e].lic = l}}
  BY DEF Listed, DocsOf
<1>3. CASE Record(q)
  <2>1. req[q].kind = "upload" /\ req[q].doc \notin DOMAIN docs
    BY <1>3 DEF Record, At, Lawful, Steady, Uploading, Overlaps, UploadsFresh
  <2>2. /\ DOMAIN docs' = DOMAIN docs \cup {req[q].doc}
        /\ \A d \in DOMAIN docs : docs'[d] = docs[d]
        /\ docs'[req[q].doc].lic # l
    BY <1>3, <2>1 DEF Record, Put
  <2>3. {e \in DOMAIN docs' : docs'[e].lic = l} = {e \in DOMAIN docs : docs[e].lic = l}
    BY <2>1, <2>2
  <2> QED
    BY <1>1, <1>2, <2>2, <2>3
<1>4. CASE Commit(q)
  <2>1. \A d \in DOMAIN docs : docs[d] \in [lic : DOMAIN rows, dir : Dir, name : Name]
    BY DEF Typed, DocsTyped
  <2>2. /\ DOMAIN docs' = DOMAIN docs
        /\ \A d \in DOMAIN docs : docs'[d].lic = docs[d].lic /\ docs'[d].name = docs[d].name
    BY <1>4, <2>1 DEF Commit
  <2>3. {e \in DOMAIN docs' : docs'[e].lic = l} = {e \in DOMAIN docs : docs[e].lic = l}
    BY <2>2
  <2> QED
    BY <1>1, <1>2, <2>2, <2>3
<1>5. CASE docs' = docs
  BY <1>1, <1>2, <1>5
<1> QED
  BY <1>3, <1>4, <1>5, StepTables

LEMMA StepReportersKnow ==
  ASSUME Typed, Lawful, Overlaps, ReportersKnow, NEW q \in Request, Step(q)
  PROVE  ReportersKnow'
<1> SUFFICES ASSUME NEW p \in Request, NEW l, req'[p].alone, l = req'[p].lic
             PROVE  /\ req'[p].pc \in Reporting =>
                         req'[p].key = rows'[l].key /\ req'[p].to = rows'[l].path
                    /\ req'[p].pc \in Reporting \ {"list"} => req'[p].seen = Listed(l)'
  BY DEF ReportersKnow, Listed, DocsOf, Reporting
<1> SUFFICES ASSUME req'[p].pc \in Reporting
             PROVE  /\ req'[p].key = rows'[l].key /\ req'[p].to = rows'[l].path
                    /\ req'[p].pc # "list" => req'[p].seen = Listed(l)'
  OBVIOUS
<1>1. req[p].pc # "idle" /\ req[p].lic = l /\ req[p].alone
  BY StepSummary DEF Reporting
<1>2. /\ req[p].pc \in Reporting => req[p].key = rows[l].key /\ req[p].to = rows[l].path
      /\ req[p].pc \in Reporting \ {"list"} => req[p].seen = Listed(l)
  BY <1>1 DEF ReportersKnow
<1>3. CASE p # q
  <2>1. req'[p] = req[p] /\ req[q].lic # l
    BY <1>1, <1>3, OthersStay DEF Overlaps, AloneIsAlone, Busy
  <2>2. req[p].lic \in DOMAIN rows
    BY <2>1 DEF Typed, RequestsTyped, Sound
  <2>3. rows'[l] = rows[l] /\ Listed(l)' = Listed(l)
    BY <1>1, <2>1, <2>2, StepTables, ListedStep
  <2> QED
    BY <1>2, <2>1, <2>3
<1>4. CASE p = q
  <2>1. /\ req \in [Request -> Progress] /\ Steady(req[q]) /\ Steady(req'[q])
        /\ ~End(q) /\ ~Regenerate(q)
    <3>1. req \in [Request -> Progress] /\ Steady(req[q]) /\ Steady(req'[q])
      BY StepForms DEF Typed, RequestsTyped, Lawful
    <3>2. End(q) => req'[q].pc = "idle"
      BY <3>1, IdleFacts DEF End
    <3>3. Regenerate(q) => req'[q].pc = "read"
      BY <3>1 DEF Regenerate, Idle
    <3> QED
      BY <1>4, <3>1, <3>2, <3>3 DEF Reporting
  <2>2. req'[q].kind = "meta"
    BY <1>4, <2>1 DEF Steady
  <2>3. ~Ended(q) /\ (Turned(q) => req'[q].pc = "read")
    BY <2>2, IdleFacts, TurnedFacts DEF Ended
  <2>4. WentOn(q) /\ req[q].kind = "meta" /\ req[q].pc \in Reporting \cup {"read"}
    BY <1>4, <2>1, <2>2, <2>3, StepForms DEF Reporting, WentOn, Steady
  <2>5. CASE ReadRow(q)
    <3>1. rows' = rows /\ req'[q].pc = "list" /\ req'[q].key = rows[l].key
          /\ req'[q].to = rows[l].path
      BY <1>1, <1>4, <2>1, <2>5 DEF ReadRow, Progress
    <3> QED
      BY <1>4, <3>1
  <2>6. CASE ListDocs(q)
    <3>1. /\ rows' = rows /\ docs' = docs /\ req'[q].seen = Listed(l)
          /\ req'[q].key = req[q].key /\ req'[q].to = req[q].to /\ req[q].pc = "list"
      BY <1>1, <1>4, <2>1, <2>6 DEF ListDocs, At, Progress
    <3>2. Listed(l)' = Listed(l)
      BY <3>1 DEF Listed, DocsOf
    <3> QED
      BY <1>2, <1>4, <3>1, <3>2 DEF Reporting
  <2>7. CASE MkdirAll(q, "ready", "temp") \/ WriteTemp(q)
    <3>1. /\ rows' = rows /\ docs' = docs /\ req'[q].seen = req[q].seen
          /\ req'[q].key = req[q].key /\ req'[q].to = req[q].to
          /\ req[q].pc \in Reporting \ {"list"}
      BY <2>1, <2>7, GotoWentOn DEF MkdirAll, WriteTemp, At, Reporting
    <3>2. Listed(l)' = Listed(l)
      BY <3>1 DEF Listed, DocsOf
    <3> QED
      BY <1>2, <1>4, <3>1, <3>2
  <2> QED
    BY <2>1, <2>4, <2>5, <2>6, <2>7
       DEF Step, Count, Look, Insert, Stat, Prepare, Rename, Commit, RollBack, MkdirAll,
           CreateFile, Write, Record, Publish, FailWrite, Fail, At, Reporting
<1> QED
  BY <1>3, <1>4

\* The licence of a meta.yml that is published gets the row it has.
LEMMA PublishedIsHome ==
  ASSUME Typed, Lawful, Overlaps, Facts, NEW q \in Request, Step(q), Publish(q),
         req[q].alone, NEW l, l = req[q].lic, NEW a \in Dir, IsHome(l, a)'
  PROVE  a \in DOMAIN fs' /\ fs'[a].meta = Fact(l)'
<1>1. /\ req[q].pc = "publish" /\ l \in DOMAIN rows /\ rows' = rows /\ docs' = docs
      /\ req'[q] = Idle
  BY DEF Publish, At, Typed, RequestsTyped, Sound, Reporting, End
<1>2. /\ req[q].key = rows[l].key /\ req[q].to = rows[l].path /\ req[q].seen = Listed(l)
  BY <1>1 DEF Facts, ReportersKnow, Reporting
<1>3. Fact(l)' = [key |-> req[q].key, docs |-> req[q].seen]
  <2>1. Listed(l)' = Listed(l)
    BY <1>1 DEF Listed, DocsOf
  <2> QED
    BY <1>1, <1>2, <2>1 DEF Fact
<1>4. \A p \in Request : ~(req'[p].moved /\ req'[p].lic = l)
  <2>1. ASSUME NEW p \in Request \ {q} PROVE ~(req'[p].moved /\ req'[p].lic = l)
    BY OthersStay, MoversUpdate DEF Overlaps, AloneIsAlone, Busy
  <2> QED
    BY <1>1, <2>1, IdleSteady
<1>5. a = req[q].to
  BY <1>1, <1>2, <1>4 DEF IsHome, Moving
<1>6. a \in DOMAIN fs /\ fs[a] \in Contents
  BY <1>5 DEF Publish, Exists, Typed, FilesTyped
<1>7. fs' = [fs EXCEPT ![a].temps = @ \ {q},
                       ![a].meta = [key |-> req[q].key, docs |-> req[q].seen]]
  BY <1>5 DEF Publish
<1>8. a \in DOMAIN fs' /\ fs'[a].meta = [key |-> req[q].key, docs |-> req[q].seen]
  BY <1>6, <1>7 DEF Contents
<1> QED
  BY <1>3, <1>8

\* At home meta.yml stays true unless the tables change or it is replaced.
LEMMA MetaCarried ==
  ASSUME Typed, Lawful, Overlaps, Places, Facts, NEW q \in Request, Step(q),
         NEW l \in DOMAIN rows \ (hit \cup behind), l \notin hit', l \notin behind',
         \A p \in Active(l) : req[p].kind # "meta",
         ~(Publish(q) /\ req[q].lic = l), Fact(l)' = Fact(l),
         NEW a \in Dir, IsHome(l, a)'
  PROVE  a \in DOMAIN fs' /\ fs'[a].meta = Fact(l)'
<1>1. \A b \in Dir : IsHome(l, b) => Exists(b) /\ fs[b].meta = Fact(l)
  BY DEF Facts, MetaInPlace
<1>2. \A b \in Dir : IsHome(l, b) => Exists(b) /\ fs[b] # EmptyDir
  BY <1>1, FactIsMeta
<1>3. PICK b \in Dir :
        /\ IsHome(l, b) /\ a \in DOMAIN fs'
        /\ fs'[a].meta = fs[b].meta \/ (Publish(q) /\ req[q].to = a /\ b = a)
  BY <1>2, Carried DEF Places
<1>4. ~(Publish(q) /\ req[q].to = a /\ b = a)
  <2>1. SUFFICES ASSUME Publish(q), req[q].to = a, b = a PROVE FALSE
    OBVIOUS
  <2>2. l \in Within(req[q].to)
    BY <1>3, <2>1, HomeWithin
  <2>3. l \in behind'
    BY <2>1, <2>2 DEF Publish
  <2> QED
    BY <2>3
<1> QED
  BY <1>1, <1>3, <1>4

LEMMA StepMetaInPlace ==
  ASSUME Typed, Lawful, Overlaps, Places, Facts, NEW q \in Request, Step(q)
  PROVE  MetaInPlace'
<1> SUFFICES ASSUME NEW l \in DOMAIN rows' \ (hit' \cup behind'),
                    \A p \in Active(l)' : req'[p].kind # "meta",
                    NEW a \in Dir, IsHome(l, a)'
             PROVE  a \in DOMAIN fs' /\ fs'[a].meta = Fact(l)'
  BY DEF MetaInPlace, Exists
<1>1. /\ \A p \in Request \ {q} : req'[p] = req[p]
      /\ req[q].pc # "idle" /\ Steady(req[q]) /\ Sound(req[q])
  BY OthersStay DEF Lawful
<1>2. \A p \in Request : req'[p].pc # "idle" /\ req'[p].lic = l => req'[p].kind # "meta"
  BY DEF Active
<1>3. l \notin hit
  BY StepTables
<1>4. CASE l \in behind
  <2>1. l = req[q].lic /\ Publish(q) /\ req[q].alone
    BY <1>4, StepTables
  <2> QED
    BY <2>1, PublishedIsHome
<1>5. CASE l \notin behind /\ req[q].lic # l
  <2>1. l \in DOMAIN rows /\ rows'[l] = rows[l]
    BY <1>5, StepTables
  <2>2. \A p \in Active(l) : req[p].kind # "meta"
    BY <1>1, <1>2, <1>5 DEF Active
  <2>3. Fact(l)' = Fact(l)
    BY <1>5, <2>1, ListedStep DEF Fact
  <2> QED
    BY <1>3, <1>5, <2>1, <2>2, <2>3, MetaCarried
<1>6. CASE l \notin behind /\ req[q].lic = l /\ req[q].kind = "meta"
  <2>1. ~WentOn(q)
    BY <1>2, <1>6 DEF WentOn
  <2>2. ~Turned(q)
    BY <1>2, <1>6, TurnedFacts
  <2>3. Ended(q)
    BY <2>1, <2>2, StepForms
  <2>4. CASE Fail(q)
    BY <1>1, <1>6, <2>4 DEF Fail, Writing, Steady, Reporting
  <2>5. CASE Publish(q)
    <3>1. req[q].alone
      BY <1>1, <1>6 DEF Overlaps, CrowdsAreBehind
    <3> QED
      BY <1>6, <2>5, <3>1, PublishedIsHome
  <2>6. Fail(q) \/ Publish(q)
    <3>1. req[q].pc \in Reporting \cup {"read"}
      BY <1>1, <1>6 DEF Steady
    <3>2. req'[q].pc = "idle" /\ req \in [Request -> Progress]
      BY <2>3, IdleFacts DEF Ended, Typed, RequestsTyped
    <3>3. ~ReadRow(q) /\ ~ListDocs(q)
      BY <3>2 DEF ReadRow, ListDocs, Progress
    <3>4. ~MkdirAll(q, "ready", "temp") /\ ~WriteTemp(q)
      BY <3>2, GotoWentOn DEF MkdirAll, WriteTemp
    <3> QED
      BY <3>1, <3>3, <3>4
         DEF Step, Count, Look, Insert, Stat, Prepare, Rename, Commit, RollBack, MkdirAll,
             CreateFile, Write, Record, FailWrite, At, Reporting
  <2> QED
    BY <2>4, <2>5, <2>6
<1>7. CASE l \notin behind /\ req[q].lic = l /\ req[q].kind # "meta"
  <2>1. ~Turned(q)
    BY <1>2, <1>7, TurnedFacts
  <2>2. ~Insert(q) /\ ~Commit(q) /\ ~Record(q)
    BY <2>1 DEF Insert, Commit, Record, Regenerate, Turned, Typed, RequestsTyped
  <2>3. rows' = rows /\ l \in DOMAIN rows /\ ~Publish(q)
    BY <1>1, <1>7, <2>2, StepTables DEF Publish, At, Steady, Reporting
  <2>4. \A p \in Active(l) : req[p].kind # "meta"
    BY <1>1, <1>2, <1>7 DEF Active
  <2>5. Fact(l)' = Fact(l)
    BY <2>2, <2>3, ListedStep DEF Fact
  <2> QED
    BY <1>3, <1>7, <2>3, <2>4, <2>5, MetaCarried
<1> QED
  BY <1>4, <1>5, <1>6, <1>7

LEMMA StepFacts ==
  ASSUME Typed, Lawful, Overlaps, Places, Facts, NEW q \in Request, Step(q) PROVE Facts'
BY StepReportersKnow, StepMetaInPlace DEF Facts

LEMMA StartFacts ==
  ASSUME Typed, Facts, NEW q \in Request, NEW l \in License, Start(q, l)
  PROVE  Facts'
<1>1. PICK r \in Progress : Begin(q, r) /\ StartsAs(r, l)
  BY StartForms
<1>2. /\ rows' = rows /\ docs' = docs /\ fs' = fs /\ hit \subseteq hit' /\ behind \subseteq behind'
      /\ req'[q] = [r EXCEPT !.alone = Active(r.lic) = {}] /\ req[q] = Idle
  BY <1>1, BeginForms
<1>3. req'[q].pc = r.pc
  BY <1>2 DEF Progress
<1>4. ReportersKnow'
  <2> SUFFICES ASSUME NEW p \in Request, NEW m, req'[p].alone, m = req'[p].lic
               PROVE  /\ req'[p].pc \in Reporting =>
                           req'[p].key = rows'[m].key /\ req'[p].to = rows'[m].path
                      /\ req'[p].pc \in Reporting \ {"list"} => req'[p].seen = Listed(m)'
    BY DEF ReportersKnow, Listed, DocsOf, Reporting
  <2>1. Listed(m)' = Listed(m)
    BY <1>2 DEF Listed, DocsOf
  <2>2. CASE p = q
    BY <1>1, <1>3, <2>2 DEF StartsAs, Steady, Reporting, Uploading
  <2>3. CASE p # q
    BY <1>1, <1>2, <2>1, <2>3, StartOthers DEF Facts, ReportersKnow
  <2> QED
    BY <2>2, <2>3
<1>5. MetaInPlace'
  <2> SUFFICES ASSUME NEW m \in DOMAIN rows' \ (hit' \cup behind'),
                      \A p \in Active(m)' : req'[p].kind # "meta",
                      NEW a \in Dir, IsHome(m, a)'
               PROVE  a \in DOMAIN fs' /\ fs'[a].meta = Fact(m)'
    BY DEF MetaInPlace, Exists
  <2>1. Fact(m)' = Fact(m)
    BY <1>2 DEF Fact, Listed, DocsOf
  <2>2. ASSUME NEW p \in Active(m) PROVE req[p].kind # "meta"
    <3>1. p # q
      BY <1>2, IdleFacts DEF Active
    <3> QED
      BY <1>1, <3>1, StartOthers DEF Active
  <2>3. IsHome(m, a)
    BY <1>1, StartHomes
  <2> QED
    BY <1>2, <2>1, <2>2, <2>3 DEF Facts, MetaInPlace, Exists
<1> QED
  BY <1>4, <1>5 DEF Facts

LEMMA CrashFacts ==
  ASSUME Typed, Lawful, Facts, Crash PROVE Facts'
<1>1. /\ \A p \in Request : req'[p] = Idle
      /\ behind' = behind \cup {req[p].lic : p \in {t \in Request : req[t].pc # "idle"}}
  BY DEF Crash, At
<1>2. ReportersKnow'
  BY <1>1, IdleSteady DEF ReportersKnow
<1>3. MetaInPlace'
  <2> SUFFICES ASSUME NEW m \in DOMAIN rows' \ (hit' \cup behind'),
                      NEW a \in Dir, IsHome(m, a)'
               PROVE  a \in DOMAIN fs' /\ fs'[a].meta = Fact(m)'
    BY DEF MetaInPlace, Exists
  <2>1. Fact(m)' = Fact(m)
    BY CrashFiles DEF Fact, Listed, DocsOf
  <2>2. Active(m) = {}
    BY <1>1 DEF Active
  <2>3. IsHome(m, a)
    BY CrashHomes
  <2> QED
    BY <1>1, <2>1, <2>2, <2>3, CrashFiles DEF Facts, MetaInPlace, Exists
<1> QED
  BY <1>2, <1>3 DEF Facts

\* The tables, the directories and the requests at work, told together.
InPlace == Typed /\ Lawful /\ Overlaps /\ Places /\ Facts

LEMMA InitInPlace == Init => InPlace
<1> SUFFICES ASSUME Init PROVE InPlace
  OBVIOUS
<1>1. Typed
  BY InitTyped
<1>2. /\ \A q \in Request : req[q] = Idle
      /\ DOMAIN rows = {} /\ DOMAIN docs = {}
  BY DEF Init
<1>3. Lawful /\ Overlaps
  BY <1>2, IdleSteady, IdleFacts
     DEF Lawful, Overlaps, FilersApart, UpdatesHaveRows, CreatesAlone, UploadsFresh,
         AloneIsAlone, CrowdsAreBehind, Busy
<1>4. Places
  BY <1>2, IdleFacts DEF Places, UpdatesKnow, UploadsKnow, DocsInPlace
<1>5. Facts
  BY <1>2, IdleSteady DEF Facts, ReportersKnow, MetaInPlace
<1> QED
  BY <1>1, <1>3, <1>4, <1>5 DEF InPlace

LEMMA StutterInPlace == InPlace /\ UNCHANGED vars => InPlace'
<1> SUFFICES ASSUME InPlace, UNCHANGED vars PROVE InPlace'
  OBVIOUS
<1>1. Typed'
  BY StutterTyped DEF InPlace
<1>2. rows' = rows /\ docs' = docs /\ fs' = fs /\ req' = req /\ hit' = hit /\ behind' = behind
  BY DEF vars, marks
<1>3. Lawful' /\ Overlaps'
  BY <1>2 DEF InPlace, Lawful, Overlaps, FilersApart, UpdatesHaveRows, CreatesAlone,
              UploadsFresh, AloneIsAlone, CrowdsAreBehind, Busy
<1>4. Places'
  BY <1>2 DEF InPlace, Places, UpdatesKnow, UploadsKnow, DocsInPlace, In, Exists,
              IsHome, Moving
<1>5. Facts'
  BY <1>2 DEF InPlace, Facts, ReportersKnow, MetaInPlace, Fact, Listed, DocsOf, Active,
              IsHome, Moving, Exists
<1> QED
  BY <1>1, <1>3, <1>4, <1>5 DEF InPlace

LEMMA NextInPlace == InPlace /\ [Next]_vars => InPlace'
<1> SUFFICES ASSUME InPlace, [Next]_vars PROVE InPlace'
  OBVIOUS
<1> USE DEF InPlace
<1>1. Typed'
  BY NextTyped
<1>2. ASSUME NEW q \in Request, Step(q) PROVE InPlace'
  BY <1>1, <1>2, StepLawful, StepOverlaps, StepPlaces, StepFacts
<1>3. ASSUME NEW q \in Request, NEW l \in License, Start(q, l) PROVE InPlace'
  BY <1>1, <1>3, StartLawful, StartOverlaps, StartPlaces, StartFacts
<1>4. CASE Crash
  BY <1>1, <1>4, CrashOverlaps, CrashPlaces, CrashFacts
<1>5. CASE UNCHANGED vars
  BY <1>5, StutterInPlace
<1> QED
  BY <1>2, <1>3, <1>4, <1>5 DEF Next

(* Every licence whose files nobody else moved has them where its rows     *)
(* say, also while a rename is on its way and after it was undone; every   *)
(* licence whose last writer was undisturbed has a true meta.yml there.    *)
THEOREM KeptInPlace == Spec => []InPlace
<1> QED
  BY InitInPlace, NextInPlace, PTL DEF Spec

(* The row of a document names the place where its file is, inside the     *)
(* directory of its licence, as long as no update of that licence          *)
(* overlapped another one or an upload, no other licence's handler moved   *)
(* the directory, and every rename was committed or undone.                *)
THEOREM DocumentsAreFound == Spec => []StoredPathsHold
<1>1. InPlace => StoredPathsHold
  <2> SUFFICES ASSUME InPlace, NEW d \in DOMAIN docs, NEW l, l = docs[d].lic, l \notin hit,
                      \A q \in Active(l) : ~req[q].moved
               PROVE  /\ docs[d].dir = rows[l].path /\ Exists(docs[d].dir)
                      /\ <<docs[d].name, d>> \in fs[docs[d].dir].files
    BY DEF StoredPathsHold
  <2>1. \A q \in Request : ~Moving(q, l)
    BY MoversUpdate DEF InPlace, Moving, Active
  <2>2. IsHome(l, rows[l].path)
    BY <2>1 DEF IsHome
  <2>3. rows[l].path \in Dir
    BY DEF InPlace, Typed, RowsTyped, DocsTyped
  <2> QED
    BY <2>2, <2>3 DEF InPlace, Places, DocsInPlace, In
<1> QED
  BY <1>1, KeptInPlace, PTL

(* At rest meta.yml says what the database says, unless its last writing   *)
(* failed or overlapped another request, or the directory was lost to      *)
(* another licence or has its meta.yml since: every handler that changes a *)
(* licence or its documents writes it anew, last, and in the right place.  *)
THEOREM MetaIsTrue == Spec => []MetaUpToDate
<1>1. InPlace => MetaUpToDate
  <2> SUFFICES ASSUME InPlace, NEW l \in DOMAIN rows, Active(l) = {}, l \notin hit \cup behind
               PROVE  /\ Exists(rows[l].path)
                      /\ fs[rows[l].path].meta = [key |-> rows[l].key, docs |-> Listed(l)]
    BY DEF MetaUpToDate
  <2>1. \A q \in Request : ~Moving(q, l)
    BY MoversUpdate DEF InPlace, Moving, Active
  <2>2. IsHome(l, rows[l].path)
    BY <2>1 DEF IsHome
  <2>3. rows[l].path \in Dir
    BY DEF InPlace, Typed, RowsTyped
  <2> QED
    BY <2>2, <2>3 DEF InPlace, Facts, MetaInPlace, Fact
<1> QED
  BY <1>1, KeptInPlace, PTL
=============================================================================
