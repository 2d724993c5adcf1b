---------------------------- MODULE LicenseStore ----------------------------
(***************************************************************************)
(* Licences, their documents and their directories                         *)
(* (src/internal/handler/web/{licenses,documents}.go, internal/licensefs,  *)
(* internal/filestore, internal/metayml, cmd/generate-meta).               *)
(*                                                                         *)
(* The same facts live twice, in SQLite and on the file server, and no     *)
(* transaction spans both.  Requests run concurrently; every statement and *)
(* every system call that others can see is a step, and each of them may   *)
(* fail.  Handlers name a directory by the path they read earlier.         *)
(***************************************************************************)
EXTENDS Integers, FiniteSets, Sequences

CONSTANTS
    License,     \* ids of licenses
    Key,         \* (product, department, slug) triples, unique in licenses
    Dir,         \* directories, by their path under base_path
    Candidates,  \* [Key -> <<desired path, the same with _2, with _3, ..>>],
                 \* cut off at the end: a bound
    Doc,         \* files that are uploaded, by their content
    Request,     \* requests and batches in progress at a time
    Stale,       \* a temporary file that nobody will ever rename
    None,        \* no licence, directory, key, document or meta.yml
    MaxRequests  \* bound: requests ever started

\* All uploads ask for the same file name: 1 is that name, n the name with _n.
Name == 1 .. Cardinality(Doc)

\* What meta.yml says of a licence.
Meta == [key : Key, docs : SUBSET (Name \X Doc)]

ASSUME LicenseStoreAssumption ==
    /\ Candidates \in [Key -> Seq(Dir)]
    /\ \A k \in Key : Candidates[k] # <<>>
    /\ Stale \notin Request
    /\ None \notin License \cup Key \cup Dir \cup Doc \cup Meta
    /\ IsFiniteSet(Doc)
    /\ MaxRequests \in Nat

VARIABLES
    rows,    \* [ids in licenses -> key and fs_dir_path]
    docs,    \* [documents with a license_documents row -> stored_path]
    fs,      \* [existing directories -> their contents]
    req      \* [Request -> progress of the handler and what it has read]

\* What the properties need to remember of the past.
VARIABLES
    hit,     \* licences whose files moved under the feet of another request,
             \* or were not moved back
    rivals,  \* pairs of licences that looked for a directory at the same time
    behind,  \* licences whose last meta.yml failed or overlapped a change
    served   \* number of requests started

marks == <<hit, rivals, behind, served>>
vars == <<rows, docs, fs, req, marks>>

-----------------------------------------------------------------------------

\* What a directory contains.
Contents == [files : SUBSET (Name \X Doc), temps : SUBSET (Request \cup {Stale}),
             meta : Meta \cup {None}]
EmptyDir == [files |-> {}, temps |-> {}, meta |-> None]

\* key is the key asked for, i the candidate being tried, from and to the old
\* and the new directory (to alone for an upload and for meta.yml), back says
\* that an update is undoing its rename and moved that there is one to undo;
\* alone that no other request for the licence ran since this one started.
Progress ==
    [pc : {"idle", "count", "look", "insert", "stat", "prepare", "rename", "commit",
           "mkdir", "create", "write", "record", "read", "list", "ready", "temp", "publish"},
     kind : {"none", "create", "update", "upload", "meta"},
     lic : License \cup {None}, key : Key \cup {None}, i : Nat,
     from : Dir \cup {None}, to : Dir \cup {None}, moved : BOOLEAN, back : BOOLEAN,
     doc : Doc \cup {None}, name : Name \cup {0},
     seen : SUBSET (Name \X Doc), alone : BOOLEAN]

Idle == [pc |-> "idle", kind |-> "none", lic |-> None, key |-> None, i |-> 0,
         from |-> None, to |-> None, moved |-> FALSE, back |-> FALSE,
         doc |-> None, name |-> 0, seen |-> {}, alone |-> FALSE]

TypeOK ==
    /\ DOMAIN rows \subseteq License
    /\ \A l \in DOMAIN rows : rows[l] \in [key : Key, path : Dir]
    /\ \A l, m \in DOMAIN rows : rows[l].key = rows[m].key => l = m
    /\ DOMAIN docs \subseteq Doc
    /\ \A d \in DOMAIN docs :
         docs[d] \in [lic : DOMAIN rows, dir : Dir, name : Name]
    /\ DOMAIN fs \subseteq Dir
    /\ \A d \in DOMAIN fs : fs[d] \in Contents
    /\ req \in [Request -> Progress]
    /\ hit \subseteq License /\ behind \subseteq License
    /\ rivals \subseteq SUBSET License
    /\ served \in 0 .. MaxRequests

Init ==
    /\ rows = [l \in {} |-> None]
    /\ docs = [d \in {} |-> None]
    /\ fs = [d \in {} |-> EmptyDir]
    /\ req = [q \in Request |-> Idle]
    /\ hit = {}
    /\ rivals = {}
    /\ behind = {}
    /\ served = 0

-----------------------------------------------------------------------------
(* Helpers                                                                 *)

Put(f, x, v) == [y \in DOMAIN f \cup {x} |-> IF y = x THEN v ELSE f[y]]
Drop(f, x) == [y \in DOMAIN f \ {x} |-> f[y]]

Exists(d) == d \in DOMAIN fs
Vacant(d) == Exists(d) => fs[d] = EmptyDir

\* os.MkdirAll
Made(d) == IF Exists(d) THEN fs ELSE Put(fs, d, EmptyDir)

DocsOf(l) == {d \in DOMAIN docs : docs[d].lic = l}
Listed(l) == {<<docs[d].name, d>> : d \in DocsOf(l)}

Active(l) == {q \in Request : req[q].pc # "idle" /\ req[q].lic = l}

At(q, pc) == req[q].pc = pc
Goto(q, pc) == req' = [req EXCEPT ![q].pc = pc]
Regenerate(q) ==
    req' = [req EXCEPT ![q] = [Idle EXCEPT !.pc = "read", !.kind = "meta",
                                           !.lic = req[q].lic, !.alone = req[q].alone]]
End(q) == req' = [req EXCEPT ![q] = Idle]

\* A request for r.lic starts; the rest is bookkeeping of what it overlaps.
Begin(q, r) ==
    LET others == Active(r.lic)
        filing == {p \in others : {req[p].kind, r.kind} \in
                                  {{"update"}, {"update", "upload"}}}
        looking == {p \in Request : req[p].kind \in {"create", "update"}}
    IN
    /\ At(q, "idle")
    /\ served < MaxRequests
    /\ served' = served + 1
    /\ req' = [p \in Request |->
                 IF p = q THEN [r EXCEPT !.alone = others = {}]
                 ELSE IF p \in others THEN [req[p] EXCEPT !.alone = FALSE] ELSE req[p]]
    /\ hit' = IF filing # {} THEN hit \cup {r.lic} ELSE hit
    /\ behind' = IF others # {} THEN behind \cup {r.lic} ELSE behind
    /\ rivals' = IF r.kind \in {"create", "update"}
                 THEN rivals \cup {{r.lic, req[p].lic} : p \in looking}
                 ELSE rivals
    /\ UNCHANGED <<rows, docs, fs>>

-----------------------------------------------------------------------------
(* resolveLicenseFsDir                                                     *)

\* The form has been checked; a licence id is given at the insert, but named
\* from here on.
StartCreate(q, l, k) ==
    /\ l \notin DOMAIN rows
    /\ Active(l) = {}
    /\ Begin(q, [Idle EXCEPT !.pc = "count", !.kind = "create", !.lic = l,
                             !.key = k, !.i = 1])

\* The row is read once; the directory is looked for only when the path that
\* the form asks for is not the one in the row.
StartUpdate(q, l, k) ==
    /\ l \in DOMAIN rows
    /\ LET old == rows[l].path
           r == [Idle EXCEPT !.kind = "update", !.lic = l, !.key = k, !.from = old]
       IN Begin(q, IF Candidates[k][1] = old
                   THEN [r EXCEPT !.pc = "commit", !.to = old]
                   ELSE [r EXCEPT !.pc = "count", !.i = 1])

Candidate(q) == Candidates[req[q].key][req[q].i]

NextCandidate(q) ==
    /\ req[q].i < Len(Candidates[req[q].key])
    /\ req' = [req EXCEPT ![q].pc = "count", ![q].i = @ + 1]

\* Variant with a bug: the table is not asked, the directories are.
CountSkipped(q) ==
    /\ At(q, "count")
    /\ Goto(q, "look")
    /\ UNCHANGED <<rows, docs, fs, marks>>

\* CountLicensesByFsDirPath, the own row left out
Count(q) ==
    /\ At(q, "count")
    /\ IF \E m \in DOMAIN rows \ {req[q].lic} : rows[m].path = Candidate(q)
       THEN NextCandidate(q)
       ELSE Goto(q, "look")
    /\ UNCHANGED <<rows, docs, fs, marks>>

\* An absent or empty directory is taken, the own one of an update is not.
Look(q) ==
    /\ At(q, "look")
    /\ IF Vacant(Candidate(q))
       THEN req' = [req EXCEPT ![q].to = Candidate(q), ![q].i = 0,
                      ![q].pc = IF req[q].kind = "create" THEN "insert" ELSE "stat"]
       ELSE NextCandidate(q)
    /\ UNCHANGED <<rows, docs, fs, marks>>

Unused(k, l) == \A m \in DOMAIN rows : rows[m].key = k => m = l

Insert(q) ==
    /\ At(q, "insert")
    /\ Unused(req[q].key, req[q].lic)
    /\ rows' = Put(rows, req[q].lic, [key |-> req[q].key, path |-> req[q].to])
    /\ Regenerate(q)
    /\ UNCHANGED <<docs, fs, marks>>

-----------------------------------------------------------------------------
(* renameLicenseDir, forward and, with back set, to undo the first.        *)

\* No old directory: nothing to rename, yet dirChanged holds from here on.
Stat(q) ==
    /\ At(q, "stat")
    /\ IF Exists(req[q].from)
       THEN Goto(q, "prepare")
       ELSE IF req[q].back THEN End(q)
            ELSE req' = [req EXCEPT ![q].pc = "commit", ![q].moved = TRUE]
    /\ UNCHANGED <<rows, docs, fs, marks>>

\* Variant with a bug: the target is removed with all that is in it.
PrepareRemovesAll(q) ==
    /\ At(q, "prepare")
    /\ fs' = Drop(fs, req[q].to)
    /\ Goto(q, "rename")
    /\ UNCHANGED <<rows, docs, marks>>

\* prepareRenameTarget: an empty directory goes, another one is an error.
Prepare(q) ==
    /\ At(q, "prepare")
    /\ Vacant(req[q].to)
    /\ fs' = Drop(fs, req[q].to)
    /\ Goto(q, "rename")
    /\ UNCHANGED <<rows, docs, marks>>

\* Licences whose files may be in a directory, by their row or by a rename.
Within(dir) ==
    {m \in DOMAIN rows : rows[m].path = dir}
    \cup {req[p].lic : p \in {p \in Request : /\ req[p].moved
                                             /\ dir \in {req[p].from, req[p].to}}}

\* os.Rename, which refuses a target that is a directory by then.
Rename(q) ==
    LET from == req[q].from
        to == req[q].to
    IN
    /\ At(q, "rename")
    /\ Exists(from)
    /\ ~Exists(to)
    /\ fs' = Put(Drop(fs, from), to, fs[from])
    /\ hit' = hit \cup (Within(from) \ {req[q].lic})
    /\ IF req[q].back
       THEN End(q)
       ELSE req' = [req EXCEPT ![q].pc = "commit", ![q].moved = TRUE]
    /\ UNCHANGED <<rows, docs, rivals, behind, served>>

\* Variant with a bug: the stored paths are left as they were.
CommitRowOnly(q) ==
    LET r == req[q] IN
    /\ At(q, "commit")
    /\ Unused(r.key, r.lic)
    /\ rows' = Put(rows, r.lic, [key |-> r.key, path |-> r.to])
    /\ Regenerate(q)
    /\ UNCHANGED <<docs, fs, marks>>

\* reprefixDocumentPaths and UpdateLicense in one transaction.
Commit(q) ==
    LET r == req[q] IN
    /\ At(q, "commit")
    /\ Unused(r.key, r.lic)
    /\ rows' = Put(rows, r.lic, [key |-> r.key, path |-> r.to])
    /\ docs' = [d \in DOMAIN docs |->
                  IF r.moved /\ docs[d].lic = r.lic /\ docs[d].dir = r.from
                  THEN [docs[d] EXCEPT !.dir = r.to] ELSE docs[d]]
    /\ Regenerate(q)
    /\ UNCHANGED <<fs, marks>>

\* The transaction fails, on a taken key or otherwise: restoreRename.
RollBack(q) ==
    LET r == req[q] IN
    /\ At(q, "commit")
    /\ IF r.moved
       THEN req' = [req EXCEPT ![q].pc = "stat", ![q].back = TRUE,
                               ![q].from = r.to, ![q].to = r.from]
       ELSE End(q)
    /\ UNCHANGED <<rows, docs, fs, marks>>

-----------------------------------------------------------------------------
(* uploadDocument                                                          *)

\* The content is new; the directory is the one of the row as read now.
StartUpload(q, l, d) ==
    /\ l \in DOMAIN rows
    /\ d \notin DOMAIN docs
    /\ \A p \in Request : req[p].doc # d
    /\ \A e \in DOMAIN fs, n \in Name : <<n, d>> \notin fs[e].files
    /\ Begin(q, [Idle EXCEPT !.pc = "mkdir", !.kind = "upload", !.lic = l,
                             !.to = rows[l].path, !.doc = d])

MkdirAll(q, from, next) ==
    /\ At(q, from)
    /\ fs' = Made(req[q].to)
    /\ Goto(q, next)
    /\ UNCHANGED <<rows, docs, marks>>

\* writeUnique: O_EXCL on the first free name.
CreateFile(q) ==
    LET dir == req[q].to
        taken(n) == \E d \in Doc : <<n, d>> \in fs[dir].files
    IN
    /\ At(q, "create")
    /\ Exists(dir)
    /\ \E n \in Name :
         /\ ~taken(n)
         /\ \A k \in 1 .. n - 1 : taken(k)
         /\ fs' = [fs EXCEPT ![dir].files = @ \cup {<<n, req[q].doc>>}]
         /\ req' = [req EXCEPT ![q].pc = "write", ![q].name = n]
    /\ UNCHANGED <<rows, docs, marks>>

\* The content goes into the open file, wherever that is by now.
Write(q) ==
    /\ At(q, "write")
    /\ Goto(q, "record")
    /\ UNCHANGED <<rows, docs, fs, marks>>

\* A failed write removes its file by its path, which another licence may
\* have by now, with a document of its own under that name.
FailWrite(q) ==
    LET dir == req[q].to
        named == {d \in Doc : Exists(dir) /\ <<req[q].name, d>> \in fs[dir].files}
    IN
    /\ At(q, "write")
    /\ fs' = [e \in DOMAIN fs |->
                IF e = dir THEN [fs[e] EXCEPT !.files = {f \in @ : f[1] # req[q].name}]
                ELSE fs[e]]
    /\ hit' = IF named \subseteq {req[q].doc} THEN hit ELSE hit \cup Within(dir)
    /\ End(q)
    /\ UNCHANGED <<rows, docs, rivals, behind, served>>

\* Variant with a bug: meta.yml is not written again.
RecordOnly(q) ==
    /\ At(q, "record")
    /\ docs' = Put(docs, req[q].doc,
                   [lic |-> req[q].lic, dir |-> req[q].to, name |-> req[q].name])
    /\ End(q)
    /\ UNCHANGED <<rows, fs, marks>>

\* CreateLicenseDocument
Record(q) ==
    /\ At(q, "record")
    /\ docs' = Put(docs, req[q].doc,
                   [lic |-> req[q].lic, dir |-> req[q].to, name |-> req[q].name])
    /\ Regenerate(q)
    /\ UNCHANGED <<rows, fs, marks>>

-----------------------------------------------------------------------------
(* licensefs.Regenerate and metayml.Write                                  *)

\* One licence of appmgr-generate-meta (and of a scan that finds no meta.yml).
StartMeta(q, l) ==
    /\ l \in DOMAIN rows
    /\ Begin(q, [Idle EXCEPT !.pc = "read", !.kind = "meta", !.lic = l])

ReadRow(q) ==
    /\ At(q, "read")
    /\ req' = [req EXCEPT ![q].pc = "list", ![q].key = rows[req[q].lic].key,
                          ![q].to = rows[req[q].lic].path]
    /\ UNCHANGED <<rows, docs, fs, marks>>

ListDocs(q) ==
    /\ At(q, "list")
    /\ req' = [req EXCEPT ![q].pc = "ready", ![q].seen = Listed(req[q].lic)]
    /\ UNCHANGED <<rows, docs, fs, marks>>

WriteTemp(q) ==
    /\ At(q, "temp")
    /\ Exists(req[q].to)
    /\ fs' = [fs EXCEPT ![req[q].to].temps = @ \cup {q}]
    /\ Goto(q, "publish")
    /\ UNCHANGED <<rows, docs, marks>>

\* The rename fails when the directory was moved, with the file in it.
Publish(q) ==
    LET dir == req[q].to IN
    /\ At(q, "publish")
    /\ Exists(dir)
    /\ q \in fs[dir].temps
    /\ fs' = [fs EXCEPT ![dir].temps = @ \ {q},
                        ![dir].meta = [key |-> req[q].key, docs |-> req[q].seen]]
    /\ behind' = (IF req[q].alone THEN behind \ {req[q].lic} ELSE behind)
                 \cup (Within(dir) \ {req[q].lic})
    /\ End(q)
    /\ UNCHANGED <<rows, docs, hit, rivals, served>>

-----------------------------------------------------------------------------
(* Failures                                                                *)

\* The temporary file is removed, or stays behind where it was moved to.
WithoutTemp(q) ==
    [d \in DOMAIN fs |->
       [fs[d] EXCEPT !.temps = IF q \in @
                               THEN (@ \ {q}) \cup (IF d = req[q].to THEN {} ELSE {Stale})
                               ELSE @]]

Writing(q) == req[q].pc \in {"read", "list", "ready", "temp", "publish"}

\* A statement or a system call fails: the handler answers with an error, or
\* goes on without a meta.yml, or gives up undoing its rename.
Fail(q) ==
    /\ req[q].pc \notin {"idle", "commit", "write"}
    /\ fs' = WithoutTemp(q)
    /\ hit' = IF req[q].back THEN hit \cup {req[q].lic} ELSE hit
    /\ behind' = IF Writing(q) THEN behind \cup {req[q].lic} ELSE behind
    /\ End(q)
    /\ UNCHANGED <<rows, docs, rivals, served>>

\* The machine stops: what was in progress is gone, its temporary files stay.
Crash ==
    /\ fs' = [d \in DOMAIN fs |->
                [fs[d] EXCEPT !.temps = IF @ = {} THEN {} ELSE {Stale}]]
    /\ hit' = hit \cup {req[q].lic : q \in {p \in Request : req[p].moved}}
    /\ behind' = behind \cup {req[q].lic : q \in {p \in Request : ~At(p, "idle")}}
    /\ req' = [q \in Request |-> Idle]
    /\ UNCHANGED <<rows, docs, rivals, served>>

Step(q) ==
    \/ Count(q) \/ Look(q) \/ Insert(q)
    \/ Stat(q) \/ Prepare(q) \/ Rename(q) \/ Commit(q) \/ RollBack(q)
    \/ MkdirAll(q, "mkdir", "create") \/ CreateFile(q) \/ Write(q) \/ Record(q)
    \/ ReadRow(q) \/ ListDocs(q)
    \/ MkdirAll(q, "ready", "temp") \/ WriteTemp(q) \/ Publish(q)
    \/ FailWrite(q) \/ Fail(q)

Start(q, l) ==
    \/ \E k \in Key : StartCreate(q, l, k) \/ StartUpdate(q, l, k)
    \/ \E d \in Doc : StartUpload(q, l, d)
    \/ StartMeta(q, l)

Next == (\E q \in Request : Step(q) \/ \E l \in License : Start(q, l)) \/ Crash

Spec == Init /\ [][Next]_vars

-----------------------------------------------------------------------------

Stored == {d \in Doc : \E e \in DOMAIN fs, n \in Name : <<n, d>> \in fs[e].files}

(* A document stays on the file server, whatever handlers run at once,     *)
(* fail or are cut off: no rename replaces a directory that has something  *)
(* in it and no upload replaces a file (prepareRenameTarget, writeUnique). *)
(* Only an upload that fails to write removes a file, by the name of its   *)
(* own; that is another one when the directory was moved and made anew.    *)
FilesNeverLost ==
    [][\A d \in Stored \ Stored' :
         \E q \in Request :
           /\ At(q, "write")
           /\ Exists(req[q].to)
           /\ <<req[q].name, d>> \in fs[req[q].to].files
           /\ req'[q] = Idle]_vars

(* The row of a document names the place where its file is, inside the     *)
(* directory of its licence, as long as no update of that licence          *)
(* overlapped another one or an upload, no other licence's handler moved   *)
(* the directory, and every rename was committed or undone.                *)
StoredPathsHold ==
    \A d \in DOMAIN docs :
      LET l == docs[d].lic IN
      l \notin hit /\ (\A q \in Active(l) : ~req[q].moved) =>
        /\ docs[d].dir = rows[l].path
        /\ Exists(docs[d].dir)
        /\ <<docs[d].name, d>> \in fs[docs[d].dir].files

(* Two licences have one directory only when they looked for one at the    *)
(* same time: the count, the look and the write are three steps, and       *)
(* fs_dir_path has no unique index (resolveLicenseFsDir).                  *)
DirsApart ==
    \A l, m \in DOMAIN rows :
      l # m /\ rows[l].path = rows[m].path => {l, m} \in rivals

(* At rest meta.yml says what the database says, unless its last writing   *)
(* failed or overlapped another request, or the directory was lost to      *)
(* another licence or has its meta.yml since: every handler that changes a *)
(* licence or its documents writes it anew, last, and in the right place.  *)
MetaUpToDate ==
    \A l \in DOMAIN rows :
      Active(l) = {} /\ l \notin hit \cup behind =>
        /\ Exists(rows[l].path)
        /\ fs[rows[l].path].meta = [key |-> rows[l].key, docs |-> Listed(l)]
=============================================================================
