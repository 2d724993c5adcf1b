# app_man in TLA+: a verification project

app_man is a licence management system: a web server over one SQLite database
and a file server, and a family of batch binaries (notify, backup, prune-logs,
generate-meta, check-integrity and others) that work on the same data. This
directory holds TLA+ models of the parts where steps of several actors meet,
TLC configurations that check them on small instances, and theorems about them
that TLAPS checks for every value of the constants.

`PROJECT.json` lists the components, runs, hazards, findings and theorems, for
every definition the lines of the source it stands for (`map`), and for every
checked property a change of the model that breaks it (`mutants`).

## 1. Inventory of the system

| Component (source under `src/`) | State | Operations | Modules |
|---|---|---|---|
| Batch lock: `internal/lockfile`, `internal/clirun`, `cmd/server` | lock files, kernel flocks, descriptors | Acquire (three modes), Release, exit, crash | `LockFile` |
| notify batch: `cmd/notify`, `internal/notify` | `notifications`, local state of a run | daily run, gave_up summary, retry run | `Notify` |
| Login and sessions: `handler/web/auth.go`, `handler/middleware`, `internal/session`, `internal/auth` | `sessions`, `app_users` | session, login with rotation, logout, expiry, restart | `Accounts` |
| Account administration: `app_users.go`, `roles.go`, `cmd/create-app-user` | `app_users`, `user_department_roles` | create, disable, enable, grant, revoke | `Accounts`, `Registry`, in part |
| Licences and documents: `licenses.go`, `documents.go`, `internal/licensefs`, `internal/filestore`, `internal/metayml` | `licenses`, `license_documents`, directories, `meta.yml` | create, update with rename and its undoing, upload, regenerate | `LicenseStore` |
| generate-meta, check-integrity | none of their own | rewrite `meta.yml`; report | `LicenseStore`, in part |
| Backup: `cmd/backup` | backup files, temporary file | VACUUM INTO, sync, rename, rotate, dry run | `Backup`, `BackupSet` |
| Approvals, assignments, migration: `approvals.go`, `assignments.go`, `roles.go`, `departments_migrate.go` | active and revoked rows, owners of licences | check-then-insert, revoke, migrate | `Registry` |
| Verdicts: `internal/approval` | none | Evaluate | `Approval` |
| Departments, users, devices: `departments.go`, `users.go`, `devices.go` | their tables | create, edit, retire, restore | `Directory`, `Registry` |
| Vendors, products, aliases: `vendors.go`, `products.go`, `product_aliases.go` | their tables | forms, delete, global default status | `Catalog` |
| Bootstrap import: `internal/bootstrap` | the same tables | validate a file, insert it in one transaction | `Directory`, `Catalog`, `Registry` |
| prune-logs, settings: `cmd/prune-logs`, `settings.go` | four log tables, `app_settings` | prune, dry run, set, reset | `Retention`, `Notify` |
| CSRF, views, export, configuration, logging, migrations, stubs | none, or read-only | | not modelled |

How they interact:

- The server and every batch share SQLite. A statement is atomic, and so is
  what a handler does in a transaction. Most handlers check in one statement
  and write in a later one: between the two anybody may write. Unique indexes,
  foreign keys and conditions inside an UPDATE are what holds there.
- The batches are kept apart by lock files; the backup takes its own lock and
  then those of all other batches. The server takes a lock of its own and runs
  beside the batches. `Notify`, `Backup` and `Retention` therefore have one run
  of their batch at a time, which is what `LockFile` is about (and what its
  violation run shows to fail in a corner).
- Licences and documents live twice, as rows and as directories with a
  `meta.yml`. No transaction spans both. Handlers name a directory by the path
  they read, and renames go on around them.
- Requests read session, roles and rows once, and act on them later. A form is
  such a request stretched over minutes: it is made from a row, and posted when
  the row, and what it refers to, may have changed.

What is hard about it, and where the properties aim: two steps of two actors in
an order no test has (login against disable, grant against grant, rename
against upload, retire against assign); something read before another step and
used after it (retry lists, roles, paths, forms, validated files); a crash
between two steps of which the first is visible outside (a message sent, a
directory renamed, a file renamed but not on disk); and failures half-way
through a chain of system calls or statements.

What makes each component correct:

- *lock*: one holder per name, no batch beside the backup, nothing left locked
  by the dead, no refusal without a live holder, no waiting;
- *notify*: the table tells the truth about what went out, duplicates only after
  an unrecorded delivery, bounded retries, nothing given up unreported;
- *accounts*: no session for a disabled user, session ids never change hands,
  never an installation without an administrator, unique active roles;
- *licences*: no document lost, paths in rows lead to files, one directory per
  licence, `meta.yml` agrees with the tables at rest;
- *backup*: a complete backup is never confused with a partial one, the newest
  generations survive, success means a backup in place;
- *registry*: one active row per key, nothing new under what is retired, revoked
  rows are the ones that somebody saw, a migration leaves conflicts only;
- *directory, catalog*: references and keys hold, a save writes what its user
  read or entered, only edits close circles;
- *verdicts*: a product is allowed by its default status, or by an approval of
  this day or a later one, and by nothing else;
- *retention*: no child without its parent, nothing young deleted, everything
  overdue deleted in the end, the dry run tells what the run does.

## 2. The modules

Each model keeps every state change, guard, early return and error path of the
code in its order, and abstracts data to what a property tells apart. Definitions
whose name is a variant of another (`DisableKeepsSessions`, `CountSkipped`, ...)
are plausible bugs, used only by the mutants.

### LockFile (`internal/lockfile`, `internal/clirun`)

State: what inode a path leads to (`dir`), who holds the flock of an inode
(`flock`), open descriptors by position (`fd`), what Acquire has recorded
(`held`), and where a process is (`at`, `pc`). Position 0 is the own lock,
position i the i-th of `batchBinaries`; `Wanted(p)` is the set a process asks
for. One action per system call: `OpenFile`, `Flock`/`FlockHeld` (LOCK_NB),
`WriteMetadata`/`MetadataFails`; `HandlerReturns`; `Unlock`, `Close`/
`CloseFails`, `Remove`/`RemoveFails`, `Exit`; and `Crash` anywhere. The Windows
stub is left out; it only refuses. The content of a lock file (pid, time) is
left out as nothing reads it.

### Notify (`cmd/notify`, `notifications.sql`)

State: the table (`rows`, `nextId`), what other parts change under a run (`due`,
`maxRetry`, `channels`, `clock`), and the run in progress (`run`), of which there
is one at a time because of the lock. A daily run goes through the due licences
(`PlanEvent`) and then the summary of given up rows (`PlanSummary`); for each
channel and recipient it inserts a row (`Create`), sends (`Send`) and records
(`MarkSent`, `MarkFailed`). A retry run takes its list once (`StartRetry`) and
sends row by row (`Retry`, `IncrementRetry`). `Interrupt` stands for a crash, a
failing statement, or SIGTERM, at any step. `Renew`, `SetMaxRetry`, `Reconfigure`
and `Prune` are the web handlers, the operator and prune-logs. Who holds a role
is a free choice at each read. A channel is a `Send` that may report an error
although the message went out. Simplification: the due licences are read once
at the start of a run, where the code lists them once for each N.

### Accounts (`auth.go`, `app_users.go`, `roles.go`, middleware)

State: `users`, `disabled`, `roles` (active rows), `sessions` and the progress of
each HTTP request (`req`), which holds what it has read. `LoadSession` and
`Authorize` are the middleware, `Authenticate` and `RotateAndBind` the two
transactions of a login, `CheckGrant`/`Grant` and `CheckRevoke`/`Revoke` the
check and the write of the handlers, `Disable`, `Enable`, `Logout`, `Expire`,
`Restart` one transaction each. A transaction is one step: one that read before
another committed fails with SQLITE_BUSY, which is `EndRequest`. `issued` and
`raced` remember to whom a session id was given, and which users were disabled
while a login of theirs was past its password check.

### LicenseStore (`licenses.go`, `documents.go`, `licensefs`, `filestore`, `metayml`)

State: `rows` (licences: key and `fs_dir_path`), `docs` (documents:
`stored_path`), `fs` (directories: files, temporary files, `meta.yml`) and `req`,
the progress of each request or batch. A key stands for a (product, department,
slug) triple; `Candidates[key]` is the desired path and the paths with `_2`,
`_3`, ...

- *create*: `StartCreate`, then `Count` and `Look` per candidate
  (`resolveLicenseFsDir`), `Insert`, and `meta.yml`;
- *update*: `StartUpdate` reads the row; when the desired path differs, `Count`,
  `Look`, `Stat`, `Prepare` (removes an empty target), `Rename`; then `Commit`,
  the transaction that rewrites stored paths and the row, or `RollBack`, which
  goes through `Stat`, `Prepare` and `Rename` again with the paths swapped
  (`back`); then `meta.yml`;
- *upload*: `StartUpload` reads the path, `MkdirAll`, `CreateFile` (O_EXCL on the
  first free name), `Write` or `FailWrite` (which removes the file by its path),
  `Record`, and `meta.yml`;
- *meta.yml* (after each of these, and for the batches): `ReadRow`, `ListDocs`,
  `MkdirAll`, `WriteTemp`, `Publish`;
- `Fail` is the failure of the next statement or system call, with what the
  handler does about it; `Crash` ends all that is in progress.

History: `hit` collects licences whose files another request may have moved or
missed (an update that overlapped an update or upload of the same licence, a
rename by another licence's handler of a directory in use, a failed or cut off
undoing), `rivals` pairs whose creates or updates overlapped, `behind` licences
whose last `meta.yml` failed or overlapped. The properties say what holds outside
these cases, so they also say that nothing else leads there.

Bounds and simplifications: the list of candidates ends (a request that finds
none fails), all uploads ask for one file name, a licence id is named before the
insert that gives it, file content is identified with the document. A move of a
licence to another department by the migration changes no directory and is in
`Registry`.

### BackupSet and Backup (`cmd/backup`)

`BackupSet` is what the batch promises of its output directory: a set of complete
backups (`kept`) that grows by one at a time and shrinks from its oldest end only,
while enough newer ones are left; a power loss takes it back to what had reached
the disk (`durable`).

`Backup` is the runner. State: the directory as a process sees it (`dir`: per time stamp
an `app-*.db` and an `app-*.db.tmp`, each with the version of the data it holds and
whether it is partial, whole or synced), the directory as a power loss would leave it
(`disk`), the local clock (`now`), the version of the live database (`ver`), and where
the run is (`pc`). A run is `Start`, `RemoveStaleTmp`, `VacuumInto`/`VacuumDone`,
`SyncFile`, `Rename`, `ListBackups`, `RemoveOldBackup` per name, `StatDest`, `Exit`;
`DryRun` foretells a run; `Fail` is a failing step, after which the code removes its
temporary file, or a kill, after which nobody does; `PowerLoss` damages unsynced data
and takes the directory back. The code syncs the file and never the directory, so
entries reach the disk when they please (`Flush`), in their order, as on a journaled
file system. `TurnBack` turns the clock back: backups are named, and pruned, by local
time.

`KeepsPromise` is `BackupSet!Spec` with `kept` mapped to the names in `dir` and
`durable` to those in `disk`: an `app-*.db` appears by one rename or the set loses
its oldest member by one removal; everything else is a stutter.

### Registry (`assignments.go`, `approvals.go`, `roles.go`, `departments_migrate.go`, `bootstrap`)

What hangs on departments, users and devices. A row has a key (table, what it is
of, what it is to) and a number; `live` are the active rows, `past` the revoked
ones, `retired` the subjects that were retired, `owner` the department of a
licence. Every handler is a look (`Check...`, `See...`, `Validate...`) and a
write (`Create...`, `Revoke`, `SaveLicense`, `Migrate`, `Import...`); what a
request has seen is in `req`, and its `late` is set by whatever overtakes it:
a retirement of what it looked up, or a move of a licence that it resolved. The
properties except late requests and so say that nothing else leads to a row under a
retired subject.

### Approval (`internal/approval`)

`Evaluate` as an operator, with its order of cases and the end of the last day
(UTC) as the instant of expiry. `VerdictMeetsSpec` in `Catalog` compares it, for
the four default statuses and for each one that a product has got from a file, with
a statement of what the verdicts mean.

### Catalog (`vendors.go`, `products.go`, `product_aliases.go`, `bootstrap`)

`vendor`, `product`, `alias`, `license` map ids to rows, `New` or `Gone` (ids are
never given twice). A product form is `EditProduct` (what the row shows in
selects: `Shown`), `PostUpdate` (what the browser posts: any form) and
`UpdateProduct`, one UPDATE of all columns; `GlobalUpdate` is the
global approvals page, which records what it does; `DeleteVendor` follows a
count, `CreateAlias` and `CreateLicense` a look at the product. The import
validates a file against the tables (`Validate...`) and resolves its lines again
in the transaction (`Import...`). A form is `stale` when its row was written
since.

### Directory (`departments.go`, `users.go`, `devices.go`, `bootstrap`)

The same for the three tables whose rows retire. A row has a code and references;
a select lists what is active, and the first `ListLimit` users. `Edit...`
reads the row, `Show...` makes the form and looks up the references to pin those
that the select would not list, `Post...` is what comes back, `Create...`/
`Update...` the statement, `Conflict...` the taken code after which the form is
shown again. `meant` is what the user last read or entered, field by field;
`edited` the rows that a form has edited.

### Retention (`cmd/prune-logs`, `settings.go`)

`stored` maps each record of the four tables to its day, `setting` each table to what
`app_settings` holds (`Unset` for no row, `Bad` for what is no number). A run reads the
four settings one after the other (`Resolve`; `Refuse` ends it at a bad one), then
deletes table after table, raw installations before their import logs, each in a
statement; `Fail` ends it anywhere. Settings change by the page (`Update`, `Reset`) or
by hand (`Meddle`) between any two steps; records arrive at any time. `AddDate` wraps:
days beyond `Half` put the cutoff into the future. Who writes `raw_installations` and
`import_logs` is a stub in this repository; their writers are external.

## 3. The runs

All runs use two workers and finish well within five minutes. There is one run for
each module with handlers, a second one of Notify for its liveness, which needs
another instance, and one for each violated property.

| Run | Asks | Instance, size | Result |
|---|---|---|---|
| `LockFile` | exclusion, refusals, and do Acquire and Release come back? | two slots of one batch, the backup, 3 inodes; 129 thousand states | hold |
| `LockFileMutex` | `MutualExclusion` as the package comment states it | two slots | violated |
| `Notify` | truth of the table, duplicates, retries, summaries | one licence, a manager, an admin, a person without address, 4 seconds in 2 days, 5 rows, one interruption; 1.7 million | hold |
| `NotifyLive` | does every failed row leave that state? | two channels, one admin, limits 1 and 2; 396 thousand | holds |
| `NotifyTwins` | no resend of a superseded row | one admin, 3 rows | violated |
| `Accounts` | sessions, session ids, last admin | 2 users, 2 scopes, 4 session ids, 2 requests; 581 thousand | hold |
| `LicenseStore` | documents, paths, directories, `meta.yml` | 2 licences, 3 keys of which two share their candidates, 3 directories, 2 documents, 2 requests at a time, 4 in all; 2.5 million | hold |
| `Backup` | complete names, success, dry run, refinement of `BackupSet` | 4 stamps, 2 versions, 2 generations, the clock turned back once; 2.4 million | hold |
| `Registry` | one active row, retirement, migration, import | 2 departments, a user, a device, 2 licences of one product and slug, 2 rows a key, 2 requests at a time, 4 in all; 666 thousand | hold |
| `Catalog` | references, keys, forms, verdicts | 2 vendors, products and aliases, a licence, lists of one vendor, 2 requests at a time, 3 in all; 204 thousand | hold |
| `Directory` | forms, circles, types | 2 departments, users and devices, lists of one user, 2 requests; 49 thousand | hold |
| `Retention` | parents, ages, dry run, convergence | one record of each table, days 1, 2 and 7 of which 7 wraps, one change, one failure; 393 thousand | hold |

Why these bounds are enough to be interesting:

- *LockFile*: the failure needs an unlink between the open and the flock of a
  second process and a third start; slots restart after exit, so two slots give
  any number of processes one after the other, and the third slot is the backup,
  which crosses them. A path can be recreated while an old inode is open; that an
  inode is reused once nobody has it open is what kernels do.
- *Notify*: two rows of one key, two summaries, retries at, under and over the
  limit, and runs that cross midnight all occur; one interruption is enough to
  put a row into every state that the code can leave it in. `RunsApart` says that
  no run starts in the second in which another ended: the checkpoint query
  compares seconds with a strict `>`, and without that assumption
  `GaveUpNotForgotten` does not hold. `OneSummaryADay` is checked for people that
  share no address. The clock, row and interruption bounds stop the model in the
  end, so deadlock is not checked there.
- *Accounts*: two requests are a race; 4 ids allow each user a session before and
  after a login and a rotation on one cookie at once.
- *LicenseStore*: 4 requests, two at once, give a create, an upload, an update
  and a second licence that moves into the place of the first, with failure,
  undoing and crash at each step. A batch that loops is as many requests. The
  two departments' keys compete for `a` and `a_2`, and `b` has no suffix, so a
  request also runs out of candidates.
- *Backup*: with 4 stamps and 2 generations a run prunes one name or two, after a
  failed prune also two at once; a clock turned back makes the new backup the
  oldest name. One change of the database tells an old backup from a new one.
- *Registry*: one key of each table is enough for a duplicate, a revoked row and
  its successor; two departments for a migration with and without conflicts, and
  two licences of one article for the conflict itself. Two requests are a race, and
  four in all a revoked row, its successor and a race on them. The request bound
  stops the model, so deadlock is not checked; the same holds for `Catalog` and
  `Directory`.
- *Catalog*: two products of one key, with and without an edition, two vendors of
  which only one is listed, a type and a default status that only a file knows.
  Files have two lines.
- *Directory*: a circle of two, a retired reference, a user beyond the list, a form
  shown twice, a file with a line that refers to another line.
- *Retention*: one record of each table is enough, as statements go by the table
  and rows by their own age; the one raw installation is a child of the one log.

Symmetry is used in runs that check invariants and action properties only, never
with liveness.

Fairness. `LockFile`: weak fairness of a process's own steps outside the handler,
as no system call of Acquire or Release waits (LOCK_NB); none for the handler,
which may be a server, nor for starts. `Notify`: weak fairness of the steps of a
run, which is sequential code that ends; strong fairness of `StartRetry`, as the
scheduler starts the retry again and again and finds the lock free again and
again. `Retention`: weak fairness of the steps of a run, and strong fairness of a
start that is no dry run, as dry runs may come in between; failures and
interruptions are bounded, as a job that fails every day makes no progress. The
other modules claim no liveness: a request may be abandoned at any point.

## 4. What the violation runs show

1. *Lock files* (`lockfile_unix.go:112`): release unlocks and closes before it
   removes the path. Who opened the file before the removal holds the lock of an
   unlinked inode, and the next start locks a new one: two holders.
2. *Retry twins* (`cmd/notify/runner.go:279`): the retry list is made once; of two
   failed rows of one key the second is sent although the first made it
   superseded.

Weaknesses that the passing runs name as their exceptions:

- *Login against disable* (`auth.go:105`): a login past its password check binds a
  session after the disable deleted the user's sessions
  (`DisabledSessionNeedsRace`).
- *Mutual disable* (`app_users.go:132`): two administrators disable each other
  (`LastAdminFallsToAStaleActor`).
- *Lowered limit* (`notifications.sql:69`): a failed row whose attempts reach a
  limit that was lowered to them is neither retried nor given up
  (`FailedIsSettled`).
- *Overlapping handlers of a licence*: an upload that overlaps an update of its
  licence leaves a row whose path was moved away (`hit` in `StoredPathsHold`); two
  creates at once can share a directory, as `fs_dir_path` has no unique index
  (`rivals` in `DirsApart`); of two regenerations at once the older content may stay
  in `meta.yml` (`behind` in `MetaUpToDate`); a write that fails after its directory
  was renamed and made anew removes the document that has the same name there by
  then (`FilesNeverLost`, reached in the run).
- *Look before write* (`assignments.go:57`, `roles.go:184`, `approvals.go:301`,
  `departments_migrate.go:225`): a request overtaken by a retirement leaves an
  active row under what is retired (`late` in `RetiredGetsNothing`).
- *Clock turned back* (`cmd/backup/runner.go:105`): a new backup that is not the
  newest name may be pruned by its own run, which the final stat then reports as a
  failure (`turned` in `LatestDataStays`, and `SuccessMeansKept`).
- *Last write wins* (`products.go:198`): a form sets back what changed since it was
  opened (`stale` in `FormsKeepTheRest`), and shows, and so saves, another type or
  default status for the ones that only the import accepts (`products.go:107`).
- *Form of a new row shown again* (`departments.go:118`, `users.go:129`): after a
  taken code it loses a reference that was retired meanwhile (`again` in
  `SavesWhatWasMeant`).
- *Circles of departments*: two edits can close a longer one, which
  `docs/plans/pr-c-departments-kind-flute.md:41,54` leaves unchecked on purpose
  (`CirclesNeedEdits`).
- *Huge numbers of days* (`cmd/prune-logs/runner.go:83`): the cutoff wraps to the
  future and young records go (`OnlyExpired`).

Seen while modelling, and not the subject of a run: a licence in `X_2` finds its own
directory occupied when it is saved unchanged, moves to `X_3`, and back the next time
(`documents.go:300`). The duplicate check of notifications goes by kind, channel and
licence without the recipient (`runner.go:111`), so a recipient whose row a crash lost
gets none. The integrity scan (`integrity.go:90`) lists rows first and walks directories
later: its report may be true at no moment. The select of a product's vendor lists the
first 200. Products without an edition do not collide in the unique index, as NULLs
differ, and an import of aliases takes either. The revocation of an approval looks the
active row up when it is posted and so may revoke a newer one than the page showed. A
department import drops the columns `valid_to` and `source_ou` of its file, and codes in
a file may resolve to retired rows. A setting that was spoilt by hand stops every prune
run until it is repaired, which is by design.

## 5. What is proved

The proofs assume only the named assumptions on the constants (`LockFileAssumption`,
`NotifyAssumption`, ...; three theorems name one more as a hypothesis), hold for every number of processes, rows, users, licences,
generations, ids and requests, and are laid out as one lemma per action.

- **LockFile** (last part of **NotifyProofs**: every batch runs under this lock, so
  the module of a batch extends both). Inductive invariant: `LockIInv == LockTypeOK /\
  OneNamePerInode /\ \A p : ProcessInv(p)`. `HoldersHaveFlock` alone is not inductive: what keeps a
  flock is that its descriptor is open, that one inode never serves two names
  (`OneNamePerInode`), and that the position in hand agrees with the step
  (`Progress`, `FlockOwned`). Theorems: `LockTypeCorrect`, `HoldersLocked`,
  `ExclusionUnlessOrphaned`, `BackupExcludesBatches`, `RefusalsAreReal`, and the
  action property `OrphansComeFromRemove`. And, for any number of locks, what
  termination rests on: `NoCallIsStuck` (between two locks there is a next one or an
  end, from the least-number principle) and `CallsComeToAnEnd` (`EachStepNearer`: every
  system call, failed or not, moves its process to a later stage, a later lock, one
  lock less to release, or a later step for the same lock). What `CallsReturn` takes
  from fairness is then only that a process in a call is scheduled.
- **NotifyProofs**. `IInv == TypeOK /\ RunShape /\ RowShape /\ Deliveries /\
  RetriesBounded /\ DuplicateNeedsLapse`: what a run holds at each step, and how
  the count of deliveries follows from a row's status. Theorems: `TypeCorrect`,
  `RetriesStayBounded`, `RecordsStayTrue`, `DuplicatesNeedALapse`, and under
  `RunsApart`, with the invariant `Summaries` on top, `GaveUpStaysKnown`.
  `SummariesStayDaily` (`OneSummaryADay`) needs that no two people share an address
  (`AddressesApart`: the batch counts by person and the table by address) and two
  invariants more. `SummaryDays`: up to its summary a run sees summaries of earlier
  moments only, and from then on those of other days or pairs that it has counted
  and closed. `OwnDays`: no two summaries of one key share a day. `NobodyIsSkipped`
  (`EveryRecipientTried`, an action property): as long as the time that sent rows are
  kept has not passed since the run began (`InTime`), everyone it owes a notice either
  has a row that was tried and that no prune deletes, or is still in its loop or in
  hand (`Owing`).
- **AccountsProofs**. `IInv == TypeOK /\ LoginsOvertaken /\
  DisabledSessionNeedsRace /\ SessionIdsKeepTheirOwner`; `LoginsOvertaken` says
  that a login past its check whose user is disabled was overtaken by that
  disable. Theorems: `TypeCorrect`, `DisabledSessionsComeFromRaces`,
  `SessionIdsStay`, `LastAdminIsGuarded`.
- **LicenseStoreProofs**. Two invariants. `IInv == Typed /\ Apart`: `Typed` adds to
  the types what a request has read by each of its steps (`Sound`). `Apart` adds to
  `DirsApart` that all requests that look for a directory at once are rivals, and
  that a directory claimed by a request in progress, from the look to the write, is
  another licence's only if the two are rivals: without the claims, the insert would
  not preserve `DirsApart`. Theorems: `TypeCorrect` (with the unique index),
  `FilesStay` (action property), `SharingNeedsRivalry`.
  `InPlace == Typed /\ Lawful /\ Overlaps /\ Places /\ Facts` tells tables, directories
  and requests together, and each part needs the ones before it:
  `Lawful`: what kind of request can be at what step, and which renames are undone.
  `Overlaps`: who may be at work on one licence at a time (two updates, or an update
  and an upload, only if it is hit; nobody while it is created; two uploads never of
  one document; a request alone has no company).
  `Places`: where the files of a licence are (`IsHome`): at the row's path, but where
  an update has put them between its rename and its commit or the undoing; updates
  and uploads of a licence that is not hit still know that path (`UpdatesKnow`,
  `UploadsKnow`), and every document is at home (`DocsInPlace`).
  `Facts`: a writer of `meta.yml` that is alone has read what the tables still say,
  and at home `meta.yml` is true once nobody is writing it. Theorems: `KeptInPlace`
  (the invariant), `DocumentsAreFound` (`StoredPathsHold`), `MetaIsTrue`
  (`MetaUpToDate`). So the marks `hit` and `behind` name every way to a lost path or a
  stale `meta.yml`, for any number of requests, with failures, undoing and crashes at
  every step.
- **BackupProofs**. `IInv` adds to the properties what the run has at hand at each
  step (`RunHasFile`), which leftovers it knows of (`LeftoversKnown`), what its plan
  of removals is worth (`PlanHolds`: the oldest names, with enough newer ones left),
  and that names follow data while the clock was not turned back
  (`NamesFollowData`). Theorems: `TypeCorrect`, `NamesAreComplete`,
  `LeftoversBounded`, `DryRunTruth`, `SuccessKept`, `LatestKept`, and `Refinement`:
  the initial state maps to `BackupSet`'s, and each step to one of its actions or a
  stutter, for every number of generations.
- **RegistryProofs**. `IInv == TypeOK /\ ActiveOnce /\ Fresh`: `Fresh` says of every
  request that was not overtaken that what it found is still so; the steps that
  could falsify it are exactly those that set `late`. Theorems: `TypeCorrect`,
  `OneActiveRow`, `SeenRowsRevoked`, `RetiredUntouched`, `ImportsWhatItValidated`,
  `MigrationIsComplete`.
- **CatalogProofs**. `IInv == TypeOK /\ ReferencesHold /\ KeysOnce` and what each
  request `Knows`: a form that is not stale was made from the row that is still there
  and shows it as far as it can (`Fresh`), and the lines of a validated file have
  keys of their own (`Apart`), without which an import would break `KeysOnce`.
  Theorems: `TypeCorrect`, `ReferencesStay`, `KeysStayApart`, the action property
  `SavesKeepTheRest`, and `VerdictsMeetSpec`, which needs no invariant but what a
  division says of days (`DayEnds`). They hold for files and days of any length.
- **RetentionProofs**. `IInv` adds to `TypeOK` and the foreign key that the days a run
  has read were in force since it began (`ReadInForce`, `NowInForce`) and that a run
  that deletes has read all four (`AllRead`). Theorems: `TypeCorrect`,
  `ForeignKeyHolds`, `NothingYoungGoes`, `ForetellsRun`.
- **DirectoryProofs**. `IInv` adds to `TypeOK` what a form knows (`FormKnows`): the row
  it edits is there, as are those it refers to; a post that is about to be written was
  checked; and what it shows is what its user means, but for a reference that the form
  of a new row could not list when it was shown again. No row ever goes, which keeps
  all that a request has read. Theorems: `DirectoryTypes`, `SavesAreMeant`
  (`SavesWhatWasMeant`, an action property) and `OnlyEditsCloseCircles`
  (`CirclesNeedEdits`), for circles of any length: a circle after a step is one from
  before, or consists of new rows, which refer to older rows and earlier lines only.
  Hypotheses: `DirectoryAssumption`, whose conjunct on `Seed` is what the foreign keys
  say of the rows of earlier requests, and for the last `SeedIsOpen`: these rows close
  no circle, because `edited` counts from there on.

The type invariants of LockFile, Notify, LicenseStore, Backup, Registry, Catalog and
Retention are theorems and therefore in no run; those of Accounts and Directory are
checked and proved.

Every safety property of the passing runs is a theorem. Only model-checked is
liveness (`CallsReturn`, `FailedIsSettled`, `ExpiredGoes`): liveness under fairness and
ENABLED are outside what the provers do, as is induction over data. No module declares
a RECURSIVE operator.

## 6. What could come next

1. **Composition**: `LockFile` with a batch, to say which of the batch's properties
   survive the orphaned lock of the first violation run; the two modules can be
   extended together already.
2. **Integrity scan**: the report against the state at some moment of the scan,
   composed with LicenseStore.
3. **Proofs**: what the liveness of Notify and Retention rests on, as `EachStepNearer`
   is for `CallsReturn`: each step of a run brings it nearer to its end.

## 7. Not modelled

CSRF tokens (compared per request, no state), views, exports and audit pages
(read-only; the selects of the forms are modelled where they are posted),
configuration and logging, opening of the database and migrations, the stubs
`import-skysea` and `sync-directory` (they take the lock and report that they do
nothing). Partly modelled: of the account administration the notification address and
the password reset are left out, and of check-integrity its findings, which it only
logs. Validation of forms and file contents, wording and formats appear only as the
guard of an action or the choice of a key. Cutoffs are compared as text in SQL, which
agrees with the order of time for years of four digits and is modelled as that order.

## 8. Running

    tlc -workers 2 -config LicenseStore.cfg MCLicenseStore
    tlapm LicenseStoreProofs.tla

Each run's module and configuration are in `PROJECT.json`.
