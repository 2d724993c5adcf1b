------------------------------- MODULE Backup -------------------------------
(***************************************************************************)
(* The backup batch (src/cmd/backup/runner.go): VACUUM INTO a temporary    *)
(* file, fsync, rename to app-<stamp>.db, removal of old generations, and  *)
(* removal of what an interrupted run left behind.  The batch runs under   *)
(* the global lock, so there is one run at a time (module LockFile).       *)
(*                                                                         *)
(* Any step may fail, the process may be killed between any two, and power *)
(* may fail: then a file that was not synced is damaged, and the directory,*)
(* which the code does not sync, is back at an earlier state (the changes  *)
(* of a directory reach the disk in their order, as on a journaled file    *)
(* system).                                                                *)
(***************************************************************************)
EXTENDS Integers, FiniteSets

CONSTANTS
    MaxStamp,     \* bound: the last second of the model's clock
    MaxVer,       \* bound: how often the database changes
    MaxTurns,     \* bound: how often the clock is turned back
    Generations,  \* backup.generations; 0 keeps all
    None          \* no file

ASSUME BackupAssumption ==
    /\ MaxStamp \in Nat /\ MaxVer \in Nat /\ MaxTurns \in Nat
    /\ Generations \in Nat

Stamp == 0 .. MaxStamp

\* A file holds the database as of one version; "partial" while it is written
\* or after a power loss, "whole" when VACUUM INTO is through, "synced" after
\* fsync.
File == [ver : 0 .. MaxVer, state : {"partial", "whole", "synced"}]

ASSUME NoneIsNoFile == None \notin File

Directory == [db  : [Stamp -> File \cup {None}],
              tmp : [Stamp -> File \cup {None}]]

VARIABLES
    now,       \* local wall clock, in seconds, as the run in progress read it
    turned,    \* history: how often the clock was turned back
    ver,       \* version of the live database
    dir,       \* the output directory: app-<s>.db and app-<s>.db.tmp
    disk,      \* the directory as a power loss would leave it
    pc,        \* where the run is
    since,     \* history: version of the database when the run started
    todo,      \* names that the run has listed and still has to remove
    foretold   \* what a dry run said just before, or None

vars == <<now, turned, ver, dir, disk, pc, since, todo, foretold>>
env == <<now, turned, ver, disk>>

Pending == {"clean", "vacuum", "write", "sync", "rename", "list", "prune", "stat"}

-----------------------------------------------------------------------------
Backups(d) == {s \in Stamp : d.db[s] # None}
Leftovers(d) == {s \in Stamp : d.tmp[s] # None}

\* Variants of PrunePlan with a bug: one too many; the newest instead of the
\* oldest.
PrunePlanOneMore(names) ==
    {s \in names : /\ Generations > 0
                   /\ Cardinality({t \in names : t > s}) >= Generations - 1}
PrunePlanNewest(names) ==
    {s \in names : /\ Generations > 0
                   /\ Cardinality({t \in names : t < s}) >= Generations}

\* The oldest names, all but the last Generations in ascending order.
PrunePlan(names) ==
    {s \in names : /\ Generations > 0
                   /\ Cardinality({t \in names : t > s}) >= Generations}

Oldest(names, s) == s \in names /\ \A t \in names : s <= t

Settled(file) ==
    IF file = None \/ file.state = "synced" THEN file
    ELSE [file EXCEPT !.state = "partial"]

\* What power loss leaves: the directory on the disk, unsynced files damaged.
AfterPowerLoss ==
    [db  |-> [s \in Stamp |-> Settled(disk.db[s])],
     tmp |-> [s \in Stamp |-> Settled(disk.tmp[s])]]

TypeOK ==
    /\ now \in Stamp
    /\ turned \in 0 .. MaxTurns
    /\ ver \in 0 .. MaxVer
    /\ dir \in Directory
    /\ disk \in Directory
    /\ pc \in Pending \cup {"off", "success"}
    /\ since \in 0 .. MaxVer
    /\ todo \in SUBSET Stamp
    /\ foretold \in (SUBSET Stamp) \cup {None}

Empty == [s \in Stamp |-> None]

Init ==
    /\ now = 0
    /\ turned = 0
    /\ ver = 0
    /\ dir = [db |-> Empty, tmp |-> Empty]
    /\ disk = dir
    /\ pc = "off"
    /\ since = 0
    /\ todo = {}
    /\ foretold = None

-----------------------------------------------------------------------------
(* The surroundings.  A run reads the clock once, when it starts: the clock *)
(* that goes on during a run is one that goes on after it.                  *)

Tick ==
    /\ pc = "off"
    /\ now < MaxStamp
    /\ now' = now + 1
    /\ foretold' = None
    /\ UNCHANGED <<turned, ver, dir, disk, pc, since, todo>>

\* The operator, or the end of summer time, turns the local clock back.
TurnBack ==
    /\ pc = "off"
    /\ turned < MaxTurns
    /\ \E s \in Stamp : s < now /\ now' = s
    /\ turned' = turned + 1
    /\ foretold' = None
    /\ UNCHANGED <<ver, dir, disk, pc, since, todo>>

\* The server commits a transaction; it does not wait for the backup.
Write ==
    /\ ver < MaxVer
    /\ ver' = ver + 1
    /\ UNCHANGED <<now, turned, dir, disk, pc, since, todo, foretold>>

\* The kernel writes the directory back.
Flush ==
    /\ disk' = dir
    /\ UNCHANGED <<now, turned, ver, dir, pc, since, todo, foretold>>

-----------------------------------------------------------------------------
(* The run.  Its stamp, and so its dest and tmp, is now.                    *)

End(state) ==
    /\ pc' = state
    /\ todo' = {}
    /\ since' = 0
    /\ foretold' = None

\* A variant with a bug: the run starts without clearing leftovers.
StartUnclean ==
    /\ pc = "off"
    /\ pc' = "vacuum"
    /\ since' = ver
    /\ UNCHANGED <<dir, todo, foretold, env>>

\* The settings are in order; removeStaleTmp lists the leftovers.
Start ==
    /\ pc = "off"
    /\ pc' = "clean"
    /\ since' = ver
    /\ todo' = Leftovers(dir)
    /\ UNCHANGED <<dir, foretold, env>>

\* A variant with a bug: the backup to come is not counted in.
DryRunWithoutDest ==
    /\ pc = "off"
    /\ foretold' = PrunePlan(Backups(dir))
    /\ UNCHANGED <<dir, pc, since, todo, env>>

\* dryRunBackup: what would be removed, the backup to come counted in.
DryRun ==
    /\ pc = "off"
    /\ foretold' = PrunePlan(Backups(dir) \cup {now})
    /\ UNCHANGED <<dir, pc, since, todo, env>>

\* One leftover after the other; then the database is opened.
RemoveStaleTmp ==
    /\ pc = "clean"
    /\ \/ \E s \in todo :
            /\ Oldest(todo, s)
            /\ dir' = [dir EXCEPT !.tmp[s] = None]
            /\ todo' = todo \ {s}
            /\ UNCHANGED pc
       \/ /\ todo = {}
          /\ pc' = "vacuum"
          /\ UNCHANGED <<dir, todo>>
    /\ UNCHANGED <<since, foretold, env>>

\* VACUUM INTO creates its output, which must not exist, and reads a
\* snapshot of the database.
VacuumInto ==
    /\ pc = "vacuum"
    /\ dir.tmp[now] = None
    /\ dir' = [dir EXCEPT !.tmp[now] = [ver |-> ver, state |-> "partial"]]
    /\ pc' = "write"
    /\ UNCHANGED <<since, todo, foretold, env>>

VacuumDone ==
    /\ pc = "write"
    /\ dir' = [dir EXCEPT !.tmp[now].state = "whole"]
    /\ pc' = "sync"
    /\ UNCHANGED <<since, todo, foretold, env>>

\* A variant with a bug: the file is not synced.
SyncFileSkipped ==
    /\ pc = "sync"
    /\ pc' = "rename"
    /\ UNCHANGED <<dir, since, todo, foretold, env>>

SyncFile ==
    /\ pc = "sync"
    /\ dir' = [dir EXCEPT !.tmp[now].state = "synced"]
    /\ pc' = "rename"
    /\ UNCHANGED <<since, todo, foretold, env>>

\* os.Rename replaces a backup of the same second.
Rename ==
    /\ pc = "rename"
    /\ dir' = [dir EXCEPT !.db[now] = dir.tmp[now], !.tmp[now] = None]
    /\ pc' = "list"
    /\ UNCHANGED <<since, todo, foretold, env>>

\* pruneOldBackups lists the directory ...
ListBackups ==
    /\ pc = "list"
    /\ todo' = PrunePlan(Backups(dir))
    /\ pc' = "prune"
    /\ UNCHANGED <<dir, since, foretold, env>>

\* ... and removes one file after the other, the oldest first.
RemoveOldBackup ==
    /\ pc = "prune"
    /\ \/ \E s \in todo :
            /\ Oldest(todo, s)
            /\ dir' = [dir EXCEPT !.db[s] = None]
            /\ todo' = todo \ {s}
            /\ UNCHANGED pc
       \/ /\ todo = {}
          /\ pc' = "stat"
          /\ UNCHANGED <<dir, todo>>
    /\ UNCHANGED <<since, foretold, env>>

\* A variant with a bug: success is reported without a look.
StatDestBlind ==
    /\ pc = "stat"
    /\ pc' = "success"
    /\ UNCHANGED <<dir, since, todo, foretold, env>>

\* The new backup may be gone: with the clock turned back it was not among
\* the newest.
StatDest ==
    /\ pc = "stat"
    /\ dir.db[now] # None
    /\ pc' = "success"
    /\ UNCHANGED <<dir, since, todo, foretold, env>>

Exit ==
    /\ pc = "success"
    /\ End("off")
    /\ UNCHANGED <<dir, env>>

\* A step fails (StatDest too, when the file is not there): the run gives up.
\* While the temporary file is there and not yet renamed the code removes it,
\* and that may fail as well.  A killed process leaves everything as it is.
Fail ==
    /\ pc \in Pending
    /\ \/ UNCHANGED dir
       \/ /\ pc \in {"write", "sync", "rename"}
          /\ dir' = [dir EXCEPT !.tmp[now] = None]
    /\ End("off")
    /\ UNCHANGED env

PowerLoss ==
    /\ dir' = AfterPowerLoss
    /\ disk' = AfterPowerLoss
    /\ End("off")
    /\ UNCHANGED <<now, turned, ver>>

Next ==
    \/ Tick \/ TurnBack \/ Write \/ Flush
    \/ Start \/ DryRun \/ RemoveStaleTmp
    \/ VacuumInto \/ VacuumDone \/ SyncFile \/ Rename
    \/ ListBackups \/ RemoveOldBackup \/ StatDest \/ Exit
    \/ Fail \/ PowerLoss

Spec == Init /\ [][Next]_vars

-----------------------------------------------------------------------------
(* Properties                                                              *)

\* app-*.db is always a finished product: no crash, no failure and no power
\* loss leaves part of a database under the name of a backup.
AlwaysComplete ==
    \A s \in Stamp : /\ dir.db[s] # None => dir.db[s].state = "synced"
                     /\ disk.db[s] # None => disk.db[s].state = "synced"

\* However many runs are cut off, at most one temporary file is left over, and
\* none stands in the way of the VACUUM INTO to come.
OneLeftover ==
    /\ \A s, t \in Leftovers(dir) : s = t
    /\ pc = "vacuum" => Leftovers(dir) = {}

\* While the clock was never turned back, nothing but a power loss takes the
\* latest data away: old generations are told by their names, and the names
\* follow the data.
LatestDataStays ==
    [][turned = 0 /\ ~PowerLoss =>
         \A s \in Backups(dir) : \E t \in Backups(dir)' :
             dir.db[s].ver <= dir'.db[t].ver]_vars

\* A run that reports success leaves its backup in place, and that backup has
\* every change committed before the run started.
SuccessMeansKept ==
    [][pc' = "success" /\ pc # "success" =>
         /\ dir'.db[now] # None
         /\ dir'.db[now].ver >= since]_vars

\* A dry run tells what the run that follows it in the same second removes.
DryRunTellsTruth ==
    pc = "prune" /\ foretold # None => todo \subseteq foretold

\* The directory of complete backups behaves as BackupSet promises.
Promise == INSTANCE BackupSet WITH kept <- Backups(dir), durable <- Backups(disk)

KeepsPromise == Promise!Spec
=============================================================================
