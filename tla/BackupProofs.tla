---------------------------- MODULE BackupProofs ----------------------------
(***************************************************************************)
(* Safety of Backup, and that it implements BackupSet, for every clock,    *)
(* number of generations and number of changes of the database.            *)
(***************************************************************************)
EXTENDS Backup, FiniteSetTheorems, TLAPS

\* What the run has at hand at each of its steps.
RunHasFile ==
    /\ pc \in {"write", "sync", "rename"} => dir.tmp[now] # None
    /\ pc = "rename" => dir.tmp[now].state = "synced"

\* At most one leftover, which the run is about to remove, or its own file.
LeftoversKnown ==
    /\ \A s, t \in Leftovers(dir) : s = t
    /\ \A s, t \in Leftovers(disk) : s = t
    /\ pc = "clean" => Leftovers(dir) \subseteq todo
    /\ pc = "vacuum" => Leftovers(dir) = {}
    /\ pc \in {"write", "sync", "rename"} => Leftovers(dir) \subseteq {now}

\* The names that are to be removed are the oldest that there are, and each
\* has enough newer ones.
PlanHolds ==
    pc = "prune" =>
        /\ todo \subseteq Backups(dir)
        /\ \A s \in todo :
             /\ Generations > 0
             /\ Cardinality({t \in Backups(dir) : t > s}) >= Generations
             /\ \A t \in Backups(dir) : t < s => t \in todo

\* No file is from the future, and the run's file is not from before its start.
VersionsBounded ==
    /\ since <= ver
    /\ \A s \in Stamp : /\ dir.db[s] # None => dir.db[s].ver <= ver
                        /\ disk.db[s] # None => disk.db[s].ver <= ver
                        /\ dir.tmp[s] # None => dir.tmp[s].ver <= ver
                        /\ disk.tmp[s] # None => disk.tmp[s].ver <= ver
    /\ pc \in {"write", "sync", "rename"} => dir.tmp[now].ver >= since
    /\ pc \in {"list", "prune", "stat"} /\ dir.db[now] # None
         => dir.db[now].ver >= since

\* While the clock was never turned back a later name holds later data.
Follows(d) ==
    /\ \A s \in Backups(d) : s <= now
    /\ \A s, t \in Backups(d) : s < t => d.db[s].ver <= d.db[t].ver

NamesFollowData ==
    turned = 0 =>
        /\ Follows(dir)
        /\ Follows(disk)
        /\ pc \in {"write", "sync", "rename"} =>
             \A s \in Backups(dir) : dir.db[s].ver <= dir.tmp[now].ver

\* The forecast is about the names that will be there.
ForecastHolds ==
    foretold # None =>
        /\ pc \in {"off", "clean", "vacuum", "write", "sync", "rename"} =>
             foretold = PrunePlan(Backups(dir) \cup {now})
        /\ pc = "list" => foretold = PrunePlan(Backups(dir))
        /\ pc = "prune" => todo \subseteq foretold

IInv ==
    /\ TypeOK
    /\ AlwaysComplete
    /\ RunHasFile
    /\ LeftoversKnown
    /\ PlanHolds
    /\ VersionsBounded
    /\ NamesFollowData
    /\ ForecastHolds
-----------------------------------------------------------------------------
(* The parts of the invariant, one after the other.                        *)

LEMMA DirectoryParts ==
  ASSUME NEW d \in Directory
  PROVE  /\ d = [db |-> d.db, tmp |-> d.tmp]
         /\ \A s \in Stamp : /\ d.db[s] \in File \cup {None}
                            /\ d.tmp[s] \in File \cup {None}
BY DEF Directory

LEMMA StampsAreNumbers ==
  /\ Stamp \subseteq Int
  /\ 0 \in Stamp
  /\ \A s \in Stamp : s < MaxStamp => s + 1 \in Stamp
BY BackupAssumption DEF Stamp

\* A power loss leaves a directory, and no file that was not on the disk.
LEMMA PowerLossLeaves ==
  ASSUME disk \in Directory
  PROVE  /\ AfterPowerLoss \in Directory
         /\ Backups(AfterPowerLoss) = Backups(disk)
         /\ Leftovers(AfterPowerLoss) = Leftovers(disk)
         /\ \A s \in Stamp :
              /\ disk.db[s] # None =>
                   AfterPowerLoss.db[s].ver = disk.db[s].ver
              /\ disk.tmp[s] # None =>
                   AfterPowerLoss.tmp[s].ver = disk.tmp[s].ver
              /\ disk.db[s] # None /\ disk.db[s].state = "synced" =>
                   AfterPowerLoss.db[s] = disk.db[s]
<1>1. \A f \in File \cup {None} :
        /\ Settled(f) \in File \cup {None}
        /\ Settled(f) = None <=> f = None
        /\ f # None => Settled(f).ver = f.ver
        /\ f # None /\ f.state = "synced" => Settled(f) = f
  BY NoneIsNoFile DEF Settled, File
<1>2. \A s \in Stamp : /\ AfterPowerLoss.db[s] = Settled(disk.db[s])
                       /\ AfterPowerLoss.tmp[s] = Settled(disk.tmp[s])
  BY DEF AfterPowerLoss
<1>3. AfterPowerLoss \in Directory
  BY <1>1, DirectoryParts DEF AfterPowerLoss, Directory
<1>4. QED
  BY <1>1, <1>2, <1>3, DirectoryParts DEF Backups, Leftovers

LEMMA ZeroIsVersion == 0 \in 0 .. MaxVer /\ {} \in SUBSET Stamp
BY BackupAssumption

LEMMA TypeStep ==
  ASSUME TypeOK, RunHasFile, [Next]_vars
  PROVE  TypeOK'
<1>1. CASE Tick
  BY <1>1, StampsAreNumbers DEF Tick, TypeOK
<1>2. CASE TurnBack
  BY <1>2, BackupAssumption, StampsAreNumbers DEF TurnBack, TypeOK
<1>3. CASE Write
  BY <1>3, BackupAssumption DEF Write, TypeOK
<1>4. CASE Flush
  BY <1>4 DEF Flush, TypeOK
<1>5. CASE Start
  BY <1>5 DEF Start, env, Leftovers, Pending, TypeOK
<1>6. CASE DryRun
  BY <1>6 DEF DryRun, env, PrunePlan, Backups, TypeOK
<1>7. CASE RemoveStaleTmp
  BY <1>7 DEF RemoveStaleTmp, env, File, Directory, Pending, TypeOK
<1>8. CASE VacuumInto
  BY <1>8 DEF VacuumInto, env, File, Directory, Pending, TypeOK
<1>9. CASE VacuumDone
  BY <1>9 DEF VacuumDone, env, File, Directory, RunHasFile, Pending, TypeOK
<1>10. CASE SyncFile
  BY <1>10 DEF SyncFile, env, File, Directory, RunHasFile, Pending, TypeOK
<1>11. CASE Rename
  BY <1>11 DEF Rename, env, Directory, Pending, TypeOK
<1>12. CASE ListBackups
  BY <1>12 DEF ListBackups, env, PrunePlan, Backups, Pending, TypeOK
<1>13. CASE RemoveOldBackup
  BY <1>13 DEF RemoveOldBackup, env, Directory, Pending, TypeOK
<1>14. CASE StatDest
  BY <1>14 DEF StatDest, env, TypeOK
<1>15. CASE Exit
  BY <1>15, ZeroIsVersion DEF Exit, env, End, TypeOK
<1>16. CASE Fail
  BY <1>16, ZeroIsVersion DEF Fail, env, End, Pending, Directory, TypeOK
<1>17. CASE PowerLoss
  BY <1>17, ZeroIsVersion, PowerLossLeaves DEF PowerLoss, End, TypeOK
<1>18. CASE UNCHANGED vars
  BY <1>18 DEF vars, TypeOK
<1>19. QED
  BY <1>1, <1>2, <1>3, <1>4, <1>5, <1>6, <1>7, <1>8, <1>9, <1>10, <1>11, <1>12, <1>13, <1>14, <1>15, <1>16, <1>17, <1>18
     DEF Next

LEMMA VacuumedIsFile ==
  \A v \in 0 .. MaxVer, x \in {"partial", "whole", "synced"} :
    [ver |-> v, state |-> x] \in File /\ [ver |-> v, state |-> x] # None
BY NoneIsNoFile DEF File

LEMMA CompleteStep ==
  ASSUME TypeOK, AlwaysComplete, RunHasFile, [Next]_vars
  PROVE  (AlwaysComplete /\ RunHasFile)'
<1>1. CASE Tick
  BY <1>1 DEF Tick, TypeOK, AlwaysComplete, RunHasFile
<1>2. CASE TurnBack
  BY <1>2 DEF TurnBack, TypeOK, AlwaysComplete, RunHasFile
<1>3. CASE Write
  BY <1>3 DEF Write, TypeOK, AlwaysComplete, RunHasFile
<1>4. CASE Flush
  BY <1>4 DEF Flush, TypeOK, AlwaysComplete, RunHasFile
<1>5. CASE Start
  BY <1>5 DEF Start, env, TypeOK, AlwaysComplete, RunHasFile
<1>6. CASE DryRun
  BY <1>6 DEF DryRun, env, TypeOK, AlwaysComplete, RunHasFile
<1>7. CASE RemoveStaleTmp
  BY <1>7
     DEF RemoveStaleTmp, env, File, Directory, TypeOK, AlwaysComplete, RunHasFile
<1>8. CASE VacuumInto
  BY <1>8, VacuumedIsFile, StampsAreNumbers
     DEF VacuumInto, env, File, Directory, TypeOK, AlwaysComplete, RunHasFile
<1>9. CASE VacuumDone
  BY <1>9, NoneIsNoFile
     DEF VacuumDone, env, File, Directory, TypeOK, AlwaysComplete, RunHasFile
<1>10. CASE SyncFile
  BY <1>10, NoneIsNoFile
     DEF SyncFile, env, File, Directory, TypeOK, AlwaysComplete, RunHasFile
<1>11. CASE Rename
  BY <1>11 DEF Rename, env, File, Directory, TypeOK, AlwaysComplete, RunHasFile
<1>12. CASE ListBackups
  BY <1>12 DEF ListBackups, env, TypeOK, AlwaysComplete, RunHasFile
<1>13. CASE RemoveOldBackup
  BY <1>13
     DEF RemoveOldBackup, env, File, Directory, TypeOK, AlwaysComplete, RunHasFile
<1>14. CASE StatDest
  BY <1>14 DEF StatDest, env, TypeOK, AlwaysComplete, RunHasFile
<1>15. CASE Exit
  BY <1>15 DEF Exit, env, End, TypeOK, AlwaysComplete, RunHasFile
<1>16. CASE Fail
  BY <1>16
     DEF Fail, env, End, Pending, File, Directory, TypeOK, AlwaysComplete, RunHasFile
<1>17. CASE PowerLoss
  BY <1>17, PowerLossLeaves
     DEF PowerLoss, End, Backups, TypeOK, AlwaysComplete, RunHasFile
<1>18. CASE UNCHANGED vars
  BY <1>18 DEF vars, TypeOK, AlwaysComplete, RunHasFile
<1>19. QED
  BY <1>1, <1>2, <1>3, <1>4, <1>5, <1>6, <1>7, <1>8, <1>9, <1>10, <1>11, <1>12, <1>13, <1>14, <1>15, <1>16, <1>17, <1>18
     DEF Next

LEMMA LeftoversStep ==
  ASSUME TypeOK, LeftoversKnown, [Next]_vars
  PROVE  LeftoversKnown'
<1>1. CASE Tick
  BY <1>1 DEF Tick, TypeOK, LeftoversKnown, Leftovers
<1>2. CASE TurnBack
  BY <1>2 DEF TurnBack, TypeOK, LeftoversKnown, Leftovers
<1>3. CASE Write
  BY <1>3 DEF Write, TypeOK, LeftoversKnown, Leftovers
<1>4. CASE Flush
  BY <1>4 DEF Flush, TypeOK, LeftoversKnown, Leftovers
<1>5. CASE Start
  BY <1>5 DEF Start, env, TypeOK, LeftoversKnown, Leftovers
<1>6. CASE DryRun
  BY <1>6 DEF DryRun, env, TypeOK, LeftoversKnown, Leftovers
<1>7. CASE RemoveStaleTmp
  BY <1>7
     DEF RemoveStaleTmp, env, File, Directory, Oldest, TypeOK, LeftoversKnown, Leftovers
<1>8. CASE VacuumInto
  BY <1>8
     DEF VacuumInto, env, File, Directory, Oldest, TypeOK, LeftoversKnown, Leftovers
<1>9. CASE VacuumDone
  BY <1>9
     DEF VacuumDone, env, File, Directory, Oldest, TypeOK, LeftoversKnown, Leftovers
<1>10. CASE SyncFile
  BY <1>10
     DEF SyncFile, env, File, Directory, Oldest, TypeOK, LeftoversKnown, Leftovers
<1>11. CASE Rename
  BY <1>11
     DEF Rename, env, File, Directory, Oldest, TypeOK, LeftoversKnown, Leftovers
<1>12. CASE ListBackups
  BY <1>12 DEF ListBackups, env, TypeOK, LeftoversKnown, Leftovers
<1>13. CASE RemoveOldBackup
  BY <1>13
     DEF RemoveOldBackup, env, File, Directory, Oldest, TypeOK, LeftoversKnown, Leftovers
<1>14. CASE StatDest
  BY <1>14 DEF StatDest, env, TypeOK, LeftoversKnown, Leftovers
<1>15. CASE Exit
  BY <1>15 DEF Exit, env, End, TypeOK, LeftoversKnown, Leftovers
<1>16. CASE Fail
  BY <1>16
     DEF Fail, env, End, Pending, File, Directory, Oldest, TypeOK, LeftoversKnown, Leftovers
<1>17. CASE PowerLoss
  BY <1>17, PowerLossLeaves
     DEF PowerLoss, End, TypeOK, LeftoversKnown, Leftovers
<1>18. CASE UNCHANGED vars
  BY <1>18 DEF vars, TypeOK, LeftoversKnown, Leftovers
<1>19. QED
  BY <1>1, <1>2, <1>3, <1>4, <1>5, <1>6, <1>7, <1>8, <1>9, <1>10, <1>11, <1>12, <1>13, <1>14, <1>15, <1>16, <1>17, <1>18
     DEF Next

\* What PrunePlan takes is downward closed, and leaves enough.
LEMMA PlanIsOldest ==
  ASSUME NEW names \in SUBSET Stamp
  PROVE  /\ PrunePlan(names) \subseteq names
         /\ \A s \in PrunePlan(names) :
              /\ Generations > 0
              /\ Cardinality({t \in names : t > s}) >= Generations
              /\ \A t \in names : t < s => t \in PrunePlan(names)
<1>1. ASSUME NEW s \in PrunePlan(names), NEW t \in names, t < s
      PROVE  t \in PrunePlan(names)
  <2>1. /\ IsFiniteSet(names)
        /\ \A r \in names : IsFiniteSet({u \in names : u > r})
    <3>1. IsFiniteSet(Stamp)
      BY FS_Interval, BackupAssumption DEF Stamp
    <3>2. IsFiniteSet(names)
      BY <3>1, FS_Subset
    <3>3. QED
      BY <3>2, FS_Subset
  <2>2. {u \in names : u > s} \subseteq {u \in names : u > t}
    <3>1. /\ s \in Int /\ t \in Int
          /\ \A u \in names : u \in Int
      BY <1>1, StampsAreNumbers DEF PrunePlan
    <3>2. \A u \in names : u > s => u > t
      BY <1>1, <3>1
    <3>3. QED
      BY <3>2
  <2>3. /\ Cardinality({u \in names : u > s})
             <= Cardinality({u \in names : u > t})
        /\ Cardinality({u \in names : u > s}) \in Nat
        /\ Cardinality({u \in names : u > t}) \in Nat
    BY <1>1, <2>1, <2>2, FS_Subset, FS_CardinalityType DEF PrunePlan
  <2>4. QED
    BY <1>1, <2>3, BackupAssumption DEF PrunePlan
<1>2. QED
  BY <1>1 DEF PrunePlan

LEMMA ListedPlan ==
  ASSUME TypeOK, ListBackups
  PROVE  PlanHolds'
<1>1. Backups(dir) \in SUBSET Stamp /\ Backups(dir)' = Backups(dir)
  BY DEF Backups, ListBackups
<1>2. QED
  BY <1>1, PlanIsOldest DEF ListBackups, PlanHolds

\* The oldest of the plan goes; what is newer than the rest stays.
LEMMA RemovalKeepsPlan ==
  ASSUME TypeOK, PlanHolds, RemoveOldBackup
  PROVE  PlanHolds'
<1>1. CASE todo = {}
  BY <1>1 DEF RemoveOldBackup, PlanHolds, Oldest
<1>2. ASSUME NEW s \in todo, Oldest(todo, s),
             dir' = [dir EXCEPT !.db[s] = None],
             todo' = todo \ {s}, pc' = pc
      PROVE  PlanHolds'
  <2>1. Backups(dir)' = Backups(dir) \ {s}
    BY <1>2 DEF TypeOK, Directory, Backups
  <2>2. ASSUME NEW r \in todo'
        PROVE  {t \in Backups(dir)' : t > r} = {t \in Backups(dir) : t > r}
    BY <1>2, <2>1, <2>2, StampsAreNumbers DEF Oldest, TypeOK, Backups
  <2>3. QED
    BY <1>2, <2>1, <2>2 DEF RemoveOldBackup, PlanHolds
<1>3. QED
  BY <1>1, <1>2 DEF RemoveOldBackup

LEMMA PlanStep ==
  ASSUME TypeOK, PlanHolds, [Next]_vars
  PROVE  PlanHolds'
<1>1. CASE Tick
  BY <1>1 DEF Tick, TypeOK, PlanHolds, Backups
<1>2. CASE TurnBack
  BY <1>2 DEF TurnBack, TypeOK, PlanHolds, Backups
<1>3. CASE Write
  BY <1>3 DEF Write, TypeOK, PlanHolds, Backups
<1>4. CASE Flush
  BY <1>4 DEF Flush, TypeOK, PlanHolds, Backups
<1>5. CASE Start
  BY <1>5 DEF Start, env, TypeOK, PlanHolds, Backups
<1>6. CASE DryRun
  BY <1>6 DEF DryRun, env, TypeOK, PlanHolds, Backups
<1>7. CASE RemoveStaleTmp
  BY <1>7 DEF RemoveStaleTmp, env, TypeOK, PlanHolds, Backups
<1>8. CASE VacuumInto
  BY <1>8 DEF VacuumInto, env, TypeOK, PlanHolds, Backups
<1>9. CASE VacuumDone
  BY <1>9 DEF VacuumDone, env, TypeOK, PlanHolds, Backups
<1>10. CASE SyncFile
  BY <1>10 DEF SyncFile, env, TypeOK, PlanHolds, Backups
<1>11. CASE Rename
  BY <1>11 DEF Rename, env, TypeOK, PlanHolds, Backups
<1>12. CASE ListBackups
  BY <1>12, ListedPlan DEF ListBackups, env, TypeOK, PlanHolds, Backups
<1>13. CASE RemoveOldBackup
  BY <1>13, RemovalKeepsPlan
     DEF RemoveOldBackup, env, TypeOK, PlanHolds, Backups
<1>14. CASE StatDest
  BY <1>14 DEF StatDest, env, TypeOK, PlanHolds, Backups
<1>15. CASE Exit
  BY <1>15 DEF Exit, env, End, TypeOK, PlanHolds, Backups
<1>16. CASE Fail
  BY <1>16 DEF Fail, env, End, Pending, TypeOK, PlanHolds, Backups
<1>17. CASE PowerLoss
  BY <1>17 DEF PowerLoss, End, TypeOK, PlanHolds, Backups
<1>18. CASE UNCHANGED vars
  BY <1>18 DEF vars, TypeOK, PlanHolds, Backups
<1>19. QED
  BY <1>1, <1>2, <1>3, <1>4, <1>5, <1>6, <1>7, <1>8, <1>9, <1>10, <1>11, <1>12, <1>13, <1>14, <1>15, <1>16, <1>17, <1>18
     DEF Next

LEMMA VersionsStep ==
  ASSUME TypeOK, RunHasFile, VersionsBounded, [Next]_vars
  PROVE  VersionsBounded'
<1>1. CASE Tick
  BY <1>1 DEF Tick, TypeOK, VersionsBounded
<1>2. CASE TurnBack
  BY <1>2 DEF TurnBack, TypeOK, VersionsBounded
<1>3. CASE Write
  BY <1>3, BackupAssumption DEF Write, File, Directory, TypeOK, VersionsBounded
<1>4. CASE Flush
  BY <1>4 DEF Flush, File, Directory, TypeOK, VersionsBounded
<1>5. CASE Start
  BY <1>5 DEF Start, env, TypeOK, VersionsBounded
<1>6. CASE DryRun
  BY <1>6 DEF DryRun, env, TypeOK, VersionsBounded
<1>7. CASE RemoveStaleTmp
  BY <1>7
     DEF RemoveStaleTmp, env, File, Directory, RunHasFile, Oldest, Pending, TypeOK, VersionsBounded
<1>8. CASE VacuumInto
  BY <1>8
     DEF VacuumInto, env, File, Directory, RunHasFile, Oldest, Pending, TypeOK, VersionsBounded
<1>9. CASE VacuumDone
  BY <1>9
     DEF VacuumDone, env, File, Directory, RunHasFile, Oldest, Pending, TypeOK, VersionsBounded
<1>10. CASE SyncFile
  BY <1>10
     DEF SyncFile, env, File, Directory, RunHasFile, Oldest, Pending, TypeOK, VersionsBounded
<1>11. CASE Rename
  BY <1>11
     DEF Rename, env, File, Directory, RunHasFile, Oldest, Pending, TypeOK, VersionsBounded
<1>12. CASE ListBackups
  BY <1>12 DEF ListBackups, env, TypeOK, VersionsBounded
<1>13. CASE RemoveOldBackup
  BY <1>13
     DEF RemoveOldBackup, env, File, Directory, RunHasFile, Oldest, Pending, TypeOK, VersionsBounded
<1>14. CASE StatDest
  BY <1>14 DEF StatDest, env, TypeOK, VersionsBounded
<1>15. CASE Exit
  BY <1>15 DEF Exit, env, End, File, Directory, TypeOK, VersionsBounded
<1>16. CASE Fail
  BY <1>16
     DEF Fail, env, End, Pending, File, Directory, RunHasFile, Oldest, TypeOK, VersionsBounded
<1>17. CASE PowerLoss
  BY <1>17, PowerLossLeaves
     DEF PowerLoss, End, Backups, Leftovers, Directory, File, TypeOK, VersionsBounded
<1>18. CASE UNCHANGED vars
  BY <1>18 DEF vars, TypeOK, VersionsBounded
<1>19. QED
  BY <1>1, <1>2, <1>3, <1>4, <1>5, <1>6, <1>7, <1>8, <1>9, <1>10, <1>11, <1>12, <1>13, <1>14, <1>15, <1>16, <1>17, <1>18
     DEF Next

LEMMA RenameFollows ==
  ASSUME TypeOK, RunHasFile, NamesFollowData, Rename
  PROVE  NamesFollowData'
<1>1. /\ now \in Stamp
      /\ dir.tmp[now] \in File \cup {None}
      /\ dir.tmp[now] # None
      /\ dir'.db = [dir.db EXCEPT ![now] = dir.tmp[now]]
      /\ dir'.db[now] = dir.tmp[now]
      /\ \A s \in Stamp \ {now} : dir'.db[s] = dir.db[s]
  BY DEF Rename, TypeOK, RunHasFile, Directory
<1>2. Backups(dir)' = Backups(dir) \cup {now}
  BY <1>1 DEF Backups
<1>3. SUFFICES ASSUME turned = 0
               PROVE  Follows(dir)' /\ Follows(disk)'
  BY DEF Rename, env, NamesFollowData
<1>4. Follows(disk)'
  BY <1>3 DEF Rename, env, NamesFollowData, Follows, Backups
<1>5. \A s \in Backups(dir)' : s <= now'
  BY <1>2, <1>3, StampsAreNumbers, <1>1
     DEF Rename, env, NamesFollowData, Follows
<1>6. ASSUME NEW s \in Backups(dir)', NEW r \in Backups(dir)', s < r
      PROVE  dir'.db[s].ver <= dir'.db[r].ver
  <2>1. s \in Backups(dir) /\ s # now /\ s \in Stamp
    BY <1>1, <1>2, <1>3, <1>6, StampsAreNumbers
       DEF NamesFollowData, Follows, Backups
  <2>2. CASE r = now
    BY <1>1, <1>3, <2>1, <2>2 DEF Rename, NamesFollowData
  <2>3. CASE r # now
    BY <1>1, <1>2, <1>3, <1>6, <2>1, <2>3
       DEF NamesFollowData, Follows, Backups
  <2>4. QED
    BY <2>2, <2>3
<1>7. QED
  BY <1>4, <1>5, <1>6 DEF Follows

LEMMA PowerLossFollows ==
  ASSUME TypeOK, NamesFollowData, PowerLoss
  PROVE  NamesFollowData'
<1>1. /\ Backups(dir)' = Backups(disk)
      /\ Backups(disk)' = Backups(disk)
      /\ \A s \in Backups(disk) : /\ dir'.db[s].ver = disk.db[s].ver
                                 /\ disk'.db[s].ver = disk.db[s].ver
  BY PowerLossLeaves DEF PowerLoss, TypeOK, Backups
<1>2. QED
  BY <1>1 DEF PowerLoss, End, NamesFollowData, Follows

LEMMA NamesStep ==
  ASSUME TypeOK, RunHasFile, VersionsBounded, NamesFollowData, [Next]_vars
  PROVE  NamesFollowData'
<1>1. CASE Tick
  BY <1>1, StampsAreNumbers DEF Tick, Backups, TypeOK, NamesFollowData, Follows
<1>2. CASE TurnBack
  BY <1>2, BackupAssumption DEF TurnBack, TypeOK, NamesFollowData, Follows
<1>3. CASE Write
  BY <1>3 DEF Write, TypeOK, NamesFollowData, Follows
<1>4. CASE Flush
  BY <1>4 DEF Flush, TypeOK, NamesFollowData, Follows
<1>5. CASE Start
  BY <1>5 DEF Start, env, TypeOK, NamesFollowData, Follows
<1>6. CASE DryRun
  BY <1>6 DEF DryRun, env, TypeOK, NamesFollowData, Follows
<1>7. CASE RemoveStaleTmp
  BY <1>7
     DEF RemoveStaleTmp, env, File, Directory, Backups, RunHasFile, VersionsBounded, TypeOK, NamesFollowData, Follows
<1>8. CASE VacuumInto
  BY <1>8, StampsAreNumbers
     DEF VacuumInto, env, File, Directory, Backups, RunHasFile, VersionsBounded, TypeOK, NamesFollowData, Follows
<1>9. CASE VacuumDone
  BY <1>9
     DEF VacuumDone, env, File, Directory, Backups, RunHasFile, VersionsBounded, TypeOK, NamesFollowData, Follows
<1>10. CASE SyncFile
  BY <1>10
     DEF SyncFile, env, File, Directory, Backups, RunHasFile, VersionsBounded, TypeOK, NamesFollowData, Follows
<1>11. CASE Rename
  BY <1>11, RenameFollows DEF Rename, env, TypeOK, NamesFollowData, Follows
<1>12. CASE ListBackups
  BY <1>12 DEF ListBackups, env, TypeOK, NamesFollowData, Follows
<1>13. CASE RemoveOldBackup
  BY <1>13
     DEF RemoveOldBackup, env, File, Directory, Backups, RunHasFile, VersionsBounded, TypeOK, NamesFollowData, Follows
<1>14. CASE StatDest
  BY <1>14 DEF StatDest, env, TypeOK, NamesFollowData, Follows
<1>15. CASE Exit
  BY <1>15 DEF Exit, env, End, TypeOK, NamesFollowData, Follows
<1>16. CASE Fail
  BY <1>16
     DEF Fail, env, End, Pending, File, Directory, Backups, RunHasFile, VersionsBounded, TypeOK, NamesFollowData, Follows
<1>17. CASE PowerLoss
  BY <1>17, PowerLossFollows
     DEF PowerLoss, End, TypeOK, NamesFollowData, Follows
<1>18. CASE UNCHANGED vars
  BY <1>18 DEF vars, TypeOK, NamesFollowData, Follows
<1>19. QED
  BY <1>1, <1>2, <1>3, <1>4, <1>5, <1>6, <1>7, <1>8, <1>9, <1>10, <1>11, <1>12, <1>13, <1>14, <1>15, <1>16, <1>17, <1>18
     DEF Next

LEMMA RenameAddsName ==
  ASSUME TypeOK, RunHasFile, Rename
  PROVE  Backups(dir)' = Backups(dir) \cup {now}
BY DEF TypeOK, RunHasFile, Directory, Rename, Backups

LEMMA ForecastStep ==
  ASSUME TypeOK, RunHasFile, ForecastHolds, [Next]_vars
  PROVE  ForecastHolds'
<1>1. CASE Tick
  BY <1>1 DEF Tick, TypeOK, ForecastHolds
<1>2. CASE TurnBack
  BY <1>2 DEF TurnBack, TypeOK, ForecastHolds
<1>3. CASE Write
  BY <1>3 DEF Write, TypeOK, ForecastHolds
<1>4. CASE Flush
  BY <1>4 DEF Flush, TypeOK, ForecastHolds
<1>5. CASE Start
  BY <1>5 DEF Start, env, TypeOK, ForecastHolds
<1>6. CASE DryRun
  BY <1>6 DEF DryRun, env, TypeOK, ForecastHolds
<1>7. CASE RemoveStaleTmp
  BY <1>7 DEF RemoveStaleTmp, env, Directory, Backups, TypeOK, ForecastHolds
<1>8. CASE VacuumInto
  BY <1>8, StampsAreNumbers
     DEF VacuumInto, env, Directory, Backups, TypeOK, ForecastHolds
<1>9. CASE VacuumDone
  BY <1>9 DEF VacuumDone, env, Directory, Backups, TypeOK, ForecastHolds
<1>10. CASE SyncFile
  BY <1>10 DEF SyncFile, env, Directory, Backups, TypeOK, ForecastHolds
<1>11. CASE Rename
  BY <1>11, RenameAddsName
     DEF Rename, env, Directory, Backups, TypeOK, ForecastHolds
<1>12. CASE ListBackups
  BY <1>12 DEF ListBackups, env, TypeOK, ForecastHolds
<1>13. CASE RemoveOldBackup
  BY <1>13 DEF RemoveOldBackup, env, Directory, Backups, TypeOK, ForecastHolds
<1>14. CASE StatDest
  BY <1>14 DEF StatDest, env, TypeOK, ForecastHolds
<1>15. CASE Exit
  BY <1>15 DEF Exit, env, End, TypeOK, ForecastHolds
<1>16. CASE Fail
  BY <1>16
     DEF Fail, env, End, Pending, Directory, Backups, TypeOK, ForecastHolds
<1>17. CASE PowerLoss
  BY <1>17 DEF PowerLoss, End, TypeOK, ForecastHolds
<1>18. CASE UNCHANGED vars
  BY <1>18 DEF vars, TypeOK, ForecastHolds
<1>19. QED
  BY <1>1, <1>2, <1>3, <1>4, <1>5, <1>6, <1>7, <1>8, <1>9, <1>10, <1>11, <1>12, <1>13, <1>14, <1>15, <1>16, <1>17, <1>18
     DEF Next

-----------------------------------------------------------------------------
LEMMA InitInvariant == Init => IInv
<1>1. ASSUME Init PROVE TypeOK
  BY <1>1, BackupAssumption
     DEF Init, TypeOK, Empty, Directory, Stamp, Pending
<1>2. ASSUME Init
      PROVE  Backups(dir) = {} /\ Leftovers(dir) = {} /\ disk = dir
  BY <1>2 DEF Init, Empty, Backups, Leftovers
<1>3. QED
  BY <1>1, <1>2
     DEF Init, IInv, AlwaysComplete, RunHasFile, LeftoversKnown, PlanHolds,
         VersionsBounded, NamesFollowData, Follows, ForecastHolds, Empty

LEMMA StepInvariant == IInv /\ [Next]_vars => IInv'
BY TypeStep, CompleteStep, LeftoversStep, PlanStep, VersionsStep, NamesStep,
   ForecastStep
   DEF IInv

\* The inductive invariant, in every reachable state.
THEOREM Invariance == Spec => []IInv
<1>1. QED
  BY InitInvariant, StepInvariant, PTL DEF Spec

\* The type invariant of the directory, the disk, the database and the run.
THEOREM TypeCorrect == Spec => []TypeOK
<1>1. IInv => TypeOK
  BY DEF IInv
<1>2. QED
  BY <1>1, Invariance, PTL

\* The name app-*.db stands for a finished backup at all times, also for the
\* directory that a power loss would leave.
THEOREM NamesAreComplete == Spec => []AlwaysComplete
<1>1. IInv => AlwaysComplete
  BY DEF IInv
<1>2. QED
  BY <1>1, Invariance, PTL

\* Cut off runs never leave more than one temporary file, and none when
\* VACUUM INTO needs its name.
THEOREM LeftoversBounded == Spec => []OneLeftover
<1>1. IInv => OneLeftover
  BY DEF IInv, LeftoversKnown, OneLeftover
<1>2. QED
  BY <1>1, Invariance, PTL

\* A dry run foretells the removals of the run that follows it.
THEOREM DryRunTruth == Spec => []DryRunTellsTruth
<1>1. IInv => DryRunTellsTruth
  BY DEF IInv, ForecastHolds, DryRunTellsTruth
<1>2. QED
  BY <1>1, Invariance, PTL

\* A run that reports success has its backup in place, with everything
\* committed before it started.
THEOREM SuccessKept == Spec => SuccessMeansKept
<1>1. ASSUME IInv, [Next]_vars, pc' = "success", pc # "success"
      PROVE  dir'.db[now] # None /\ dir'.db[now].ver >= since
  <2>1. StatDest
    BY <1>1 DEF Next, vars, Tick, TurnBack, Write, Flush, Start, DryRun,
       RemoveStaleTmp, VacuumInto, VacuumDone, SyncFile, Rename, ListBackups,
       RemoveOldBackup, Exit, Fail, PowerLoss, End
  <2>2. QED
    BY <1>1, <2>1 DEF StatDest, IInv, VersionsBounded
<1>2. IInv /\ [Next]_vars =>
        (pc' = "success" /\ pc # "success" =>
           dir'.db[now] # None /\ dir'.db[now].ver >= since)
  BY <1>1
<1>3. QED
  BY <1>2, Invariance, PTL DEF Spec, SuccessMeansKept

-----------------------------------------------------------------------------
(* The latest data, and the refinement of BackupSet.                       *)

\* Removing the oldest name leaves a newer one.
LEMMA RemovalLeavesNewer ==
  ASSUME PlanHolds, pc = "prune", NEW s \in todo
  PROVE  \E t \in Backups(dir) : t > s
<1>1. SUFFICES ASSUME \A t \in Backups(dir) : ~(t > s)
               PROVE  FALSE
  OBVIOUS
<1>2. {t \in Backups(dir) : t > s} = {}
  BY <1>1
<1>3. Cardinality({t \in Backups(dir) : t > s}) = 0
  BY <1>2, FS_EmptySet
<1>4. QED
  BY <1>3, BackupAssumption DEF PlanHolds

\* While the clock was never turned back, removing old generations never takes
\* the latest data away.
THEOREM LatestKept == Spec => LatestDataStays
<1>. DEFINE P == turned = 0 /\ ~PowerLoss =>
         \A s \in Backups(dir) : \E t \in Backups(dir)' :
             dir.db[s].ver <= dir'.db[t].ver
<1>1. ASSUME IInv, [Next]_vars PROVE P
  <2>. USE DEF IInv
  <2>1. CASE dir' = dir \/ dir'.db = dir.db
    BY <1>1, <2>1, DirectoryParts
       DEF VersionsBounded, Backups, TypeOK, File
  <2>2. CASE Rename /\ turned = 0
    <3>1. SUFFICES ASSUME NEW s \in Backups(dir)
                   PROVE  \E t \in Backups(dir)' :
                             dir.db[s].ver <= dir'.db[t].ver
      BY <2>2
    <3>2. now \in Backups(dir)'
      BY <1>1, <2>2, RenameAddsName
    <3>3. dir'.db[now] = dir.tmp[now]
      BY <1>1, <2>2 DEF Rename, TypeOK, Directory
    <3>4. QED
      BY <1>1, <2>2, <3>1, <3>2, <3>3 DEF Rename, NamesFollowData
  <2>3. CASE RemoveOldBackup /\ turned = 0 /\ ~(dir' = dir)
    <3>1. PICK r \in todo : dir' = [dir EXCEPT !.db[r] = None]
      BY <2>3 DEF RemoveOldBackup
    <3>2. PICK u \in Backups(dir) : u > r
      BY <1>1, <2>3, RemovalLeavesNewer DEF RemoveOldBackup
    <3>3. r \in Backups(dir) /\ u # r
      BY <1>1, <2>3, <3>2, StampsAreNumbers
         DEF PlanHolds, RemoveOldBackup, Backups
    <3>4. dir.db[r].ver <= dir.db[u].ver
      BY <1>1, <2>3, <3>2, <3>3, StampsAreNumbers
         DEF NamesFollowData, Follows, Backups
    <3>5. \A t \in Stamp \ {r} : dir'.db[t] = dir.db[t]
      BY <1>1, <3>1 DEF TypeOK, Directory
    <3>6. Backups(dir)' = Backups(dir) \ {r}
      BY <1>1, <3>1 DEF TypeOK, Directory, Backups
    <3>7. \A s \in Backups(dir) : dir.db[s].ver \in Int
      BY <1>1, DirectoryParts DEF TypeOK, Backups, File
    <3>8. QED
      BY <3>2, <3>3, <3>4, <3>5, <3>6, <3>7 DEF Backups
  <2>4. CASE ~(dir' = dir) /\ ~(dir'.db = dir.db) /\ ~PowerLoss
    BY <1>1, <2>2, <2>3, <2>4
       DEF Next, vars, env, Tick, TurnBack, Write, Flush, Start, DryRun,
       RemoveStaleTmp, VacuumInto, VacuumDone, SyncFile, ListBackups,
       RemoveOldBackup, StatDest, Exit, Fail, TypeOK, Directory
  <2>5. QED
    BY <2>1, <2>4
<1>2. IInv /\ [Next]_vars => P
  BY <1>1
<1>3. QED
  BY <1>2, Invariance, PTL DEF Spec, LatestDataStays

\* Every step of the batch and of its surroundings is one of BackupSet, or
\* none: backups come one at a time, and go from the oldest end.
LEMMA StepRefines ==
  ASSUME IInv, [Next]_vars
  PROVE  [Promise!Next]_<<Backups(dir), Backups(disk)>>
<1>. USE DEF IInv
<1>. DEFINE Stays == Backups(dir)' = Backups(dir)
                     /\ Backups(disk)' = Backups(disk)
<1>1. CASE dir' = dir /\ disk' = disk
  BY <1>1 DEF Backups
<1>2. CASE dir'.db = dir.db /\ disk' = disk
  BY <1>2 DEF Backups
<1>3. CASE Flush
  BY <1>3 DEF Flush, Backups, Promise!Next, Promise!Persist
<1>4. CASE Rename
  <2>1. Backups(dir)' = Backups(dir) \cup {now} /\ now \in Stamp
    BY <1>4, RenameAddsName DEF TypeOK
  <2>2. Backups(disk)' = Backups(disk)
    BY <1>4 DEF Rename, env, Backups
  <2>3. QED
    BY <2>1, <2>2 DEF Promise!Next, Promise!Add
<1>5. CASE RemoveOldBackup /\ ~(dir' = dir)
  <2>1. PICK r \in todo : Oldest(todo, r) /\ dir' = [dir EXCEPT !.db[r] = None]
    BY <1>5 DEF RemoveOldBackup
  <2>2. /\ Backups(dir)' = Backups(dir) \ {r}
        /\ Backups(disk)' = Backups(disk)
    BY <1>5, <2>1 DEF TypeOK, Directory, Backups, RemoveOldBackup, env
  <2>3. /\ r \in Backups(dir) /\ r \in Stamp
        /\ Generations > 0
        /\ Cardinality({t \in Backups(dir) : t > r}) >= Generations
        /\ \A t \in Backups(dir) : t < r => t \in todo
    BY <1>5, <2>1 DEF PlanHolds, RemoveOldBackup, Backups
  <2>4. \A t \in Backups(dir) : r <= t
    BY <2>1, <2>3, StampsAreNumbers DEF Oldest, Backups
  <2>5. \A S : Promise!Cardinality(S) = Cardinality(S)
    BY DEF Promise!Cardinality, Cardinality
  <2>6. Promise!Drop(r)
    BY <2>2, <2>3, <2>4, <2>5 DEF Promise!Drop, Promise!Newer
  <2>7. QED
    BY <2>3, <2>6 DEF Promise!Next
<1>6. CASE PowerLoss
  <2>1. /\ Backups(dir)' = Backups(disk)
        /\ Backups(disk)' = Backups(disk)
    BY <1>6, PowerLossLeaves DEF PowerLoss, TypeOK, Backups
  <2>2. QED
    BY <2>1 DEF Promise!Next, Promise!PowerLoss
<1>7. CASE ~(dir' = dir /\ disk' = disk) /\ ~(dir'.db = dir.db /\ disk' = disk)
  BY <1>3, <1>4, <1>5, <1>6, <1>7
     DEF Next, vars, env, Tick, TurnBack, Write, Start, DryRun,
     RemoveStaleTmp, VacuumInto, VacuumDone, SyncFile, ListBackups,
     RemoveOldBackup, StatDest, Exit, Fail, TypeOK, Directory
<1>8. QED
  BY <1>1, <1>2, <1>7

\* The output directory implements BackupSet.
THEOREM Refinement == Spec => KeepsPromise
<1>1. Init => Promise!Init
  BY DEF Init, Empty, Backups, Promise!Init
<1>2. QED
  BY <1>1, StepRefines, Invariance, PTL
     DEF Spec, KeepsPromise, Promise!Spec
=============================================================================
