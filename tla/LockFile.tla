------------------------------ MODULE LockFile ------------------------------
(***************************************************************************)
(* Mutual exclusion of the batch binaries (src/internal/lockfile) and the  *)
(* life of a process that uses it (src/internal/clirun, src/cmd/server).   *)
(*                                                                         *)
(* A lock is a file <name>.lock.  The kernel keeps a flock per inode, not  *)
(* per path; a process names the lock by path, opens whatever inode the    *)
(* path leads to, locks that inode, and on a clean release unlinks the     *)
(* path.  Every system call is a step of its own, because other processes  *)
(* run between any two of them.                                            *)
(*                                                                         *)
(* Its specification has names of its own, so that a module can extend it  *)
(* together with a batch that runs under the lock.                         *)
(***************************************************************************)
EXTENDS Integers, FiniteSets, Sequences

CONSTANTS
    Proc,           \* process slots; a slot is started again after it exits
    Name,           \* names of lock files
    BinaryOf,       \* [Proc -> Name], the binary that a slot runs
    GlobalProc,     \* the slots that acquire with ModeGlobal (appmgr-backup)
    BatchBinaries,  \* the sequence batchBinaries of lockfile.go
    Inode,          \* inodes of the lock directory
    None            \* no inode, or no process

ASSUME LockFileAssumption ==
    /\ BinaryOf \in [Proc -> Name]
    /\ GlobalProc \subseteq Proc
    /\ BatchBinaries \in Seq(Name)
    /\ \A i, j \in DOMAIN BatchBinaries :
         BatchBinaries[i] = BatchBinaries[j] => i = j
    /\ None \notin Inode
    /\ None \notin Proc

VARIABLES
    dir,    \* [Name -> inode the path leads to, or None]
    flock,  \* [Inode -> process whose descriptor holds the flock, or None]
    fd,     \* [Proc -> [Position -> inode of the open descriptor, or None]]
    held,   \* [Proc -> the positions recorded in Lock.primary and Lock.extras]
    at,     \* [Proc -> the position being acquired or released]
    pc      \* [Proc -> where the process is]

lockVars == <<dir, flock, fd, held, at, pc>>

-----------------------------------------------------------------------------
(* Position 0 is the primary lock, position i > 0 is batchBinaries[i].     *)

Position == 0 .. Len(BatchBinaries)

NameAt(p, i) == IF i = 0 THEN BinaryOf[p] ELSE BatchBinaries[i]

\* Variants of Wanted with a bug: ModeGlobal is ignored; the own name is not
\* skipped.
WantedOwnOnly(p) == {0}
WantedNoSkip(p) == {0} \cup {i \in Position : p \in GlobalProc}

\* The locks that Acquire asks for: the own one, and with ModeGlobal every
\* other batch binary's.
Wanted(p) ==
    {0} \cup {i \in Position \ {0} : p \in GlobalProc
                                     /\ BatchBinaries[i] # BinaryOf[p]}

\* j is the next lock of the loop over batchBinaries after i.
IsNext(p, i, j) ==
    /\ i < j
    /\ \A k \in Wanted(p) : i < k => j <= k

\* The order of Release: extras in reverse, then primary.
IsLastHeld(p, i) == i \in held[p] /\ \A k \in held[p] : k <= i

Linked == {dir[n] : n \in Name} \ {None}
OpenBy(p) == {fd[p][i] : i \in Position} \ {None}
FreeInode == Inode \ (Linked \cup UNION {OpenBy(p) : p \in Proc})

\* The kernel closes a descriptor: its flock, if any, goes with it.
Dropped(p, inodes) ==
    [i \in Inode |-> IF i \in inodes /\ flock[i] = p THEN None ELSE flock[i]]

LockTypeOK ==
    /\ dir \in [Name -> Inode \cup {None}]
    /\ flock \in [Inode -> Proc \cup {None}]
    /\ fd \in [Proc -> [Position -> Inode \cup {None}]]
    /\ held \in [Proc -> SUBSET Position]
    /\ at \in [Proc -> Position]
    /\ pc \in [Proc -> {"off", "open", "flock", "meta", "run", "release",
                        "close", "closeErr", "remove"}]

LockInit ==
    /\ dir = [n \in Name |-> None]
    /\ flock = [i \in Inode |-> None]
    /\ fd = [p \in Proc |-> [i \in Position |-> None]]
    /\ held = [p \in Proc |-> {}]
    /\ at = [p \in Proc |-> 0]
    /\ pc = [p \in Proc |-> "off"]

-----------------------------------------------------------------------------
(* Acquire                                                                 *)

Start(p) ==
    /\ pc[p] = "off"
    /\ pc' = [pc EXCEPT ![p] = "open"]
    /\ UNCHANGED <<dir, flock, fd, held, at>>

\* Acquire returns an error: what was acquired so far is released first.
Abort(p) ==
    /\ pc' = [pc EXCEPT ![p] = "release"]
    /\ UNCHANGED <<dir, held, at>>

\* O_CREATE|O_RDWR: the inode the path leads to, or a new one.
OpenFile(p) ==
    LET n == NameAt(p, at[p]) IN
    /\ pc[p] = "open"
    /\ \E i \in Inode :
         /\ IF dir[n] = None THEN i \in FreeInode ELSE i = dir[n]
         /\ dir' = [dir EXCEPT ![n] = i]
         /\ fd' = [fd EXCEPT ![p][at[p]] = i]
    /\ pc' = [pc EXCEPT ![p] = "flock"]
    /\ UNCHANGED <<flock, held, at>>

OpenFails(p) ==
    /\ pc[p] = "open"
    /\ Abort(p)
    /\ UNCHANGED <<flock, fd>>

\* A variant with a bug: the result of flock(2) is not looked at.
FlockUnchecked(p) ==
    LET i == fd[p][at[p]] IN
    /\ pc[p] = "flock"
    /\ flock' = [flock EXCEPT ![i] = IF @ = None THEN p ELSE @]
    /\ pc' = [pc EXCEPT ![p] = "meta"]
    /\ UNCHANGED <<dir, fd, held, at>>

\* LOCK_EX|LOCK_NB on a free inode.
Flock(p) ==
    LET i == fd[p][at[p]] IN
    /\ pc[p] = "flock"
    /\ flock[i] = None
    /\ flock' = [flock EXCEPT ![i] = p]
    /\ pc' = [pc EXCEPT ![p] = "meta"]
    /\ UNCHANGED <<dir, fd, held, at>>

\* Variants with a bug: the lock is waited for; the file of a lock that is
\* taken is discarded as stale.
FlockWaits(p) ==
    /\ pc[p] = "flock"
    /\ flock[fd[p][at[p]]] # None
    /\ UNCHANGED lockVars

\* EWOULDBLOCK: close the descriptor and give up with ErrAlreadyHeld.
FlockHeld(p) ==
    LET i == fd[p][at[p]] IN
    /\ pc[p] = "flock"
    /\ flock[i] # None
    /\ fd' = [fd EXCEPT ![p][at[p]] = None]
    /\ Abort(p)
    /\ UNCHANGED flock

\* writeMetadata succeeds; the loop goes on, or the handler starts.
WriteMetadata(p) ==
    /\ pc[p] = "meta"
    /\ held' = [held EXCEPT ![p] = @ \cup {at[p]}]
    /\ \/ \E j \in Wanted(p) :
            /\ IsNext(p, at[p], j)
            /\ at' = [at EXCEPT ![p] = j]
            /\ pc' = [pc EXCEPT ![p] = "open"]
       \/ /\ \A j \in Wanted(p) : j <= at[p]
          /\ pc' = [pc EXCEPT ![p] = "run"]
          /\ UNCHANGED at
    /\ UNCHANGED <<dir, flock, fd>>

\* writeMetadata fails: unlock and close, the file stays.
MetadataFails(p) ==
    /\ pc[p] = "meta"
    /\ fd' = [fd EXCEPT ![p][at[p]] = None]
    /\ flock' = Dropped(p, {fd[p][at[p]]})
    /\ Abort(p)

-----------------------------------------------------------------------------
(* The handler, and Release                                                *)

HandlerReturns(p) ==
    /\ pc[p] = "run"
    /\ pc' = [pc EXCEPT ![p] = "release"]
    /\ UNCHANGED <<dir, flock, fd, held, at>>

Unlock(p) ==
    /\ pc[p] = "release"
    /\ \E i \in Position :
         /\ IsLastHeld(p, i)
         /\ at' = [at EXCEPT ![p] = i]
         /\ held' = [held EXCEPT ![p] = @ \ {i}]
         /\ \/ /\ flock' = Dropped(p, {fd[p][i]})
               /\ pc' = [pc EXCEPT ![p] = "close"]
            \/ /\ pc' = [pc EXCEPT ![p] = "closeErr"]    \* LOCK_UN fails
               /\ UNCHANGED flock
    /\ UNCHANGED <<dir, fd>>

Close(p) ==
    /\ pc[p] \in {"close", "closeErr"}
    /\ fd' = [fd EXCEPT ![p][at[p]] = None]
    /\ flock' = Dropped(p, {fd[p][at[p]]})
    /\ pc' = [pc EXCEPT ![p] = IF pc[p] = "close" THEN "remove" ELSE "release"]
    /\ UNCHANGED <<dir, held, at>>

\* close(2) reports an error: the file is kept, the descriptor may leak.
CloseFails(p) ==
    /\ pc[p] \in {"close", "closeErr"}
    /\ pc' = [pc EXCEPT ![p] = "release"]
    /\ UNCHANGED <<dir, flock, fd, held, at>>

\* os.Remove takes the path away, whatever inode it leads to by now.
Remove(p) ==
    /\ pc[p] = "remove"
    /\ dir' = [dir EXCEPT ![NameAt(p, at[p])] = None]
    /\ pc' = [pc EXCEPT ![p] = "release"]
    /\ UNCHANGED <<flock, fd, held, at>>

RemoveFails(p) ==
    /\ pc[p] = "remove"
    /\ pc' = [pc EXCEPT ![p] = "release"]
    /\ UNCHANGED <<dir, flock, fd, held, at>>

\* The process ends, by os.Exit or by a crash: the kernel closes what is open.
Terminate(p) ==
    /\ pc' = [pc EXCEPT ![p] = "off"]
    /\ fd' = [fd EXCEPT ![p] = [i \in Position |-> None]]
    /\ flock' = Dropped(p, Inode)
    /\ held' = [held EXCEPT ![p] = {}]
    /\ at' = [at EXCEPT ![p] = 0]
    /\ UNCHANGED dir

Exit(p) ==
    /\ pc[p] = "release"
    /\ held[p] = {}
    /\ Terminate(p)

Crash(p) ==
    /\ pc[p] # "off"
    /\ Terminate(p)

-----------------------------------------------------------------------------
\* What a running process does of itself, short of the handler's own work.
Step(p) ==
    \/ OpenFile(p) \/ OpenFails(p) \/ Flock(p) \/ FlockHeld(p)
    \/ WriteMetadata(p) \/ MetadataFails(p)
    \/ Unlock(p) \/ Close(p) \/ CloseFails(p) \/ Remove(p) \/ RemoveFails(p)
    \/ Exit(p)

LockNext == \E p \in Proc : Start(p) \/ Step(p) \/ HandlerReturns(p) \/ Crash(p)

LockSpec == LockInit /\ [][LockNext]_lockVars

\* No system call of Acquire or Release waits, so a process that is scheduled
\* goes through them; the handler (a server) may run for ever.
FairLockSpec == LockSpec /\ \A p \in Proc : WF_lockVars(Step(p))
-----------------------------------------------------------------------------
(* Properties                                                              *)

\* p goes by the assumption that it has the lock of that name.
Holds(p, n) == \E i \in held[p] : NameAt(p, i) = n

\* Some process has a lock file open that the path no longer leads to.
Orphaned(n) ==
    \E p \in Proc, i \in Position :
        NameAt(p, i) = n /\ fd[p][i] # None /\ fd[p][i] # dir[n]

\* What Acquire records as acquired, the kernel has locked for it: no step of
\* another process, no partial rollback and no reused inode takes a flock
\* away from the process that believes to hold it (acquireOne, releaseOne).
HoldersHaveFlock ==
    \A p \in Proc : \A i \in held[p] :
        fd[p][i] # None /\ flock[fd[p][i]] = p

\* Two processes never hold the lock of one name (lockfile.go 1-2: the package
\* prevents a binary from running twice).
MutualExclusion ==
    \A n \in Name, p, q \in Proc : Holds(p, n) /\ Holds(q, n) => p = q

\* Exclusion can only be lost over a lock file that was unlinked while some
\* process had it open: in every other interleaving, with crashes, leftover
\* files, failed metadata writes and partial ModeGlobal acquisitions, one
\* process at most holds a name.
MutexUnlessOrphaned ==
    \A n \in Name : ~Orphaned(n) =>
        \A p, q \in Proc : Holds(p, n) /\ Holds(q, n) => p = q

\* While appmgr-backup runs its handler no other batch binary runs one, unless
\* the lock file of that binary was orphaned (spec 8.8, ModeGlobal).
BackupAlone ==
    \A p \in GlobalProc, q \in Proc :
        /\ p # q
        /\ pc[p] = "run"
        /\ pc[q] = "run"
        /\ \E i \in DOMAIN BatchBinaries : BatchBinaries[i] = BinaryOf[q]
        => Orphaned(BinaryOf[q])

\* A process that finds a lock taken lost it to another process that is alive
\* and asked for a lock of the same name: never to itself (ModeGlobal asks for
\* no name twice), to a leftover file of a dead one, or to a reused inode.
RefusedByLiveOther ==
    \A p, q \in Proc :
        pc[p] = "flock" /\ flock[fd[p][at[p]]] = q =>
            /\ q # p
            /\ pc[q] # "off"
            /\ \E i \in Wanted(q) : NameAt(q, i) = NameAt(p, at[p])

\* Nothing but the os.Remove of a clean release ever orphans a lock file: not
\* a crash, not a failed acquisition, not a failed close.
OrphanedOnlyByRemove ==
    [][\A n \in Name : ~Orphaned(n) /\ Orphaned(n)' =>
          \E p \in Proc : /\ pc[p] = "remove"
                          /\ pc'[p] = "release"
                          /\ NameAt(p, at[p]) = n]_lockVars

Acquiring == {"open", "flock", "meta"}
Releasing == {"release", "close", "closeErr", "remove"}

\* How far a process is: it acquires, runs, releases, is gone; and what the
\* current round of a loop has left to do.
Stage(p) == CASE pc[p] \in Acquiring -> 3
              [] pc[p] = "run" -> 2
              [] pc[p] \in Releasing -> 1
              [] OTHER -> 0

Left(p) == CASE pc[p] \in {"open", "close", "closeErr"} -> 3
             [] pc[p] \in {"flock", "remove"} -> 2
             [] OTHER -> 1

\* Nearer to the end: a later stage, a lock further on or one less to release,
\* or a later step for the same lock.  No such sequence goes on for ever.
Nearer(p) ==
    \/ Stage(p)' < Stage(p)
    \/ /\ pc[p] \in Acquiring /\ pc'[p] \in Acquiring
       /\ \/ at[p] < at'[p]
          \/ at'[p] = at[p] /\ Left(p)' < Left(p)
    \/ /\ pc[p] \in Releasing /\ pc'[p] \in Releasing
       /\ \/ held'[p] \subseteq held[p] /\ held'[p] # held[p]
          \/ held'[p] = held[p] /\ Left(p)' < Left(p)

\* No step of Acquire or Release ever leads back: every system call, whether it
\* succeeds or fails, brings its process nearer to the handler or to its end
\* (no loop over batchBinaries or over what is held starts anew).
EachStepNearer == [][\A p \in Proc : Step(p) => Nearer(p)]_lockVars

\* Acquire always comes back: a starting process reaches its handler or ends,
\* whoever holds the other locks (ModeGlobal takes many, none of them waits);
\* and so does Release, whichever of its system calls fail.
CallsReturn ==
    \A p \in Proc :
        /\ pc[p] = "open" ~> pc[p] \in {"run", "off"}
        /\ pc[p] = "release" ~> pc[p] = "off"
=============================================================================
