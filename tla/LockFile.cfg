SPECIFICATION FairLockSpec
CONSTANTS
    n1 = n1
    n2 = n2
    bk = bk
    notify = notify
    backup = backup
    None = None
    Proc = {n1, n2, bk}
    Name = {notify, backup}
    GlobalProc = {bk}
    Inode = {i1, i2, i3}
    BinaryOf <- MCBinaryOf
    BatchBinaries <- MCBatchBinaries
INVARIANTS MutexUnlessOrphaned BackupAlone RefusedByLiveOther
PROPERTIES CallsReturn
