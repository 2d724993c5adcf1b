SPECIFICATION LockSpec
CONSTANTS
    n1 = n1
    n2 = n2
    bk = bk
    notify = notify
    backup = backup
    None = None
    Proc = {n1, n2}
    Name = {notify, backup}
    GlobalProc = {}
    Inode = {i1, i2, i3}
    BinaryOf <- MCBinaryOf
    BatchBinaries <- MCBatchBinaries
SYMMETRY Perms
INVARIANT MutualExclusion
