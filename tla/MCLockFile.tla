---------------------------- MODULE MCLockFile ----------------------------
(* Instances of LockFile: slots n1 and n2 run one batch binary, bk runs     *)
(* the backup.                                                              *)
EXTENDS LockFile, TLC

CONSTANTS n1, n2, bk, notify, backup

\* batchBinaries cut down to two, the backup's own name first.
MCBatchBinaries == <<backup, notify>>

MCBinaryOf == [p \in Proc |-> IF p = bk THEN backup ELSE notify]

Perms == Permutations(Inode) \cup Permutations(Proc \ {bk})
===========================================================================
