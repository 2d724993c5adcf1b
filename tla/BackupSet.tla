----------------------------- MODULE BackupSet -----------------------------
(***************************************************************************)
(* What the backup batch promises of its output directory: a set of        *)
(* complete backups, named by the second they were taken in.  The set      *)
(* grows by one backup at a time and shrinks from its oldest end only,     *)
(* while enough newer ones are left.  The directory is not synced, so a    *)
(* power loss may take it back to what had reached the disk.               *)
(***************************************************************************)
EXTENDS Integers, FiniteSets

CONSTANTS
    Stamp,        \* time stamps that name a backup
    Generations   \* how many backups to keep; 0 keeps all

VARIABLES
    kept,     \* the complete backups that a restore would find
    durable   \* those it would find after a power loss

Newer(set, s) == {t \in set : t > s}

Init ==
    /\ kept = {}
    /\ durable = {}

\* A backup is complete; one of the same second takes the other's place.
Add(s) ==
    /\ kept' = kept \cup {s}
    /\ UNCHANGED durable

\* The oldest goes, if that leaves Generations newer ones.
Drop(s) ==
    /\ Generations > 0
    /\ s \in kept
    /\ \A t \in kept : s <= t
    /\ Cardinality(Newer(kept, s)) >= Generations
    /\ kept' = kept \ {s}
    /\ UNCHANGED durable

Persist ==
    /\ durable' = kept
    /\ UNCHANGED kept

PowerLoss ==
    /\ kept' = durable
    /\ UNCHANGED durable

Next ==
    \/ \E s \in Stamp : Add(s) \/ Drop(s)
    \/ Persist
    \/ PowerLoss

Spec == Init /\ [][Next]_<<kept, durable>>
=============================================================================
