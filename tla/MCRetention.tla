---------------------------- MODULE MCRetention -----------------------------
(* An instance of Retention: one record of each table, kept for one day     *)
(* unless two are set, as for the audit at first, or seven: so many that    *)
(* the time wraps to the future.                                            *)
EXTENDS Retention, TLC

CONSTANTS i1

MCParent  == [r \in Raw |-> i1]
MCDefault == [t \in Table |-> 1]
MCSeed    == [t \in Table |-> IF t = "audit" THEN 2 ELSE Unset]
=============================================================================
