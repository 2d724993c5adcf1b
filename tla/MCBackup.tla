------------------------------ MODULE MCBackup ------------------------------
(* An instance of Backup: four seconds, two generations.                    *)
EXTENDS Backup
=============================================================================
