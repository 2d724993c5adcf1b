------------------------------ MODULE MCNotify ------------------------------
(* Instances of Notify: one licence and one N, one or two channels, a       *)
(* manager and an admin with an address each, and one person without.       *)
EXTENDS Notify, TLC

CONSTANTS mgr, adm, mute, mgrMail, admMail

MCEmailOf == (mgr :> mgrMail) @@ (adm :> admMail) @@ (mute :> NoEmail)
=============================================================================
