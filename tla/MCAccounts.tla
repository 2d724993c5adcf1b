----------------------------- MODULE MCAccounts -----------------------------
(* An instance of Accounts for TLC: two accounts, one departmental role     *)
(* beside system_admin, two requests at a time.                             *)
EXTENDS Accounts, TLC

CONSTANTS u1, u2, k1, k2, k3, k4, q1, q2, dept

Symmetry == Permutations(User) \cup Permutations(SessId) \cup Permutations(Request)
=============================================================================
