--------------------------- MODULE MCLicenseStore ---------------------------
(* An instance of LicenseStore for TLC: two licences that two departments   *)
(* may both want in one directory, and a slug of its own beside them.       *)
EXTENDS LicenseStore, TLC

CONSTANTS l1, l2, d1, d2, q1, q2, sales, dev, other

MCCandidates ==
    [k \in Key |-> IF k = other THEN <<"b">> ELSE <<"a", "a_2">>]

Symmetry == Permutations(License) \cup Permutations(Doc) \cup Permutations(Request)
=============================================================================
