----------------------------- MODULE MCRegistry -----------------------------
(* An instance of Registry: two departments, one user, one device, two      *)
(* licences of one product and slug.                                        *)
EXTENDS Registry, TLC

CONSTANTS l1, l2, article

MCArticle == [l \in License |-> article]

\* Nothing tells the departments apart, nor the licences, nor the requests.
Interchangeable == Permutations(Dept) \cup Permutations(License) \cup Permutations(Request)
=============================================================================
