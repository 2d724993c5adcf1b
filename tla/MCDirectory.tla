---------------------------- MODULE MCDirectory -----------------------------
(* An instance of Directory: a user with a device exists already; as a list *)
(* has one user, a user with a lower code takes that place.                 *)
EXTENDS Directory, TLC

CONSTANTS d1, d2, u1, u2, e1, e2

MCSeed ==
    (u2 :> [code |-> 2, ref |-> NoRef]) @@
    (e1 :> [code |-> 1, ref |-> [NoRef EXCEPT !["user"] = u2]]) @@
    [x \in {d1, d2, u1, e2} |-> None]

Interchangeable == Permutations(Request) \cup Permutations(Department)
=============================================================================
