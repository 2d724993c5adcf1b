----------------------------- MODULE MCCatalog ------------------------------
(* An instance of Catalog.  A list of one vendor, one edition, a type and a *)
(* default status that only the file knows.                                 *)
EXTENDS Catalog, TLC

MCWebType  == {"installed"}
MCFileType == {"appliance"}
MCWebDefault  == {"unknown", "department_discretion"}
MCFileDefault == {"denied"}

\* Ids are given in any order.
Interchangeable ==
    UNION {Permutations(ids) : ids \in {Vendor, Product, Alias, Request}}
=============================================================================
