------------------------------ MODULE MCApiKeys ------------------------------
(* A small instance of ApiKeys for TLC.                                    *)
EXTENDS ApiKeys, TLC

\* Requests are interchangeable, and so are the keys.
Symmetry == Permutations(Workers) \cup Permutations(KeyIds)

\* A key that may read trips and administer, but not write trips.
SomeScopes == {{"trips:read", "admin"}}
=============================================================================
