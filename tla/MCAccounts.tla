----------------------------- MODULE MCAccounts ------------------------------
(* Small instances of Accounts for TLC.                                    *)
EXTENDS Accounts, TLC

\* Requests are interchangeable, and so are the accounts beside the first one.
Symmetry == Permutations(Workers) \cup Permutations(Accounts \ {FirstAdmin})
=============================================================================
