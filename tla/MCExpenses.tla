----------------------------- MODULE MCExpenses -----------------------------
(* Small instances of Expenses for TLC.                                    *)
EXTENDS Expenses, TLC

\* Requests and item ids are interchangeable.
Symmetry ==
  Permutations(Workers) \cup Permutations(ReportWorkers) \cup Permutations(ItemIds)
=============================================================================
