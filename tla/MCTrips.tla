------------------------------ MODULE MCTrips -------------------------------
(* Small instances of Trips for TLC.                                       *)
EXTENDS Trips, TLC

\* Users and requests are interchangeable.
Symmetry == Permutations(Users) \cup Permutations(Workers)
=============================================================================
