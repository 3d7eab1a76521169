----------------------------- MODULE MCMatching ------------------------------
(* A small instance of Matching for TLC.                                   *)
EXTENDS Matching, TLC

CONSTANTS u1, u2, c1, c2, r1, r2

\* Both reports belong to one user; the trips are of day 3 and of days 3 to 4.
OwnerOf == (r1 :> u1) @@ (r2 :> u1)

Trips == (r1 :> [start |-> 3, end |-> 3]) @@ (r2 :> [start |-> 3, end |-> 4])

CardsInUse ==
  (c1 :> [user_id |-> u1, is_active |-> TRUE]) @@ (c2 :> [user_id |-> u2, is_active |-> TRUE])

Charge(c, hour, cancelled) == [card |-> c, approved_at |-> hour, is_cancelled |-> cancelled]

Charges(first, second, third) == (1 :> first) @@ (2 :> second) @@ (3 :> third)

\* The window of day 3 is the hours 39 to 110: charges at its bounds, just
\* outside them, a cancelled one, and the other user's; in the last table the
\* second card has none and can be deleted.
SomeCharges ==
  { Charges(Charge(c1, 39, FALSE), Charge(c1, 110, FALSE), Charge(c2, 80, FALSE)),
    Charges(Charge(c1, 38, FALSE), Charge(c1, 111, FALSE), Charge(c2, 80, FALSE)),
    Charges(Charge(c1, 80, FALSE), Charge(c1, 80, FALSE), Charge(c1, 80, TRUE)) }

Symmetry == Permutations(Workers)
=============================================================================
