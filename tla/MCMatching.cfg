SPECIFICATION Spec
CONSTANTS
  None = None
  u1 = u1
  u2 = u2
  c1 = c1
  c2 = c2
  r1 = r1
  r2 = r2
  Users = {u1, u2}
  Cards = {c1, c2}
  Transactions = {1, 2, 3}
  Reports = {r1, r2}
  Owner <- OwnerOf
  Trip <- Trips
  Deliveries <- SomeCharges
  FirstCards <- CardsInUse
  Workers = {w1, w2}
  MaxItems = 2
SYMMETRY Symmetry
INVARIANTS
  ItemsInv
  CandidatesAreExact
  ListsAreExact
