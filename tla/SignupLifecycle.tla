--------------------------- MODULE SignupLifecycle ---------------------------
(***************************************************************************)
(* What signup and approval promise about one account: the diagram of      *)
(* section 3 of the signup design, with the accounts an administrator      *)
(* creates.  Nothing leaves ACTIVE.                                        *)
(***************************************************************************)

CONSTANT Accounts

VARIABLE status

Init == status \in [Accounts -> {"NEW", "ACTIVE"}]

Move(e, from, to) == status[e] = from /\ status' = [status EXCEPT ![e] = to]

Apply(e) == Move(e, "NEW", "PENDING") \/ Move(e, "REJECTED", "PENDING")

Decide(e) == Move(e, "PENDING", "ACTIVE") \/ Move(e, "PENDING", "REJECTED")

Create(e) == Move(e, "NEW", "ACTIVE")

Next == \E e \in Accounts : Apply(e) \/ Decide(e) \/ Create(e)

Spec == Init /\ [][Next]_status
=============================================================================
