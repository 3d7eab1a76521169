---------------------------- MODULE TripLifecycle ---------------------------
(***************************************************************************)
(* What the trip service promises about one status column: the diagram of  *)
(* section 5.4 of the system design, with the creation and the deletion of *)
(* a draft.                                                                *)
(***************************************************************************)
EXTENDS BiztripRules

CONSTANT TripIds

VARIABLE status

Init == status = [t \in TripIds |-> "NEW"]

Move(t, from, to) == status[t] = from /\ status' = [status EXCEPT ![t] = to]

Create(t) == Move(t, "NEW", "DRAFT")

Transition(t) ==
  \E from, to \in TripStatuses :
    <<from, to>> \in ALLOWED_TRANSITIONS /\ Move(t, from, to)

Delete(t) == Move(t, "DRAFT", "DELETED")

Next == \E t \in TripIds : Create(t) \/ Transition(t) \/ Delete(t)

Spec == Init /\ [][Next]_status
=============================================================================
