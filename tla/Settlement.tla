----------------------------- MODULE Settlement -----------------------------
(***************************************************************************)
(* What the trip service and the report service promise together: the two  *)
(* status diagrams of the design (sections 5.4 and 5.5), with the one step *)
(* they take together - the approval of the report settles the trip - and  *)
(* the conditions each puts on the other.                                  *)
(***************************************************************************)
EXTENDS BiztripRules

CONSTANT TripIds

VARIABLES tripStatus, reportStatus

statuses == <<tripStatus, reportStatus>>

Init ==
  /\ tripStatus = [t \in TripIds |-> "NEW"]
  /\ reportStatus = [t \in TripIds |-> "NEW"]

MoveTrip(t, from, to) ==
  tripStatus[t] = from /\ tripStatus' = [tripStatus EXCEPT ![t] = to]

MoveReport(t, from, to) ==
  reportStatus[t] = from /\ reportStatus' = [reportStatus EXCEPT ![t] = to]

\* Steps of the trip: everything but SETTLED, and no deletion under a report.
TripStep(t) ==
  /\ \/ MoveTrip(t, "NEW", "DRAFT")
     \/ MoveTrip(t, "DRAFT", "DELETED") /\ reportStatus[t] = "NEW"
     \/ \E step \in OwnerTransitions \cup ApproverTransitions : MoveTrip(t, step[1], step[2])
  /\ UNCHANGED reportStatus

\* Steps of the report before its approval.
ReportStep(t) ==
  /\ \/ MoveReport(t, "NEW", "DRAFT") /\ tripStatus[t] \in REPORTABLE_TRIP_STATUSES
     \/ MoveReport(t, "DRAFT", "SUBMITTED") /\ tripStatus[t] = "COMPLETED"
     \/ MoveReport(t, "SUBMITTED", "REJECTED")
     \/ MoveReport(t, "REJECTED", "DRAFT")
  /\ UNCHANGED tripStatus

Approve(t) ==
  /\ MoveReport(t, "SUBMITTED", "APPROVED")
  /\ MoveTrip(t, "COMPLETED", "SETTLED")

Next == \E t \in TripIds : TripStep(t) \/ ReportStep(t) \/ Approve(t)

Spec == Init /\ [][Next]_statuses
=============================================================================
