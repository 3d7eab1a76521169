---------------------------- MODULE BiztripRules ----------------------------
(***************************************************************************)
(* The pure rules of the business-trip system: which status may follow     *)
(* which, who may make each change, who may see, edit, delete a trip or an *)
(* expense report.  The services ask these rules before they write; no     *)
(* database constraint repeats them.                                       *)
(* Code: services/trip_status.py, services/trip_rules.py,                  *)
(* services/expense_rules.py.                                              *)
(***************************************************************************)

CONSTANTS
  None    \* Python's None / SQL NULL: no approver, no manager, no row

TripStatuses ==
  {"DRAFT", "SUBMITTED", "APPROVED", "REJECTED", "COMPLETED", "SETTLED"}

ReportStatuses == {"DRAFT", "SUBMITTED", "APPROVED", "REJECTED"}

EDITABLE_STATUSES == {"DRAFT", "REJECTED"}

\* Mutant: whatever may be edited may be deleted.
DELETABLE_asEditable == EDITABLE_STATUSES

DELETABLE_STATUSES == {"DRAFT"}

REPORTABLE_TRIP_STATUSES == {"APPROVED", "COMPLETED"}

ALLOWED_TRANSITIONS ==
  {<<"DRAFT", "SUBMITTED">>, <<"SUBMITTED", "APPROVED">>,
   <<"SUBMITTED", "REJECTED">>, <<"REJECTED", "DRAFT">>,
   <<"APPROVED", "COMPLETED">>, <<"COMPLETED", "SETTLED">>}

\* TRANSITION_ACTOR, read backwards: the transitions of each kind of actor.
OwnerTransitions ==
  {<<"DRAFT", "SUBMITTED">>, <<"REJECTED", "DRAFT">>, <<"APPROVED", "COMPLETED">>}

ApproverTransitions ==
  {<<"SUBMITTED", "APPROVED">>, <<"SUBMITTED", "REJECTED">>}

SystemTransitions == {<<"COMPLETED", "SETTLED">>}

EXPENSE_ALLOWED_TRANSITIONS ==
  {<<"DRAFT", "SUBMITTED">>, <<"SUBMITTED", "APPROVED">>,
   <<"SUBMITTED", "REJECTED">>, <<"REJECTED", "DRAFT">>}

ExpenseOwnerTransitions == {<<"DRAFT", "SUBMITTED">>, <<"REJECTED", "DRAFT">>}

ExpenseApproverTransitions ==
  {<<"SUBMITTED", "APPROVED">>, <<"SUBMITTED", "REJECTED">>}

\* The guards that run when the two modules are imported: the actor tables
\* have an entry for every transition and for nothing else.
ASSUME ActorTablesComplete ==
  /\ OwnerTransitions \cup ApproverTransitions \cup SystemTransitions
       = ALLOWED_TRANSITIONS
  /\ ExpenseOwnerTransitions \cup ExpenseApproverTransitions
       = EXPENSE_ALLOWED_TRANSITIONS

\* Mutant: legality is checked, the actor is forgotten.
transition_allowed_byAnyone(current, target, user, owner, approver) ==
  <<current, target>> \in ALLOWED_TRANSITIONS

\* Legality and actor are decided together, from one row.
assert_transition_allowed(current, target, user, owner, approver) ==
  /\ <<current, target>> \in ALLOWED_TRANSITIONS
  /\ \/ <<current, target>> \in OwnerTransitions /\ user = owner
     \/ <<current, target>> \in ApproverTransitions
          /\ approver # None /\ user = approver

assert_system_transition(current, target) ==
  <<current, target>> \in ALLOWED_TRANSITIONS \cap SystemTransitions

\* Mutant: legality is checked, the actor is forgotten.
expense_transition_allowed_byAnyone(current, target, user, owner, approver) ==
  <<current, target>> \in EXPENSE_ALLOWED_TRANSITIONS

assert_expense_transition_allowed(current, target, user, owner, approver) ==
  /\ <<current, target>> \in EXPENSE_ALLOWED_TRANSITIONS
  /\ \/ <<current, target>> \in ExpenseOwnerTransitions /\ user = owner
     \/ <<current, target>> \in ExpenseApproverTransitions
          /\ approver # None /\ user = approver

\* Owner, approver and administrators; everyone else is told the row does not
\* exist.  The same rule serves trips and reports.
can_view(isAdmin, user, owner, approver) ==
  isAdmin \/ user = owner \/ (approver # None /\ user = approver)
=============================================================================
