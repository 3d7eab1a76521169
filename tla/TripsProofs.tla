----------------------------- MODULE TripsProofs -----------------------------
(***************************************************************************)
(* Theorems about Trips, for every set of users, trips, requests and days  *)
(* and for every interleaving of the requests.                             *)
(***************************************************************************)
EXTENDS Trips, SequenceTheorems, TLAPS

USE TripsAssumption

-----------------------------------------------------------------------------
(* Types of what the helpers return                                        *)

\* An UPDATE of a trip row leaves a trip row.
LEMMA FlushedType ==
  ASSUME NEW set \in Change, NEW row \in TripRow
  PROVE  Flushed(set, row) \in TripRow
  BY DEF Flushed, Column, Change, TripRow

\* The empty SET clause is a SET clause.
LEMMA NoChangeType == NoChange \in Change
  BY DEF NoChange, Change

\* What the handlers assign is a SET clause.
LEMMA ReschedulingType ==
  ASSUME NEW row \in TripRow, NEW s \in Days, NEW e \in Days
  PROVE  Rescheduling(row, s, e) \in Change
  BY DEF Rescheduling, Dirty, NoChange, Change, TripRow

LEMMA SubmissionType ==
  ASSUME NEW row \in TripRow, NEW manager \in Users
  PROVE  Submission(row, manager) \in Change
  BY DEF Submission, Dirty, NoChange, Change, TripRow, TripStatuses, Cell

LEMMA ReopeningType ==
  ASSUME NEW row \in TripRow
  PROVE  Reopening(row) \in Change
  BY DEF Reopening, Dirty, NoChange, Change, TripRow, TripStatuses, Cell

LEMMA StatusAssignmentType ==
  Approval \in Change /\ Rejection \in Change /\ Completion \in Change /\ Settling \in Change
  BY DEF Approval, Rejection, Completion, Settling, NoChange, Change, TripStatuses, Cell

\* A log row made by record_transition is a log row.
LEMMA EntryType ==
  ASSUME NEW actor \in Users, NEW action \in Actions,
         NEW from \in TripStatuses \cup {None}, NEW to \in TripStatuses,
         NEW notify \in Users \cup {None}
  PROVE  record_transition(actor, action, from, to, notify) \in Entry
  BY DEF record_transition, Entry

-----------------------------------------------------------------------------
(* One step of a request                                                   *)

\* What a handler hands to its transaction, whatever the handler: a typed
\* unit of work on one trip.
Prepares(w, t, kind, set, entry) ==
  /\ [trip |-> t, kind |-> kind, set |-> set, entry |-> entry] \in Work
  /\ Begin(w, t, kind, set, entry)

\* Every handler, when its checks pass, prepares typed work on the trip.
LEMMA HandlersPrepare ==
  ASSUME TypeOK, NEW w \in Workers, TripRequest(w) \/ Settlement(w)
  PROVE  \E t \in TripIds : \E kind, set, entry : Prepares(w, t, kind, set, entry)
<1> DEFINE P(t) == \E kind, set, entry : Prepares(w, t, kind, set, entry)
<1> SUFFICES ASSUME NEW u \in Users, NEW t \in TripIds,
                    \/ create_trip(w, u, t)
                    \/ update_trip(w, u, t)
                    \/ delete_trip(w, u, t)
                    \/ submit_trip(w, u, t)
                    \/ approve_trip(w, u, t)
                    \/ reject_trip(w, u, t)
                    \/ reopen_trip(w, u, t)
                    \/ complete_trip(w, u, t)
                    \/ settle_trip_for_report(w, u, t)
             PROVE  P(t)
  BY DEF TripRequest, Settlement
<1>1. ASSUME NEW set \in Change, NEW entry \in Entry, Begin(w, t, "UPDATE", set, entry)
      PROVE  P(t)
  BY <1>1 DEF Prepares, Work
<1>2. CASE create_trip(w, u, t)
  <2>1. PICK s, e \in Days :
          Begin(w, t, "INSERT", Draft(u, s, e),
                record_transition(u, "CREATED", None, "DRAFT", None))
    BY <1>2 DEF create_trip
  <2>2. Draft(u, s, e) \in TripRow
    BY DEF Draft, TripRow, TripStatuses, Cell
  <2>3. record_transition(u, "CREATED", None, "DRAFT", None) \in Entry
    BY EntryType DEF Actions, TripStatuses
  <2> QED
    BY <2>1, <2>2, <2>3 DEF Prepares, Work
<1>3. CASE delete_trip(w, u, t)
  BY <1>3 DEF delete_trip, Prepares, Work
<1>4. ASSUME trip[t] # None PROVE trip[t] \in TripRow
  BY <1>4 DEF TypeOK
<1>5. CASE update_trip(w, u, t)
  <2>1. PICK s, e \in Days :
          Begin(w, t, "UPDATE", Rescheduling(trip[t], s, e),
                record_transition(u, "UPDATED", trip[t].status, trip[t].status, None))
    BY <1>5 DEF update_trip
  <2>2. trip[t] \in TripRow
    BY <1>4, <1>5 DEF update_trip, load_visible_trip
  <2>3. Rescheduling(trip[t], s, e) \in Change
    BY <2>2, ReschedulingType
  <2>4. record_transition(u, "UPDATED", trip[t].status, trip[t].status, None) \in Entry
    BY <2>2, EntryType DEF Actions, TripRow
  <2> QED
    BY <1>1, <2>1, <2>3, <2>4
<1>6. CASE submit_trip(w, u, t)
  <2>1. trip[t] \in TripRow /\ managerOf[u] \in Users
    BY <1>4, <1>6 DEF submit_trip, load_visible_trip, TypeOK
  <2>2. record_transition(u, "SUBMITTED", trip[t].status, "SUBMITTED", managerOf[u]) \in Entry
    BY <2>1, EntryType DEF Actions, TripRow, TripStatuses
  <2> QED
    BY <1>1, <1>6, <2>1, <2>2, SubmissionType DEF submit_trip
<1>7. CASE approve_trip(w, u, t)
  <2>1. trip[t] \in TripRow
    BY <1>4, <1>7 DEF approve_trip, load_visible_trip
  <2>2. record_transition(u, "APPROVED", trip[t].status, "APPROVED", trip[t].owner) \in Entry
    BY <2>1, EntryType DEF Actions, TripRow, TripStatuses
  <2> QED
    BY <1>1, <1>7, <2>1, <2>2, StatusAssignmentType DEF approve_trip
<1>8. CASE reject_trip(w, u, t)
  <2>1. trip[t] \in TripRow
    BY <1>4, <1>8 DEF reject_trip, load_visible_trip
  <2>2. record_transition(u, "REJECTED", trip[t].status, "REJECTED", trip[t].owner) \in Entry
    BY <2>1, EntryType DEF Actions, TripRow, TripStatuses
  <2> QED
    BY <1>1, <1>8, <2>1, <2>2, StatusAssignmentType DEF reject_trip
<1>9. CASE reopen_trip(w, u, t)
  <2>1. trip[t] \in TripRow
    BY <1>4, <1>9 DEF reopen_trip, load_visible_trip
  <2>2. record_transition(u, "UPDATED", trip[t].status, "DRAFT", None) \in Entry
    BY <2>1, EntryType DEF Actions, TripRow, TripStatuses
  <2> QED
    BY <1>1, <1>9, <2>1, <2>2, ReopeningType DEF reopen_trip
<1>10. CASE complete_trip(w, u, t)
  <2>1. trip[t] \in TripRow
    BY <1>4, <1>10 DEF complete_trip, load_visible_trip
  <2>2. record_transition(u, "COMPLETED", trip[t].status, "COMPLETED", None) \in Entry
    BY <2>1, EntryType DEF Actions, TripRow, TripStatuses
  <2> QED
    BY <1>1, <1>10, <2>1, <2>2, StatusAssignmentType DEF complete_trip
<1>11. CASE settle_trip_for_report(w, u, t)
  <2>1. trip[t] \in TripRow
    BY <1>4, <1>11 DEF settle_trip_for_report
  <2>2. record_transition(u, "SETTLED", trip[t].status, "SETTLED", None) \in Entry
    BY <2>1, EntryType DEF Actions, TripRow, TripStatuses
  <2> QED
    BY <1>1, <1>11, <2>1, <2>2, StatusAssignmentType DEF settle_trip_for_report
<1> QED
  BY <1>2, <1>3, <1>5, <1>6, <1>7, <1>8, <1>9, <1>10, <1>11

-----------------------------------------------------------------------------
(* Type correctness                                                        *)

\* Handing work to the transaction changes nothing but the request.
LEMMA PrepareType ==
  ASSUME TypeOK, NEW w \in Workers, NEW t \in TripIds, NEW kind, NEW set, NEW entry,
         Prepares(w, t, kind, set, entry)
  PROVE  TypeOK'
  BY DEF TypeOK, Prepares, Begin, environment, tables

\* A log with one more row is a log.
LEMMA WriteLogType ==
  ASSUME TypeOK, NEW t \in TripIds, NEW entry \in Entry, WriteLog(t, entry)
  PROVE  log' \in [TripIds -> Seq(Entry)]
<1>1. Append(log[t], entry) \in Seq(Entry)
  BY DEF TypeOK
<1> QED
  BY <1>1 DEF TypeOK, WriteLog

\* The unit of work of a busy request.
LEMMA WorkType ==
  ASSUME TypeOK, NEW w \in Workers, Busy(w)
  PROVE  /\ work[w].trip \in TripIds
         /\ work[w].kind \in {"INSERT", "UPDATE", "DELETE"}
         /\ work[w].kind # "DELETE" => work[w].entry \in Entry
         /\ work[w].kind = "INSERT" => work[w].set \in TripRow
         /\ work[w].kind = "UPDATE" => work[w].set \in Change
  BY DEF TypeOK, Busy, Work

\* The end of a request keeps the types.
LEMMA CommitType ==
  ASSUME TypeOK, NEW w \in Workers, Commit(w) \/ Rollback(w)
  PROVE  TypeOK'
<1>1. Busy(w) /\ Finish(w)
  BY DEF Commit, Rollback, CommitInsert, CommitUpdate, CommitLogOnly, CommitDelete
<1>2. /\ managerOf' \in [Users -> Users \cup {None}]
      /\ today' \in 1..(LastDay + 1)
      /\ work' \in [Workers -> Work \cup {None}]
  BY <1>1 DEF TypeOK, Finish, environment
<1> DEFINE t == work[w].trip
<1>3. trip' \in [TripIds -> TripRow \cup {None}] /\ log' \in [TripIds -> Seq(Entry)]
  <2>1. CASE CommitInsert(w)
    <3>1. trip' \in [TripIds -> TripRow \cup {None}]
      BY <1>1, <2>1, WorkType DEF CommitInsert, TypeOK
    <3> QED
      BY <1>1, <2>1, <3>1, WorkType, WriteLogType DEF CommitInsert
  <2>2. CASE CommitUpdate(w)
    <3>1. work[w].set \in Change /\ trip[t] \in TripRow /\ t \in TripIds
      BY <1>1, <2>2, WorkType DEF CommitUpdate, TypeOK
    <3>2. Flushed(work[w].set, trip[t]) \in TripRow
      BY <3>1, FlushedType
    <3>3. trip' \in [TripIds -> TripRow \cup {None}]
      BY <2>2, <3>1, <3>2 DEF CommitUpdate, TypeOK
    <3> QED
      BY <1>1, <2>2, <3>3, WorkType, WriteLogType DEF CommitUpdate
  <2>3. CASE CommitLogOnly(w)
    BY <1>1, <2>3, WorkType, WriteLogType DEF CommitLogOnly, TypeOK
  <2>4. CASE CommitDelete(w)
    BY <2>4 DEF CommitDelete, TypeOK
  <2>5. CASE Rollback(w)
    BY <2>5 DEF Rollback, tables, TypeOK
  <2> QED
    BY <2>1, <2>2, <2>3, <2>4, <2>5 DEF Commit
<1> QED
  BY <1>2, <1>3 DEF TypeOK

\* The steps around the service keep the types.
LEMMA EnvironmentType ==
  ASSUME TypeOK, Environment
  PROVE  TypeOK'
  BY DEF TypeOK, Environment, AdvanceDay, update_user, tables

\* Every step keeps the types.
LEMMA TypeStep ==
  ASSUME TypeOK, [Next]_vars
  PROVE  TypeOK'
<1>1. ASSUME NEW w \in Workers, TripRequest(w) \/ Settlement(w)
      PROVE  TypeOK'
  BY <1>1, HandlersPrepare, PrepareType
<1>2. ASSUME NEW w \in Workers, Commit(w) \/ Rollback(w)
      PROVE  TypeOK'
  BY <1>2, CommitType
<1>3. CASE Environment
  BY <1>3, EnvironmentType
<1>4. CASE UNCHANGED vars
  BY <1>4 DEF vars, TypeOK
<1> QED
  BY <1>1, <1>2, <1>3, <1>4 DEF Next

\* The types hold initially.
LEMMA TypeInit == Init => TypeOK
<1>1. <<>> \in Seq(Entry)
  OBVIOUS
<1> QED
  BY <1>1 DEF Init, TypeOK

\* Whatever the requests and their interleaving, the tables hold well-typed
\* rows: no UPDATE assembled from stale reads leaves a column undefined.
THEOREM TypeCorrect == Spec => []TypeOK
<1>1. TypeOK /\ [Next]_vars => TypeOK'
  BY TypeStep
<1> QED
  BY <1>1, TypeInit, PTL DEF Spec

-----------------------------------------------------------------------------
(* Who made each recorded step                                             *)

\* Nobody is their own approver in the user table.
NobodyManagesThemselves == \A u \in Users : managerOf[u] # u

\* The user has been notified of a submission of the trip.
Asked(t, u) ==
  \E j \in 1..Len(log[t]) : log[t][j].action = "SUBMITTED" /\ log[t][j].notified = u

\* A trip row and the first row of its log agree on the owner, who is not the
\* approver; the approver has been asked.
RowActors(t) ==
  trip[t] # None =>
    /\ log[t] # <<>>
    /\ trip[t].owner = Creator(t)
    /\ trip[t].approver # Creator(t)
    /\ trip[t].approver # None => Asked(t, trip[t].approver)

\* What a handler is about to write was decided by the right actor, on what
\* never changes about a trip: who created it and who has been asked.
PreparedInsert(t, set, e) ==
  /\ log[t] = <<>>
  /\ e.action = "CREATED"
  /\ e.actor = set.owner
  /\ set.approver = None

PreparedUpdate(t, set, e) ==
  /\ log[t] # <<>>
  /\ e.action # "CREATED"
  /\ EntryByItsActor(t, e)
  /\ set.approver # Creator(t)
  /\ set.approver \in Users => e.action = "SUBMITTED" /\ e.notified = set.approver
  /\ e.action \in {"APPROVED", "REJECTED"} => Asked(t, e.actor)

\* The trip a request is about to insert is nobody else's.
InsertsAlone(w) ==
  \A v \in Workers : v # w /\ Busy(v) => work[v].trip # work[w].trip

WorkActors(w) ==
  Busy(w) =>
    /\ work[w].kind = "INSERT" =>
         PreparedInsert(work[w].trip, work[w].set, work[w].entry) /\ InsertsAlone(w)
    /\ work[w].kind = "UPDATE" =>
         PreparedUpdate(work[w].trip, work[w].set, work[w].entry)

LogActors ==
  \A t \in TripIds : \A i \in 1..Len(log[t]) :
    /\ EntryByItsActor(t, log[t][i])
    /\ log[t][i].action \in {"APPROVED", "REJECTED"} =>
         \E j \in 1..(i - 1) :
           log[t][j].action = "SUBMITTED" /\ log[t][j].notified = log[t][i].actor

ActorInv ==
  /\ NobodyManagesThemselves
  /\ \A t \in TripIds : RowActors(t)
  /\ \A w \in Workers : WorkActors(w)
  /\ LogActors

\* The unit of work a handler has handed over.
LEMMA HandedOver ==
  ASSUME TypeOK, NEW w \in Workers, NEW t, NEW kind, NEW set, NEW entry,
         Begin(w, t, kind, set, entry)
  PROVE  /\ work'[w] = [trip |-> t, kind |-> kind, set |-> set, entry |-> entry]
         /\ work'[w].trip = t
         /\ work'[w].kind = kind
         /\ work'[w].set = set
         /\ work'[w].entry = entry
<1>1. work'[w] = [trip |-> t, kind |-> kind, set |-> set, entry |-> entry]
  BY DEF TypeOK, Begin
<1> QED
  BY <1>1

\* A trip that is there has a creator, who is its owner.
LEMMA OwnerIsCreator ==
  ASSUME TypeOK, ActorInv, NEW t \in TripIds, trip[t] # None
  PROVE  /\ trip[t] \in TripRow
         /\ log[t] # <<>>
         /\ Creator(t) \in Users
         /\ trip[t].owner = Creator(t)
         /\ trip[t].approver # Creator(t)
         /\ trip[t].approver # None => Asked(t, trip[t].approver)
<1>1. log[t] # <<>> /\ log[t] \in Seq(Entry)
  BY DEF ActorInv, RowActors, TypeOK
<1>2. log[t][1] \in Entry
  BY <1>1
<1> QED
  BY <1>1, <1>2 DEF ActorInv, RowActors, TypeOK, Creator, Entry

\* Handlers decide by the tables: what they prepare is the right actor's.
LEMMA HandlersActors ==
  ASSUME TypeOK, ActorInv, NEW w \in Workers, TripRequest(w) \/ Settlement(w)
  PROVE  \E t \in TripIds : \E kind, set, entry :
           /\ Prepares(w, t, kind, set, entry)
           /\ kind = "INSERT" => PreparedInsert(t, set, entry) /\ NextTripId(t)
           /\ kind = "UPDATE" => PreparedUpdate(t, set, entry)
           /\ kind = "DELETE" => log[t] # <<>>
<1>0. PICK t \in TripIds : \E kind, set, entry : Prepares(w, t, kind, set, entry)
  BY HandlersPrepare
<1>1. PICK kind, set, entry : Prepares(w, t, kind, set, entry)
  BY <1>0
<1>2. /\ work'[w].trip = t
      /\ work'[w].kind = kind
      /\ work'[w].set = set
      /\ work'[w].entry = entry
  BY <1>1, HandedOver DEF Prepares
<1>3. PICK u \in Users, r \in TripIds :
        \/ create_trip(w, u, r)
        \/ update_trip(w, u, r)
        \/ delete_trip(w, u, r)
        \/ submit_trip(w, u, r)
        \/ approve_trip(w, u, r)
        \/ reject_trip(w, u, r)
        \/ reopen_trip(w, u, r)
        \/ complete_trip(w, u, r)
        \/ settle_trip_for_report(w, u, r)
  BY DEF TripRequest, Settlement
<1>4. ASSUME NEW k, NEW s, NEW e, Begin(w, r, k, s, e)
      PROVE  t = r /\ kind = k /\ set = s /\ entry = e
  BY <1>2, <1>4, HandedOver, Zenon
<1> SUFFICES /\ kind = "INSERT" => PreparedInsert(t, set, entry) /\ NextTripId(t)
             /\ kind = "UPDATE" => PreparedUpdate(t, set, entry)
             /\ kind = "DELETE" => log[t] # <<>>
  BY <1>1
<1>5. CASE create_trip(w, u, r)
  <2>1. PICK s, e \in Days :
          /\ NextTripId(r)
          /\ Begin(w, r, "INSERT", Draft(u, s, e),
                   record_transition(u, "CREATED", None, "DRAFT", None))
    BY <1>5 DEF create_trip
  <2>2. PreparedInsert(r, Draft(u, s, e), record_transition(u, "CREATED", None, "DRAFT", None))
    BY <2>1 DEF PreparedInsert, Draft, record_transition, NextTripId
  <2> QED
    BY <1>4, <2>1, <2>2
<1>6. CASE delete_trip(w, u, r)
  BY <1>4, <1>6, OwnerIsCreator DEF delete_trip, load_visible_trip
<1>7. CASE update_trip(w, u, r)
  <2>1. PICK s, e \in Days :
          Begin(w, r, "UPDATE", Rescheduling(trip[r], s, e),
                record_transition(u, "UPDATED", trip[r].status, trip[r].status, None))
    BY <1>7 DEF update_trip
  <2>2. trip[r] # None
    BY <1>7 DEF update_trip, load_visible_trip
  <2>3. Rescheduling(trip[r], s, e).approver = Keep
    BY DEF Rescheduling, NoChange
  <2> QED
    BY <1>4, <2>1, <2>2, <2>3, OwnerIsCreator
       DEF PreparedUpdate, record_transition, EntryByItsActor
<1>8. CASE submit_trip(w, u, r)
  <2>1. /\ trip[r] # None
        /\ assert_transition(r, u, "SUBMITTED")
        /\ managerOf[u] \in Users
        /\ managerOf[u] # u
        /\ Begin(w, r, "UPDATE", Submission(trip[r], managerOf[u]),
                 record_transition(u, "SUBMITTED", trip[r].status, "SUBMITTED", managerOf[u]))
    BY <1>8 DEF submit_trip, load_visible_trip, TypeOK, ActorInv, NobodyManagesThemselves
  <2>2. <<trip[r].status, "SUBMITTED">> \in OwnerTransitions /\ u = Creator(r)
    BY <2>1, OwnerIsCreator
       DEF assert_transition, assert_transition_allowed, ApproverTransitions
  <2>3. Submission(trip[r], managerOf[u]).approver \in {Keep, managerOf[u]}
    BY DEF Submission, NoChange, Dirty
  <2> QED
    BY <1>4, <2>1, <2>2, <2>3, OwnerIsCreator
       DEF PreparedUpdate, record_transition, EntryByItsActor
<1>9. CASE approve_trip(w, u, r)
  <2>1. /\ trip[r] # None
        /\ assert_transition(r, u, "APPROVED")
        /\ Begin(w, r, "UPDATE", Approval,
                 record_transition(u, "APPROVED", trip[r].status, "APPROVED", trip[r].owner))
    BY <1>9 DEF approve_trip, load_visible_trip
  <2>2. <<trip[r].status, "APPROVED">> \in ApproverTransitions /\ u = trip[r].approver /\ u # None
    BY <2>1 DEF assert_transition, assert_transition_allowed, OwnerTransitions
  <2>3. Approval.approver = Keep
    BY DEF Approval, NoChange
  <2> QED
    BY <1>4, <2>1, <2>2, <2>3, OwnerIsCreator
       DEF PreparedUpdate, record_transition, EntryByItsActor
<1>10. CASE reject_trip(w, u, r)
  <2>1. /\ trip[r] # None
        /\ assert_transition(r, u, "REJECTED")
        /\ Begin(w, r, "UPDATE", Rejection,
                 record_transition(u, "REJECTED", trip[r].status, "REJECTED", trip[r].owner))
    BY <1>10 DEF reject_trip, load_visible_trip
  <2>2. <<trip[r].status, "REJECTED">> \in ApproverTransitions /\ u = trip[r].approver /\ u # None
    BY <2>1 DEF assert_transition, assert_transition_allowed, OwnerTransitions
  <2>3. Rejection.approver = Keep
    BY DEF Rejection, NoChange
  <2> QED
    BY <1>4, <2>1, <2>2, <2>3, OwnerIsCreator
       DEF PreparedUpdate, record_transition, EntryByItsActor
<1>11. CASE reopen_trip(w, u, r)
  <2>1. /\ trip[r] # None
        /\ assert_transition(r, u, "DRAFT")
        /\ Begin(w, r, "UPDATE", Reopening(trip[r]),
                 record_transition(u, "UPDATED", trip[r].status, "DRAFT", None))
    BY <1>11 DEF reopen_trip, load_visible_trip
  <2>2. <<trip[r].status, "DRAFT">> \in OwnerTransitions /\ u = Creator(r)
    BY <2>1, OwnerIsCreator
       DEF assert_transition, assert_transition_allowed, ApproverTransitions
  <2>3. Reopening(trip[r]).approver \in {Keep, None}
    BY DEF Reopening, NoChange, Dirty
  <2> QED
    BY <1>4, <2>1, <2>2, <2>3, OwnerIsCreator
       DEF PreparedUpdate, record_transition, EntryByItsActor
<1>12. CASE complete_trip(w, u, r)
  <2>1. /\ trip[r] # None
        /\ assert_transition(r, u, "COMPLETED")
        /\ Begin(w, r, "UPDATE", Completion,
                 record_transition(u, "COMPLETED", trip[r].status, "COMPLETED", None))
    BY <1>12 DEF complete_trip, load_visible_trip
  <2>2. <<trip[r].status, "COMPLETED">> \in OwnerTransitions /\ u = Creator(r)
    BY <2>1, OwnerIsCreator
       DEF assert_transition, assert_transition_allowed, ApproverTransitions
  <2>3. Completion.approver = Keep
    BY DEF Completion, NoChange
  <2> QED
    BY <1>4, <2>1, <2>2, <2>3, OwnerIsCreator
       DEF PreparedUpdate, record_transition, EntryByItsActor
<1>13. CASE settle_trip_for_report(w, u, r)
  <2>1. /\ trip[r] # None
        /\ u = trip[r].approver
        /\ <<trip[r].status, "SETTLED">> \in SystemTransitions
        /\ Begin(w, r, "UPDATE", Settling,
                 record_transition(u, "SETTLED", trip[r].status, "SETTLED", None))
    BY <1>13 DEF settle_trip_for_report, assert_system_transition
  <2>2. Settling.approver = Keep
    BY DEF Settling, NoChange
  <2> QED
    BY <1>4, <2>1, <2>2, OwnerIsCreator
       DEF PreparedUpdate, record_transition, EntryByItsActor
<1> QED
  BY <1>3, <1>5, <1>6, <1>7, <1>8, <1>9, <1>10, <1>11, <1>12, <1>13

\* Handing over keeps the invariant: the tables do not change, and the new unit
\* of work is the right actor's.
LEMMA PrepareActors ==
  ASSUME TypeOK, ActorInv, NEW w \in Workers, TripRequest(w) \/ Settlement(w)
  PROVE  ActorInv'
<1>0. PICK t \in TripIds : \E kind, set, entry :
        /\ Prepares(w, t, kind, set, entry)
        /\ kind = "INSERT" => PreparedInsert(t, set, entry) /\ NextTripId(t)
        /\ kind = "UPDATE" => PreparedUpdate(t, set, entry)
        /\ kind = "DELETE" => log[t] # <<>>
  BY HandlersActors
<1>1. PICK kind, set, entry :
        /\ Prepares(w, t, kind, set, entry)
        /\ kind = "INSERT" => PreparedInsert(t, set, entry) /\ NextTripId(t)
        /\ kind = "UPDATE" => PreparedUpdate(t, set, entry)
        /\ kind = "DELETE" => log[t] # <<>>
  BY <1>0
<1>2. /\ ~Busy(w)
      /\ work'[w].trip = t
      /\ work'[w].kind = kind
      /\ work'[w].set = set
      /\ work'[w].entry = entry
      /\ \A v \in Workers : v # w => work'[v] = work[v]
      /\ managerOf' = managerOf /\ trip' = trip /\ log' = log
  BY <1>1, HandedOver DEF Prepares, Begin, TypeOK, environment, tables
<1>3. NobodyManagesThemselves' /\ LogActors' /\ \A r \in TripIds : RowActors(r)'
  <2>1. NobodyManagesThemselves'
    BY <1>2 DEF ActorInv, NobodyManagesThemselves
  <2>2. LogActors'
    BY <1>2 DEF ActorInv, LogActors, EntryByItsActor, Creator
  <2>3. \A r \in TripIds : RowActors(r)'
    BY <1>2 DEF ActorInv, RowActors, Creator, Asked
  <2> QED
    BY <2>1, <2>2, <2>3
<1>4. ASSUME NEW v \in Workers, v # w PROVE WorkActors(v)'
  <2> SUFFICES ASSUME Busy(v)'
               PROVE  /\ work[v].kind = "INSERT" =>
                           PreparedInsert(work[v].trip, work[v].set, work[v].entry)'
                             /\ InsertsAlone(v)'
                      /\ work[v].kind = "UPDATE" =>
                           PreparedUpdate(work[v].trip, work[v].set, work[v].entry)'
    BY <1>2, <1>4 DEF WorkActors, PreparedInsert, PreparedUpdate
  <2>1. Busy(v) /\ WorkActors(v)
    BY <1>2, <1>4 DEF Busy, ActorInv
  <2>2. CASE work[v].kind = "INSERT"
    <3>1. PreparedInsert(work[v].trip, work[v].set, work[v].entry) /\ InsertsAlone(v)
      BY <2>1, <2>2 DEF WorkActors
    <3>2. t # work[v].trip
      <4>1. CASE kind = "INSERT"
        BY <1>1, <2>1, <4>1 DEF NextTripId
      <4>2. CASE kind # "INSERT"
        <5>1. log[t] # <<>>
          BY <1>1, <4>2 DEF PreparedUpdate, Prepares, Work
        <5> QED
          BY <3>1, <5>1 DEF PreparedInsert
      <4> QED
        BY <4>1, <4>2
    <3>3. InsertsAlone(v)'
      BY <1>2, <1>4, <3>1, <3>2 DEF InsertsAlone, Busy
    <3> QED
      BY <1>2, <1>4, <2>2, <3>1, <3>3 DEF PreparedInsert
  <2>3. CASE work[v].kind = "UPDATE"
    BY <1>2, <1>4, <2>1, <2>3 DEF WorkActors, PreparedUpdate, EntryByItsActor, Creator, Asked
  <2> QED
    BY <2>2, <2>3
<1>5. WorkActors(w)'
  <2>1. kind = "INSERT" => InsertsAlone(w)'
    BY <1>1, <1>2 DEF NextTripId, InsertsAlone, Busy
  <2> QED
    BY <1>1, <1>2, <2>1 DEF WorkActors, PreparedInsert, PreparedUpdate, EntryByItsActor,
                            Creator, Asked
<1> QED
  BY <1>3, <1>4, <1>5 DEF ActorInv

\* Appending to a log keeps what the log already says.
LEMMA LogGrows ==
  ASSUME TypeOK, NEW t \in TripIds, NEW e \in Entry, WriteLog(t, e)
  PROVE  /\ Len(log'[t]) = Len(log[t]) + 1
         /\ log'[t] # <<>>
         /\ \A i \in 1..Len(log[t]) : log'[t][i] = log[t][i]
         /\ log'[t][Len(log[t]) + 1] = e
         /\ \A r \in TripIds : r # t => log'[r] = log[r]
         /\ log[t] # <<>> => Creator(t)' = Creator(t)
         /\ \A u : Asked(t, u) => Asked(t, u)'
<1>1. log[t] \in Seq(Entry) /\ log'[t] = Append(log[t], e)
  BY DEF TypeOK, WriteLog
<1>2. Len(log[t]) \in Nat /\ (log[t] # <<>> => 1 \in 1..Len(log[t]))
  BY <1>1
<1>3. /\ Len(log'[t]) = Len(log[t]) + 1
      /\ log'[t] # <<>>
      /\ \A i \in 1..Len(log[t]) : log'[t][i] = log[t][i]
      /\ log'[t][Len(log[t]) + 1] = e
  BY <1>1
<1>4. \A r \in TripIds : r # t => log'[r] = log[r]
  BY DEF TypeOK, WriteLog
<1>5. log[t] # <<>> => Creator(t)' = Creator(t)
  BY <1>2, <1>3 DEF Creator
<1>6. ASSUME NEW u, Asked(t, u) PROVE Asked(t, u)'
  <2>1. PICK j \in 1..Len(log[t]) : log[t][j].action = "SUBMITTED" /\ log[t][j].notified = u
    BY <1>6 DEF Asked
  <2>2. j \in 1..Len(log'[t])
    BY <1>2, <1>3
  <2> QED
    BY <1>3, <2>1, <2>2 DEF Asked
<1> QED
  BY <1>3, <1>4, <1>5, <1>6

\* A new log row that is the right actor's keeps the log so.
LEMMA LogActorsGrow ==
  ASSUME TypeOK, ActorInv, NEW t \in TripIds, NEW e \in Entry, WriteLog(t, e),
         EntryByItsActor(t, e)',
         e.action \in {"APPROVED", "REJECTED"} => Asked(t, e.actor)
  PROVE  LogActors'
<1> SUFFICES ASSUME NEW r \in TripIds, NEW i \in 1..Len(log'[r])
             PROVE  /\ EntryByItsActor(r, log[r][i])'
                    /\ log'[r][i].action \in {"APPROVED", "REJECTED"} =>
                         \E j \in 1..(i - 1) :
                           log'[r][j].action = "SUBMITTED"
                             /\ log'[r][j].notified = log'[r][i].actor
  BY DEF LogActors
<1>1. \A q \in TripIds : log[q] \in Seq(Entry) /\ Len(log[q]) \in Nat
  BY DEF TypeOK
<1>2. CASE r # t
  <2>1. log'[r] = log[r]
    BY <1>2, LogGrows
  <2>2. i \in 1..Len(log[r]) /\ EntryByItsActor(r, log[r][i])
    BY <2>1 DEF ActorInv, LogActors
  <2>3. EntryByItsActor(r, log[r][i])'
    BY <2>1, <2>2 DEF EntryByItsActor, Creator
  <2> QED
    BY <2>1, <2>2, <2>3 DEF ActorInv, LogActors
<1>3. CASE r = t /\ i \in 1..Len(log[t])
  <2>1. log[t] # <<>> /\ log'[t][i] = log[t][i] /\ Creator(t)' = Creator(t)
    BY <1>1, <1>3, LogGrows
  <2>2. \A j \in 1..(i - 1) : log'[t][j] = log[t][j]
    BY <1>1, <1>3, LogGrows
  <2>3. EntryByItsActor(t, log[t][i]) /\ EntryByItsActor(t, log[t][i])'
    BY <1>3, <2>1 DEF ActorInv, LogActors, EntryByItsActor
  <2>4. log[t][i].action \in {"APPROVED", "REJECTED"} =>
          \E j \in 1..(i - 1) :
            log[t][j].action = "SUBMITTED" /\ log[t][j].notified = log[t][i].actor
    BY <1>3 DEF ActorInv, LogActors
  <2> QED
    BY <1>3, <2>1, <2>2, <2>3, <2>4
<1>4. CASE r = t /\ i = Len(log[t]) + 1
  <2>1. log'[t][i] = e
    BY <1>4, LogGrows
  <2>2. EntryByItsActor(t, log[t][i])'
    BY <2>1
  <2>3. ASSUME e.action \in {"APPROVED", "REJECTED"}
        PROVE  \E j \in 1..(i - 1) :
                 log'[t][j].action = "SUBMITTED" /\ log'[t][j].notified = e.actor
    <3>1. PICK j \in 1..Len(log[t]) :
            log[t][j].action = "SUBMITTED" /\ log[t][j].notified = e.actor
      BY <2>3 DEF Asked
    <3>2. j \in 1..(i - 1)
      BY <1>1, <1>4, <3>1
    <3> QED
      BY <3>1, <3>2, LogGrows
  <2> QED
    BY <1>4, <2>1, <2>2, <2>3
<1> QED
  BY <1>1, <1>2, <1>3, <1>4, LogGrows

\* Everybody else's prepared work survives the growth of a log that was not
\* empty, and of the log of a trip nobody else works on.
LEMMA OthersKeepWork ==
  ASSUME TypeOK, ActorInv, NEW w \in Workers, Busy(w), Finish(w),
         NEW t \in TripIds, t = work[w].trip,
         \/ UNCHANGED log
         \/ \E e \in Entry : WriteLog(t, e) /\ (log[t] # <<>> \/ InsertsAlone(w))
  PROVE  \A v \in Workers : WorkActors(v)'
<1> SUFFICES ASSUME NEW v \in Workers, Busy(v)' PROVE WorkActors(v)'
  BY DEF WorkActors
<1>1. /\ v # w
      /\ work'[v] = work[v]
      /\ Busy(v)
      /\ \A q \in Workers : Busy(q)' => Busy(q) /\ work'[q] = work[q]
  BY DEF Finish, Busy, TypeOK
<1>0. PICK r \in TripIds : work[v].trip = r
  BY <1>1, WorkType
<1>2. PICK kind, set, entry :
        work[v].trip = r /\ work[v].kind = kind /\ work[v].set = set /\ work[v].entry = entry
  BY <1>0
<1>3. /\ kind = "INSERT" => PreparedInsert(r, set, entry) /\ InsertsAlone(v)
      /\ kind = "UPDATE" => PreparedUpdate(r, set, entry)
  BY <1>1, <1>2 DEF ActorInv, WorkActors
<1>4. InsertsAlone(v) => InsertsAlone(v)'
  BY <1>1 DEF InsertsAlone
<1>5. \/ log'[r] = log[r]
      \/ /\ kind # "INSERT"
         /\ log'[r] # <<>>
         /\ log[r] # <<>> => Creator(r)' = Creator(r)
         /\ \A u : Asked(r, u) => Asked(r, u)'
  <2>1. CASE UNCHANGED log \/ r # t
    BY <2>1, LogGrows
  <2>2. CASE r = t /\ ~UNCHANGED log
    <3>1. kind # "INSERT"
      BY <1>1, <1>2, <1>3, <2>2 DEF PreparedInsert, InsertsAlone
    <3> QED
      BY <2>2, <3>1, LogGrows
  <2> QED
    BY <2>1, <2>2
<1>6. kind = "INSERT" => PreparedInsert(r, set, entry)'
  BY <1>3, <1>5 DEF PreparedInsert
<1>7. kind = "UPDATE" => PreparedUpdate(r, set, entry)'
  <2>1. CASE log'[r] = log[r]
    BY <1>3, <2>1 DEF PreparedUpdate, EntryByItsActor, Creator, Asked
  <2>2. CASE log'[r] # log[r]
    BY <1>3, <1>5, <2>2 DEF PreparedUpdate, EntryByItsActor
  <2> QED
    BY <2>1, <2>2
<1>8. work'[v].trip = r /\ work'[v].kind = kind /\ work'[v].set = set /\ work'[v].entry = entry
  BY <1>1, <1>2
<1> QED
  BY <1>3, <1>4, <1>6, <1>7, <1>8 DEF WorkActors, PreparedInsert, PreparedUpdate,
                                       EntryByItsActor, Creator, Asked

\* What is written was prepared by the right actor: the end of a request keeps
\* the log and the row true to it.
LEMMA CommitActors ==
  ASSUME TypeOK, ActorInv, NEW w \in Workers, Commit(w) \/ Rollback(w)
  PROVE  ActorInv'
<1>1. Busy(w) /\ Finish(w)
  BY DEF Commit, Rollback, CommitInsert, CommitUpdate, CommitLogOnly, CommitDelete
<1>0. PICK t \in TripIds : work[w].trip = t
  BY <1>1, WorkType
<1>2. PICK kind, set, e :
        work[w].trip = t /\ work[w].kind = kind /\ work[w].set = set /\ work[w].entry = e
  BY <1>0
<1>3. /\ kind = "INSERT" => PreparedInsert(t, set, e) /\ InsertsAlone(w) /\ set \in TripRow
      /\ kind = "UPDATE" => PreparedUpdate(t, set, e) /\ set \in Change
      /\ kind # "DELETE" => e \in Entry
  BY <1>1, <1>2, WorkType DEF ActorInv, WorkActors
<1>4. NobodyManagesThemselves'
  BY <1>1 DEF ActorInv, NobodyManagesThemselves, Finish, environment
<1>5. CASE CommitInsert(w)
  <2>1. kind = "INSERT" /\ trip' = [trip EXCEPT ![t] = set] /\ WriteLog(t, e)
    BY <1>2, <1>5 DEF CommitInsert
  <2>2. /\ log[t] = <<>> /\ e.action = "CREATED" /\ e.actor = set.owner
        /\ set.approver = None /\ e \in Entry /\ e.actor \in Users
    BY <1>3, <2>1 DEF PreparedInsert, TripRow
  <2>3. /\ log'[t] # <<>>
        /\ Creator(t)' = e.actor
        /\ EntryByItsActor(t, e)'
    <3>1. log'[t] # <<>> /\ log'[t][1] = e
      BY <2>1, <2>2, LogGrows
    <3> QED
      BY <2>2, <3>1 DEF Creator, EntryByItsActor
  <2>4. LogActors'
    BY <2>1, <2>2, <2>3, LogActorsGrow
  <2>5. ASSUME NEW r \in TripIds PROVE RowActors(r)'
    <3>1. CASE r = t
      BY <2>1, <2>2, <2>3, <3>1, TripsAssumption DEF RowActors, TypeOK
    <3>2. CASE r # t
      <4>1. log'[r] = log[r] /\ trip'[r] = trip[r]
        BY <2>1, <2>2, <3>2, LogGrows DEF TypeOK
      <4> QED
        BY <4>1 DEF ActorInv, RowActors, Creator, Asked
    <3> QED
      BY <3>1, <3>2
  <2>6. \A v \in Workers : WorkActors(v)'
    BY <1>1, <1>2, <1>3, <2>1, <2>2, OthersKeepWork
  <2> QED
    BY <1>4, <2>4, <2>5, <2>6 DEF ActorInv
<1>6. CASE CommitUpdate(w)
  <2>1. /\ kind = "UPDATE" /\ trip[t] # None /\ WriteLog(t, e)
        /\ trip' = [trip EXCEPT ![t] = Flushed(set, trip[t])]
    BY <1>2, <1>6 DEF CommitUpdate
  <2>2. PreparedUpdate(t, set, e) /\ set \in Change /\ e \in Entry /\ trip[t] \in TripRow
    BY <1>3, <2>1 DEF TypeOK
  <2>3. /\ log[t] # <<>>
        /\ Creator(t)' = Creator(t)
        /\ \A u : Asked(t, u) => Asked(t, u)'
    BY <2>1, <2>2, LogGrows DEF PreparedUpdate
  <2>4. LogActors'
    BY <2>1, <2>2, <2>3, LogActorsGrow DEF PreparedUpdate, EntryByItsActor
  <2>5. e.action = "SUBMITTED" => Asked(t, e.notified)'
    <3>1. Len(log'[t]) = Len(log[t]) + 1 /\ log'[t][Len(log[t]) + 1] = e
      BY <2>1, <2>2, LogGrows
    <3>2. Len(log[t]) + 1 \in 1..Len(log'[t])
      BY <3>1 DEF TypeOK
    <3> QED
      BY <3>1, <3>2 DEF Asked
  <2>6. RowActors(t)'
    <3>1. trip'[t].owner = trip[t].owner
      BY <2>1, <2>2 DEF Flushed, Column, Change, TypeOK
    <3>2. trip'[t].approver = Column(set.approver, trip[t].approver)
      BY <2>1 DEF Flushed, TypeOK
    <3>3. /\ trip[t].owner = Creator(t)
          /\ trip[t].approver # Creator(t)
          /\ trip[t].approver # None => Asked(t, trip[t].approver)
      BY <2>1 DEF ActorInv, RowActors
    <3>4. set.approver \in Users \cup {None, Keep}
      BY <2>2 DEF Change
    <3>5. trip'[t].approver # Creator(t)
      BY <2>2, <3>2, <3>3 DEF Column, PreparedUpdate
    <3>6. ASSUME NEW a, a = trip'[t].approver, a # None PROVE Asked(t, a)'
      <4>1. CASE set.approver = Keep
        <5>1. a = trip[t].approver
          BY <3>2, <3>6, <4>1 DEF Column
        <5> QED
          BY <2>3, <3>3, <3>6, <5>1
      <4>2. CASE set.approver # Keep
        <5>1. a = set.approver
          BY <3>2, <3>6, <4>2 DEF Column
        <5> QED
          BY <2>2, <2>5, <3>4, <3>6, <4>2, <5>1 DEF PreparedUpdate
      <4> QED
        BY <4>1, <4>2
    <3>7. log'[t] # <<>>
      BY <2>1, <2>2, LogGrows
    <3> QED
      BY <2>3, <3>1, <3>3, <3>5, <3>6, <3>7 DEF RowActors, Asked
  <2>7. ASSUME NEW r \in TripIds, r # t PROVE RowActors(r)'
    <3>1. log'[r] = log[r] /\ trip'[r] = trip[r]
      BY <2>1, <2>2, <2>7, LogGrows DEF TypeOK
    <3> QED
      BY <3>1 DEF ActorInv, RowActors, Creator, Asked
  <2>8. \A v \in Workers : WorkActors(v)'
    BY <1>1, <1>2, <2>1, <2>2, <2>3, OthersKeepWork
  <2> QED
    BY <1>4, <2>4, <2>6, <2>7, <2>8 DEF ActorInv
<1>7. CASE CommitLogOnly(w)
  <2>1. kind = "UPDATE" /\ trip[t] = None /\ WriteLog(t, e) /\ trip' = trip
    BY <1>2, <1>7 DEF CommitLogOnly
  <2>2. PreparedUpdate(t, set, e) /\ e \in Entry /\ log[t] # <<>>
    BY <1>3, <2>1 DEF PreparedUpdate
  <2>3. LogActors'
    BY <2>1, <2>2, LogGrows, LogActorsGrow DEF PreparedUpdate, EntryByItsActor
  <2>4. ASSUME NEW r \in TripIds PROVE RowActors(r)'
    BY <2>1, <2>2, LogGrows DEF RowActors, ActorInv, Creator, Asked
  <2>5. \A v \in Workers : WorkActors(v)'
    BY <1>1, <1>2, <2>1, <2>2, OthersKeepWork
  <2> QED
    BY <1>4, <2>3, <2>4, <2>5 DEF ActorInv
<1>8. CASE CommitDelete(w) \/ Rollback(w)
  <2>1. log' = log /\ \A r \in TripIds : trip'[r] \in {trip[r], None}
    BY <1>8 DEF CommitDelete, Rollback, tables, TypeOK
  <2>2. LogActors'
    BY <2>1 DEF ActorInv, LogActors, EntryByItsActor, Creator
  <2>3. ASSUME NEW r \in TripIds PROVE RowActors(r)'
    BY <2>1 DEF RowActors, ActorInv, Creator, Asked
  <2>4. \A v \in Workers : WorkActors(v)'
    BY <1>1, <1>2, <2>1, OthersKeepWork
  <2> QED
    BY <1>4, <2>2, <2>3, <2>4 DEF ActorInv
<1> QED
  BY <1>5, <1>6, <1>7, <1>8 DEF Commit

\* Apart from the approvers it is about the rows and the requests alone.
LEMMA ActorsStay ==
  ASSUME ActorInv, NobodyManagesThemselves', trip' = trip, log' = log, work' = work
  PROVE  ActorInv'
<1>1. \A t \in TripIds : RowActors(t)'
  BY DEF ActorInv, RowActors, Creator, Asked
<1>2. ASSUME NEW w \in Workers PROVE WorkActors(w)'
  <2>1. WorkActors(w)
    BY DEF ActorInv
  <2> QED
    BY <2>1 DEF WorkActors, InsertsAlone, Busy, PreparedInsert, PreparedUpdate, EntryByItsActor,
                Creator, Asked
<1>3. LogActors'
  BY DEF ActorInv, LogActors, EntryByItsActor, Creator
<1> QED
  BY <1>1, <1>2, <1>3 DEF ActorInv

\* Changing somebody's approver or the date touches no trip; nobody is made
\* their own approver.
LEMMA EnvironmentActors ==
  ASSUME TypeOK, ActorInv, Environment
  PROVE  ActorInv'
<1>1. trip' = trip /\ log' = log /\ work' = work
  BY DEF Environment, AdvanceDay, update_user, tables
<1>2. NobodyManagesThemselves'
  <2>1. CASE AdvanceDay
    BY <2>1 DEF AdvanceDay, ActorInv, NobodyManagesThemselves
  <2>2. ASSUME NEW u \in Users, NEW m \in Users \cup {None}, update_user(u, m)
        PROVE  NobodyManagesThemselves'
    BY <2>2 DEF update_user, _assert_manager, ActorInv, NobodyManagesThemselves, TypeOK
  <2> QED
    BY <2>1, <2>2 DEF Environment
<1> QED
  BY <1>1, <1>2, ActorsStay

\* The actors are right initially and after every step.
LEMMA ActorInit == Init => ActorInv
  BY DEF Init, ActorInv, NobodyManagesThemselves, RowActors, WorkActors, Busy, LogActors

LEMMA ActorStep ==
  ASSUME TypeOK, ActorInv, [Next]_vars
  PROVE  ActorInv'
<1>1. CASE \E w \in Workers : TripRequest(w) \/ Settlement(w)
  BY <1>1, PrepareActors
<1>2. CASE \E w \in Workers : Commit(w) \/ Rollback(w)
  BY <1>2, CommitActors
<1>3. CASE Environment
  BY <1>3, EnvironmentActors
<1>4. CASE UNCHANGED vars
  <2>1. trip' = trip /\ log' = log /\ work' = work /\ managerOf' = managerOf
    BY <1>4 DEF vars
  <2>2. NobodyManagesThemselves'
    BY <2>1 DEF ActorInv, NobodyManagesThemselves
  <2> QED
    BY <2>1, <2>2, ActorsStay
<1> QED
  BY <1>1, <1>2, <1>3, <1>4 DEF Next

\* The inductive invariant behind the two theorems on actors.
THEOREM ActorsCorrect == Spec => []ActorInv
<1>1. TypeOK /\ ActorInv /\ [Next]_vars => ActorInv'
  BY ActorStep
<1> QED
  BY <1>1, ActorInit, TypeCorrect, PTL DEF Spec

\* In every interleaving of any number of requests, each recorded status change
\* was made by the actor the transition tables name, and nobody decided on a
\* trip of their own (assert_transition_allowed, _assert_manager).
THEOREM StepsAreByTheirActor == Spec => []StepsByTheirActor
<1>1. ActorInv => StepsByTheirActor
  BY DEF ActorInv, LogActors, StepsByTheirActor
<1> QED
  BY <1>1, ActorsCorrect, PTL

\* In every interleaving, whoever approved or rejected a trip had been sent a
\* submission of it (submit_trip fills the approver and notifies in one
\* transaction).
THEOREM DecidersWereAlwaysAsked == Spec => []DecidersWereAsked
<1>1. ActorInv => DecidersWereAsked
  BY DEF ActorInv, LogActors, DecidersWereAsked
<1> QED
  BY <1>1, ActorsCorrect, PTL

-----------------------------------------------------------------------------
(* Rows and log tell one story                                             *)

\* What a handler is about to record is what it is about to do, from a status
\* the trip has had.
PreparedRecord(t, kind, set, e) ==
  /\ kind = "INSERT" => e.from = None /\ e.to = set.status
  /\ kind = "UPDATE" =>
       /\ e.from \in Recorded(t)
       /\ set.status = Keep => e.from = e.to
       /\ set.status # Keep => e.from # e.to /\ e.to = set.status

\* A status a row has is in its log, and so is the one a request has read,
\* whatever happens to the row meanwhile.
RecordInv ==
  /\ \A t \in TripIds : trip[t] # None => trip[t].status \in Recorded(t)
  /\ \A w \in Workers : Busy(w) =>
       PreparedRecord(work[w].trip, work[w].kind, work[w].set, work[w].entry)

\* Every handler records the assignment it makes.
LEMMA HandlersRecord ==
  ASSUME TypeOK, RecordInv, NEW w \in Workers, TripRequest(w) \/ Settlement(w)
  PROVE  PreparedRecord(work'[w].trip, work'[w].kind, work'[w].set, work'[w].entry)
<1>1. ASSUME NEW t, NEW kind, NEW set, NEW e,
             Begin(w, t, kind, set, e), PreparedRecord(t, kind, set, e)
      PROVE  PreparedRecord(work'[w].trip, work'[w].kind, work'[w].set, work'[w].entry)
  <2>1. work'[w].trip = t /\ work'[w].kind = kind /\ work'[w].set = set /\ work'[w].entry = e
    BY <1>1, HandedOver
  <2> QED
    BY <1>1, <2>1
<1>2. PICK u \in Users, t \in TripIds :
        \/ create_trip(w, u, t)
        \/ update_trip(w, u, t)
        \/ delete_trip(w, u, t)
        \/ submit_trip(w, u, t)
        \/ approve_trip(w, u, t)
        \/ reject_trip(w, u, t)
        \/ reopen_trip(w, u, t)
        \/ complete_trip(w, u, t)
        \/ settle_trip_for_report(w, u, t)
  BY DEF TripRequest, Settlement
<1>3. ASSUME NEW action, NEW target \in TripStatuses, NEW set, NEW notify, trip[t] # None,
             assert_transition(t, u, target) \/ <<trip[t].status, target>> \in SystemTransitions,
             set.status = target,
             Begin(w, t, "UPDATE", set,
                   record_transition(u, action, trip[t].status, target, notify))
      PROVE  PreparedRecord(work'[w].trip, work'[w].kind, work'[w].set, work'[w].entry)
  <2> DEFINE e == record_transition(u, action, trip[t].status, target, notify)
  <2>1. e.from = trip[t].status /\ e.to = target
    BY DEF record_transition
  <2>2. trip[t].status # target
    BY <1>3 DEF assert_transition, assert_transition_allowed, OwnerTransitions,
                ApproverTransitions, SystemTransitions
  <2>3. trip[t].status \in Recorded(t) /\ target # Keep
    BY <1>3, TripsAssumption DEF RecordInv
  <2>4. PreparedRecord(t, "UPDATE", set, e)
    BY <1>3, <2>1, <2>2, <2>3 DEF PreparedRecord
  <2> QED
    BY <1>1, <1>3, <2>4
<1>4. CASE create_trip(w, u, t)
  <2>1. PICK s, e \in Days :
          Begin(w, t, "INSERT", Draft(u, s, e),
                record_transition(u, "CREATED", None, "DRAFT", None))
    BY <1>4 DEF create_trip
  <2>2. PreparedRecord(t, "INSERT", Draft(u, s, e),
                       record_transition(u, "CREATED", None, "DRAFT", None))
    BY DEF PreparedRecord, Draft, record_transition
  <2> QED
    BY <1>1, <2>1, <2>2
<1>5. CASE update_trip(w, u, t)
  <2>1. PICK s, e \in Days :
          /\ trip[t] # None
          /\ Begin(w, t, "UPDATE", Rescheduling(trip[t], s, e),
                   record_transition(u, "UPDATED", trip[t].status, trip[t].status, None))
    BY <1>5 DEF update_trip, load_visible_trip
  <2>2. trip[t].status \in Recorded(t)
    BY <2>1 DEF RecordInv
  <2>3. PreparedRecord(t, "UPDATE", Rescheduling(trip[t], s, e),
                       record_transition(u, "UPDATED", trip[t].status, trip[t].status, None))
    BY <2>2 DEF PreparedRecord, Rescheduling, NoChange, record_transition
  <2> QED
    BY <1>1, <2>1, <2>3
<1>6. CASE delete_trip(w, u, t)
  <2>1. Begin(w, t, "DELETE", NoChange, None)
    BY <1>6 DEF delete_trip
  <2>2. PreparedRecord(t, "DELETE", NoChange, None)
    BY DEF PreparedRecord
  <2> QED
    BY <1>1, <2>1, <2>2
<1>7. CASE submit_trip(w, u, t)
  <2>1. Submission(trip[t], managerOf[u]).status = "SUBMITTED"
    BY DEF Submission, NoChange
  <2> QED
    BY <1>3, <1>7, <2>1 DEF submit_trip, load_visible_trip, TripStatuses
<1>8. CASE approve_trip(w, u, t)
  <2>1. Approval.status = "APPROVED"
    BY DEF Approval, NoChange
  <2> QED
    BY <1>3, <1>8, <2>1 DEF approve_trip, load_visible_trip, TripStatuses
<1>9. CASE reject_trip(w, u, t)
  <2>1. Rejection.status = "REJECTED"
    BY DEF Rejection, NoChange
  <2> QED
    BY <1>3, <1>9, <2>1 DEF reject_trip, load_visible_trip, TripStatuses
<1>10. CASE reopen_trip(w, u, t)
  <2>1. Reopening(trip[t]).status = "DRAFT"
    BY DEF Reopening, NoChange
  <2> QED
    BY <1>3, <1>10, <2>1 DEF reopen_trip, load_visible_trip, TripStatuses
<1>11. CASE complete_trip(w, u, t)
  <2>1. Completion.status = "COMPLETED"
    BY DEF Completion, NoChange
  <2> QED
    BY <1>3, <1>11, <2>1 DEF complete_trip, load_visible_trip, TripStatuses
<1>12. CASE settle_trip_for_report(w, u, t)
  <2>1. Settling.status = "SETTLED"
    BY DEF Settling, NoChange
  <2> QED
    BY <1>3, <1>12, <2>1 DEF settle_trip_for_report, assert_system_transition, TripStatuses
<1> QED
  BY <1>2, <1>4, <1>5, <1>6, <1>7, <1>8, <1>9, <1>10, <1>11, <1>12

\* A log row adds its status to those the trip has had.
LEMMA RecordedGrows ==
  ASSUME TypeOK, NEW t \in TripIds, NEW e \in Entry, WriteLog(t, e)
  PROVE  /\ Recorded(t)' = Recorded(t) \cup {e.to}
         /\ \A r \in TripIds : r # t => log'[r] = log[r] /\ Recorded(r)' = Recorded(r)
         /\ Written(t) /\ LogRow(t) = e
<1>1. /\ DOMAIN log[t] = 1..Len(log[t]) /\ DOMAIN log'[t] = 1..(Len(log[t]) + 1)
      /\ Len(log[t]) \in Nat
  <2>1. log[t] \in Seq(Entry) /\ log'[t] = Append(log[t], e)
    BY DEF TypeOK, WriteLog
  <2> QED
    BY <2>1
<1>2. /\ Len(log'[t]) = Len(log[t]) + 1
      /\ \A i \in 1..Len(log[t]) : log'[t][i] = log[t][i]
      /\ log'[t][Len(log[t]) + 1] = e
      /\ \A r \in TripIds : r # t => log'[r] = log[r]
  BY LogGrows
<1>3. \A i \in DOMAIN log'[t] : i \in DOMAIN log[t] \/ i = Len(log[t]) + 1
  BY <1>1
<1>4. DOMAIN log[t] \subseteq DOMAIN log'[t] /\ Len(log[t]) + 1 \in DOMAIN log'[t]
  BY <1>1
<1>5. \A i \in DOMAIN log[t] : log'[t][i] = log[t][i]
  BY <1>1, <1>2
<1>6. Recorded(t)' = Recorded(t) \cup {e.to}
  BY <1>2, <1>3, <1>4, <1>5 DEF Recorded
<1>7. \A r \in TripIds : r # t => log'[r] = log[r] /\ Recorded(r)' = Recorded(r)
  BY <1>2 DEF Recorded
<1>8. Written(t) /\ LogRow(t) = e
  BY <1>1, <1>2 DEF Written, LogRow
<1> QED
  BY <1>6, <1>7, <1>8

\* What a commit does to the row and the log of its trip, and to no other.
LEMMA CommitWrites ==
  ASSUME TypeOK, ActorInv, RecordInv, NEW w \in Workers, Commit(w) \/ Rollback(w)
  PROVE  \E t \in TripIds :
           /\ \A r \in TripIds : r # t => trip'[r] = trip[r] /\ log'[r] = log[r]
           /\ \/ log' = log /\ (trip' = trip \/ trip'[t] = None)
              \/ \E e \in Entry :
                   /\ WriteLog(t, e)
                   /\ e.from \in IF log[t] = <<>> THEN {None} ELSE Recorded(t)
                   /\ \/ e.from = e.to /\ trip[t] # None /\ trip'[t] # None
                           /\ trip'[t].status = trip[t].status
                      \/ e.from = e.to /\ trip' = trip
                      \/ e.from # e.to /\ trip'[t] # None /\ trip'[t].status = e.to
<1>1. Busy(w)
  BY DEF Commit, Rollback, CommitInsert, CommitUpdate, CommitLogOnly, CommitDelete
<1>2. PICK t \in TripIds : t = work[w].trip
  BY <1>1, WorkType
<1>3. PICK kind, set, e :
        work[w].trip = t /\ work[w].kind = kind /\ work[w].set = set /\ work[w].entry = e
  BY <1>2
<1>4. /\ PreparedRecord(t, kind, set, e)
      /\ kind = "INSERT" => log[t] = <<>> /\ set \in TripRow
      /\ kind = "UPDATE" => log[t] # <<>> /\ set \in Change
      /\ kind # "DELETE" => e \in Entry
  BY <1>1, <1>3, WorkType
     DEF RecordInv, ActorInv, WorkActors, PreparedInsert, PreparedUpdate
<1>5. CASE CommitInsert(w)
  <2>1. kind = "INSERT" /\ trip' = [trip EXCEPT ![t] = set] /\ WriteLog(t, e)
    BY <1>3, <1>5 DEF CommitInsert
  <2>2. e \in Entry /\ e.from = None /\ e.to = set.status /\ e.from # e.to
    BY <1>4, <2>1, TripsAssumption DEF PreparedRecord, TripRow
  <2>3. trip'[t] = set /\ set # None /\ \A r \in TripIds : r # t => trip'[r] = trip[r]
    BY <1>4, <2>1, NullIsNoRow DEF TypeOK
  <2> QED
    BY <1>4, <2>1, <2>2, <2>3, RecordedGrows
<1>6. CASE CommitUpdate(w)
  <2>1. /\ kind = "UPDATE" /\ trip[t] # None /\ WriteLog(t, e)
        /\ trip' = [trip EXCEPT ![t] = Flushed(set, trip[t])]
    BY <1>3, <1>6 DEF CommitUpdate
  <2>2. /\ e \in Entry /\ log[t] # <<>> /\ e.from \in Recorded(t)
        /\ set.status = Keep => e.from = e.to
        /\ set.status # Keep => e.from # e.to /\ e.to = set.status
    BY <1>4, <2>1 DEF PreparedRecord
  <2>3. PICK new \in TripRow : new = Flushed(set, trip[t])
    BY <1>4, <2>1, FlushedType DEF TypeOK
  <2>4. new.status = Column(set.status, trip[t].status)
    BY <2>3 DEF Flushed
  <2>5. trip'[t] = new /\ new # None /\ \A r \in TripIds : r # t => trip'[r] = trip[r]
    BY <2>1, <2>3, NullIsNoRow DEF TypeOK
  <2>6. CASE set.status = Keep
    <3>1. e.from = e.to /\ trip'[t].status = trip[t].status
      BY <2>2, <2>4, <2>5, <2>6 DEF Column
    <3> QED
      BY <2>1, <2>2, <2>5, <3>1, RecordedGrows
  <2>7. CASE set.status # Keep
    <3>1. e.from # e.to /\ trip'[t].status = e.to
      BY <2>2, <2>4, <2>5, <2>7 DEF Column
    <3> QED
      BY <2>1, <2>2, <2>5, <3>1, RecordedGrows
  <2> QED
    BY <2>6, <2>7
<1>7. CASE CommitLogOnly(w)
  <2>1. kind = "UPDATE" /\ set = NoChange /\ trip' = trip /\ WriteLog(t, e)
    BY <1>3, <1>7 DEF CommitLogOnly
  <2>2. e \in Entry /\ log[t] # <<>> /\ e.from \in Recorded(t) /\ e.from = e.to
    BY <1>4, <2>1 DEF PreparedRecord, NoChange
  <2> QED
    BY <2>1, <2>2, RecordedGrows
<1>8. CASE CommitDelete(w)
  <2>1. log' = log /\ trip' = [trip EXCEPT ![t] = None]
    BY <1>3, <1>8 DEF CommitDelete
  <2>2. trip'[t] = None /\ \A r \in TripIds : r # t => trip'[r] = trip[r]
    BY <2>1 DEF TypeOK
  <2> QED
    BY <2>1, <2>2
<1>9. CASE Rollback(w)
  BY <1>9 DEF Rollback, tables
<1> QED
  BY <1>5, <1>6, <1>7, <1>8, <1>9 DEF Commit

\* Nothing but a commit touches rows and log.
LEMMA OnlyCommitsWrite ==
  ASSUME TypeOK, Next
  PROVE  \/ trip' = trip /\ log' = log
         \/ \E w \in Workers : Commit(w) \/ Rollback(w)
<1>1. ASSUME NEW w \in Workers, TripRequest(w) \/ Settlement(w) PROVE trip' = trip /\ log' = log
  BY <1>1, HandlersPrepare DEF Prepares, Begin, tables
<1>2. Environment => trip' = trip /\ log' = log
  BY DEF Environment, AdvanceDay, update_user, tables
<1> QED
  BY <1>1, <1>2 DEF Next

\* What is recorded is never taken back, so what a request has read stays true.
LEMMA RecordStep ==
  ASSUME TypeOK, ActorInv, RecordInv, [Next]_vars
  PROVE  RecordInv'
<1>1. CASE \E w \in Workers : TripRequest(w) \/ Settlement(w)
  <2>1. PICK w \in Workers : TripRequest(w) \/ Settlement(w)
    BY <1>1
  <2>2. PICK t \in TripIds : \E kind, set, entry : Prepares(w, t, kind, set, entry)
    BY <2>1, HandlersPrepare
  <2>3. /\ trip' = trip /\ log' = log
        /\ \A v \in Workers : v # w => work'[v] = work[v]
    BY <2>2 DEF Prepares, Begin, tables, TypeOK
  <2>4. PreparedRecord(work'[w].trip, work'[w].kind, work'[w].set, work'[w].entry)
    BY <2>1, HandlersRecord
  <2>5. \A r \in TripIds : trip'[r] # None => trip'[r].status \in Recorded(r)'
    BY <2>3 DEF RecordInv, Recorded
  <2>6. ASSUME NEW v \in Workers, Busy(v)'
        PROVE  PreparedRecord(work[v].trip, work[v].kind, work[v].set, work[v].entry)'
    <3>1. CASE v = w
      BY <2>3, <2>4, <3>1 DEF PreparedRecord, Recorded
    <3>2. CASE v # w
      <4>1. work'[v] = work[v] /\ Busy(v)
        BY <2>3, <2>6, <3>2 DEF Busy
      <4>2. PreparedRecord(work[v].trip, work[v].kind, work[v].set, work[v].entry)
        BY <4>1 DEF RecordInv
      <4> QED
        BY <2>3, <4>1, <4>2 DEF PreparedRecord, Recorded
    <3> QED
      BY <3>1, <3>2
  <2> QED
    BY <2>5, <2>6 DEF RecordInv
<1>2. CASE \E w \in Workers : Commit(w) \/ Rollback(w)
  <2>1. PICK w \in Workers : Commit(w) \/ Rollback(w)
    BY <1>2
  <2>2. \A v \in Workers : Busy(v)' => Busy(v) /\ work'[v] = work[v]
    BY <2>1 DEF Commit, Rollback, CommitInsert, CommitUpdate, CommitLogOnly, CommitDelete,
                Finish, Busy, TypeOK
  <2>3. PICK t \in TripIds :
          /\ \A r \in TripIds : r # t => trip'[r] = trip[r] /\ log'[r] = log[r]
          /\ \/ log' = log /\ (trip' = trip \/ trip'[t] = None)
             \/ \E e \in Entry :
                  /\ WriteLog(t, e)
                  /\ \/ e.from = e.to /\ trip[t] # None /\ trip'[t] # None
                          /\ trip'[t].status = trip[t].status
                     \/ e.from = e.to /\ trip' = trip
                     \/ e.from # e.to /\ trip'[t] # None /\ trip'[t].status = e.to
    BY <2>1, CommitWrites
  <2>4. /\ \A r \in TripIds : Recorded(r) \subseteq Recorded(r)'
        /\ trip'[t] # None => trip'[t].status \in Recorded(t)'
    <3>1. CASE log' = log /\ (trip' = trip \/ trip'[t] = None)
      BY <3>1 DEF RecordInv, Recorded
    <3>2. CASE log' # log \/ ~(trip' = trip \/ trip'[t] = None)
      <4>1. PICK e \in Entry :
              /\ WriteLog(t, e)
              /\ \/ e.from = e.to /\ trip[t] # None /\ trip'[t] # None
                      /\ trip'[t].status = trip[t].status
                 \/ e.from = e.to /\ trip' = trip
                 \/ e.from # e.to /\ trip'[t] # None /\ trip'[t].status = e.to
        BY <2>3, <3>2
      <4> QED
        BY <4>1, RecordedGrows DEF RecordInv
    <3> QED
      BY <3>1, <3>2
  <2>5. \A r \in TripIds : trip'[r] # None => trip'[r].status \in Recorded(r)'
    BY <2>3, <2>4 DEF RecordInv
  <2>6. ASSUME NEW v \in Workers, Busy(v)'
        PROVE  PreparedRecord(work[v].trip, work[v].kind, work[v].set, work[v].entry)'
    <3>1. /\ work'[v] = work[v] /\ work[v].trip \in TripIds
          /\ PreparedRecord(work[v].trip, work[v].kind, work[v].set, work[v].entry)
      BY <2>2, <2>6, WorkType DEF RecordInv
    <3>2. PICK r \in TripIds : r = work[v].trip
      BY <3>1
    <3>3. Recorded(r) \subseteq Recorded(r)'
      BY <2>4
    <3> QED
      BY <3>1, <3>2, <3>3 DEF PreparedRecord
  <2> QED
    BY <2>5, <2>6 DEF RecordInv
<1>3. CASE Environment \/ UNCHANGED vars
  <2>1. trip' = trip /\ log' = log /\ work' = work
    BY <1>3 DEF Environment, AdvanceDay, update_user, tables, vars
  <2> QED
    BY <2>1 DEF RecordInv, PreparedRecord, Recorded, Busy
<1> QED
  BY <1>1, <1>2, <1>3 DEF Next

\* The inductive invariant behind the agreement of rows and log.
THEOREM RecordsCorrect == Spec => []RecordInv
<1>1. Init => RecordInv
  BY DEF Init, RecordInv, Busy
<1>2. TypeOK /\ ActorInv /\ RecordInv /\ [Next]_vars => RecordInv'
  BY RecordStep
<1> QED
  BY <1>1, <1>2, TypeCorrect, ActorsCorrect, PTL DEF Spec

\* In every interleaving, no status changes unrecorded, what is recorded is what
\* the row is left with, and a deleted trip gets no status recorded any more
\* (the handlers of trips.py, record_transition).
THEOREM ChangesAreRecorded == Spec => StatusChangesAreRecorded
<1>1. ASSUME TypeOK, ActorInv, RecordInv, Next, NEW r \in TripIds
      PROVE  /\ StatusWritten(r) => Written(r) /\ LogRow(r).from # LogRow(r).to
             /\ Written(r) =>
                  /\ LogRow(r).from \in IF log[r] = <<>> THEN {None} ELSE Recorded(r)
                  /\ LogRow(r).from # LogRow(r).to =>
                       trip'[r] # None /\ trip'[r].status = LogRow(r).to
  <2>1. CASE trip'[r] = trip[r] /\ log'[r] = log[r]
    BY <2>1 DEF StatusWritten, Written
  <2>2. CASE ~(trip'[r] = trip[r] /\ log'[r] = log[r])
    <3>1. PICK w \in Workers : Commit(w) \/ Rollback(w)
      BY <1>1, <2>2, OnlyCommitsWrite
    <3>2. \/ log' = log /\ trip'[r] = None
          \/ \E e \in Entry :
               /\ WriteLog(r, e)
               /\ e.from \in IF log[r] = <<>> THEN {None} ELSE Recorded(r)
               /\ \/ e.from = e.to /\ trip[r] # None /\ trip'[r] # None
                       /\ trip'[r].status = trip[r].status
                  \/ e.from = e.to /\ trip' = trip
                  \/ e.from # e.to /\ trip'[r] # None /\ trip'[r].status = e.to
      BY <1>1, <2>2, <3>1, CommitWrites
    <3>3. CASE log' = log /\ trip'[r] = None
      BY <3>3 DEF StatusWritten, Written
    <3>4. ASSUME NEW e \in Entry, WriteLog(r, e),
                 e.from \in IF log[r] = <<>> THEN {None} ELSE Recorded(r),
                 \/ e.from = e.to /\ trip[r] # None /\ trip'[r] # None
                      /\ trip'[r].status = trip[r].status
                 \/ e.from = e.to /\ trip' = trip
                 \/ e.from # e.to /\ trip'[r] # None /\ trip'[r].status = e.to
          PROVE  /\ StatusWritten(r) => Written(r) /\ LogRow(r).from # LogRow(r).to
                 /\ Written(r) =>
                      /\ LogRow(r).from \in IF log[r] = <<>> THEN {None} ELSE Recorded(r)
                      /\ LogRow(r).from # LogRow(r).to =>
                           trip'[r] # None /\ trip'[r].status = LogRow(r).to
      <4>1. Written(r) /\ LogRow(r) = e
        BY <1>1, <3>4, RecordedGrows
      <4> QED
        BY <3>4, <4>1 DEF StatusWritten
    <3> QED
      BY <3>2, <3>3, <3>4
  <2> QED
    BY <2>1, <2>2
<1>2. TypeOK /\ ActorInv /\ RecordInv /\ [Next]_vars =>
        [\A t \in TripIds :
           /\ StatusWritten(t) => Written(t) /\ LogRow(t).from # LogRow(t).to
           /\ Written(t) =>
                /\ LogRow(t).from \in IF log[t] = <<>> THEN {None} ELSE Recorded(t)
                /\ LogRow(t).from # LogRow(t).to =>
                     trip'[t] # None /\ trip'[t].status = LogRow(t).to]_vars
  BY <1>1
<1> QED
  BY <1>2, TypeCorrect, ActorsCorrect, RecordsCorrect, PTL DEF Spec, StatusChangesAreRecorded

-----------------------------------------------------------------------------
(* When requests on one trip do not overlap                                *)

\* What ColumnsMatchStatus and TripsEndAfterTheyStart say of one row.
ColumnsFit(row) ==
  /\ (row.approver # None) <=> (row.status # "DRAFT")
  /\ (row.submitted = "SET") <=> (row.status # "DRAFT")
  /\ (row.approved = "SET") <=> (row.status \in {"APPROVED", "COMPLETED", "SETTLED"})
  /\ row.reason = "SET" => row.status \in {"REJECTED", "DRAFT"}
  /\ row.status = "REJECTED" => row.reason = "SET"

DatesFit(row) ==
  /\ row.start <= row.end
  /\ row.status \in {"COMPLETED", "SETTLED"} => row.end < today

RowFits(row) == ColumnsFit(row) /\ DatesFit(row)

\* What TimelineChain says of one trip.
ChainAt(t) ==
  /\ \A i \in 2..Len(log[t]) : log[t][i].from = log[t][i - 1].to
  /\ trip[t] # None => log[t] # <<>> /\ log[t][Len(log[t])].to = trip[t].status

\* An update keeps the status or makes one step of the table, from the status
\* the row has now, and leaves a row that fits.
FreshUpdate(row, set, e) ==
  /\ row # None
  /\ e.from = row.status
  /\ e.to = Column(set.status, row.status)
  /\ e.from = e.to \/ <<e.from, e.to>> \in ALLOWED_TRANSITIONS
  /\ RowFits(Flushed(set, row))

\* What is about to be written was decided on the row as it still is.
Fresh(t, kind, set, e) ==
  /\ kind = "INSERT" =>
       trip[t] = None /\ log[t] = <<>> /\ RowFits(set) /\ e.to = set.status
                      /\ set.status = "DRAFT"
  /\ kind = "UPDATE" => FreshUpdate(trip[t], set, e)
  /\ kind = "DELETE" => trip[t] # None /\ trip[t].status = "DRAFT"

OneRequestPerTrip ==
  \A v, w \in Workers : v # w /\ Busy(v) /\ Busy(w) => work[v].trip # work[w].trip

WorkIsFresh ==
  \A w \in Workers : Busy(w) =>
    Fresh(work[w].trip, work[w].kind, work[w].set, work[w].entry)

SerialInv ==
  /\ OneRequestPerTrip
  /\ WorkIsFresh
  /\ \A t \in TripIds : ChainAt(t)
  /\ \A t \in TripIds : trip[t] # None => RowFits(trip[t])

\* It is about the rows, the requests and the day, and nothing else.
LEMMA SerialStays ==
  ASSUME SerialInv, trip' = trip, log' = log, work' = work, today' = today
  PROVE  SerialInv'
<1>1. OneRequestPerTrip'
  BY DEF SerialInv, OneRequestPerTrip, Busy
<1>2. WorkIsFresh'
  <2> SUFFICES ASSUME NEW w \in Workers, Busy(w)'
               PROVE  Fresh(work[w].trip, work[w].kind, work[w].set, work[w].entry)'
    BY DEF WorkIsFresh
  <2>1. Fresh(work[w].trip, work[w].kind, work[w].set, work[w].entry)
    BY DEF SerialInv, WorkIsFresh, Busy
  <2> QED
    BY <2>1 DEF Fresh, FreshUpdate, RowFits, DatesFit
<1>3. \A t \in TripIds : ChainAt(t)'
  BY DEF SerialInv, ChainAt
<1>4. \A t \in TripIds : trip'[t] # None => RowFits(trip[t])'
  BY DEF SerialInv, RowFits, DatesFit
<1> QED
  BY <1>1, <1>2, <1>3, <1>4 DEF SerialInv

\* A change of the status alone, or of the dates, that the handlers assign
\* after their checks leaves a row that fits.
LEMMA ReschedulingFits ==
  ASSUME NEW row \in TripRow, RowFits(row), row.status \in EDITABLE_STATUSES,
         NEW s \in Days, NEW e \in Days, s <= e
  PROVE  /\ RowFits(Flushed(Rescheduling(row, s, e), row))
         /\ Rescheduling(row, s, e).status = Keep
<1> DEFINE new == Flushed(Rescheduling(row, s, e), row)
<1>1. /\ new.status = row.status /\ new.approver = row.approver
      /\ new.submitted = row.submitted /\ new.approved = row.approved
      /\ new.reason = row.reason
      /\ new.start = s /\ new.end = e
      /\ Rescheduling(row, s, e).status = Keep
  BY DEF Flushed, Column, Rescheduling, NoChange, Dirty, Days
<1> QED
  BY <1>1 DEF RowFits, ColumnsFit, DatesFit, EDITABLE_STATUSES

\* A submitted draft has its approver and its submission time, and neither an
\* approval nor a reason left of an earlier round.
LEMMA SubmissionFits ==
  ASSUME NEW row \in TripRow, RowFits(row), row.start <= row.end, NEW m \in Users
  PROVE  RowFits(Flushed(Submission(row, m), row))
<1> DEFINE new == Flushed(Submission(row, m), row)
<1>1. /\ new.status = "SUBMITTED" /\ new.approver = m
      /\ new.submitted = "SET" /\ new.approved = "NULL" /\ new.reason = "NULL"
      /\ new.start = row.start /\ new.end = row.end
  BY DEF Flushed, Column, Submission, NoChange, Dirty, TripRow, TripStatuses, Cell
<1> QED
  BY <1>1 DEF RowFits, ColumnsFit, DatesFit

\* A reopened trip has lost the approver and the times of the rejected round.
LEMMA ReopeningFits ==
  ASSUME NEW row \in TripRow, RowFits(row)
  PROVE  RowFits(Flushed(Reopening(row), row))
<1> DEFINE new == Flushed(Reopening(row), row)
<1>1. /\ new.status = "DRAFT" /\ new.approver = None
      /\ new.submitted = "NULL" /\ new.approved = "NULL"
      /\ new.start = row.start /\ new.end = row.end
  BY DEF Flushed, Column, Reopening, NoChange, Dirty, TripRow, TripStatuses, Cell
<1> QED
  BY <1>1 DEF RowFits, ColumnsFit, DatesFit

\* A decision on a submitted trip, the completion of an approved one that has
\* ended and the settlement of a completed one leave a row that fits.
LEMMA DecisionsFit ==
  ASSUME NEW row \in TripRow, RowFits(row)
  PROVE  /\ row.status = "SUBMITTED" => RowFits(Flushed(Approval, row))
         /\ row.status = "SUBMITTED" => RowFits(Flushed(Rejection, row))
         /\ row.status = "APPROVED" /\ row.end < today => RowFits(Flushed(Completion, row))
         /\ row.status = "COMPLETED" => RowFits(Flushed(Settling, row))
<1>1. ASSUME row.status = "SUBMITTED" PROVE RowFits(Flushed(Approval, row))
  BY <1>1 DEF RowFits, ColumnsFit, DatesFit, Flushed, Column, Approval, NoChange, TripStatuses, Cell
<1>2. ASSUME row.status = "SUBMITTED" PROVE RowFits(Flushed(Rejection, row))
  BY <1>2 DEF RowFits, ColumnsFit, DatesFit, Flushed, Column, Rejection, NoChange, TripStatuses, Cell
<1>3. ASSUME row.status = "APPROVED", row.end < today PROVE RowFits(Flushed(Completion, row))
  BY <1>3 DEF RowFits, ColumnsFit, DatesFit, Flushed, Column, Completion, NoChange, TripStatuses
<1>4. ASSUME row.status = "COMPLETED" PROVE RowFits(Flushed(Settling, row))
  BY <1>4 DEF RowFits, ColumnsFit, DatesFit, Flushed, Column, Settling, NoChange, TripStatuses
<1> QED
  BY <1>1, <1>2, <1>3, <1>4

\* Every handler decides on the row as it is when it has read it.
LEMMA HandlersFresh ==
  ASSUME TypeOK, SerialInv, NEW w \in Workers, TripRequest(w) \/ Settlement(w)
  PROVE  \E t \in TripIds : \E kind, set, entry :
           Prepares(w, t, kind, set, entry) /\ Fresh(t, kind, set, entry)
<1>0. PICK t \in TripIds : \E kind, set, entry : Prepares(w, t, kind, set, entry)
  BY HandlersPrepare
<1>1. PICK kind, set, entry : Prepares(w, t, kind, set, entry)
  BY <1>0
<1>2. /\ work'[w].trip = t
      /\ work'[w].kind = kind
      /\ work'[w].set = set
      /\ work'[w].entry = entry
  BY <1>1, HandedOver DEF Prepares
<1>3. PICK u \in Users, r \in TripIds :
        \/ create_trip(w, u, r)
        \/ update_trip(w, u, r)
        \/ delete_trip(w, u, r)
        \/ submit_trip(w, u, r)
        \/ approve_trip(w, u, r)
        \/ reject_trip(w, u, r)
        \/ reopen_trip(w, u, r)
        \/ complete_trip(w, u, r)
        \/ settle_trip_for_report(w, u, r)
  BY DEF TripRequest, Settlement
<1>4. ASSUME NEW k, NEW s, NEW e, Begin(w, r, k, s, e)
      PROVE  t = r /\ kind = k /\ set = s /\ entry = e
  BY <1>2, <1>4, HandedOver, Zenon
<1> SUFFICES Fresh(t, kind, set, entry)
  BY <1>1
<1>5. ASSUME NEW s, NEW e, Begin(w, r, "UPDATE", s, e), FreshUpdate(trip[r], s, e)
      PROVE  Fresh(t, kind, set, entry)
  BY <1>4, <1>5 DEF Fresh
<1>6. ASSUME trip[r] # None PROVE trip[r] \in TripRow /\ RowFits(trip[r])
  BY <1>6 DEF TypeOK, SerialInv
<1>7. CASE create_trip(w, u, r)
  <2>1. PICK s, e \in Days :
          /\ s <= e
          /\ NextTripId(r)
          /\ Begin(w, r, "INSERT", Draft(u, s, e),
                   record_transition(u, "CREATED", None, "DRAFT", None))
    BY <1>7 DEF create_trip, assert_date_range
  <2>2. RowFits(Draft(u, s, e))
    BY <2>1 DEF Draft, RowFits, ColumnsFit, DatesFit
  <2>3. Fresh(r, "INSERT", Draft(u, s, e), record_transition(u, "CREATED", None, "DRAFT", None))
    BY <2>1, <2>2 DEF Fresh, NextTripId, Draft, record_transition
  <2> QED
    BY <1>4, <2>1, <2>3
<1>8. CASE delete_trip(w, u, r)
  BY <1>4, <1>8 DEF delete_trip, load_visible_trip, DELETABLE_STATUSES, Fresh
<1>9. CASE update_trip(w, u, r)
  <2>1. PICK s, e \in Days :
          /\ s <= e
          /\ Begin(w, r, "UPDATE", Rescheduling(trip[r], s, e),
                   record_transition(u, "UPDATED", trip[r].status, trip[r].status, None))
    BY <1>9 DEF update_trip, assert_date_range
  <2>2. trip[r] # None /\ trip[r].status \in EDITABLE_STATUSES
    BY <1>9 DEF update_trip, load_visible_trip
  <2>3. /\ RowFits(Flushed(Rescheduling(trip[r], s, e), trip[r]))
        /\ Rescheduling(trip[r], s, e).status = Keep
    BY <1>6, <2>1, <2>2, ReschedulingFits
  <2> QED
    <3>1. Column(Rescheduling(trip[r], s, e).status, trip[r].status) = trip[r].status
      BY <2>3 DEF Column
    <3>2. FreshUpdate(trip[r], Rescheduling(trip[r], s, e),
            record_transition(u, "UPDATED", trip[r].status, trip[r].status, None))
      BY <2>2, <2>3, <3>1 DEF FreshUpdate, record_transition
    <3> QED
      BY <1>5, <2>1, <3>2
<1>10. CASE submit_trip(w, u, r)
  <2>1. /\ trip[r] # None
        /\ <<trip[r].status, "SUBMITTED">> \in ALLOWED_TRANSITIONS
        /\ trip[r].start <= trip[r].end
        /\ managerOf[u] \in Users
        /\ Begin(w, r, "UPDATE", Submission(trip[r], managerOf[u]),
                 record_transition(u, "SUBMITTED", trip[r].status, "SUBMITTED", managerOf[u]))
    BY <1>10 DEF submit_trip, load_visible_trip, TypeOK, assert_transition,
                 assert_transition_allowed, assert_date_range
  <2>2. RowFits(Flushed(Submission(trip[r], managerOf[u]), trip[r]))
    BY <1>6, <2>1, SubmissionFits
  <2>3. Column(Submission(trip[r], managerOf[u]).status, trip[r].status) = "SUBMITTED"
    BY DEF Submission, NoChange, Column, TripStatuses
  <2> QED
    BY <1>5, <2>1, <2>2, <2>3 DEF FreshUpdate, record_transition
<1>11. CASE approve_trip(w, u, r)
  <2>1. /\ trip[r] # None
        /\ <<trip[r].status, "APPROVED">> \in ALLOWED_TRANSITIONS
        /\ Begin(w, r, "UPDATE", Approval,
                 record_transition(u, "APPROVED", trip[r].status, "APPROVED", trip[r].owner))
    BY <1>11 DEF approve_trip, load_visible_trip, assert_transition, assert_transition_allowed
  <2>2. trip[r].status = "SUBMITTED"
    BY <2>1 DEF ALLOWED_TRANSITIONS
  <2>3. RowFits(Flushed(Approval, trip[r]))
    BY <1>6, <2>1, <2>2, DecisionsFit
  <2>4. Column(Approval.status, trip[r].status) = "APPROVED"
    BY DEF Approval, NoChange, Column, TripStatuses
  <2> QED
    BY <1>5, <2>1, <2>3, <2>4 DEF FreshUpdate, record_transition
<1>12. CASE reject_trip(w, u, r)
  <2>1. /\ trip[r] # None
        /\ <<trip[r].status, "REJECTED">> \in ALLOWED_TRANSITIONS
        /\ Begin(w, r, "UPDATE", Rejection,
                 record_transition(u, "REJECTED", trip[r].status, "REJECTED", trip[r].owner))
    BY <1>12 DEF reject_trip, load_visible_trip, assert_transition, assert_transition_allowed
  <2>2. trip[r].status = "SUBMITTED"
    BY <2>1 DEF ALLOWED_TRANSITIONS
  <2>3. RowFits(Flushed(Rejection, trip[r]))
    BY <1>6, <2>1, <2>2, DecisionsFit
  <2>4. Column(Rejection.status, trip[r].status) = "REJECTED"
    BY DEF Rejection, NoChange, Column, TripStatuses
  <2> QED
    BY <1>5, <2>1, <2>3, <2>4 DEF FreshUpdate, record_transition
<1>13. CASE reopen_trip(w, u, r)
  <2>1. /\ trip[r] # None
        /\ <<trip[r].status, "DRAFT">> \in ALLOWED_TRANSITIONS
        /\ Begin(w, r, "UPDATE", Reopening(trip[r]),
                 record_transition(u, "UPDATED", trip[r].status, "DRAFT", None))
    BY <1>13 DEF reopen_trip, load_visible_trip, assert_transition, assert_transition_allowed
  <2>2. RowFits(Flushed(Reopening(trip[r]), trip[r]))
    BY <1>6, <2>1, ReopeningFits
  <2>3. Column(Reopening(trip[r]).status, trip[r].status) = "DRAFT"
    BY DEF Reopening, NoChange, Column, TripStatuses
  <2> QED
    BY <1>5, <2>1, <2>2, <2>3 DEF FreshUpdate, record_transition
<1>14. CASE complete_trip(w, u, r)
  <2>1. /\ trip[r] # None
        /\ <<trip[r].status, "COMPLETED">> \in ALLOWED_TRANSITIONS
        /\ trip[r].end < today
        /\ Begin(w, r, "UPDATE", Completion,
                 record_transition(u, "COMPLETED", trip[r].status, "COMPLETED", None))
    BY <1>14 DEF complete_trip, load_visible_trip, assert_transition,
                 assert_transition_allowed, assert_completable
  <2>2. trip[r].status = "APPROVED"
    BY <2>1 DEF ALLOWED_TRANSITIONS
  <2>3. RowFits(Flushed(Completion, trip[r]))
    BY <1>6, <2>1, <2>2, DecisionsFit
  <2>4. Column(Completion.status, trip[r].status) = "COMPLETED"
    BY DEF Completion, NoChange, Column, TripStatuses
  <2> QED
    BY <1>5, <2>1, <2>3, <2>4 DEF FreshUpdate, record_transition
<1>15. CASE settle_trip_for_report(w, u, r)
  <2>1. /\ trip[r] # None
        /\ <<trip[r].status, "SETTLED">> \in ALLOWED_TRANSITIONS
        /\ Begin(w, r, "UPDATE", Settling,
                 record_transition(u, "SETTLED", trip[r].status, "SETTLED", None))
    BY <1>15 DEF settle_trip_for_report, assert_system_transition
  <2>2. trip[r].status = "COMPLETED"
    BY <2>1 DEF ALLOWED_TRANSITIONS
  <2>3. RowFits(Flushed(Settling, trip[r]))
    BY <1>6, <2>1, <2>2, DecisionsFit
  <2>4. Column(Settling.status, trip[r].status) = "SETTLED"
    BY DEF Settling, NoChange, Column, TripStatuses
  <2> QED
    BY <1>5, <2>1, <2>3, <2>4 DEF FreshUpdate, record_transition
<1> QED
  BY <1>3, <1>7, <1>8, <1>9, <1>10, <1>11, <1>12, <1>13, <1>14, <1>15

\* Handing over, when requests on one trip do not overlap, keeps the invariant.
LEMMA PrepareSerial ==
  ASSUME Isolated, TypeOK, SerialInv, NEW w \in Workers, TripRequest(w) \/ Settlement(w)
  PROVE  SerialInv'
<1>0. PICK t \in TripIds : \E kind, set, entry :
        Prepares(w, t, kind, set, entry) /\ Fresh(t, kind, set, entry)
  BY HandlersFresh
<1>1. PICK kind, set, entry : Prepares(w, t, kind, set, entry) /\ Fresh(t, kind, set, entry)
  BY <1>0
<1>2. /\ ~Busy(w)
      /\ \A v \in Workers : Busy(v) => work[v].trip # t
      /\ work'[w].trip = t
      /\ work'[w].kind = kind
      /\ work'[w].set = set
      /\ work'[w].entry = entry
      /\ \A v \in Workers : v # w => work'[v] = work[v]
      /\ today' = today /\ trip' = trip /\ log' = log
  BY <1>1, HandedOver DEF Prepares, Begin, TypeOK, environment, tables
<1>3. OneRequestPerTrip'
  BY <1>2 DEF SerialInv, OneRequestPerTrip, Busy
<1>4. WorkIsFresh'
  <2> SUFFICES ASSUME NEW v \in Workers, Busy(v)'
               PROVE  Fresh(work[v].trip, work[v].kind, work[v].set, work[v].entry)'
    BY DEF WorkIsFresh
  <2>1. CASE v = w
    <3>1. Fresh(t, kind, set, entry)'
      BY <1>1, <1>2 DEF Fresh, FreshUpdate, RowFits, DatesFit
    <3> QED
      BY <1>2, <2>1, <3>1
  <2>2. CASE v # w
    <3>1. Fresh(work[v].trip, work[v].kind, work[v].set, work[v].entry) /\ work'[v] = work[v]
      BY <1>2, <2>2 DEF SerialInv, WorkIsFresh, Busy
    <3> QED
      BY <1>2, <3>1 DEF Fresh, FreshUpdate, RowFits, DatesFit
  <2> QED
    BY <2>1, <2>2
<1>5. \A r \in TripIds : ChainAt(r)' /\ (trip'[r] # None => RowFits(trip[r])')
  BY <1>2 DEF SerialInv, ChainAt, RowFits, DatesFit
<1> QED
  BY <1>3, <1>4, <1>5 DEF SerialInv

\* A log row that starts where the log ended continues the walk.
LEMMA ChainGrows ==
  ASSUME TypeOK, NEW t \in TripIds, NEW e \in Entry, WriteLog(t, e), ChainAt(t),
         log[t] # <<>> => e.from = log[t][Len(log[t])].to,
         trip'[t] # None, e.to = trip'[t].status
  PROVE  ChainAt(t)'
<1>1. Len(log[t]) \in Nat /\ (log[t] = <<>> <=> Len(log[t]) = 0)
  BY DEF TypeOK
<1>2. /\ Len(log'[t]) = Len(log[t]) + 1
      /\ log'[t] # <<>>
      /\ \A i \in 1..Len(log[t]) : log'[t][i] = log[t][i]
      /\ log'[t][Len(log[t]) + 1] = e
  BY LogGrows
<1>3. ASSUME NEW i \in 2..Len(log'[t]) PROVE log'[t][i].from = log'[t][i - 1].to
  <2>1. CASE i \in 2..Len(log[t])
    <3>1. i \in 1..Len(log[t]) /\ i - 1 \in 1..Len(log[t])
      BY <1>1, <2>1
    <3>2. log[t][i].from = log[t][i - 1].to
      BY <2>1 DEF ChainAt
    <3> QED
      BY <1>2, <3>1, <3>2
  <2>2. CASE i = Len(log[t]) + 1
    <3>1. i - 1 = Len(log[t]) /\ i - 1 \in 1..Len(log[t]) /\ log[t] # <<>>
      BY <1>1, <1>2, <2>2
    <3> QED
      BY <1>2, <2>2, <3>1
  <2> QED
    BY <1>1, <1>2, <2>1, <2>2
<1> QED
  BY <1>2, <1>3 DEF ChainAt

\* What the end of one request does to the trip it works on: nothing, the
\* insertion of a draft, one update of the row, or the deletion of a draft.
LEMMA CommitEffect ==
  ASSUME TypeOK, SerialInv, NEW w \in Workers, Commit(w) \/ Rollback(w)
  PROVE  \E t \in TripIds :
           /\ Busy(w) /\ Finish(w) /\ work[w].trip = t
           /\ \A r \in TripIds : r # t => trip'[r] = trip[r] /\ log'[r] = log[r]
           /\ \/ UNCHANGED tables
              \/ \E set \in TripRow, e \in Entry :
                   /\ Fresh(t, "INSERT", set, e)
                   /\ trip'[t] = set /\ WriteLog(t, e)
              \/ \E set \in Change, e \in Entry :
                   /\ trip[t] # None /\ FreshUpdate(trip[t], set, e)
                   /\ trip'[t] = Flushed(set, trip[t]) /\ WriteLog(t, e)
              \/ /\ trip[t] # None /\ trip[t].status = "DRAFT"
                 /\ trip'[t] = None /\ UNCHANGED log
<1>1. Busy(w) /\ Finish(w)
  BY DEF Commit, Rollback, CommitInsert, CommitUpdate, CommitLogOnly, CommitDelete
<1>2. PICK t \in TripIds : work[w].trip = t
  BY <1>1, WorkType
<1>3. PICK kind, set, e :
        work[w].trip = t /\ work[w].kind = kind /\ work[w].set = set /\ work[w].entry = e
  BY <1>2
<1>4. /\ Fresh(t, kind, set, e)
      /\ kind = "INSERT" => set \in TripRow
      /\ kind = "UPDATE" => set \in Change
      /\ kind # "DELETE" => e \in Entry
  BY <1>1, <1>3, WorkType DEF SerialInv, WorkIsFresh
<1>5. CASE CommitInsert(w)
  <2>1. kind = "INSERT" /\ trip' = [trip EXCEPT ![t] = set] /\ WriteLog(t, e)
    BY <1>3, <1>5 DEF CommitInsert
  <2>2. trip'[t] = set /\ \A r \in TripIds : r # t => trip'[r] = trip[r] /\ log'[r] = log[r]
    BY <2>1 DEF TypeOK, WriteLog
  <2> QED
    BY <1>1, <1>2, <1>4, <2>1, <2>2
<1>6. CASE CommitUpdate(w)
  <2>1. /\ kind = "UPDATE" /\ trip[t] # None /\ WriteLog(t, e)
        /\ trip' = [trip EXCEPT ![t] = Flushed(set, trip[t])]
    BY <1>3, <1>6 DEF CommitUpdate
  <2>2. /\ trip'[t] = Flushed(set, trip[t])
        /\ \A r \in TripIds : r # t => trip'[r] = trip[r] /\ log'[r] = log[r]
    BY <2>1 DEF TypeOK, WriteLog
  <2>3. FreshUpdate(trip[t], set, e)
    BY <1>4, <2>1 DEF Fresh
  <2> QED
    BY <1>1, <1>2, <1>4, <2>1, <2>2, <2>3
<1>7. ~CommitLogOnly(w)
  BY <1>3, <1>4 DEF CommitLogOnly, Fresh, FreshUpdate
<1>8. CASE CommitDelete(w)
  <2>1. kind = "DELETE" /\ trip' = [trip EXCEPT ![t] = None] /\ UNCHANGED log
    BY <1>3, <1>8 DEF CommitDelete
  <2>2. /\ trip[t] # None /\ trip[t].status = "DRAFT" /\ trip'[t] = None
        /\ \A r \in TripIds : r # t => trip'[r] = trip[r] /\ log'[r] = log[r]
    BY <1>4, <2>1 DEF TypeOK, Fresh
  <2> QED
    BY <1>1, <1>2, <2>1, <2>2
<1>9. CASE Rollback(w)
  BY <1>1, <1>2, <1>9 DEF Rollback, tables
<1> QED
  BY <1>5, <1>6, <1>7, <1>8, <1>9 DEF Commit

\* The end of a request keeps the trip's log a walk to its status, its row
\* fitting, and everybody else's work fresh: they work on other trips.
LEMMA CommitSerial ==
  ASSUME TypeOK, SerialInv, NEW w \in Workers, Commit(w) \/ Rollback(w)
  PROVE  SerialInv'
<1>1. PICK t \in TripIds :
        /\ Busy(w) /\ Finish(w) /\ work[w].trip = t
        /\ \A r \in TripIds : r # t => trip'[r] = trip[r] /\ log'[r] = log[r]
        /\ \/ UNCHANGED tables
           \/ \E set \in TripRow, e \in Entry :
                /\ Fresh(t, "INSERT", set, e)
                /\ trip'[t] = set /\ WriteLog(t, e)
           \/ \E set \in Change, e \in Entry :
                /\ trip[t] # None /\ FreshUpdate(trip[t], set, e)
                /\ trip'[t] = Flushed(set, trip[t]) /\ WriteLog(t, e)
           \/ /\ trip[t] # None /\ trip[t].status = "DRAFT"
              /\ trip'[t] = None /\ UNCHANGED log
  BY CommitEffect
<1>2. /\ today' = today
      /\ ~Busy(w)'
      /\ \A v \in Workers : v # w => work'[v] = work[v]
  BY <1>1 DEF Finish, environment, Busy, TypeOK
<1>3. OneRequestPerTrip'
  BY <1>2 DEF SerialInv, OneRequestPerTrip, Busy
<1>4. WorkIsFresh'
  <2> SUFFICES ASSUME NEW v \in Workers, Busy(v)'
               PROVE  Fresh(work[v].trip, work[v].kind, work[v].set, work[v].entry)'
    BY DEF WorkIsFresh
  <2>1. v # w /\ work'[v] = work[v] /\ Busy(v)
    BY <1>2 DEF Busy
  <2>2. work[v].trip # t /\ work[v].trip \in TripIds
    BY <1>1, <2>1, WorkType DEF SerialInv, OneRequestPerTrip
  <2>3. Fresh(work[v].trip, work[v].kind, work[v].set, work[v].entry)
    BY <2>1 DEF SerialInv, WorkIsFresh
  <2> QED
    BY <1>1, <1>2, <2>1, <2>2, <2>3 DEF Fresh, FreshUpdate, RowFits, DatesFit
<1>5. ASSUME NEW r \in TripIds, r # t
      PROVE  ChainAt(r)' /\ (trip'[r] # None => RowFits(trip[r])')
  BY <1>1, <1>2, <1>5 DEF SerialInv, ChainAt, RowFits, DatesFit
<1>6. ChainAt(t)' /\ (trip'[t] # None => RowFits(trip[t])')
  <2>0. ChainAt(t) /\ (trip[t] # None => RowFits(trip[t]) /\ trip[t] \in TripRow)
    BY DEF SerialInv, TypeOK
  <2>1. CASE UNCHANGED tables
    BY <1>2, <2>0, <2>1 DEF tables, ChainAt, RowFits, DatesFit
  <2>2. ASSUME NEW set \in TripRow, NEW e \in Entry, Fresh(t, "INSERT", set, e),
               trip'[t] = set, WriteLog(t, e)
        PROVE  ChainAt(t)' /\ RowFits(trip[t])'
    <3>1. set # None /\ RowFits(set) /\ log[t] = <<>> /\ e.to = set.status
      BY <2>2, NullIsNoRow DEF Fresh
    <3>2. ChainAt(t)'
      BY <2>0, <2>2, <3>1, ChainGrows
    <3> QED
      BY <1>2, <2>2, <3>1, <3>2 DEF RowFits, DatesFit
  <2>3. ASSUME NEW set \in Change, NEW e \in Entry, trip[t] # None,
               FreshUpdate(trip[t], set, e),
               trip'[t] = Flushed(set, trip[t]), WriteLog(t, e)
        PROVE  ChainAt(t)' /\ RowFits(trip[t])'
    <3>1. RowFits(trip'[t])
      BY <2>3 DEF FreshUpdate
    <3>2. trip'[t] \in TripRow /\ trip'[t].status = Column(set.status, trip[t].status)
      BY <2>0, <2>3, FlushedType DEF Flushed
    <3>3. /\ trip'[t] # None
          /\ log[t] # <<>> => e.from = log[t][Len(log[t])].to
          /\ e.to = trip'[t].status
      BY <2>0, <2>3, <3>2, NullIsNoRow DEF FreshUpdate, ChainAt
    <3>4. ChainAt(t)'
      BY <2>0, <2>3, <3>3, ChainGrows
    <3> QED
      BY <1>2, <3>1, <3>4 DEF RowFits, DatesFit
  <2>4. CASE trip'[t] = None /\ UNCHANGED log
    BY <2>0, <2>4 DEF ChainAt
  <2> QED
    BY <1>1, <2>1, <2>2, <2>3, <2>4
<1> QED
  BY <1>3, <1>4, <1>5, <1>6 DEF SerialInv

\* A day that passes takes nothing back: a trip that had ended stays ended.
LEMMA EnvironmentSerial ==
  ASSUME TypeOK, SerialInv, Environment
  PROVE  SerialInv'
<1>1. trip' = trip /\ log' = log /\ work' = work /\ today \in Int
      /\ (today' = today \/ today' = today + 1)
  BY DEF Environment, AdvanceDay, update_user, tables, TypeOK
<1>2. ASSUME NEW row \in TripRow, DatesFit(row)
      PROVE  row.start <= row.end /\ (row.status \in {"COMPLETED", "SETTLED"} => row.end < today')
  <2>1. row.end \in Int
    BY DEF TripRow, Days
  <2> QED
    BY <1>1, <1>2, <2>1 DEF DatesFit
<1>3. OneRequestPerTrip'
  BY <1>1 DEF SerialInv, OneRequestPerTrip, Busy
<1>4. \A t \in TripIds : ChainAt(t)' /\ (trip'[t] # None => RowFits(trip[t])')
  <2> SUFFICES ASSUME NEW t \in TripIds
               PROVE  ChainAt(t)' /\ (trip'[t] # None => RowFits(trip[t])')
    OBVIOUS
  <2>1. ChainAt(t)'
    BY <1>1 DEF SerialInv, ChainAt
  <2>2. ASSUME trip[t] # None PROVE RowFits(trip[t])'
    <3>1. trip[t] \in TripRow /\ ColumnsFit(trip[t]) /\ DatesFit(trip[t])
      BY <2>2 DEF TypeOK, SerialInv, RowFits
    <3>2. DatesFit(trip[t])'
      BY <1>1, <1>2, <3>1 DEF DatesFit
    <3> QED
      BY <1>1, <3>1, <3>2 DEF RowFits, ColumnsFit
  <2> QED
    BY <1>1, <2>1, <2>2
<1>5. WorkIsFresh'
  <2> SUFFICES ASSUME NEW w \in Workers, Busy(w)
               PROVE  Fresh(work[w].trip, work[w].kind, work[w].set, work[w].entry)'
    BY <1>1 DEF WorkIsFresh, Busy
  <2>1. Fresh(work[w].trip, work[w].kind, work[w].set, work[w].entry)
    BY DEF SerialInv, WorkIsFresh
  <2>2. CASE work[w].kind = "INSERT"
    <3>1. DatesFit(work[w].set) /\ work[w].set \in TripRow
      BY <2>1, <2>2, WorkType DEF Fresh, RowFits
    <3>2. DatesFit(work[w].set)'
      BY <1>1, <1>2, <3>1 DEF DatesFit
    <3> QED
      BY <1>1, <2>1, <2>2, <3>2 DEF Fresh, RowFits, ColumnsFit
  <2>3. CASE work[w].kind = "UPDATE"
    <3> DEFINE row == trip[work[w].trip]
               new == Flushed(work[w].set, row)
    <3>1. FreshUpdate(row, work[w].set, work[w].entry)
      BY <2>1, <2>3 DEF Fresh
    <3>2. work[w].set \in Change /\ row \in TripRow
      BY <2>3, <3>1, WorkType DEF FreshUpdate, TypeOK
    <3>3. new \in TripRow /\ ColumnsFit(new) /\ DatesFit(new)
      BY <3>1, <3>2, FlushedType DEF FreshUpdate, RowFits
    <3> HIDE DEF new
    <3>4. new.start <= new.end /\ (new.status \in {"COMPLETED", "SETTLED"} => new.end < today')
      BY <1>2, <3>3
    <3>5. RowFits(Flushed(work[w].set, row))'
      BY <1>1, <3>3, <3>4 DEF new, RowFits, ColumnsFit, DatesFit
    <3>6. FreshUpdate(row, work[w].set, work[w].entry)'
      BY <1>1, <3>1, <3>5 DEF FreshUpdate
    <3> QED
      BY <1>1, <2>3, <3>6 DEF Fresh
  <2>4. CASE work[w].kind = "DELETE"
    BY <1>1, <2>1, <2>4 DEF Fresh
  <2> QED
    BY <2>2, <2>3, <2>4, WorkType
<1> QED
  BY <1>3, <1>4, <1>5 DEF SerialInv

\* What serial requests are about to write is fresh initially and after every
\* step.
LEMMA SerialInit == Init => SerialInv
  BY DEF Init, SerialInv, OneRequestPerTrip, WorkIsFresh, Busy, ChainAt

LEMMA SerialStep ==
  ASSUME Isolated, TypeOK, SerialInv, [Next]_vars
  PROVE  SerialInv'
<1>1. CASE \E w \in Workers : TripRequest(w) \/ Settlement(w)
  BY <1>1, PrepareSerial
<1>2. CASE \E w \in Workers : Commit(w) \/ Rollback(w)
  BY <1>2, CommitSerial
<1>3. CASE Environment
  BY <1>3, EnvironmentSerial
<1>4. CASE UNCHANGED vars
  BY <1>4, SerialStays DEF vars
<1> QED
  BY <1>1, <1>2, <1>3, <1>4 DEF Next

\* The inductive invariant of requests that do not overlap on a trip: what each
\* of them is about to write was decided on the row as it still is.
THEOREM SerialCorrect ==
  ASSUME Isolated
  PROVE  Spec => []SerialInv
<1>1. TypeOK /\ SerialInv /\ [Next]_vars => SerialInv'
  BY SerialStep
<1> QED
  BY <1>1, SerialInit, TypeCorrect, PTL DEF Spec

\* When requests on one trip do not overlap, the timeline of every trip is one
\* unbroken walk that ends at the trip's status (record_transition reads
\* from_status before the assignment and runs in the same transaction).
THEOREM TimelinesAreUnbroken ==
  ASSUME Isolated
  PROVE  Spec => []TimelineChain
<1>1. SerialInv => TimelineChain
  BY DEF SerialInv, ChainAt, TimelineChain
<1> QED
  BY <1>1, SerialCorrect, PTL

\* When requests on one trip do not overlap, the approver, the timestamps and
\* the reject reason always say what the status says (submit_trip,
\* approve_trip, reject_trip, reopen_trip assign them together).
THEOREM ColumnsFollowTheStatus ==
  ASSUME Isolated
  PROVE  Spec => []ColumnsMatchStatus
<1>1. SerialInv => ColumnsMatchStatus
  BY DEF SerialInv, RowFits, ColumnsFit, ColumnsMatchStatus
<1> QED
  BY <1>1, SerialCorrect, PTL

\* When requests on one trip do not overlap, no trip ends before it starts and
\* a completed one has ended (assert_date_range, assert_completable).
THEOREM TripsEndInOrder ==
  ASSUME Isolated
  PROVE  Spec => []TripsEndAfterTheyStart
<1>1. SerialInv => TripsEndAfterTheyStart
  BY DEF SerialInv, RowFits, DatesFit, TripsEndAfterTheyStart
<1> QED
  BY <1>1, SerialCorrect, PTL

-----------------------------------------------------------------------------
(* The status diagram                                                      *)

\* A trip whose row and log stay as they are stays where it is in the diagram.
LEMMA LifecycleMove ==
  ASSUME NEW t \in TripIds,
         \A r \in TripIds : r # t => trip'[r] = trip[r] /\ log'[r] = log[r]
  PROVE  /\ lifecycle' = [lifecycle EXCEPT ![t] = lifecycle'[t]]
         /\ lifecycle'[t] = lifecycle[t] => lifecycle' = lifecycle
  BY DEF lifecycle

\* The end of a request makes one move of the diagram, or none.
LEMMA CommitLifecycle ==
  ASSUME TypeOK, SerialInv, NEW w \in Workers, Commit(w) \/ Rollback(w)
  PROVE  Lifecycle!Next \/ lifecycle' = lifecycle
<1>1. PICK t \in TripIds :
        /\ Busy(w) /\ Finish(w) /\ work[w].trip = t
        /\ \A r \in TripIds : r # t => trip'[r] = trip[r] /\ log'[r] = log[r]
        /\ \/ UNCHANGED tables
           \/ \E set \in TripRow, e \in Entry :
                /\ Fresh(t, "INSERT", set, e)
                /\ trip'[t] = set /\ WriteLog(t, e)
           \/ \E set \in Change, e \in Entry :
                /\ trip[t] # None /\ FreshUpdate(trip[t], set, e)
                /\ trip'[t] = Flushed(set, trip[t]) /\ WriteLog(t, e)
           \/ /\ trip[t] # None /\ trip[t].status = "DRAFT"
              /\ trip'[t] = None /\ UNCHANGED log
  BY CommitEffect
<1>2. /\ lifecycle' = [lifecycle EXCEPT ![t] = lifecycle'[t]]
      /\ lifecycle'[t] = lifecycle[t] => lifecycle' = lifecycle
  BY <1>1, LifecycleMove
<1>3. ASSUME NEW from, NEW to, lifecycle[t] = from, lifecycle'[t] = to
      PROVE  Lifecycle!Move(t, from, to)
  BY <1>2, <1>3 DEF Lifecycle!Move
<1>4. /\ lifecycle[t] = IF trip[t] # None THEN trip[t].status
                        ELSE IF log[t] = <<>> THEN "NEW" ELSE "DELETED"
      /\ lifecycle'[t] = IF trip'[t] # None THEN trip'[t].status
                         ELSE IF log'[t] = <<>> THEN "NEW" ELSE "DELETED"
  BY DEF lifecycle
<1>5. CASE UNCHANGED tables
  BY <1>5 DEF tables, lifecycle
<1>6. ASSUME NEW set \in TripRow, NEW e \in Entry, Fresh(t, "INSERT", set, e), trip'[t] = set
      PROVE  Lifecycle!Create(t)
  <2>1. lifecycle[t] = "NEW" /\ lifecycle'[t] = "DRAFT"
    BY <1>4, <1>6, NullIsNoRow DEF Fresh
  <2> QED
    BY <1>3, <2>1 DEF Lifecycle!Create
<1>7. ASSUME NEW set \in Change, NEW e \in Entry, trip[t] # None,
             FreshUpdate(trip[t], set, e), trip'[t] = Flushed(set, trip[t])
      PROVE  Lifecycle!Transition(t) \/ lifecycle' = lifecycle
  <2>1. trip[t] \in TripRow /\ trip'[t] \in TripRow
    BY <1>7, FlushedType DEF TypeOK
  <2>2. lifecycle[t] = trip[t].status /\ lifecycle'[t] = trip'[t].status
    BY <1>4, <1>7, <2>1, NullIsNoRow
  <2>3. trip[t].status \in TripStatuses /\ trip'[t].status \in TripStatuses
    BY <2>1 DEF TripRow
  <2>4. trip'[t].status = Column(set.status, trip[t].status)
    BY <1>7 DEF Flushed
  <2>5. \/ trip'[t].status = trip[t].status
        \/ <<trip[t].status, trip'[t].status>> \in ALLOWED_TRANSITIONS
    BY <1>7, <2>4 DEF FreshUpdate
  <2>6. Lifecycle!Move(t, trip[t].status, trip'[t].status)
    BY <1>3, <2>2
  <2>7. Lifecycle!TripStatuses = TripStatuses /\ Lifecycle!ALLOWED_TRANSITIONS = ALLOWED_TRANSITIONS
    BY DEF Lifecycle!TripStatuses, TripStatuses, Lifecycle!ALLOWED_TRANSITIONS, ALLOWED_TRANSITIONS
  <2> QED
    BY <1>2, <2>2, <2>3, <2>5, <2>6, <2>7 DEF Lifecycle!Transition
<1>8. CASE trip[t] # None /\ trip[t].status = "DRAFT" /\ trip'[t] = None /\ UNCHANGED log
  <2>1. log[t] # <<>>
    BY <1>8 DEF SerialInv, ChainAt
  <2>2. lifecycle[t] = "DRAFT" /\ lifecycle'[t] = "DELETED"
    BY <1>4, <1>8, <2>1
  <2> QED
    BY <1>3, <2>2 DEF Lifecycle!Delete, Lifecycle!Next
<1> QED
  BY <1>1, <1>5, <1>6, <1>7, <1>8 DEF Lifecycle!Next

\* When requests on one trip do not overlap, the trip table implements the
\* status diagram of the design: each commit creates a draft, makes one step of
\* ALLOWED_TRANSITIONS, deletes a draft, or leaves every status alone.
THEOREM TripsImplementTheDiagram ==
  ASSUME Isolated
  PROVE  Spec => ImplementsLifecycle
<1>1. Init => Lifecycle!Init
  BY DEF Init, lifecycle, Lifecycle!Init
<1>2. TypeOK /\ SerialInv /\ [Next]_vars => [Lifecycle!Next]_lifecycle
  <2> SUFFICES ASSUME TypeOK, SerialInv, [Next]_vars
               PROVE  Lifecycle!Next \/ lifecycle' = lifecycle
    OBVIOUS
  <2>1. ASSUME NEW w \in Workers, TripRequest(w) \/ Settlement(w)
        PROVE  lifecycle' = lifecycle
    BY <2>1, HandlersPrepare DEF Prepares, Begin, tables, lifecycle
  <2>2. CASE \E w \in Workers : Commit(w) \/ Rollback(w)
    BY <2>2, CommitLifecycle
  <2>3. CASE Environment
    BY <2>3 DEF Environment, AdvanceDay, update_user, tables, lifecycle
  <2>4. CASE UNCHANGED vars
    BY <2>4 DEF vars, lifecycle
  <2> QED
    BY <2>1, <2>2, <2>3, <2>4 DEF Next
<1> QED
  BY <1>1, <1>2, TypeCorrect, SerialCorrect, PTL DEF Spec, ImplementsLifecycle, Lifecycle!Spec
=============================================================================
