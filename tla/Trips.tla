------------------------------- MODULE Trips --------------------------------
(***************************************************************************)
(* The trip service (services/trips.py) as the database sees it.           *)
(*                                                                         *)
(* Every endpoint is one async handler with one transaction: it reads the  *)
(* trip row, checks the rules on what it read, and later - after awaits    *)
(* in which other requests run - sends its UPDATE/INSERT/DELETE together   *)
(* with the activity-log row and commits.  There is no SELECT ... FOR      *)
(* UPDATE and no version column, so the checks and the write are two       *)
(* steps here: an action named after the handler reads and decides, a      *)
(* Commit... action writes.  The write takes the row lock until the commit,*)
(* so write and commit are one step.                                       *)
(***************************************************************************)
EXTENDS BiztripRules, Integers, Sequences

CONSTANTS
  Users,      \* user ids
  Admins,     \* the users whose role is ADMIN
  TripIds,    \* primary keys the trip table may hand out
  Workers,    \* concurrently running requests
  LastDay,    \* calendar: trips lie in 1..LastDay
  MaxLog,     \* bound: a request starts only below this many log rows
  Keep,       \* "this column is not in the UPDATE statement"
  Isolated    \* TRUE: requests on one trip do not overlap

ASSUME TripsAssumption ==
  /\ Admins \subseteq Users
  /\ LastDay \in Nat
  /\ MaxLog \in Nat
  /\ Isolated \in BOOLEAN
  /\ None \notin Users \cup TripStatuses
  /\ Keep \notin Users \cup {None}
  /\ Keep \notin TripStatuses
  /\ Keep \notin {"NULL", "SET"}
  /\ Keep \notin 1..LastDay

Days == 1..LastDay

VARIABLES
  managerOf,  \* user.manager_id: who decides on a user's trips
  today,      \* date.today()
  trip,       \* trip table: id -> row, or None
  log,        \* activity_log rows of each trip, oldest first
  work        \* what each running request is about to write, or None

environment == <<managerOf, today>>
tables == <<trip, log>>
vars == <<managerOf, today, trip, log, work>>

\* Timestamps and the reject reason are kept as "is it set".
Cell == {"NULL", "SET"}

\* The columns the rules read.
TripRow ==
  [owner : Users, status : TripStatuses, approver : Users \cup {None},
   start : Days, end : Days,
   submitted : Cell, approved : Cell, reason : Cell]

ASSUME NullIsNoRow == None \notin TripRow

\* The SET clause of an UPDATE.
Change ==
  [owner : {Keep}, status : TripStatuses \cup {Keep},
   approver : Users \cup {None, Keep},
   start : Days \cup {Keep}, end : Days \cup {Keep},
   submitted : Cell \cup {Keep}, approved : Cell \cup {Keep},
   reason : Cell \cup {Keep}]

NoChange ==
  [owner |-> Keep, status |-> Keep, approver |-> Keep, start |-> Keep,
   end |-> Keep, submitted |-> Keep, approved |-> Keep, reason |-> Keep]

Actions == {"CREATED", "UPDATED", "SUBMITTED", "APPROVED", "REJECTED",
            "COMPLETED", "SETTLED"}

Entry ==
  [action : Actions, actor : Users, from : TripStatuses \cup {None},
   to : TripStatuses, notified : Users \cup {None}]

Work ==
  [trip : TripIds, kind : {"INSERT"}, set : TripRow, entry : Entry]
    \cup [trip : TripIds, kind : {"UPDATE"}, set : Change, entry : Entry]
    \cup [trip : TripIds, kind : {"DELETE"}, set : {NoChange}, entry : {None}]

-----------------------------------------------------------------------------
(* Helpers                                                                 *)

\* The unit of work emits a column only when its value differs from the value
\* loaded; fresh timestamps always differ.
Dirty(loaded, new) == IF new = loaded THEN Keep ELSE new

\* Mutant: the statement writes every column, untouched ones included.
Column_unfiltered(new, current) == new

Column(new, current) == IF new = Keep THEN current ELSE new

\* UPDATE trip SET ... WHERE id = ...: the other columns keep what the row
\* holds now, whatever the request had read.
Flushed(set, row) ==
  [owner     |-> Column(set.owner, row.owner),
   status    |-> Column(set.status, row.status),
   approver  |-> Column(set.approver, row.approver),
   start     |-> Column(set.start, row.start),
   end       |-> Column(set.end, row.end),
   submitted |-> Column(set.submitted, row.submitted),
   approved  |-> Column(set.approved, row.approved),
   reason    |-> Column(set.reason, row.reason)]

\* Mutant: from_status is read after the assignment of the new status.
record_transition_late(actor, action, from, to, notify) ==
  [action |-> action, actor |-> actor, from |-> IF from = None THEN None ELSE to,
   to |-> to, notified |-> IF notify # actor THEN notify ELSE None]

\* Mutant: the self-notification test is inverted.
record_transition_inverted(actor, action, from, to, notify) ==
  [action |-> action, actor |-> actor, from |-> from, to |-> to,
   notified |-> IF notify = actor THEN notify ELSE None]

\* One activity-log row, and the notification sent with it unless it would go
\* to the actor itself.
record_transition(actor, action, from, to, notify) ==
  [action |-> action, actor |-> actor, from |-> from, to |-> to,
   notified |-> IF notify # actor THEN notify ELSE None]

Busy(w) == work[w] # None

load_visible_trip(u, t) ==
  /\ trip[t] # None
  /\ can_view(u \in Admins, u, trip[t].owner, trip[t].approver)

assert_transition(t, u, target) ==
  assert_transition_allowed(trip[t].status, target, u, trip[t].owner, trip[t].approver)

assert_date_range(start, end) == start <= end

\* Mutant: off by one day.
assert_completable_today(end) == end <= today

assert_completable(end) == end < today

\* A trip id the sequence has not handed out yet.
NextTripId(t) ==
  /\ trip[t] = None
  /\ log[t] = <<>>
  /\ \A v \in Workers : Busy(v) => work[v].trip # t

\* End of a handler's checks: its statements are ready to be sent.
Begin(w, t, kind, set, entry) ==
  /\ ~Busy(w)
  /\ Isolated => \A v \in Workers : Busy(v) => work[v].trip # t
  /\ Len(log[t]) < MaxLog
  /\ work' = [work EXCEPT ![w] = [trip |-> t, kind |-> kind, set |-> set, entry |-> entry]]
  /\ UNCHANGED <<environment, tables>>

-----------------------------------------------------------------------------
(* What the handlers assign                                                *)

Draft(u, s, e) ==
  [owner |-> u, status |-> "DRAFT", approver |-> None, start |-> s, end |-> e,
   submitted |-> "NULL", approved |-> "NULL", reason |-> "NULL"]

\* Mutant: the row that was read is written back whole.
Rescheduling_wholeRow(row, s, e) == [row EXCEPT !.start = s, !.end = e]

Rescheduling(row, s, e) ==
  [NoChange EXCEPT !.start = Dirty(row.start, s), !.end = Dirty(row.end, e)]

Submission(row, manager) ==
  [NoChange EXCEPT !.status = "SUBMITTED",
                   !.approver = Dirty(row.approver, manager),
                   !.submitted = "SET",
                   !.approved = Dirty(row.approved, "NULL"),
                   !.reason = Dirty(row.reason, "NULL")]

\* Mutant: the approver of the rejected round stays on the draft.
Reopening_keepsApprover(row) ==
  [NoChange EXCEPT !.status = "DRAFT",
                   !.submitted = Dirty(row.submitted, "NULL"),
                   !.approved = Dirty(row.approved, "NULL")]

\* The reject reason stays for the owner to read.
Reopening(row) ==
  [NoChange EXCEPT !.status = "DRAFT",
                   !.approver = Dirty(row.approver, None),
                   !.submitted = Dirty(row.submitted, "NULL"),
                   !.approved = Dirty(row.approved, "NULL")]

Approval == [NoChange EXCEPT !.status = "APPROVED", !.approved = "SET"]

Rejection == [NoChange EXCEPT !.status = "REJECTED", !.reason = "SET"]

Completion == [NoChange EXCEPT !.status = "COMPLETED"]

Settling == [NoChange EXCEPT !.status = "SETTLED"]

-----------------------------------------------------------------------------
(* Handlers                                                                *)

create_trip(w, u, t) ==
  \E s, e \in Days :
    /\ assert_date_range(s, e)
    /\ NextTripId(t)
    /\ Begin(w, t, "INSERT", Draft(u, s, e),
             record_transition(u, "CREATED", None, "DRAFT", None))

\* PATCH: the fields sent are merged into the row read, and the merged dates
\* are checked.  Fields other than the dates change nothing modelled.
update_trip(w, u, t) ==
  /\ load_visible_trip(u, t)
  /\ u = trip[t].owner
  /\ trip[t].status \in EDITABLE_STATUSES
  /\ \E s, e \in Days :
       /\ assert_date_range(s, e)
       /\ Begin(w, t, "UPDATE", Rescheduling(trip[t], s, e),
                record_transition(u, "UPDATED", trip[t].status, trip[t].status, None))

delete_trip(w, u, t) ==
  /\ load_visible_trip(u, t)
  /\ u = trip[t].owner
  /\ trip[t].status \in DELETABLE_STATUSES
  /\ Begin(w, t, "DELETE", NoChange, None)

submit_trip(w, u, t) ==
  /\ load_visible_trip(u, t)
  /\ assert_transition(t, u, "SUBMITTED")
  /\ assert_date_range(trip[t].start, trip[t].end)
  /\ managerOf[u] # None
  /\ Begin(w, t, "UPDATE", Submission(trip[t], managerOf[u]),
           record_transition(u, "SUBMITTED", trip[t].status, "SUBMITTED", managerOf[u]))

approve_trip(w, u, t) ==
  /\ load_visible_trip(u, t)
  /\ assert_transition(t, u, "APPROVED")
  /\ Begin(w, t, "UPDATE", Approval,
           record_transition(u, "APPROVED", trip[t].status, "APPROVED", trip[t].owner))

reject_trip(w, u, t) ==
  /\ load_visible_trip(u, t)
  /\ assert_transition(t, u, "REJECTED")
  /\ Begin(w, t, "UPDATE", Rejection,
           record_transition(u, "REJECTED", trip[t].status, "REJECTED", trip[t].owner))

reopen_trip(w, u, t) ==
  /\ load_visible_trip(u, t)
  /\ assert_transition(t, u, "DRAFT")
  /\ Begin(w, t, "UPDATE", Reopening(trip[t]),
           record_transition(u, "UPDATED", trip[t].status, "DRAFT", None))

complete_trip(w, u, t) ==
  /\ load_visible_trip(u, t)
  /\ assert_transition(t, u, "COMPLETED")
  /\ assert_completable(trip[t].end)
  /\ Begin(w, t, "UPDATE", Completion,
           record_transition(u, "COMPLETED", trip[t].status, "COMPLETED", None))

\* The part of an expense-report approval that touches the trip.  The report
\* is not in this module: any trip the rules let the system settle may be
\* settled, in the name of its approver.
settle_trip_for_report(w, u, t) ==
  /\ trip[t] # None
  /\ u = trip[t].approver
  /\ assert_system_transition(trip[t].status, "SETTLED")
  /\ Begin(w, t, "UPDATE", Settling,
           record_transition(u, "SETTLED", trip[t].status, "SETTLED", None))

TripRequest(w) ==
  \E u \in Users, t \in TripIds :
    \/ create_trip(w, u, t)
    \/ update_trip(w, u, t)
    \/ delete_trip(w, u, t)
    \/ submit_trip(w, u, t)
    \/ approve_trip(w, u, t)
    \/ reject_trip(w, u, t)
    \/ reopen_trip(w, u, t)
    \/ complete_trip(w, u, t)

Settlement(w) == \E u \in Users, t \in TripIds : settle_trip_for_report(w, u, t)

-----------------------------------------------------------------------------
(* The end of a request                                                    *)

Finish(w) ==
  /\ work' = [work EXCEPT ![w] = None]
  /\ UNCHANGED environment

WriteLog(t, entry) == log' = [log EXCEPT ![t] = Append(@, entry)]

CommitInsert(w) ==
  /\ Busy(w)
  /\ work[w].kind = "INSERT"
  /\ trip' = [trip EXCEPT ![work[w].trip] = work[w].set]
  /\ WriteLog(work[w].trip, work[w].entry)
  /\ Finish(w)

CommitUpdate(w) ==
  /\ Busy(w)
  /\ work[w].kind = "UPDATE"
  /\ trip[work[w].trip] # None
  /\ trip' = [trip EXCEPT ![work[w].trip] = Flushed(work[w].set, @)]
  /\ WriteLog(work[w].trip, work[w].entry)
  /\ Finish(w)

\* A PATCH that changes no column sends no UPDATE, only the log row, which has
\* no foreign key to the trip.
CommitLogOnly(w) ==
  /\ Busy(w)
  /\ work[w].kind = "UPDATE"
  /\ trip[work[w].trip] = None
  /\ work[w].set = NoChange
  /\ WriteLog(work[w].trip, work[w].entry)
  /\ Finish(w)
  /\ UNCHANGED trip

\* Deleting a row that is already gone is not an error.
CommitDelete(w) ==
  /\ Busy(w)
  /\ work[w].kind = "DELETE"
  /\ trip' = [trip EXCEPT ![work[w].trip] = None]
  /\ Finish(w)
  /\ UNCHANGED log

\* The transaction is rolled back and leaves nothing behind: the UPDATE matched
\* no row, a constraint failed, the connection or the process was lost.
Rollback(w) ==
  /\ Busy(w)
  /\ Finish(w)
  /\ UNCHANGED tables

\* A request whose row is gone can only be rolled back.
Commit(w) ==
  CommitInsert(w) \/ CommitUpdate(w) \/ CommitLogOnly(w) \/ CommitDelete(w)

-----------------------------------------------------------------------------
(* What happens around the service                                         *)

\* An administrator changes a user's approver (admin/users.py); nobody may be
\* their own.
_assert_manager(self, manager) == manager # self

update_user(u, m) ==
  /\ _assert_manager(u, m)
  /\ managerOf' = [managerOf EXCEPT ![u] = m]
  /\ UNCHANGED <<today, tables, work>>

AdvanceDay ==
  /\ today <= LastDay
  /\ today' = today + 1
  /\ UNCHANGED <<managerOf, tables, work>>

Init ==
  /\ managerOf \in [Users -> Users \cup {None}]
  /\ \A u \in Users : managerOf[u] # u
  /\ today = 1
  /\ trip = [t \in TripIds |-> None]
  /\ log = [t \in TripIds |-> <<>>]
  /\ work = [w \in Workers |-> None]

Environment ==
  \/ AdvanceDay
  \/ \E u \in Users, m \in Users \cup {None} : update_user(u, m)

Next ==
  \/ \E w \in Workers : TripRequest(w) \/ Settlement(w) \/ Commit(w) \/ Rollback(w)
  \/ Environment

Spec == Init /\ [][Next]_vars

-----------------------------------------------------------------------------
(* Properties of every interleaving                                        *)

TypeOK ==
  /\ managerOf \in [Users -> Users \cup {None}]
  /\ today \in 1..(LastDay + 1)
  /\ trip \in [TripIds -> TripRow \cup {None}]
  /\ log \in [TripIds -> Seq(Entry)]
  /\ work \in [Workers -> Work \cup {None}]

Creator(t) == log[t][1].actor

\* An entry of a status change names a transition of the table and the kind of
\* actor the table gives it; whoever decides is never the owner.
EntryByItsActor(t, e) ==
  /\ e.action = "CREATED" => e.actor = Creator(t)
  /\ e.action # "CREATED" /\ e.from # e.to =>
       \/ <<e.from, e.to>> \in OwnerTransitions /\ e.actor = Creator(t)
       \/ <<e.from, e.to>> \in ApproverTransitions \cup SystemTransitions
            /\ e.actor # Creator(t)

\* Whatever the interleaving, no recorded status change was made by someone the
\* tables do not allow, and nobody decided on or settled a trip of their own:
\* the checks of assert_transition_allowed hold for the log even when the row
\* they were made on has moved on by the time they are written.
StepsByTheirActor ==
  \A t \in TripIds : \A i \in 1..Len(log[t]) : EntryByItsActor(t, log[t][i])

\* Whoever approved or rejected a trip had been sent the request for it: the
\* approver column is only ever filled by a submission that notified that user
\* in the same transaction (submit_trip), also when an update merges into a row
\* written by somebody else.
DecidersWereAsked ==
  \A t \in TripIds : \A i \in 1..Len(log[t]) :
    log[t][i].action \in {"APPROVED", "REJECTED"} =>
      \E j \in 1..(i - 1) :
        log[t][j].action = "SUBMITTED" /\ log[t][j].notified = log[t][i].actor

\* The statuses a trip has had.
Recorded(t) == {log[t][i].to : i \in DOMAIN log[t]}

Written(t) == log'[t] # log[t]

\* The log row of this step.
LogRow(t) == log'[t][Len(log'[t])]

StatusWritten(t) ==
  /\ trip'[t] # None
  /\ trip[t] = None \/ trip'[t].status # trip[t].status

\* Row and log tell one story in every interleaving: no status changes without a
\* log row that says so (a PATCH never takes back the submission it overlaps), a
\* recorded change is the one the row is left with (an approval and a rejection
\* that overlap; a trip deleted meanwhile has none recorded), and it starts at a
\* status the trip really had (record_transition, and the columns each handler
\* assigns).
StatusChangesAreRecorded ==
  [][\A t \in TripIds :
       /\ StatusWritten(t) => Written(t) /\ LogRow(t).from # LogRow(t).to
       /\ Written(t) =>
            /\ LogRow(t).from \in IF log[t] = <<>> THEN {None} ELSE Recorded(t)
            /\ LogRow(t).from # LogRow(t).to =>
                 trip'[t] # None /\ trip'[t].status = LogRow(t).to]_vars

-----------------------------------------------------------------------------
(* Properties when requests on one trip do not overlap                     *)

\* The timeline of a trip is one unbroken walk: each entry starts where the
\* previous one ended, and the last one ends at the trip's status.
TimelineChain ==
  \A t \in TripIds :
    /\ \A i \in 2..Len(log[t]) : log[t][i].from = log[t][i - 1].to
    /\ trip[t] # None => log[t] # <<>> /\ log[t][Len(log[t])].to = trip[t].status

\* The approver, the two timestamps and the reject reason say what the status
\* says: an approver and a submission time from the submission until the trip
\* is reopened, an approval time from the approval on, and a reason only on a
\* rejected trip or on the draft made from it.
ColumnsMatchStatus ==
  \A t \in TripIds : trip[t] # None =>
    /\ (trip[t].approver # None) <=> (trip[t].status # "DRAFT")
    /\ (trip[t].submitted = "SET") <=> (trip[t].status # "DRAFT")
    /\ (trip[t].approved = "SET") <=> (trip[t].status \in {"APPROVED", "COMPLETED", "SETTLED"})
    /\ trip[t].reason = "SET" => trip[t].status \in {"REJECTED", "DRAFT"}
    /\ trip[t].status = "REJECTED" => trip[t].reason = "SET"

\* A trip never ends before it starts, and one that was completed had ended.
TripsEndAfterTheyStart ==
  \A t \in TripIds : trip[t] # None =>
    /\ trip[t].start <= trip[t].end
    /\ trip[t].status \in {"COMPLETED", "SETTLED"} => trip[t].end < today

\* The status diagram of the design: see TripLifecycle.
lifecycle ==
  [t \in TripIds |-> IF trip[t] # None THEN trip[t].status
                     ELSE IF log[t] = <<>> THEN "NEW" ELSE "DELETED"]

Lifecycle == INSTANCE TripLifecycle WITH status <- lifecycle

ImplementsLifecycle == Lifecycle!Spec
=============================================================================
