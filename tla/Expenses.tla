------------------------------ MODULE Expenses ------------------------------
(***************************************************************************)
(* The expense-report service (services/expenses.py) composed with the     *)
(* trip service.  A report belongs to one trip and is never deleted, so it *)
(* is known here by its trip.                                              *)
(*                                                                         *)
(* A request is read and decided in one step and written in a later one,   *)
(* as in Trips.  The requests that recompute the total have one more step: *)
(* they load the report first, and flush the item and add up the items     *)
(* later.  The flush of an item that exists takes its row lock.            *)
(***************************************************************************)
EXTENDS Trips, FiniteSetsExt

CONSTANTS
  ItemIds,        \* primary keys the item table may hand out
  ReportWorkers,  \* concurrently running requests on reports
  Amounts,        \* amounts a client may send
  MAX_REPORT_TOTAL,
  MaxReportLog,   \* bound: a report request starts only below this many log rows
  Gone            \* an item row that was deleted

ASSUME ExpensesAssumption ==
  /\ Amounts \subseteq Nat
  /\ MAX_REPORT_TOTAL \in Nat
  /\ MaxReportLog \in Nat
  /\ Keep \notin Nat
  /\ Keep \notin {"NO", "YES"}
  /\ IsFiniteSet(ItemIds)
  /\ ItemIds \cap {None, Gone} = {}
  /\ Gone # None

VARIABLES
  report,       \* expense_report table: trip id -> row, or None
  item,         \* expense_item table: id -> row, None before, Gone after
  report_log,   \* activity_log rows of each report, oldest first
  report_work   \* what each running request has loaded or is about to write

reportTables == <<report, item, report_log>>
allVars == <<vars, reportTables, report_work>>

EXPENSE_EDITABLE_STATUSES == {"DRAFT", "REJECTED"}

\* Both header centers are kept as one cell: are both of them set.
ReportRow ==
  [owner : Users, status : ReportStatuses, approver : Users \cup {None},
   centers : Cell, total : 0..MAX_REPORT_TOTAL,
   submitted : Cell, approved : Cell, reason : Cell]

ItemRow == [report : TripIds, amount : Amounts, is_excluded : {"NO", "YES"}]

ASSUME NullIsNoReport == None \notin ReportRow

ASSUME NeitherIsAnItem == None \notin ItemRow /\ Gone \notin ItemRow

-----------------------------------------------------------------------------
(* Helpers                                                                 *)

NoReportChange ==
  [owner |-> Keep, status |-> Keep, approver |-> Keep, centers |-> Keep,
   total |-> Keep, submitted |-> Keep, approved |-> Keep, reason |-> Keep]

\* UPDATE ... WHERE id = ...: the columns not in the statement keep what the row
\* holds now.
FlushedRow(set, row) == [c \in DOMAIN row |-> Column(set[c], row[c])]

\* The items of a report, in the table a request sees.
Items(t, table) == {i \in ItemIds : table[i] \notin {None, Gone} /\ table[i].report = t}

Included(t, table) == {i \in Items(t, table) : table[i].is_excluded = "NO"}

sum_included(t, table) == MapThenSumSet(LAMBDA i : table[i].amount, Included(t, table))

\* Mutant: excluded items are added up too.
_recalc_total_ofAll(t, table) == MapThenSumSet(LAMBDA i : table[i].amount, Items(t, table))

\* The items committed by others and the request's own flushed item.
_recalc_total(t, table) == sum_included(t, table)

\* Mutant: the limit is not checked.
assert_report_total_not(total) == total \in Nat

assert_report_total(total) == total <= MAX_REPORT_TOTAL

Idle(w) == report_work[w] = None

Loaded(w) == ~Idle(w) /\ report_work[w].phase = "LOADED"

Ready(w) == ~Idle(w) /\ report_work[w].phase = "READY"

\* Somebody's uncommitted UPDATE or DELETE of the item.
ItemLocked(i) == \E v \in ReportWorkers : Ready(v) /\ report_work[v].item = i

load_visible_report(u, t) ==
  /\ report[t] # None
  /\ can_view(u \in Admins, u, report[t].owner, report[t].approver)

assert_report_transition(t, u, target) ==
  assert_expense_transition_allowed(report[t].status, target, u,
                                    report[t].owner, report[t].approver)

\* A request may start: it overlaps with others on its trip only when they may
\* overlap at all.
MayStart(w, t) ==
  /\ Idle(w)
  /\ Isolated =>
       /\ \A v \in ReportWorkers : ~Idle(v) => report_work[v].trip # t
       /\ \A v \in Workers : Busy(v) => work[v].trip # t
  /\ Len(report_log[t]) < MaxReportLog

\* First step of a request that recomputes the total: what it has loaded.
Load(w, t, op, i) ==
  /\ MayStart(w, t)
  /\ report_work' = [report_work EXCEPT ![w] =
       [phase |-> "LOADED", trip |-> t, op |-> op, loaded |-> report[t],
        item |-> i, was |-> IF i = None THEN None ELSE item[i]]]
  /\ UNCHANGED <<vars, reportTables>>

\* The statements are ready to be sent: the report's change, the item row (or
\* None), the SETTLED update of the trip (or not), the log row (or None).
Prepare(w, t, kind, set, i, row, settle, entry) ==
  /\ report_work' = [report_work EXCEPT ![w] =
       [phase |-> "READY", trip |-> t, kind |-> kind, set |-> set,
        item |-> i, row |-> row, settle |-> settle, entry |-> entry]]
  /\ UNCHANGED <<vars, reportTables>>

PrepareUpdate(w, t, set, settle, entry) ==
  /\ MayStart(w, t)
  /\ Prepare(w, t, "UPDATE", set, None, None, settle, entry)

-----------------------------------------------------------------------------
(* What the handlers assign                                                *)

NewReport(row) ==
  [owner |-> row.owner, status |-> "DRAFT", approver |-> row.approver,
   centers |-> "NULL", total |-> 0,
   submitted |-> "NULL", approved |-> "NULL", reason |-> "NULL"]

NewTotal(loaded, total) ==
  [NoReportChange EXCEPT !.total = Dirty(loaded.total, total)]

ReportSubmission(loaded, total, approver) ==
  [NoReportChange EXCEPT !.total = Dirty(loaded.total, total),
                         !.status = "SUBMITTED",
                         !.approver = Dirty(loaded.approver, approver),
                         !.submitted = "SET",
                         !.approved = Dirty(loaded.approved, "NULL"),
                         !.reason = Dirty(loaded.reason, "NULL")]

ReportApproval == [NoReportChange EXCEPT !.status = "APPROVED", !.approved = "SET"]

ReportRejection == [NoReportChange EXCEPT !.status = "REJECTED", !.reason = "SET"]

\* Mutant: the submission time stays on the draft.
ReportReopening_keepsTime(row) ==
  [NoReportChange EXCEPT !.status = "DRAFT", !.approved = Dirty(row.approved, "NULL")]

\* The approver and the reject reason stay.
ReportReopening(row) ==
  [NoReportChange EXCEPT !.status = "DRAFT",
                         !.submitted = Dirty(row.submitted, "NULL"),
                         !.approved = Dirty(row.approved, "NULL")]

-----------------------------------------------------------------------------
(* Handlers of a report                                                    *)

create_report(w, u, t) ==
  /\ load_visible_trip(u, t)
  /\ u = trip[t].owner
  /\ trip[t].status \in REPORTABLE_TRIP_STATUSES
  /\ report[t] = None
  /\ MayStart(w, t)
  /\ Prepare(w, t, "INSERT", NewReport(trip[t]), None, None, "NO",
             record_transition(u, "CREATED", None, "DRAFT", None))

update_report(w, u, t) ==
  /\ load_visible_report(u, t)
  /\ u = report[t].owner
  /\ report[t].status \in EXPENSE_EDITABLE_STATUSES
  /\ \E centers \in Cell :
       PrepareUpdate(w, t, [NoReportChange EXCEPT !.centers = Dirty(report[t].centers, centers)],
                     "NO",
                     record_transition(u, "UPDATED", report[t].status, report[t].status, None))

\* Mutant: the approval is kept when the trip cannot be settled.
approve_report_unsettled(w, u, t) ==
  /\ load_visible_report(u, t)
  /\ assert_report_transition(t, u, "APPROVED")
  /\ \E settle \in {"YES", "NO"} :
       /\ settle = "YES" <=> assert_system_transition(trip[t].status, "SETTLED")
       /\ PrepareUpdate(w, t, ReportApproval, settle,
                        record_transition(u, "APPROVED", report[t].status, "APPROVED",
                                          report[t].owner))

\* The trip must be COMPLETED: the approval settles it in the same transaction.
approve_report(w, u, t) ==
  /\ load_visible_report(u, t)
  /\ assert_report_transition(t, u, "APPROVED")
  /\ assert_system_transition(trip[t].status, "SETTLED")
  /\ PrepareUpdate(w, t, ReportApproval, "YES",
                   record_transition(u, "APPROVED", report[t].status, "APPROVED",
                                     report[t].owner))

reject_report(w, u, t) ==
  /\ load_visible_report(u, t)
  /\ assert_report_transition(t, u, "REJECTED")
  /\ PrepareUpdate(w, t, ReportRejection, "NO",
                   record_transition(u, "REJECTED", report[t].status, "REJECTED",
                                     report[t].owner))

reopen_report(w, u, t) ==
  /\ load_visible_report(u, t)
  /\ assert_report_transition(t, u, "DRAFT")
  /\ PrepareUpdate(w, t, ReportReopening(report[t]), "NO",
                   record_transition(u, "UPDATED", report[t].status, "DRAFT", None))

submit_report_load(w, u, t) ==
  /\ load_visible_report(u, t)
  /\ assert_report_transition(t, u, "SUBMITTED")
  /\ Load(w, t, "SUBMIT", None)

\* Mutant: a report may be submitted before its trip is completed.
assert_trip_completed_reportable(status) == status \in REPORTABLE_TRIP_STATUSES

assert_trip_completed(status) == status = "COMPLETED"

\* Mutant: the header centers are not checked.
assert_centers_present_not(centers) == centers \in Cell

assert_centers_present(centers) == centers = "SET"

\* The trip is read, the items are counted and added up; status, centers and
\* approver of the report are those loaded before.
submit_report(w) ==
  /\ Loaded(w)
  /\ report_work[w].op = "SUBMIT"
  /\ LET t == report_work[w].trip
         loaded == report_work[w].loaded
         total == _recalc_total(t, item)
     IN  /\ assert_trip_completed(trip[t].status)
         /\ assert_centers_present(loaded.centers)
         /\ Included(t, item) # {}
         /\ assert_report_total(total)
         /\ trip[t].approver # None
         /\ Prepare(w, t, "UPDATE", ReportSubmission(loaded, total, trip[t].approver),
                    None, None, "NO",
                    record_transition(loaded.owner, "SUBMITTED", loaded.status, "SUBMITTED",
                                      trip[t].approver))

-----------------------------------------------------------------------------
(* Handlers of an item                                                     *)

\* Mutant: only the owner is checked, not the status of the report.
_load_editable_report_anyStatus(u, t) ==
  /\ load_visible_report(u, t)
  /\ u = report[t].owner

_load_editable_report(u, t) ==
  /\ load_visible_report(u, t)
  /\ u = report[t].owner
  /\ report[t].status \in EXPENSE_EDITABLE_STATUSES

add_item_load(w, u, t) ==
  /\ _load_editable_report(u, t)
  /\ Load(w, t, "ADD", None)

_load_item_for_edit(w, u, t) ==
  \E i \in Items(t, item), op \in {"EDIT", "DELETE"} :
    /\ _load_editable_report(u, t)
    /\ Load(w, t, op, i)

\* The flush of the item and the new total.
FlushItem(w, i, row) ==
  LET t == report_work[w].trip
      total == _recalc_total(t, IF i = None THEN item ELSE [item EXCEPT ![i] = row])
  IN  /\ assert_report_total(total)
      /\ Prepare(w, t, "UPDATE", NewTotal(report_work[w].loaded, total), i, row, "NO", None)

\* The sequence hands out ids that were never used.
add_item(w) ==
  /\ Loaded(w)
  /\ report_work[w].op = "ADD"
  /\ \E i \in ItemIds, a \in Amounts :
       /\ item[i] = None
       /\ ~ItemLocked(i)
       /\ FlushItem(w, i, [report |-> report_work[w].trip, amount |-> a, is_excluded |-> "NO"])

\* Columns that keep the value loaded are not written; when no column is, no
\* UPDATE is sent.  An UPDATE of a row that is gone matches nothing and the
\* request fails.
update_item(w) ==
  /\ Loaded(w)
  /\ report_work[w].op = "EDIT"
  /\ \E a \in Amounts, x \in {"NO", "YES"} :
       LET i == report_work[w].item
           was == report_work[w].was
           set == [report |-> Keep, amount |-> Dirty(was.amount, a),
                   is_excluded |-> Dirty(was.is_excluded, x)]
       IN  \/ /\ a = was.amount /\ x = was.is_excluded
              /\ FlushItem(w, None, None)
           \/ /\ a # was.amount \/ x # was.is_excluded
              /\ item[i] # Gone
              /\ ~ItemLocked(i)
              /\ FlushItem(w, i, FlushedRow(set, item[i]))

delete_item(w) ==
  /\ Loaded(w)
  /\ report_work[w].op = "DELETE"
  /\ ~ItemLocked(report_work[w].item)
  /\ FlushItem(w, report_work[w].item, Gone)

ReportRequest(w) ==
  \/ \E u \in Users, t \in TripIds :
       \/ create_report(w, u, t)
       \/ update_report(w, u, t)
       \/ approve_report(w, u, t)
       \/ reject_report(w, u, t)
       \/ reopen_report(w, u, t)
       \/ submit_report_load(w, u, t)
       \/ add_item_load(w, u, t)
       \/ _load_item_for_edit(w, u, t)
  \/ submit_report(w)
  \/ add_item(w)
  \/ update_item(w)
  \/ delete_item(w)

-----------------------------------------------------------------------------
(* The end of a request on a report                                        *)

FinishReport(w) ==
  /\ report_work' = [report_work EXCEPT ![w] = None]
  /\ UNCHANGED <<environment, work>>

\* trip_id is unique and a foreign key.
CommitReportInsert(w) ==
  /\ Ready(w)
  /\ report_work[w].kind = "INSERT"
  /\ LET t == report_work[w].trip
     IN  /\ trip[t] # None
         /\ report[t] = None
         /\ report' = [report EXCEPT ![t] = report_work[w].set]
         /\ report_log' = [report_log EXCEPT ![t] = Append(@, report_work[w].entry)]
  /\ FinishReport(w)
  /\ UNCHANGED <<tables, item>>

\* settle_trip_for_report, as part of the approval's transaction.
SettleTrip(t, entry) ==
  /\ trip' = [trip EXCEPT ![t] = Flushed(Settling, @)]
  /\ WriteLog(t, record_transition(entry.actor, "SETTLED", "COMPLETED", "SETTLED", None))

CommitReportUpdate(w) ==
  /\ Ready(w)
  /\ report_work[w].kind = "UPDATE"
  /\ LET r == report_work[w]
     IN  /\ report' = [report EXCEPT ![r.trip] = FlushedRow(r.set, @)]
         /\ item' = IF r.item = None THEN item ELSE [item EXCEPT ![r.item] = r.row]
         /\ report_log' = IF r.entry = None THEN report_log
                          ELSE [report_log EXCEPT ![r.trip] = Append(@, r.entry)]
         /\ IF r.settle = "YES" THEN SettleTrip(r.trip, r.entry) ELSE UNCHANGED tables
  /\ FinishReport(w)

\* Refused after the load, or rolled back for whatever reason.
RollbackReport(w) ==
  /\ ~Idle(w)
  /\ FinishReport(w)
  /\ UNCHANGED <<tables, reportTables>>

CommitReport(w) == CommitReportInsert(w) \/ CommitReportUpdate(w)

-----------------------------------------------------------------------------
(* The trip service beside it                                              *)

\* A trip request may start on the trip it begins with.
TripRequestBeside(w) ==
  /\ TripRequest(w)
  /\ Isolated =>
       \A v \in ReportWorkers : ~Idle(v) => report_work[v].trip # work'[w].trip
  /\ UNCHANGED <<reportTables, report_work>>

\* The foreign key of the report: a trip that has one cannot be deleted.
CommitBeside(w) ==
  /\ Commit(w)
  /\ work[w].kind = "DELETE" => report[work[w].trip] = None
  /\ UNCHANGED <<reportTables, report_work>>

TripService ==
  \/ \E w \in Workers : TripRequestBeside(w) \/ CommitBeside(w)
  \/ ((\E w \in Workers : Rollback(w)) \/ Environment) /\ UNCHANGED <<reportTables, report_work>>

ExpenseInit ==
  /\ Init
  /\ report = [t \in TripIds |-> None]
  /\ item = [i \in ItemIds |-> None]
  /\ report_log = [t \in TripIds |-> <<>>]
  /\ report_work = [w \in ReportWorkers |-> None]

ExpenseNext ==
  \/ TripService
  \/ \E w \in ReportWorkers : ReportRequest(w) \/ CommitReport(w) \/ RollbackReport(w)

ExpenseSpec == ExpenseInit /\ [][ExpenseNext]_allVars

-----------------------------------------------------------------------------
(* Types                                                                   *)

ReportChange ==
  [owner : {Keep}, status : ReportStatuses \cup {Keep},
   approver : Users \cup {None, Keep}, centers : Cell \cup {Keep},
   total : (0..MAX_REPORT_TOTAL) \cup {Keep},
   submitted : Cell \cup {Keep}, approved : Cell \cup {Keep}, reason : Cell \cup {Keep}]

ReportEntry ==
  [action : Actions, actor : Users, from : ReportStatuses \cup {None},
   to : ReportStatuses, notified : Users \cup {None}]

ASSUME NullIsNoReportEntry == None \notin ReportEntry

LoadedWork ==
  [phase : {"LOADED"}, trip : TripIds, op : {"SUBMIT", "ADD", "EDIT", "DELETE"},
   loaded : ReportRow, item : ItemIds \cup {None}, was : ItemRow \cup {None, Gone}]

ReadyWork ==
  [phase : {"READY"}, trip : TripIds, kind : {"INSERT"}, set : ReportRow,
   item : {None}, row : {None}, settle : {"NO"}, entry : ReportEntry]
    \cup
  [phase : {"READY"}, trip : TripIds, kind : {"UPDATE"}, set : ReportChange,
   item : ItemIds \cup {None}, row : ItemRow \cup {None, Gone},
   settle : {"NO", "YES"}, entry : ReportEntry \cup {None}]

ReportTypeOK ==
  /\ report \in [TripIds -> ReportRow \cup {None}]
  /\ item \in [ItemIds -> ItemRow \cup {None, Gone}]
  /\ report_log \in [TripIds -> Seq(ReportEntry)]
  /\ report_work \in [ReportWorkers -> LoadedWork \cup ReadyWork \cup {None}]

-----------------------------------------------------------------------------
(* Properties of every interleaving                                        *)

\* Whoever approved or rejected a report is not the owner of the trip and had
\* been sent that report before (submit_report), whatever other requests wrote
\* in between.
ReportDecidersWereAsked ==
  \A t \in TripIds : \A i \in 1..Len(report_log[t]) :
    report_log[t][i].action \in {"APPROVED", "REJECTED"} =>
      /\ report_log[t][i].actor # report[t].owner
      /\ \E j \in 1..(i - 1) : /\ report_log[t][j].action = "SUBMITTED"
                               /\ report_log[t][j].notified = report_log[t][i].actor

\* No report is approved for a trip that had not been completed, and each approval
\* left the SETTLED entry of the trip in the same transaction (approve_report).
ApprovalsSettleCompletedTrips ==
  \A t \in TripIds :
    LET Count(entries, action) == Cardinality({i \in 1..Len(entries) : entries[i].action = action})
    IN  /\ Count(log[t], "SETTLED") = Count(report_log[t], "APPROVED")
        /\ Count(report_log[t], "APPROVED") > 0 => Count(log[t], "COMPLETED") > 0

-----------------------------------------------------------------------------
(* Properties when requests on one trip do not overlap; of the first, the   *)
(* code claims more: see the README                                        *)

\* models/expense.py: the denormalized total always equals the sum of the items
\* that are not excluded.
TotalIsSumOfItems ==
  \A t \in TripIds : report[t] # None => report[t].total = sum_included(t, item)

\* submit_report: a report that was submitted has its centers and something to pay,
\* its trip is over, and its approver is the trip's.
SubmittedReportsAreComplete ==
  \A t \in TripIds : report[t] # None /\ report[t].status \in {"SUBMITTED", "APPROVED"} =>
    /\ report[t].centers = "SET"
    /\ Included(t, item) # {}
    /\ trip[t].status \in {"COMPLETED", "SETTLED"}
    /\ report[t].approver # None /\ report[t].approver = trip[t].approver

\* What the approver decides on does not change under him: neither the items nor
\* the total nor the centers of a report change between its submission and the
\* decision, and never again after the approval.
SubmittedReportsAreFrozen ==
  [][\A t \in TripIds :
       report[t] # None /\ report[t].status \in {"SUBMITTED", "APPROVED"} =>
         /\ [i \in Items(t, item) |-> item[i]] = [i \in Items(t, item') |-> item'[i]]
         /\ report'[t].total = report[t].total
         /\ report'[t].centers = report[t].centers]_allVars

\* The two timestamps and the reject reason of a report say what its status says.
ReportColumnsMatchStatus ==
  \A t \in TripIds : report[t] # None =>
    /\ (report[t].submitted = "SET") <=> (report[t].status # "DRAFT")
    /\ (report[t].approved = "SET") <=> (report[t].status = "APPROVED")
    /\ report[t].reason = "SET" => report[t].status \in {"REJECTED", "DRAFT"}
    /\ report[t].status = "REJECTED" => report[t].reason = "SET"

\* The trip's and the report's diagrams of the design, joined: see Settlement.
reportStatus == [t \in TripIds |-> IF report[t] = None THEN "NEW" ELSE report[t].status]

Joined == INSTANCE Settlement WITH tripStatus <- lifecycle

ImplementsSettlement == Joined!Spec
=============================================================================
