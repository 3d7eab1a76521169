--------------------------- MODULE ExpensesProofs ---------------------------
(***************************************************************************)
(* Theorems about Expenses: the report service beside the trip service,    *)
(* for every set of users, trips, items, amounts and requests.             *)
(***************************************************************************)
EXTENDS Expenses, TripsProofs, FiniteSetTheorems

USE TripsAssumption, ExpensesAssumption

-----------------------------------------------------------------------------
(* Sums over finite sets of items.  The fold of the community modules picks *)
(* the elements of a set one by one; SumRec is its defining equation.       *)

Pick(s) == CHOOSE x \in s : TRUE

SumRec(table, S, g) ==
  g = [s \in SUBSET S |-> IF s = {} THEN 0
                          ELSE table[Pick(s)].amount + g[s \ {Pick(s)}]]

SumOf(table, S) == MapThenSumSet(LAMBDA i : table[i].amount, S)

\* What the fold computes.
LEMMA SumIsRec ==
  ASSUME NEW table, NEW S
  PROVE  SumOf(table, S) = (CHOOSE g : SumRec(table, S, g))[S]
  BY Zenon DEF SumOf, MapThenSumSet, MapThenFoldSet, SumRec, Pick

\* One step of the equation.
LEMMA SumRecStep ==
  ASSUME NEW table, NEW S, NEW g, SumRec(table, S, g)
  PROVE  /\ g[{}] = 0
         /\ \A s \in SUBSET S : s # {} =>
              /\ Pick(s) \in s
              /\ s \ {Pick(s)} \in SUBSET S
              /\ g[s] = table[Pick(s)].amount + g[s \ {Pick(s)}]
<1>1. \A s : s # {} => Pick(s) \in s
  BY DEF Pick
<1> QED
  BY <1>1 DEF SumRec

\* A set of subsets of a finite set, if it has an element, has a smallest one.
LEMMA SmallestSubset ==
  ASSUME NEW S, IsFiniteSet(S), NEW Bad \in SUBSET (SUBSET S), Bad # {}
  PROVE  \E T \in Bad : \A U \in SUBSET T : U # T => U \notin Bad
<1>1. Bad \subseteq FiniteSubsetsOf(S)
  BY FS_Subset DEF FiniteSubsetsOf
<1>2. PICK T \in Bad : \A U \in Bad : <<U, T>> \notin StrictSubsetOrdering(S)
  BY <1>1, FS_StrictSubsetOrderingWellFounded, WFMin
<1>3. ASSUME NEW U \in SUBSET T, U # T, U \in Bad PROVE FALSE
  <2>1. <<U, T>> \in (SUBSET S) \X (SUBSET S)
    BY <1>3
  <2>2. <<U, T>> \in StrictSubsetOrdering(S)
    BY <1>3, <2>1 DEF StrictSubsetOrdering
  <2> QED
    BY <1>2, <1>3, <2>2
<1> QED
  BY <1>3

\* Two functions that satisfy the equation, on tables with the same amounts,
\* agree where both are defined.
LEMMA SumRecAgree ==
  ASSUME NEW a, NEW b, NEW S, NEW T, NEW g, NEW h,
         SumRec(a, S, g), SumRec(b, T, h),
         NEW s, IsFiniteSet(s), s \in SUBSET S, s \in SUBSET T,
         \A x \in s : a[x].amount = b[x].amount
  PROVE  g[s] = h[s]
<1> DEFINE Bad == {u \in SUBSET s : g[u] # h[u]}
<1> SUFFICES ASSUME Bad # {} PROVE FALSE
  OBVIOUS
<1>0. Bad \in SUBSET (SUBSET s)
  OBVIOUS
<1> HIDE DEF Bad
<1>1. PICK u \in Bad : \A v \in SUBSET u : v # u => v \notin Bad
  BY <1>0, SmallestSubset
<1>2. u \in SUBSET S /\ u \in SUBSET T /\ g[u] # h[u] /\ u \in SUBSET s
  BY DEF Bad
<1>3. u # {} /\ Pick(u) \in u
  <2>1. u = {} => g[u] = 0
    BY <1>2, SumRecStep
  <2>2. u = {} => h[u] = 0
    BY <1>2, SumRecStep
  <2> QED
    BY <1>2, <2>1, <2>2 DEF Pick
<1>4. g[u \ {Pick(u)}] = h[u \ {Pick(u)}]
  <2>1. u \ {Pick(u)} \in SUBSET u /\ u \ {Pick(u)} # u
    BY <1>3
  <2> QED
    BY <1>1, <1>2, <2>1 DEF Bad
<1>5. a[Pick(u)].amount = b[Pick(u)].amount
  BY <1>2, <1>3
<1>6. g[u] = a[Pick(u)].amount + g[u \ {Pick(u)}]
  <2>1. g = [v \in SUBSET S |-> IF v = {} THEN 0
                                 ELSE a[Pick(v)].amount + g[v \ {Pick(v)}]]
    BY DEF SumRec
  <2>2. g[u] = IF u = {} THEN 0 ELSE a[Pick(u)].amount + g[u \ {Pick(u)}]
    BY <1>2, <2>1, Zenon
  <2> QED
    BY <1>3, <2>2, Zenon
<1>7. h[u] = b[Pick(u)].amount + h[u \ {Pick(u)}]
  <2>1. h = [v \in SUBSET T |-> IF v = {} THEN 0
                                 ELSE b[Pick(v)].amount + h[v \ {Pick(v)}]]
    BY DEF SumRec
  <2>2. h[u] = IF u = {} THEN 0 ELSE b[Pick(u)].amount + h[u \ {Pick(u)}]
    BY <1>2, <2>1, Zenon
  <2> QED
    BY <1>3, <2>2, Zenon
<1> QED
  BY <1>2, <1>4, <1>5, <1>6, <1>7

\* The equation has a solution on every finite set.
LEMMA SumRecExists ==
  ASSUME NEW table, NEW S, IsFiniteSet(S)
  PROVE  \E g : SumRec(table, S, g)
<1> DEFINE Solvable(T) == \E g : SumRec(table, T, g)
           Bad == {T \in SUBSET S : ~Solvable(T)}
<1> SUFFICES ASSUME Bad # {} PROVE FALSE
  OBVIOUS
<1>0. Bad \in SUBSET (SUBSET S)
  OBVIOUS
<1> HIDE DEF Bad
<1>1. PICK T \in Bad : \A U \in SUBSET T : U # T => U \notin Bad
  BY <1>0, SmallestSubset
<1>2. T \in SUBSET S /\ ~Solvable(T) /\ \A U \in SUBSET T : U # T => Solvable(U)
  BY <1>1 DEF Bad
<1> DEFINE sol(U) == CHOOSE g : SumRec(table, U, g)
           G == [s \in SUBSET T |-> IF s = {} THEN 0
                   ELSE table[Pick(s)].amount + sol(s \ {Pick(s)})[s \ {Pick(s)}]]
<1>3. ASSUME NEW U \in SUBSET T, U # T PROVE SumRec(table, U, sol(U)) /\ IsFiniteSet(U)
  BY <1>2, <1>3, FS_Subset
<1>4. ASSUME NEW U \in SUBSET T, U # T PROVE G[U] = sol(U)[U]
  <2>1. CASE U = {}
    BY <1>3, <1>4, <2>1, SumRecStep
  <2>2. CASE U # {}
    <3> DEFINE V == U \ {Pick(U)}
    <3>1. Pick(U) \in U /\ V \in SUBSET U /\ V \in SUBSET T /\ V # T
      BY <2>2 DEF Pick
    <3>2. sol(U)[U] = table[Pick(U)].amount + sol(U)[V]
      BY <1>3, <1>4, <2>2, SumRecStep
    <3>3. sol(U)[V] = sol(V)[V]
      <4>1. SumRec(table, U, sol(U)) /\ SumRec(table, V, sol(V)) /\ IsFiniteSet(V)
        BY <1>3, <1>4, <3>1
      <4> QED
        BY <3>1, <4>1, SumRecAgree
    <3>4. G[U] = table[Pick(U)].amount + sol(V)[V]
      BY <2>2
    <3> QED
      BY <3>2, <3>3, <3>4
  <2> QED
    BY <2>1, <2>2
<1>5. SumRec(table, T, G)
  <2>1. ASSUME NEW s \in SUBSET T, s # {}
        PROVE  sol(s \ {Pick(s)})[s \ {Pick(s)}] = G[s \ {Pick(s)}]
    <3>1. s \ {Pick(s)} \in SUBSET T /\ s \ {Pick(s)} # T
      BY <2>1 DEF Pick
    <3> QED
      BY <1>4, <3>1
  <2>0. G = [s \in SUBSET T |-> IF s = {} THEN 0
                   ELSE table[Pick(s)].amount + sol(s \ {Pick(s)})[s \ {Pick(s)}]]
    OBVIOUS
  <2> HIDE DEF G, sol
  <2>2. G = [s \in SUBSET T |-> IF s = {} THEN 0
                                ELSE table[Pick(s)].amount + G[s \ {Pick(s)}]]
    BY <2>0, <2>1, Zenon
  <2> QED
    BY <2>2 DEF SumRec
<1> QED
  BY <1>2, <1>5

\* The sum of amounts that are natural numbers is one.
LEMMA SumIsNat ==
  ASSUME NEW table, NEW S, IsFiniteSet(S), \A x \in S : table[x].amount \in Nat
  PROVE  SumOf(table, S) \in Nat
<1>1. PICK g : g = CHOOSE h : SumRec(table, S, h)
  OBVIOUS
<1>2. SumRec(table, S, g)
  BY <1>1, SumRecExists
<1> DEFINE Bad == {u \in SUBSET S : g[u] \notin Nat}
<1>3. Bad = {}
  <2> SUFFICES ASSUME Bad # {} PROVE FALSE
    OBVIOUS
  <2>0. Bad \in SUBSET (SUBSET S)
    OBVIOUS
  <2> HIDE DEF Bad
  <2>1. PICK u \in Bad : \A v \in SUBSET u : v # u => v \notin Bad
    BY <2>0, SmallestSubset
  <2>2. u # {} /\ Pick(u) \in u /\ g[u] = table[Pick(u)].amount + g[u \ {Pick(u)}]
    <3>1. u \in SUBSET S /\ g[u] \notin Nat
      BY DEF Bad
    <3>2. u = {} => g[u] = 0
      BY <1>2, <3>1, SumRecStep
    <3>3. u # {}
      BY <3>1, <3>2
    <3> QED
      BY <1>2, <3>1, <3>3, SumRecStep
  <2>3. u \ {Pick(u)} \in SUBSET u /\ u \ {Pick(u)} # u /\ u \ {Pick(u)} \in SUBSET S
    BY <2>2 DEF Bad
  <2>4. g[u \ {Pick(u)}] \in Nat
    BY <2>1, <2>3 DEF Bad
  <2>5. table[Pick(u)].amount \in Nat /\ g[u] \notin Nat
    BY <2>2 DEF Bad
  <2> QED
    BY <2>2, <2>4, <2>5
<1> QED
  BY <1>1, <1>3, SumIsRec

\* The sum depends on the amounts of the items summed up only.
LEMMA SumDependsOnAmounts ==
  ASSUME NEW a, NEW b, NEW S, IsFiniteSet(S), \A x \in S : a[x].amount = b[x].amount
  PROVE  SumOf(a, S) = SumOf(b, S)
<1>1. SumRec(a, S, CHOOSE g : SumRec(a, S, g)) /\ SumRec(b, S, CHOOSE g : SumRec(b, S, g))
  BY SumRecExists
<1> QED
  BY <1>1, SumRecAgree, SumIsRec

\* A report's total is the sum of natural numbers, so it is one.
LEMMA TotalType ==
  ASSUME NEW table \in [ItemIds -> ItemRow \cup {None, Gone}], NEW t
  PROVE  sum_included(t, table) \in Nat
<1>1. Included(t, table) \in SUBSET ItemIds
  BY DEF Included, Items
<1>2. \A i \in Included(t, table) : table[i].amount \in Nat
  <2>1. \A r \in ItemRow : r.amount \in Nat
    BY DEF ItemRow
  <2>2. \A i \in Included(t, table) : table[i] \in ItemRow
    BY DEF Included, Items
  <2> QED
    BY <2>1, <2>2
<1>3. IsFiniteSet(Included(t, table))
  BY <1>1, FS_Subset
<1>4. SumOf(table, Included(t, table)) \in Nat
  BY <1>2, <1>3, SumIsNat
<1> QED
  BY <1>4, Zenon DEF sum_included, SumOf

-----------------------------------------------------------------------------
(* Types                                                                   *)

\* What a request knows of the rows it works on: the report is there and stays,
\* an item it edits was there, and what it writes to an item is a row or its
\* deletion.
WorkFits(r) ==
  /\ r.phase = "LOADED" =>
       /\ report[r.trip] # None
       /\ r.op \in {"EDIT", "DELETE"} =>
            r.item \in ItemIds /\ r.was \in ItemRow /\ item[r.item] # None
  /\ r.phase = "READY" /\ r.kind = "UPDATE" =>
       /\ report[r.trip] # None
       /\ r.item # None => r.row \in ItemRow \cup {Gone}
       /\ r.settle = "YES" => r.entry \in ReportEntry

\* The foreign key of the report.
ReportsHaveTrips == \A t \in TripIds : report[t] # None => trip[t] # None

\* What every running request knows still holds.
RequestsFit == \A w \in ReportWorkers : ~Idle(w) => WorkFits(report_work[w])

\* The inductive invariant of the types.
ReportTypes ==
  /\ TypeOK
  /\ ReportTypeOK
  /\ ReportsHaveTrips
  /\ RequestsFit

\* Every step of the trip service is a step of Trips.
LEMMA TripServiceStep ==
  ASSUME TripService
  PROVE  [Next]_vars /\ UNCHANGED <<reportTables, report_work>>
  BY DEF TripService, TripRequestBeside, CommitBeside, Next

\* A request on a report hands over a record.
LEMMA LoadedRecord ==
  ASSUME ReportTypeOK, NEW w \in ReportWorkers, NEW t, NEW op, NEW i, Load(w, t, op, i)
  PROVE  /\ report_work'[w] = [phase |-> "LOADED", trip |-> t, op |-> op, loaded |-> report[t],
                               item |-> i, was |-> IF i = None THEN None ELSE item[i]]
         /\ \A v \in ReportWorkers : v # w => report_work'[v] = report_work[v]
         /\ DOMAIN report_work' = ReportWorkers
         /\ UNCHANGED <<vars, reportTables>>
  BY DEF Load, ReportTypeOK

\* And so does one that needs no second step.
LEMMA ReadyRecord ==
  ASSUME ReportTypeOK, NEW w \in ReportWorkers, NEW t, NEW kind, NEW set, NEW i, NEW row,
         NEW settle, NEW entry, Prepare(w, t, kind, set, i, row, settle, entry)
  PROVE  /\ report_work'[w] = [phase |-> "READY", trip |-> t, kind |-> kind, set |-> set,
                               item |-> i, row |-> row, settle |-> settle, entry |-> entry]
         /\ \A v \in ReportWorkers : v # w => report_work'[v] = report_work[v]
         /\ DOMAIN report_work' = ReportWorkers
         /\ UNCHANGED <<vars, reportTables>>
  BY DEF Prepare, ReportTypeOK

\* Handing over a typed record that fits keeps the types.
HandsOver(w) ==
  /\ report_work'[w] \in LoadedWork \cup ReadyWork
  /\ WorkFits(report_work'[w])
  /\ report_work' = [report_work EXCEPT ![w] = report_work'[w]]
  /\ UNCHANGED <<vars, reportTables>>

\* Work that is typed and fits keeps the types.
LEMMA HandOverTypes ==
  ASSUME ReportTypes, NEW w \in ReportWorkers, HandsOver(w)
  PROVE  ReportTypes'
<1>1. PICK r : r = report_work'[w]
  OBVIOUS
<1>2. /\ r \in LoadedWork \cup ReadyWork /\ WorkFits(r)
      /\ report_work' = [report_work EXCEPT ![w] = r]
      /\ UNCHANGED <<vars, reportTables>>
  BY <1>1 DEF HandsOver
<1>3. TypeOK' /\ ReportsHaveTrips'
  BY <1>2, TypeStep DEF ReportTypes, ReportsHaveTrips, vars, reportTables
<1>4. ReportTypeOK'
  BY <1>2 DEF ReportTypes, ReportTypeOK, reportTables
<1>5. RequestsFit'
  <2> SUFFICES ASSUME NEW v \in ReportWorkers, ~Idle(v)' PROVE WorkFits(report_work[v])'
    BY DEF RequestsFit
  <2>1. report_work'[v] = IF v = w THEN r ELSE report_work[v]
    BY <1>2 DEF ReportTypes, ReportTypeOK
  <2>2. WorkFits(report_work'[v])
    BY <1>2, <2>1 DEF ReportTypes, RequestsFit, Idle
  <2> QED
    BY <1>2, <2>2 DEF WorkFits, reportTables
<1> QED
  BY <1>3, <1>4, <1>5 DEF ReportTypes

\* What the handlers assign is a SET clause.
LEMMA ReportChangeTypes ==
  /\ ReportApproval \in ReportChange
  /\ ReportRejection \in ReportChange
  /\ \A row \in ReportRow, centers \in Cell, approver \in Users, total \in 0..MAX_REPORT_TOTAL :
       /\ [NoReportChange EXCEPT !.centers = Dirty(row.centers, centers)] \in ReportChange
       /\ NewTotal(row, total) \in ReportChange
       /\ ReportSubmission(row, total, approver) \in ReportChange
       /\ ReportReopening(row) \in ReportChange
<1>1. ReportApproval \in ReportChange /\ ReportRejection \in ReportChange
  BY DEF ReportApproval, ReportRejection, NoReportChange, ReportChange, ReportStatuses, Cell
<1>2. ASSUME NEW row \in ReportRow, NEW centers \in Cell
      PROVE  [NoReportChange EXCEPT !.centers = Dirty(row.centers, centers)] \in ReportChange
  BY DEF NoReportChange, ReportChange, Dirty
<1>3. ASSUME NEW row \in ReportRow, NEW total \in 0..MAX_REPORT_TOTAL
      PROVE  NewTotal(row, total) \in ReportChange
  BY DEF NewTotal, NoReportChange, ReportChange, Dirty
<1>4. ASSUME NEW row \in ReportRow, NEW approver \in Users, NEW total \in 0..MAX_REPORT_TOTAL
      PROVE  ReportSubmission(row, total, approver) \in ReportChange
  BY DEF ReportSubmission, NoReportChange, ReportChange, Dirty, ReportStatuses, Cell
<1>5. ASSUME NEW row \in ReportRow PROVE ReportReopening(row) \in ReportChange
  BY DEF ReportReopening, NoReportChange, ReportChange, Dirty, ReportStatuses, Cell
<1> QED
  BY <1>1, <1>2, <1>3, <1>4, <1>5

\* A log row of a report.
LEMMA ReportEntryType ==
  ASSUME NEW actor \in Users, NEW action \in Actions,
         NEW from \in ReportStatuses \cup {None}, NEW to \in ReportStatuses,
         NEW notify \in Users \cup {None}
  PROVE  record_transition(actor, action, from, to, notify) \in ReportEntry
  BY DEF record_transition, ReportEntry

\* A handler that prepares an UPDATE of a report that is there hands over.
LEMMA UpdateHandsOver ==
  ASSUME ReportTypes, NEW w \in ReportWorkers, NEW t \in TripIds, report[t] # None,
         NEW set \in ReportChange, NEW i \in ItemIds \cup {None},
         NEW row \in ItemRow \cup {None, Gone}, i # None => row # None,
         NEW settle \in {"NO", "YES"}, NEW entry \in ReportEntry \cup {None},
         settle = "YES" => entry \in ReportEntry,
         Prepare(w, t, "UPDATE", set, i, row, settle, entry)
  PROVE  HandsOver(w)
<1> DEFINE new == [phase |-> "READY", trip |-> t, kind |-> "UPDATE", set |-> set,
                   item |-> i, row |-> row, settle |-> settle, entry |-> entry]
<1>1. new \in ReadyWork
  BY DEF ReadyWork
<1>2. WorkFits(new)
  BY DEF WorkFits
<1>3. report_work'[w] = new /\ UNCHANGED <<vars, reportTables>>
  BY ReadyRecord DEF ReportTypes
<1> HIDE DEF new
<1>4. report_work' = [report_work EXCEPT ![w] = new]
  BY DEF Prepare, new
<1> QED
  BY <1>1, <1>2, <1>3, <1>4 DEF HandsOver

\* A handler that has loaded a report that is there hands over.
LEMMA LoadHandsOver ==
  ASSUME ReportTypes, NEW w \in ReportWorkers, NEW t \in TripIds, report[t] # None,
         NEW op \in {"SUBMIT", "ADD", "EDIT", "DELETE"}, NEW i \in ItemIds \cup {None},
         op \in {"EDIT", "DELETE"} => i \in ItemIds /\ item[i] \in ItemRow,
         Load(w, t, op, i)
  PROVE  HandsOver(w)
<1> DEFINE was == IF i = None THEN None ELSE item[i]
           new == [phase |-> "LOADED", trip |-> t, op |-> op, loaded |-> report[t],
                   item |-> i, was |-> was]
<1>1. was \in ItemRow \cup {None, Gone} /\ report[t] \in ReportRow
  BY DEF ReportTypes, ReportTypeOK
<1>2. op \in {"EDIT", "DELETE"} => was \in ItemRow /\ item[i] # None
  BY NeitherIsAnItem
<1>3. report_work'[w] = new /\ UNCHANGED <<vars, reportTables>>
  BY LoadedRecord DEF ReportTypes
<1>4. report_work' = [report_work EXCEPT ![w] = new]
  BY DEF Load
<1> HIDE DEF was
<1>5. new \in LoadedWork
  BY <1>1 DEF LoadedWork
<1>6. WorkFits(new)
  BY <1>2 DEF WorkFits
<1> HIDE DEF new
<1> QED
  BY <1>3, <1>4, <1>5, <1>6 DEF HandsOver

\* What a request knows of a report it has loaded.
LEMMA LoadedType ==
  ASSUME ReportTypes, NEW w \in ReportWorkers, Loaded(w)
  PROVE  /\ report_work[w].trip \in TripIds
         /\ report_work[w].loaded \in ReportRow
         /\ report[report_work[w].trip] # None
         /\ trip[report_work[w].trip] \in TripRow
         /\ report_work[w].op \in {"EDIT", "DELETE"} =>
              /\ report_work[w].item \in ItemIds
              /\ report_work[w].was \in ItemRow
              /\ item[report_work[w].item] # None
<1>1. PICK r \in LoadedWork : r = report_work[w]
  BY DEF ReportTypes, ReportTypeOK, Loaded, Idle, ReadyWork
<1>2. r.trip \in TripIds /\ r.loaded \in ReportRow /\ r.phase = "LOADED" /\ WorkFits(r)
  BY <1>1 DEF LoadedWork, ReportTypes, RequestsFit, Loaded
<1>3. report[r.trip] # None /\ trip[r.trip] \in TripRow
  BY <1>2 DEF WorkFits, ReportTypes, ReportsHaveTrips, TypeOK
<1> QED
  BY <1>1, <1>2, <1>3 DEF WorkFits

\* The flush of an item and the new total hand over.
LEMMA FlushHandsOver ==
  ASSUME ReportTypes, NEW w \in ReportWorkers, Loaded(w), NEW i \in ItemIds \cup {None},
         NEW row \in ItemRow \cup {None, Gone}, i # None => row # None,
         FlushItem(w, i, row)
  PROVE  HandsOver(w)
<1> DEFINE t == report_work[w].trip
           table == IF i = None THEN item ELSE [item EXCEPT ![i] = row]
           total == _recalc_total(t, table)
<1>1. table \in [ItemIds -> ItemRow \cup {None, Gone}]
  BY DEF ReportTypes, ReportTypeOK
<1>2. /\ assert_report_total(total)
      /\ Prepare(w, t, "UPDATE", NewTotal(report_work[w].loaded, total), i, row, "NO", None)
  BY Zenon DEF FlushItem
<1> HIDE DEF table
<1>3. total \in Nat
  BY <1>1, TotalType DEF _recalc_total
<1>4. total \in 0..MAX_REPORT_TOTAL
  BY <1>2, <1>3 DEF assert_report_total
<1> HIDE DEF total
<1>5. NewTotal(report_work[w].loaded, total) \in ReportChange
  <2>1. report_work[w].loaded \in ReportRow /\ "SET" \in Cell
    BY LoadedType DEF Cell
  <2> QED
    BY <1>4, <2>1 DEF NewTotal, NoReportChange, ReportChange, Dirty
<1> QED
  BY <1>2, <1>5, LoadedType, UpdateHandsOver

\* Every handler of a report hands over typed work that fits.
LEMMA ReportHandlersHandOver ==
  ASSUME ReportTypes, NEW w \in ReportWorkers, ReportRequest(w)
  PROVE  HandsOver(w)
<1>1. ASSUME NEW t \in TripIds, NEW set \in ReportChange, NEW settle \in {"NO", "YES"},
             NEW entry \in ReportEntry, report[t] # None,
             PrepareUpdate(w, t, set, settle, entry)
      PROVE  HandsOver(w)
  BY <1>1, UpdateHandsOver DEF PrepareUpdate
<1>2. ASSUME NEW t \in TripIds, report[t] # None
      PROVE  report[t] \in ReportRow /\ report[t].owner \in Users
               /\ report[t].status \in ReportStatuses
  BY <1>2 DEF ReportTypes, ReportTypeOK, ReportRow
<1>3. ASSUME NEW u \in Users, NEW t \in TripIds, create_report(w, u, t) PROVE HandsOver(w)
  <2> DEFINE e == record_transition(u, "CREATED", None, "DRAFT", None)
             new == [phase |-> "READY", trip |-> t, kind |-> "INSERT", set |-> NewReport(trip[t]),
                     item |-> None, row |-> None, settle |-> "NO", entry |-> e]
  <2>1. Prepare(w, t, "INSERT", NewReport(trip[t]), None, None, "NO", e)
    BY <1>3 DEF create_report
  <2>2. trip[t] \in TripRow
    BY <1>3 DEF create_report, load_visible_trip, ReportTypes, TypeOK
  <2>3. NewReport(trip[t]) \in ReportRow
    BY <2>2 DEF NewReport, ReportRow, TripRow, ReportStatuses, Cell
  <2>4. e \in ReportEntry
    BY ReportEntryType DEF Actions, ReportStatuses
  <2>5. report_work'[w] = new /\ UNCHANGED <<vars, reportTables>>
    BY <2>1, ReadyRecord DEF ReportTypes
  <2>6. report_work' = [report_work EXCEPT ![w] = new]
    BY <2>1 DEF Prepare
  <2> HIDE DEF e
  <2>7. new \in ReadyWork
    BY <2>3, <2>4 DEF ReadyWork
  <2>8. WorkFits(new)
    BY DEF WorkFits
  <2> HIDE DEF new
  <2> QED
    BY <2>5, <2>6, <2>7, <2>8 DEF HandsOver
<1>4. ASSUME NEW u \in Users, NEW t \in TripIds, update_report(w, u, t) PROVE HandsOver(w)
  <2>1. PICK centers \in Cell :
          PrepareUpdate(w, t, [NoReportChange EXCEPT !.centers = Dirty(report[t].centers, centers)],
                        "NO", record_transition(u, "UPDATED", report[t].status, report[t].status, None))
    BY <1>4 DEF update_report
  <2>2. report[t] # None
    BY <1>4 DEF update_report, load_visible_report
  <2>3. [NoReportChange EXCEPT !.centers = Dirty(report[t].centers, centers)] \in ReportChange
    BY <1>2, <2>2 DEF NoReportChange, ReportChange, Dirty
  <2>4. record_transition(u, "UPDATED", report[t].status, report[t].status, None) \in ReportEntry
    BY <1>2, <2>2, ReportEntryType DEF Actions
  <2> QED
    BY <1>1, <2>1, <2>2, <2>3, <2>4
<1>5. ASSUME NEW u \in Users, NEW t \in TripIds, approve_report(w, u, t) PROVE HandsOver(w)
  <2>1. report[t] # None
    BY <1>5 DEF approve_report, load_visible_report
  <2>2. record_transition(u, "APPROVED", report[t].status, "APPROVED", report[t].owner) \in ReportEntry
    BY <1>2, <2>1, ReportEntryType DEF Actions, ReportStatuses
  <2> QED
    BY <1>1, <1>5, <2>1, <2>2, ReportChangeTypes DEF approve_report
<1>6. ASSUME NEW u \in Users, NEW t \in TripIds, reject_report(w, u, t) PROVE HandsOver(w)
  <2>1. report[t] # None
    BY <1>6 DEF reject_report, load_visible_report
  <2>2. record_transition(u, "REJECTED", report[t].status, "REJECTED", report[t].owner) \in ReportEntry
    BY <1>2, <2>1, ReportEntryType DEF Actions, ReportStatuses
  <2> QED
    BY <1>1, <1>6, <2>1, <2>2, ReportChangeTypes DEF reject_report
<1>7. ASSUME NEW u \in Users, NEW t \in TripIds, reopen_report(w, u, t) PROVE HandsOver(w)
  <2>1. report[t] # None
    BY <1>7 DEF reopen_report, load_visible_report
  <2>2. record_transition(u, "UPDATED", report[t].status, "DRAFT", None) \in ReportEntry
    BY <1>2, <2>1, ReportEntryType DEF Actions, ReportStatuses
  <2>3. ReportReopening(report[t]) \in ReportChange
    BY <1>2, <2>1 DEF ReportReopening, NoReportChange, ReportChange, Dirty, ReportStatuses, Cell
  <2> QED
    BY <1>1, <1>7, <2>1, <2>2, <2>3 DEF reopen_report
<1>8. ASSUME NEW u \in Users, NEW t \in TripIds,
             submit_report_load(w, u, t) \/ add_item_load(w, u, t)
      PROVE  HandsOver(w)
  BY <1>8, LoadHandsOver DEF submit_report_load, add_item_load, _load_editable_report,
                             load_visible_report
<1>9. ASSUME NEW u \in Users, NEW t \in TripIds, _load_item_for_edit(w, u, t) PROVE HandsOver(w)
  <2>1. PICK i \in Items(t, item), op \in {"EDIT", "DELETE"} :
          report[t] # None /\ Load(w, t, op, i)
    BY <1>9 DEF _load_item_for_edit, _load_editable_report, load_visible_report
  <2>2. i \in ItemIds /\ item[i] \in ItemRow
    BY DEF Items, ReportTypes, ReportTypeOK
  <2> QED
    BY <2>1, <2>2, LoadHandsOver
<1>10. CASE submit_report(w)
  <2> DEFINE t == report_work[w].trip
             loaded == report_work[w].loaded
             total == _recalc_total(t, item)
             e == record_transition(loaded.owner, "SUBMITTED", loaded.status, "SUBMITTED",
                                    trip[t].approver)
  <2>1. /\ Loaded(w)
        /\ assert_report_total(total)
        /\ trip[t].approver # None
        /\ Prepare(w, t, "UPDATE", ReportSubmission(loaded, total, trip[t].approver),
                   None, None, "NO", e)
    BY <1>10 DEF submit_report
  <2>2. /\ t \in TripIds /\ loaded \in ReportRow /\ report[t] # None
        /\ trip[t].approver \in Users /\ loaded.owner \in Users
        /\ loaded.status \in ReportStatuses
    BY <2>1, LoadedType DEF TripRow, ReportRow
  <2>3. total \in 0..MAX_REPORT_TOTAL
    BY <2>1, TotalType DEF _recalc_total, assert_report_total, ReportTypes, ReportTypeOK
  <2> HIDE DEF total
  <2>4. ReportSubmission(loaded, total, trip[t].approver) \in ReportChange
    BY <2>2, <2>3, ReportChangeTypes DEF Cell
  <2>5. e \in ReportEntry
    BY <2>2, ReportEntryType DEF Actions, ReportStatuses
  <2> QED
    BY <2>1, <2>2, <2>4, <2>5, UpdateHandsOver
<1>11. CASE add_item(w)
  <2>1. PICK i \in ItemIds, a \in Amounts :
          FlushItem(w, i, [report |-> report_work[w].trip, amount |-> a, is_excluded |-> "NO"])
    BY <1>11 DEF add_item
  <2>2. Loaded(w) /\ report_work[w].trip \in TripIds
    BY <1>11, LoadedType DEF add_item
  <2>3. [report |-> report_work[w].trip, amount |-> a, is_excluded |-> "NO"] \in ItemRow
    BY <2>2 DEF ItemRow
  <2> QED
    BY <2>1, <2>2, <2>3, NeitherIsAnItem, FlushHandsOver
<1>12. CASE update_item(w)
  <2> DEFINE i == report_work[w].item
             was == report_work[w].was
             set(a, x) == [report |-> Keep, amount |-> Dirty(was.amount, a),
                           is_excluded |-> Dirty(was.is_excluded, x)]
  <2>1. PICK a \in Amounts, x \in {"NO", "YES"} :
          \/ FlushItem(w, None, None)
          \/ item[i] # Gone /\ FlushItem(w, i, FlushedRow(set(a, x), item[i]))
    BY <1>12 DEF update_item
  <2>2. Loaded(w) /\ report_work[w].op = "EDIT"
    BY <1>12 DEF update_item
  <2>3. i \in ItemIds /\ was \in ItemRow /\ item[i] # None
    BY <2>2, LoadedType
  <2>4. item[i] # Gone => FlushedRow(set(a, x), item[i]) \in ItemRow
    <3> SUFFICES ASSUME item[i] # Gone PROVE FlushedRow(set(a, x), item[i]) \in ItemRow
      OBVIOUS
    <3>1. item[i] \in ItemRow
      BY <2>3 DEF ReportTypes, ReportTypeOK
    <3> QED
      BY <2>3, <3>1 DEF FlushedRow, Column, Dirty, ItemRow
  <2>5. CASE FlushItem(w, None, None)
    BY <2>2, <2>5, FlushHandsOver
  <2>6. CASE item[i] # Gone /\ FlushItem(w, i, FlushedRow(set(a, x), item[i]))
    BY <2>2, <2>3, <2>4, <2>6, NeitherIsAnItem, FlushHandsOver
  <2> QED
    BY <2>1, <2>5, <2>6
<1>13. CASE delete_item(w)
  <2>1. Loaded(w) /\ report_work[w].op = "DELETE" /\ FlushItem(w, report_work[w].item, Gone)
    BY <1>13 DEF delete_item
  <2>2. report_work[w].item \in ItemIds
    BY <2>1, LoadedType
  <2> QED
    BY <2>1, <2>2, FlushHandsOver
<1> QED
  BY <1>3, <1>4, <1>5, <1>6, <1>7, <1>8, <1>9, <1>10, <1>11, <1>12, <1>13 DEF ReportRequest

\* The unit of work a request is about to write.
LEMMA ReadyType ==
  ASSUME ReportTypes, NEW w \in ReportWorkers, Ready(w)
  PROVE  /\ report_work[w].trip \in TripIds
         /\ report_work[w].kind \in {"INSERT", "UPDATE"}
         /\ report_work[w].kind = "INSERT" =>
              report_work[w].set \in ReportRow /\ report_work[w].entry \in ReportEntry
         /\ report_work[w].kind = "UPDATE" =>
              /\ report_work[w].set \in ReportChange
              /\ report_work[w].entry \in ReportEntry \cup {None}
              /\ report_work[w].item \in ItemIds \cup {None}
              /\ report_work[w].item # None => report_work[w].row \in ItemRow \cup {Gone}
              /\ report_work[w].settle \in {"NO", "YES"}
              /\ report_work[w].settle = "YES" => report_work[w].entry \in ReportEntry
              /\ report[report_work[w].trip] # None
<1>1. PICK r \in ReadyWork : r = report_work[w]
  BY DEF ReportTypes, ReportTypeOK, Ready, Idle, LoadedWork
<1>2. r.phase = "READY" /\ WorkFits(r)
  BY <1>1 DEF ReportTypes, RequestsFit, Ready
<1> QED
  BY <1>1, <1>2 DEF ReadyWork, WorkFits

\* An UPDATE of a report leaves a report.
LEMMA FlushedReport ==
  ASSUME NEW set \in ReportChange, NEW row \in ReportRow
  PROVE  /\ FlushedRow(set, row) \in ReportRow
         /\ FlushedRow(set, row).owner = row.owner
         /\ FlushedRow(set, row).status = Column(set.status, row.status)
         /\ FlushedRow(set, row).approver = Column(set.approver, row.approver)
         /\ FlushedRow(set, row).centers = Column(set.centers, row.centers)
         /\ FlushedRow(set, row).total = Column(set.total, row.total)
         /\ FlushedRow(set, row).submitted = Column(set.submitted, row.submitted)
         /\ FlushedRow(set, row).approved = Column(set.approved, row.approved)
         /\ FlushedRow(set, row).reason = Column(set.reason, row.reason)
  BY DEF FlushedRow, Column, ReportChange, ReportRow

\* What the end of a request on a report does to the tables.
Settles(t, e) ==
  /\ trip' = [trip EXCEPT ![t] = Flushed(Settling, trip[t])]
  /\ WriteLog(t, record_transition(e.actor, "SETTLED", "COMPLETED", "SETTLED", None))

\* The INSERT of a report, its trip being there and without one.
InsertsReport(t, set, e) ==
  /\ trip[t] # None /\ report[t] = None
  /\ report' = [report EXCEPT ![t] = set]
  /\ report_log' = [report_log EXCEPT ![t] = Append(report_log[t], e)]
  /\ UNCHANGED <<tables, item>>

\* The UPDATE of a report, its flushed item, its log row and the settlement.
UpdatesReport(t, set, i, row, settle, e) ==
  /\ report' = [report EXCEPT ![t] = FlushedRow(set, report[t])]
  /\ item' = IF i = None THEN item ELSE [item EXCEPT ![i] = row]
  /\ report_log' = IF e = None THEN report_log
                   ELSE [report_log EXCEPT ![t] = Append(report_log[t], e)]
  /\ IF settle = "YES" THEN Settles(t, e) ELSE UNCHANGED tables

\* The end of a request writes all of its unit of work or nothing.
LEMMA ReportCommitEffect ==
  ASSUME NEW w \in ReportWorkers, CommitReport(w) \/ RollbackReport(w)
  PROVE  /\ ~Idle(w) /\ FinishReport(w)
         /\ \/ UNCHANGED <<tables, reportTables>>
            \/ /\ Ready(w) /\ report_work[w].kind = "INSERT"
               /\ InsertsReport(report_work[w].trip, report_work[w].set, report_work[w].entry)
            \/ /\ Ready(w) /\ report_work[w].kind = "UPDATE"
               /\ UpdatesReport(report_work[w].trip, report_work[w].set, report_work[w].item,
                                report_work[w].row, report_work[w].settle, report_work[w].entry)
  BY DEF CommitReport, CommitReportInsert, CommitReportUpdate, RollbackReport, Ready,
         InsertsReport, UpdatesReport, Settles, SettleTrip

\* A settlement leaves a trip and a log.
LEMMA SettlesType ==
  ASSUME TypeOK, NEW t \in TripIds, trip[t] # None, NEW e \in ReportEntry, Settles(t, e),
         UNCHANGED <<environment, work>>
  PROVE  /\ TypeOK'
         /\ trip'[t] \in TripRow
         /\ \A r \in TripIds : r # t => trip'[r] = trip[r]
         /\ record_transition(e.actor, "SETTLED", "COMPLETED", "SETTLED", None) \in Entry
<1> DEFINE entry == record_transition(e.actor, "SETTLED", "COMPLETED", "SETTLED", None)
<1>1. e.actor \in Users
  BY DEF ReportEntry
<1>2. entry \in Entry
  BY <1>1, EntryType DEF Actions, TripStatuses
<1>3. trip[t] \in TripRow
  BY DEF TypeOK
<1>4. Flushed(Settling, trip[t]) \in TripRow
  BY <1>3, FlushedType, StatusAssignmentType
<1>5. log' \in [TripIds -> Seq(Entry)]
  BY <1>2, WriteLogType DEF Settles
<1> QED
  BY <1>2, <1>4, <1>5 DEF TypeOK, Settles, environment

\* The end of a request on a report keeps the types.
LEMMA ReportCommitTypes ==
  ASSUME ReportTypes, NEW w \in ReportWorkers, CommitReport(w) \/ RollbackReport(w)
  PROVE  /\ ReportTypes'
         /\ \A t \in TripIds : report[t] # None => report'[t] # None
<1>1. /\ UNCHANGED <<environment, work>>
      /\ report_work' = [report_work EXCEPT ![w] = None]
  BY ReportCommitEffect DEF FinishReport
<1>2. /\ DOMAIN report_work' = ReportWorkers
      /\ report_work' \in [ReportWorkers -> LoadedWork \cup ReadyWork \cup {None}]
      /\ \A v \in ReportWorkers : ~Idle(v)' => ~Idle(v) /\ report_work'[v] = report_work[v]
  BY <1>1 DEF ReportTypes, ReportTypeOK, Idle
<1>3. ASSUME \A t \in TripIds : report[t] # None => report'[t] # None,
             \A i \in ItemIds : item[i] # None => item'[i] # None
      PROVE  RequestsFit'
  <2> SUFFICES ASSUME NEW v \in ReportWorkers, ~Idle(v)' PROVE WorkFits(report_work[v])'
    BY DEF RequestsFit
  <2>1. report_work'[v] = report_work[v] /\ ~Idle(v) /\ WorkFits(report_work[v])
    BY <1>2 DEF ReportTypes, RequestsFit
  <2>2. report_work[v].trip \in TripIds
    BY <2>1 DEF ReportTypes, ReportTypeOK, Idle, LoadedWork, ReadyWork
  <2> QED
    BY <1>3, <2>1, <2>2 DEF WorkFits
<1>4. CASE UNCHANGED <<tables, reportTables>>
  <2>1. TypeOK'
    BY <1>1, <1>4 DEF ReportTypes, TypeOK, tables, environment
  <2>2. ReportTypeOK' /\ ReportsHaveTrips'
    BY <1>2, <1>4 DEF ReportTypes, ReportTypeOK, ReportsHaveTrips, tables, reportTables
  <2> QED
    BY <1>3, <1>4, <2>1, <2>2 DEF ReportTypes, reportTables
<1>5. ASSUME Ready(w), report_work[w].kind = "INSERT",
             NEW t, t = report_work[w].trip, NEW set, set = report_work[w].set,
             NEW e, e = report_work[w].entry, InsertsReport(t, set, e)
      PROVE  ReportTypes' /\ \A q \in TripIds : report[q] # None => report'[q] # None
  <2>1. t \in TripIds /\ set \in ReportRow /\ e \in ReportEntry
    BY <1>5, ReadyType
  <2>2. TypeOK' /\ UNCHANGED <<tables, item>>
    BY <1>1, <1>5 DEF InsertsReport, ReportTypes, TypeOK, tables, environment
  <2>3. report' \in [TripIds -> ReportRow \cup {None}]
    BY <1>5, <2>1 DEF InsertsReport, ReportTypes, ReportTypeOK
  <2>4. report_log' \in [TripIds -> Seq(ReportEntry)]
    <3>1. Append(report_log[t], e) \in Seq(ReportEntry)
      BY <2>1 DEF ReportTypes, ReportTypeOK
    <3> QED
      BY <1>5, <3>1 DEF InsertsReport, ReportTypes, ReportTypeOK
  <2>5. ReportTypeOK'
    BY <1>2, <2>2, <2>3, <2>4 DEF ReportTypes, ReportTypeOK
  <2>6. ReportsHaveTrips'
    BY <1>5, <2>2 DEF InsertsReport, ReportTypes, ReportTypeOK, ReportsHaveTrips, tables
  <2>7. \A q \in TripIds : report[q] # None => report'[q] # None
    BY <1>5, <2>1, NullIsNoReport DEF InsertsReport, ReportTypes, ReportTypeOK
  <2> QED
    BY <1>3, <2>2, <2>5, <2>6, <2>7 DEF ReportTypes
<1>6. ASSUME Ready(w), report_work[w].kind = "UPDATE",
             NEW t, t = report_work[w].trip, NEW set, set = report_work[w].set,
             NEW i, i = report_work[w].item, NEW row, row = report_work[w].row,
             NEW settle, settle = report_work[w].settle,
             NEW e, e = report_work[w].entry, UpdatesReport(t, set, i, row, settle, e)
      PROVE  ReportTypes' /\ \A q \in TripIds : report[q] # None => report'[q] # None
  <2>1. /\ t \in TripIds /\ set \in ReportChange /\ e \in ReportEntry \cup {None}
        /\ i \in ItemIds \cup {None} /\ (i # None => row \in ItemRow \cup {Gone})
        /\ settle = "YES" => e \in ReportEntry
        /\ report[t] # None
    BY <1>6, ReadyType
  <2>2. report[t] \in ReportRow /\ trip[t] # None
    BY <2>1 DEF ReportTypes, ReportTypeOK, ReportsHaveTrips
  <2>3. FlushedRow(set, report[t]) \in ReportRow
    BY <2>1, <2>2, FlushedReport
  <2>4. /\ report' \in [TripIds -> ReportRow \cup {None}]
        /\ \A q \in TripIds : report[q] # None <=> report'[q] # None
    BY <1>6, <2>1, <2>3, NullIsNoReport DEF UpdatesReport, ReportTypes, ReportTypeOK
  <2>5. /\ item' \in [ItemIds -> ItemRow \cup {None, Gone}]
        /\ \A j \in ItemIds : item[j] # None => item'[j] # None
    BY <1>6, <2>1, NeitherIsAnItem DEF UpdatesReport, ReportTypes, ReportTypeOK
  <2>6. report_log' \in [TripIds -> Seq(ReportEntry)]
    <3>1. e # None => Append(report_log[t], e) \in Seq(ReportEntry)
      BY <2>1 DEF ReportTypes, ReportTypeOK
    <3> QED
      BY <1>6, <3>1 DEF UpdatesReport, ReportTypes, ReportTypeOK
  <2>7. TypeOK' /\ \A q \in TripIds : trip[q] # None => trip'[q] # None
    <3>1. CASE settle = "YES"
      BY <1>1, <1>6, <2>1, <2>2, <3>1, SettlesType, NullIsNoRow DEF UpdatesReport, ReportTypes
    <3>2. CASE settle # "YES"
      BY <1>1, <1>6, <3>2 DEF UpdatesReport, ReportTypes, TypeOK, tables, environment
    <3> QED
      BY <3>1, <3>2
  <2>8. ReportTypeOK'
    BY <1>2, <2>4, <2>5, <2>6 DEF ReportTypeOK
  <2>9. ReportsHaveTrips'
    BY <2>4, <2>7 DEF ReportTypes, ReportsHaveTrips
  <2> QED
    BY <1>3, <2>4, <2>5, <2>7, <2>8, <2>9 DEF ReportTypes
<1> QED
  BY <1>4, <1>5, <1>6, ReportCommitEffect DEF reportTables

\* A trip that has a report stays: the foreign key refuses its deletion.
LEMMA TripsStay ==
  ASSUME ReportTypes, TripService, NEW t \in TripIds, report[t] # None
  PROVE  trip'[t] # None
<1>1. trip[t] # None
  BY DEF ReportTypes, ReportsHaveTrips
<1>2. ASSUME NEW w \in Workers, CommitBeside(w) PROVE trip'[t] # None
  <2>1. Busy(w) /\ TypeOK
    BY <1>2 DEF CommitBeside, Commit, CommitInsert, CommitUpdate, CommitLogOnly, CommitDelete,
                ReportTypes
  <2>2. CASE CommitInsert(w)
    <3>1. work[w].set \in TripRow
      BY <2>1, <2>2, WorkType DEF CommitInsert
    <3> QED
      BY <1>1, <2>1, <2>2, <3>1, NullIsNoRow DEF CommitInsert, TypeOK
  <2>3. CASE CommitUpdate(w)
    <3>1. work[w].set \in Change /\ trip[work[w].trip] \in TripRow
      BY <2>1, <2>3, WorkType DEF CommitUpdate, TypeOK
    <3>2. Flushed(work[w].set, trip[work[w].trip]) \in TripRow
      BY <3>1, FlushedType
    <3> QED
      BY <1>1, <2>1, <2>3, <3>2, NullIsNoRow DEF CommitUpdate, TypeOK
  <2>4. CASE CommitLogOnly(w)
    BY <1>1, <2>4 DEF CommitLogOnly
  <2>5. CASE CommitDelete(w)
    <3>1. work[w].trip # t
      BY <1>2, <2>5 DEF CommitBeside, CommitDelete
    <3> QED
      BY <1>1, <2>1, <2>5, <3>1 DEF CommitDelete, TypeOK
  <2> QED
    BY <1>2, <2>2, <2>3, <2>4, <2>5 DEF CommitBeside, Commit
<1>3. ASSUME NEW w \in Workers, TripRequestBeside(w) PROVE trip'[t] # None
  BY <1>1, <1>3, HandlersPrepare DEF TripRequestBeside, Prepares, Begin, tables, ReportTypes
<1>4. ASSUME (\E w \in Workers : Rollback(w)) \/ Environment PROVE trip'[t] # None
  BY <1>1, <1>4 DEF Rollback, Environment, AdvanceDay, update_user, tables
<1> QED
  BY <1>2, <1>3, <1>4 DEF TripService

\* The types hold initially and every step keeps them.
LEMMA ReportTypesInit == ExpenseInit => ReportTypes
<1>1. <<>> \in Seq(ReportEntry)
  OBVIOUS
<1> QED
  BY <1>1, TypeInit DEF ExpenseInit, ReportTypes, ReportTypeOK, ReportsHaveTrips, RequestsFit, Idle

LEMMA ReportTypesStep ==
  ASSUME ReportTypes, [ExpenseNext]_allVars
  PROVE  ReportTypes'
<1>1. CASE TripService
  <2>1. TypeOK' /\ UNCHANGED <<report, item, report_log, report_work>>
    BY <1>1, TripServiceStep, TypeStep DEF ReportTypes, reportTables
  <2>2. ReportsHaveTrips'
    BY <1>1, <2>1, TripsStay DEF ReportsHaveTrips
  <2> QED
    BY <2>1, <2>2 DEF ReportTypes, ReportTypeOK, RequestsFit, WorkFits, Idle
<1>2. ASSUME NEW w \in ReportWorkers, ReportRequest(w) PROVE ReportTypes'
  BY <1>2, ReportHandlersHandOver, HandOverTypes
<1>3. ASSUME NEW w \in ReportWorkers, CommitReport(w) \/ RollbackReport(w) PROVE ReportTypes'
  BY <1>3, ReportCommitTypes
<1>4. CASE UNCHANGED allVars
  BY <1>4 DEF allVars, vars, reportTables, ReportTypes, TypeOK, ReportTypeOK, ReportsHaveTrips,
              RequestsFit, WorkFits, Idle
<1> QED
  BY <1>1, <1>2, <1>3, <1>4 DEF ExpenseNext

\* Whatever the requests on trips and reports and their interleaving, the
\* tables hold well-typed rows: a total is a sum within the limit, and no
\* UPDATE assembled from stale reads leaves a column undefined.
THEOREM ReportsAreTyped == ExpenseSpec => []ReportTypeOK
<1>1. ReportTypes => ReportTypeOK
  BY DEF ReportTypes
<1> QED
  BY <1>1, ReportTypesInit, ReportTypesStep, PTL DEF ExpenseSpec

-----------------------------------------------------------------------------
(* Who decided on each report                                              *)

\* The user has been notified of a submission of the report.
ReportAsked(t, u) ==
  \E j \in 1..Len(report_log[t]) :
    report_log[t][j].action = "SUBMITTED" /\ report_log[t][j].notified = u

\* The report has been submitted at some time.
Submitted(t) == \E j \in 1..Len(report_log[t]) : report_log[t][j].action = "SUBMITTED"

\* A report is its trip's owner's, whom it never has for its approver; once it
\* has been submitted, its approver has been asked.  (The approver it begins
\* with, the trip's, has not.)
ReportActors(t) ==
  /\ report[t] = None => report_log[t] = <<>>
  /\ report[t] # None =>
       /\ log[t] # <<>>
       /\ report[t].owner = Creator(t)
       /\ report[t].approver # Creator(t)
       /\ report[t].status = "SUBMITTED" => Submitted(t)
       /\ Submitted(t) => ReportAsked(t, report[t].approver)

\* What a request has loaded: the approver is the report's, or has been replaced
\* by one who was asked.
LoadedActors(t, loaded) ==
  /\ loaded.owner = Creator(t)
  /\ loaded.approver = report[t].approver \/ ReportAsked(t, report[t].approver)

\* What a request is about to write.
InsertActors(t, set, e) ==
  /\ log[t] # <<>>
  /\ set.owner = Creator(t)
  /\ set.approver # Creator(t)
  /\ set.status = "DRAFT"
  /\ e.action = "CREATED"

UpdateActors(t, set, settle, e) ==
  /\ set.status = "SUBMITTED" => e # None /\ e.action = "SUBMITTED"
  /\ set.approver # Keep =>
       /\ e # None /\ e.action = "SUBMITTED"
       /\ set.approver # Creator(t)
  /\ e # None /\ e.action = "SUBMITTED" =>
       \/ e.notified = set.approver
       \/ /\ set.approver = Keep
          /\ e.notified = report[t].approver \/ ReportAsked(t, report[t].approver)
  /\ e # None /\ e.action \in {"APPROVED", "REJECTED"} =>
       e.actor # Creator(t) /\ ReportAsked(t, e.actor)
  /\ settle = "YES" => e # None /\ e.action = "APPROVED"

\* What is known of the actors of a running request.
RequestActors(r) ==
  /\ r.phase = "LOADED" => LoadedActors(r.trip, r.loaded)
  /\ r.phase = "READY" /\ r.kind = "INSERT" => InsertActors(r.trip, r.set, r.entry)
  /\ r.phase = "READY" /\ r.kind = "UPDATE" => UpdateActors(r.trip, r.set, r.settle, r.entry)

ReportLogActors ==
  \A t \in TripIds : \A i \in 1..Len(report_log[t]) :
    report_log[t][i].action \in {"APPROVED", "REJECTED"} =>
      /\ report_log[t][i].actor # Creator(t)
      /\ \E j \in 1..(i - 1) : /\ report_log[t][j].action = "SUBMITTED"
                               /\ report_log[t][j].notified = report_log[t][i].actor

RequestsActors == \A w \in ReportWorkers : ~Idle(w) => RequestActors(report_work[w])

ReportActorInv ==
  /\ ActorInv
  /\ \A t \in TripIds : ReportActors(t)
  /\ RequestsActors
  /\ ReportLogActors

\* Whoever created a trip stays the one who did.
CreatorsStay ==
  \A t \in TripIds : log[t] # <<>> => log'[t] # <<>> /\ Creator(t)' = Creator(t)

\* A trip with a log is only ever logged to (WriteLog).
LEMMA TripServiceCreators ==
  ASSUME TypeOK, [Next]_vars
  PROVE  CreatorsStay
<1>1. ASSUME NEW w \in Workers, TripRequest(w) \/ Settlement(w) PROVE CreatorsStay
  BY <1>1, HandlersPrepare DEF Prepares, Begin, tables, CreatorsStay, Creator
<1>2. ASSUME NEW w \in Workers, Commit(w) \/ Rollback(w) PROVE CreatorsStay
  <2>1. CASE UNCHANGED log
    BY <2>1 DEF CreatorsStay, Creator
  <2>2. CASE Busy(w) /\ work[w].kind # "DELETE" /\ WriteLog(work[w].trip, work[w].entry)
    <3>1. work[w].trip \in TripIds /\ work[w].entry \in Entry
      BY <2>2, WorkType
    <3>2. PICK t \in TripIds, e \in Entry : WriteLog(t, e)
      BY <2>2, <3>1
    <3> QED
      BY <3>2, LogGrows DEF CreatorsStay, Creator
  <2> QED
    BY <1>2, <2>1, <2>2 DEF Commit, CommitInsert, CommitUpdate, CommitLogOnly, CommitDelete,
                            Rollback, tables
<1>3. CASE Environment \/ UNCHANGED vars
  BY <1>3 DEF Environment, AdvanceDay, update_user, tables, vars, CreatorsStay, Creator
<1> QED
  BY <1>1, <1>2, <1>3 DEF Next

\* The settlement of a trip by the approver of its report is a step the tables
\* allow, and the trip service's invariant does not notice it.
LEMMA SettlesActors ==
  ASSUME TypeOK, ActorInv, NEW t \in TripIds, trip[t] # None, NEW e \in ReportEntry,
         Settles(t, e), e.actor # Creator(t), UNCHANGED <<environment, work>>
  PROVE  ActorInv' /\ CreatorsStay
<1> DEFINE entry == record_transition(e.actor, "SETTLED", "COMPLETED", "SETTLED", None)
<1>1. /\ entry \in Entry /\ entry.action = "SETTLED" /\ entry.actor = e.actor
      /\ entry.from = "COMPLETED" /\ entry.to = "SETTLED"
  <2>1. entry \in Entry
    BY SettlesType
  <2> QED
    BY <2>1 DEF record_transition
<1>2. WriteLog(t, entry) /\ trip' = [trip EXCEPT ![t] = Flushed(Settling, trip[t])]
  BY DEF Settles
<1> HIDE DEF entry
<1>3. log[t] # <<>> /\ trip[t] \in TripRow
  BY OwnerIsCreator
<1>4. /\ log'[t] # <<>>
      /\ \A r \in TripIds : r # t => log'[r] = log[r]
      /\ Creator(t)' = Creator(t)
      /\ \A u : Asked(t, u) => Asked(t, u)'
  BY <1>1, <1>2, <1>3, LogGrows
<1>5. \A r \in TripIds : /\ (log[r] # <<>> => log'[r] # <<>> /\ Creator(r)' = Creator(r))
                         /\ \A u : Asked(r, u) => Asked(r, u)'
  <2>1. ASSUME NEW r \in TripIds, r # t
        PROVE  /\ log[r] # <<>> => log'[r] # <<>> /\ Creator(r)' = Creator(r)
               /\ \A u : Asked(r, u) => Asked(r, u)'
    BY <1>4, <2>1 DEF Creator, Asked
  <2> QED
    BY <1>4, <2>1
<1>6. LogActors'
  <2>1. EntryByItsActor(t, entry)'
    BY <1>1, <1>4 DEF EntryByItsActor, SystemTransitions
  <2> QED
    BY <1>1, <1>2, <2>1, LogActorsGrow
<1>7. \A r \in TripIds : RowActors(r)'
  <2>1. /\ Flushed(Settling, trip[t]).owner = trip[t].owner
        /\ Flushed(Settling, trip[t]).approver = trip[t].approver
    BY <1>3 DEF Flushed, Column, Settling, NoChange
  <2>2. ASSUME NEW r \in TripIds, trip'[r] # None
        PROVE  /\ trip[r] # None /\ trip'[r].owner = trip[r].owner
               /\ trip'[r].approver = trip[r].approver
    BY <1>2, <2>1, <2>2 DEF TypeOK
  <2> QED
    BY <1>5, <2>2 DEF ActorInv, RowActors
<1>8. \A w \in Workers : WorkActors(w)'
  <2> SUFFICES ASSUME NEW w \in Workers, Busy(w) PROVE WorkActors(w)'
    BY DEF WorkActors, Busy
  <2>1. work[w].trip \in TripIds /\ WorkActors(w)
    BY WorkType DEF ActorInv
  <2>0. PICK r \in TripIds : work[w].trip = r
    BY <2>1
  <2>2. PICK kind, set, x :
          work[w].trip = r /\ work[w].kind = kind /\ work[w].set = set /\ work[w].entry = x
    BY <2>0
  <2>3. /\ kind = "INSERT" => PreparedInsert(r, set, x) /\ InsertsAlone(w)
        /\ kind = "UPDATE" => PreparedUpdate(r, set, x)
    BY <2>1, <2>2 DEF WorkActors
  <2>4. kind = "INSERT" => PreparedInsert(r, set, x)'
    BY <1>3, <1>4, <2>3 DEF PreparedInsert
  <2>5. InsertsAlone(w) => InsertsAlone(w)'
    BY DEF InsertsAlone, Busy
  <2>6. kind = "UPDATE" => PreparedUpdate(r, set, x)'
    BY <1>5, <2>3 DEF PreparedUpdate, EntryByItsActor
  <2> QED
    BY <2>2, <2>3, <2>4, <2>5, <2>6 DEF WorkActors
<1>9. NobodyManagesThemselves'
  BY DEF ActorInv, NobodyManagesThemselves, environment
<1> QED
  BY <1>5, <1>6, <1>7, <1>8, <1>9 DEF ActorInv, CreatorsStay

\* The columns of what a request has handed over.
LEMMA ReadyFields ==
  ASSUME ReportTypeOK, NEW w \in ReportWorkers, NEW t, NEW kind, NEW set, NEW i, NEW row,
         NEW settle, NEW entry, Prepare(w, t, kind, set, i, row, settle, entry),
         NEW r, r = report_work'[w]
  PROVE  /\ r.phase = "READY" /\ r.trip = t /\ r.kind = kind /\ r.set = set
         /\ r.item = i /\ r.row = row /\ r.settle = settle /\ r.entry = entry
<1>1. r = [phase |-> "READY", trip |-> t, kind |-> kind, set |-> set,
           item |-> i, row |-> row, settle |-> settle, entry |-> entry]
  BY ReadyRecord
<1> QED
  BY <1>1

\* What a request has loaded, field by field.
LEMMA LoadedFields ==
  ASSUME ReportTypeOK, NEW w \in ReportWorkers, NEW t, NEW op, NEW i, Load(w, t, op, i),
         NEW r, r = report_work'[w]
  PROVE  /\ r.phase = "LOADED" /\ r.trip = t /\ r.op = op /\ r.loaded = report[t]
         /\ r.item = i /\ r.was = IF i = None THEN None ELSE item[i]
<1> DEFINE was == IF i = None THEN None ELSE item[i]
<1>1. r = [phase |-> "LOADED", trip |-> t, op |-> op, loaded |-> report[t],
           item |-> i, was |-> was]
  BY LoadedRecord
<1> HIDE DEF was
<1>2. r.was = was
  BY <1>1
<1> QED
  BY <1>1, <1>2 DEF was

\* What the report of a trip says of its actors.
LEMMA ReportOfCreator ==
  ASSUME ReportTypes, ReportActorInv, NEW t \in TripIds, report[t] # None
  PROVE  /\ report[t] \in ReportRow
         /\ trip[t] \in TripRow
         /\ log[t] # <<>>
         /\ Creator(t) \in Users
         /\ report[t].owner = Creator(t)
         /\ report[t].approver # Creator(t)
         /\ trip[t].approver # Creator(t)
         /\ report[t].status = "SUBMITTED" => ReportAsked(t, report[t].approver)
<1>1. trip[t] # None /\ report[t] \in ReportRow /\ TypeOK /\ ActorInv
  BY DEF ReportTypes, ReportsHaveTrips, ReportTypeOK, ReportActorInv
<1> QED
  BY <1>1, OwnerIsCreator DEF ReportActorInv, ReportActors

\* Every handler of a report prepares what the right actor decided.
LEMMA ReportHandlersActors ==
  ASSUME ReportTypes, ReportActorInv, NEW w \in ReportWorkers, ReportRequest(w)
  PROVE  RequestActors(report_work'[w])
<1>0. ReportTypeOK
  BY DEF ReportTypes
<1>1. ASSUME NEW t \in TripIds, NEW set, NEW i, NEW row, NEW settle, NEW e,
             Prepare(w, t, "UPDATE", set, i, row, settle, e),
             UpdateActors(t, set, settle, e)
      PROVE  RequestActors(report_work'[w])
  <2>1. PICK r : r = report_work'[w]
    OBVIOUS
  <2>2. /\ r.phase = "READY" /\ r.trip = t /\ r.kind = "UPDATE" /\ r.set = set
        /\ r.settle = settle /\ r.entry = e
    BY <1>0, <1>1, <2>1, ReadyFields
  <2> QED
    BY <1>1, <2>1, <2>2 DEF RequestActors
<1>2. ASSUME NEW t \in TripIds, NEW op, NEW i, report[t] # None, Load(w, t, op, i)
      PROVE  RequestActors(report_work'[w])
  <2>1. PICK r : r = report_work'[w]
    OBVIOUS
  <2>2. r.phase = "LOADED" /\ r.trip = t /\ r.loaded = report[t]
    BY <1>0, <1>2, <2>1, LoadedFields
  <2> QED
    BY <1>2, <2>1, <2>2, ReportOfCreator DEF RequestActors, LoadedActors
<1>3. ASSUME NEW u \in Users, NEW t \in TripIds, create_report(w, u, t)
      PROVE  RequestActors(report_work'[w])
  <2>1. PICK e : e = record_transition(u, "CREATED", None, "DRAFT", None)
    OBVIOUS
  <2>2. e.action = "CREATED"
    BY <2>1 DEF record_transition
  <2>3. Prepare(w, t, "INSERT", NewReport(trip[t]), None, None, "NO", e) /\ trip[t] # None
    BY <1>3, <2>1 DEF create_report, load_visible_trip
  <2>4. PICK r : r = report_work'[w]
    OBVIOUS
  <2>5. r.phase = "READY" /\ r.trip = t /\ r.kind = "INSERT" /\ r.set = NewReport(trip[t]) /\ r.entry = e
    BY <1>0, <2>3, <2>4, ReadyFields
  <2>6. InsertActors(t, NewReport(trip[t]), e)
    BY <2>2, <2>3, OwnerIsCreator DEF InsertActors, NewReport, ReportTypes, ReportActorInv
  <2> QED
    BY <2>4, <2>5, <2>6 DEF RequestActors
<1>4. ASSUME NEW u \in Users, NEW t \in TripIds, update_report(w, u, t)
      PROVE  RequestActors(report_work'[w])
  <2>1. PICK centers \in Cell :
          Prepare(w, t, "UPDATE", [NoReportChange EXCEPT !.centers = Dirty(report[t].centers, centers)],
                  None, None, "NO",
                  record_transition(u, "UPDATED", report[t].status, report[t].status, None))
    BY <1>4 DEF update_report, PrepareUpdate
  <2>2. UpdateActors(t, [NoReportChange EXCEPT !.centers = Dirty(report[t].centers, centers)], "NO",
                     record_transition(u, "UPDATED", report[t].status, report[t].status, None))
    BY DEF UpdateActors, NoReportChange, record_transition, TripStatuses
  <2> QED
    BY <1>1, <2>1, <2>2
<1>5. ASSUME NEW t \in TripIds, NEW u, NEW target, load_visible_report(u, t),
             assert_report_transition(t, u, target), target \in {"APPROVED", "REJECTED"}
      PROVE  u # Creator(t) /\ ReportAsked(t, u)
  <2>1. report[t] # None /\ report[t].status = "SUBMITTED" /\ u = report[t].approver
    BY <1>5 DEF load_visible_report, assert_report_transition, assert_expense_transition_allowed,
                EXPENSE_ALLOWED_TRANSITIONS, ExpenseOwnerTransitions, ExpenseApproverTransitions
  <2> QED
    BY <2>1, ReportOfCreator
<1>6. ASSUME NEW u \in Users, NEW t \in TripIds, approve_report(w, u, t)
      PROVE  RequestActors(report_work'[w])
  <2>1. PICK e : e = record_transition(u, "APPROVED", report[t].status, "APPROVED", report[t].owner)
    OBVIOUS
  <2>2. e.action = "APPROVED" /\ e.actor = u
    BY <2>1 DEF record_transition
  <2>3. e # None
    <3>1. report[t].owner \in Users /\ report[t].status \in ReportStatuses
      BY <1>6, ReportOfCreator DEF approve_report, load_visible_report, ReportRow
    <3>2. e \in ReportEntry
      BY <2>1, <3>1, ReportEntryType DEF Actions, ReportStatuses
    <3> QED
      BY <3>2, NullIsNoReportEntry
  <2>4. UpdateActors(t, ReportApproval, "YES", e)
    <3>1. ReportApproval.status = "APPROVED" /\ ReportApproval.approver = Keep
      BY DEF ReportApproval, NoReportChange
    <3>2. u # Creator(t) /\ ReportAsked(t, u)
      BY <1>5, <1>6 DEF approve_report
    <3> QED
      BY <2>2, <2>3, <3>1, <3>2 DEF UpdateActors
  <2> QED
    BY <1>1, <1>6, <2>1, <2>4 DEF approve_report, PrepareUpdate
<1>7. ASSUME NEW u \in Users, NEW t \in TripIds, reject_report(w, u, t)
      PROVE  RequestActors(report_work'[w])
  <2>1. PICK e : e = record_transition(u, "REJECTED", report[t].status, "REJECTED", report[t].owner)
    OBVIOUS
  <2>2. e.action = "REJECTED" /\ e.actor = u
    BY <2>1 DEF record_transition
  <2>4. UpdateActors(t, ReportRejection, "NO", e)
    <3>1. ReportRejection.status = "REJECTED" /\ ReportRejection.approver = Keep
      BY DEF ReportRejection, NoReportChange
    <3>2. u # Creator(t) /\ ReportAsked(t, u)
      BY <1>5, <1>7 DEF reject_report
    <3> QED
      BY <2>2, <3>1, <3>2 DEF UpdateActors
  <2> QED
    BY <1>1, <1>7, <2>1, <2>4 DEF reject_report, PrepareUpdate
<1>8. ASSUME NEW u \in Users, NEW t \in TripIds, reopen_report(w, u, t)
      PROVE  RequestActors(report_work'[w])
  <2>1. PICK e : e = record_transition(u, "UPDATED", report[t].status, "DRAFT", None)
    OBVIOUS
  <2>2. e.action = "UPDATED"
    BY <2>1 DEF record_transition
  <2>3. UpdateActors(t, ReportReopening(report[t]), "NO", e)
    <3>1. ReportReopening(report[t]).status = "DRAFT" /\ ReportReopening(report[t]).approver = Keep
      BY DEF ReportReopening, NoReportChange
    <3> QED
      BY <2>2, <3>1 DEF UpdateActors
  <2> QED
    BY <1>1, <1>8, <2>1, <2>3 DEF reopen_report, PrepareUpdate
<1>9. ASSUME NEW u \in Users, NEW t \in TripIds,
             submit_report_load(w, u, t) \/ add_item_load(w, u, t) \/ _load_item_for_edit(w, u, t)
      PROVE  RequestActors(report_work'[w])
  BY <1>2, <1>9 DEF submit_report_load, add_item_load, _load_item_for_edit, _load_editable_report,
                    load_visible_report
<1>10. CASE submit_report(w)
  <2>1. PICK t, loaded : t = report_work[w].trip /\ loaded = report_work[w].loaded
    OBVIOUS
  <2>2. t \in TripIds /\ loaded \in ReportRow /\ report[t] # None /\ trip[t] \in TripRow
    BY <1>10, <2>1, LoadedType DEF submit_report
  <2>3. loaded.owner = Creator(t) /\ LoadedActors(t, loaded)
    <3>1. Loaded(w)
      BY <1>10 DEF submit_report
    <3> QED
      BY <2>1, <3>1 DEF ReportActorInv, RequestsActors, RequestActors, LoadedActors, Loaded
  <2>4. PICK m : m = trip[t].approver
    OBVIOUS
  <2>5. m # None /\ m # Creator(t) /\ m \in Users
    BY <1>10, <2>1, <2>2, <2>4, ReportOfCreator DEF submit_report, TripRow
  <2>6. PICK e : e = record_transition(loaded.owner, "SUBMITTED", loaded.status, "SUBMITTED", m)
    OBVIOUS
  <2>7. e.action = "SUBMITTED" /\ e.notified = m
    BY <2>3, <2>5, <2>6 DEF record_transition
  <2>8. e # None
    <3>1. loaded.owner \in Users /\ loaded.status \in ReportStatuses
      BY <2>2 DEF ReportRow
    <3>2. e \in ReportEntry
      BY <2>5, <2>6, <3>1, ReportEntryType DEF Actions, ReportStatuses
    <3> QED
      BY <3>2, NullIsNoReportEntry
  <2>9. PICK total :
          Prepare(w, t, "UPDATE", ReportSubmission(loaded, total, m), None, None, "NO", e)
    BY <1>10, <2>1, <2>4, <2>6 DEF submit_report
  <2>10. UpdateActors(t, ReportSubmission(loaded, total, m), "NO", e)
    <3>1. /\ ReportSubmission(loaded, total, m).status = "SUBMITTED"
          /\ ReportSubmission(loaded, total, m).approver = Dirty(loaded.approver, m)
      BY DEF ReportSubmission, NoReportChange
    <3>2. CASE m = loaded.approver
      BY <2>3, <2>5, <2>7, <2>8, <3>1, <3>2 DEF UpdateActors, LoadedActors, Dirty
    <3>3. CASE m # loaded.approver
      BY <2>5, <2>7, <2>8, <3>1, <3>3 DEF UpdateActors, Dirty
    <3> QED
      BY <3>2, <3>3
  <2> QED
    BY <1>1, <2>2, <2>9, <2>10
<1>11. ASSUME NEW i, NEW row, Loaded(w), FlushItem(w, i, row)
       PROVE  RequestActors(report_work'[w])
  <2>1. PICK total : Prepare(w, report_work[w].trip, "UPDATE",
                             NewTotal(report_work[w].loaded, total), i, row, "NO", None)
    BY <1>11 DEF FlushItem
  <2>2. UpdateActors(report_work[w].trip, NewTotal(report_work[w].loaded, total), "NO", None)
    BY DEF UpdateActors, NewTotal, NoReportChange, TripStatuses
  <2> QED
    BY <1>1, <1>11, <2>1, <2>2, LoadedType
<1>12. CASE add_item(w)
  BY <1>11, <1>12 DEF add_item
<1>13. CASE update_item(w)
  BY <1>11, <1>13 DEF update_item
<1>14. CASE delete_item(w)
  BY <1>11, <1>14 DEF delete_item
<1> QED
  BY <1>3, <1>4, <1>6, <1>7, <1>8, <1>9, <1>10, <1>12, <1>13, <1>14 DEF ReportRequest

\* What no step of anybody takes back: who has been asked, and that a new
\* approver has been.
AskedStay ==
  /\ \A t \in TripIds : \A u : ReportAsked(t, u) => ReportAsked(t, u)'
  /\ \A t \in TripIds : report[t] # None =>
       report'[t].approver = report[t].approver \/ ReportAsked(t, report[t].approver)'

\* Then what a request has loaded or is about to write stays decided by the
\* right actor, whoever writes in between.
LEMMA RequestsStay ==
  ASSUME ReportTypes, ReportActorInv, CreatorsStay, AskedStay,
         \A v \in ReportWorkers : ~Idle(v)' => ~Idle(v) /\ report_work'[v] = report_work[v]
  PROVE  RequestsActors'
<1> SUFFICES ASSUME NEW v \in ReportWorkers, ~Idle(v)' PROVE RequestActors(report_work[v])'
  BY DEF RequestsActors
<1>1. PICK r \in LoadedWork \cup ReadyWork : r = report_work[v] /\ r = report_work'[v]
  BY DEF ReportTypes, ReportTypeOK, Idle
<1>2. RequestActors(r) /\ WorkFits(r) /\ r.trip \in TripIds
  BY <1>1 DEF ReportActorInv, RequestsActors, ReportTypes, RequestsFit, LoadedWork, ReadyWork
<1>3. PICK t \in TripIds : t = r.trip
  BY <1>2
<1>4. report[t] # None => log[t] # <<>>
  BY DEF ReportActorInv, ReportActors
<1>5. CASE r.phase = "LOADED"
  <2>1. report[t] # None /\ LoadedActors(t, r.loaded)
    BY <1>2, <1>3, <1>5 DEF WorkFits, RequestActors
  <2>2. LoadedActors(t, r.loaded)'
    BY <1>4, <2>1 DEF LoadedActors, CreatorsStay, AskedStay
  <2> QED
    BY <1>1, <1>3, <1>5, <2>2 DEF RequestActors
<1>6. CASE r.phase = "READY" /\ r.kind = "INSERT"
  <2>1. InsertActors(t, r.set, r.entry)
    BY <1>2, <1>3, <1>6 DEF RequestActors
  <2>2. InsertActors(t, r.set, r.entry)'
    BY <2>1 DEF InsertActors, CreatorsStay
  <2> QED
    BY <1>1, <1>3, <1>6, <2>2 DEF RequestActors
<1>7. CASE r.phase = "READY" /\ r.kind = "UPDATE"
  <2>1. report[t] # None /\ UpdateActors(t, r.set, r.settle, r.entry)
    BY <1>2, <1>3, <1>7 DEF WorkFits, RequestActors
  <2>2. PICK set, settle, e : set = r.set /\ settle = r.settle /\ e = r.entry
    OBVIOUS
  <2>3. UpdateActors(t, set, settle, e)'
    BY <1>4, <2>1, <2>2 DEF UpdateActors, CreatorsStay, AskedStay
  <2> QED
    BY <1>1, <1>3, <1>7, <2>2, <2>3 DEF RequestActors
<1>8. \/ r.phase = "LOADED"
      \/ r.phase = "READY" /\ r.kind = "INSERT"
      \/ r.phase = "READY" /\ r.kind = "UPDATE"
  BY <1>1 DEF LoadedWork, ReadyWork
<1> QED
  BY <1>5, <1>6, <1>7, <1>8

\* The rows of the reports do not notice a step that leaves them alone.
LEMMA RowsStay ==
  ASSUME ReportActorInv, CreatorsStay, UNCHANGED <<report, report_log>>
  PROVE  /\ \A t \in TripIds : ReportActors(t)'
         /\ ReportLogActors'
         /\ AskedStay
<1>1. AskedStay
  BY DEF AskedStay, ReportAsked
<1>2. \A t \in TripIds : ReportActors(t)'
  BY DEF ReportActorInv, ReportActors, CreatorsStay, Submitted, ReportAsked
<1>3. ReportLogActors'
  <2> SUFFICES ASSUME NEW t \in TripIds, NEW i \in 1..Len(report_log[t]),
                      report_log[t][i].action \in {"APPROVED", "REJECTED"}
               PROVE  /\ report_log[t][i].actor # Creator(t)'
                      /\ \E j \in 1..(i - 1) :
                           /\ report_log[t][j].action = "SUBMITTED"
                           /\ report_log[t][j].notified = report_log[t][i].actor
    BY DEF ReportLogActors
  <2>1. report_log[t] # <<>>
    OBVIOUS
  <2>2. log[t] # <<>> /\ Creator(t)' = Creator(t)
    BY <2>1 DEF ReportActorInv, ReportActors, CreatorsStay
  <2> QED
    BY <2>2 DEF ReportActorInv, ReportLogActors
<1> QED
  BY <1>1, <1>2, <1>3

\* The trip service beside it keeps the invariant.
LEMMA TripServiceActors ==
  ASSUME ReportTypes, ReportActorInv, TripService
  PROVE  ReportActorInv'
<1>1. CreatorsStay /\ ActorInv' /\ UNCHANGED <<report, report_log, report_work>>
  BY TripServiceStep, TripServiceCreators, ActorStep DEF ReportTypes, ReportActorInv, reportTables
<1>2. \A v \in ReportWorkers : ~Idle(v)' => ~Idle(v) /\ report_work'[v] = report_work[v]
  BY <1>1 DEF Idle
<1> QED
  BY <1>1, <1>2, RowsStay, RequestsStay DEF ReportActorInv

\* A handler that hands over its work keeps the invariant.
LEMMA HandOverActors ==
  ASSUME ReportTypes, ReportActorInv, NEW w \in ReportWorkers, ReportRequest(w)
  PROVE  ReportActorInv'
<1>1. PICK r : r = report_work'[w]
  OBVIOUS
<1>2. /\ report_work' = [report_work EXCEPT ![w] = r]
      /\ UNCHANGED <<vars, reportTables>>
      /\ RequestActors(r)
  BY <1>1, ReportHandlersHandOver, ReportHandlersActors DEF HandsOver
<1>3. CreatorsStay /\ ActorInv'
  BY <1>2, TripServiceCreators, ActorStep DEF ReportTypes, ReportActorInv
<1>4. RequestsActors'
  <2> SUFFICES ASSUME NEW v \in ReportWorkers, ~Idle(v)' PROVE RequestActors(report_work[v])'
    BY DEF RequestsActors
  <2>1. PICK x : x = report_work'[v]
    OBVIOUS
  <2>2. RequestActors(x)
    BY <1>2, <2>1 DEF ReportTypes, ReportTypeOK, ReportActorInv, RequestsActors, Idle
  <2>3. log' = log /\ report' = report /\ report_log' = report_log
    BY <1>2 DEF vars, reportTables
  <2>4. /\ LoadedActors(x.trip, x.loaded) => LoadedActors(x.trip, x.loaded)'
        /\ InsertActors(x.trip, x.set, x.entry) => InsertActors(x.trip, x.set, x.entry)'
    BY <2>3 DEF LoadedActors, InsertActors, Creator, ReportAsked
  <2>5. UpdateActors(x.trip, x.set, x.settle, x.entry) => UpdateActors(x.trip, x.set, x.settle, x.entry)'
    BY <2>3 DEF UpdateActors, Creator, ReportAsked
  <2>6. RequestActors(x)'
    BY <2>2, <2>4, <2>5 DEF RequestActors
  <2> QED
    BY <2>1, <2>6
<1> QED
  BY <1>2, <1>3, <1>4, RowsStay DEF ReportActorInv, reportTables

\* One more row in the log of a report.
LEMMA ReportLogGrows ==
  ASSUME ReportTypeOK, NEW t \in TripIds, NEW e \in ReportEntry,
         report_log' = [report_log EXCEPT ![t] = Append(report_log[t], e)]
  PROVE  /\ Len(report_log[t]) \in Nat
         /\ Len(report_log'[t]) = Len(report_log[t]) + 1
         /\ \A i \in 1..Len(report_log[t]) : report_log'[t][i] = report_log[t][i]
         /\ report_log'[t][Len(report_log[t]) + 1] = e
         /\ \A r \in TripIds : r # t => report_log'[r] = report_log[r]
         /\ report_log'[t] # <<>>
         /\ \A r \in TripIds : \A u : ReportAsked(r, u) => ReportAsked(r, u)'
         /\ Submitted(t)' <=> Submitted(t) \/ e.action = "SUBMITTED"
         /\ e.action = "SUBMITTED" => ReportAsked(t, e.notified)'
<1>1. report_log[t] \in Seq(ReportEntry) /\ report_log'[t] = Append(report_log[t], e)
  BY DEF ReportTypeOK
<1> DEFINE n == Len(report_log[t])
<1>2. /\ n \in Nat
      /\ Len(report_log'[t]) = n + 1
      /\ \A i \in 1..n : report_log'[t][i] = report_log[t][i]
      /\ report_log'[t][n + 1] = e
      /\ report_log'[t] # <<>>
  BY <1>1
<1>3. \A r \in TripIds : r # t => report_log'[r] = report_log[r]
  BY DEF ReportTypeOK
<1> HIDE DEF n
<1>4. n + 1 \in 1..(n + 1) /\ (\A i \in 1..n : i \in 1..(n + 1))
        /\ (\A i \in 1..(n + 1) : i = n + 1 \/ i \in 1..n)
  BY <1>2
<1>5. \A r \in TripIds : \A u : ReportAsked(r, u) => ReportAsked(r, u)'
  <2> SUFFICES ASSUME NEW r \in TripIds, NEW u, ReportAsked(r, u) PROVE ReportAsked(r, u)'
    OBVIOUS
  <2>1. CASE r = t
    BY <1>2, <1>4, <2>1 DEF ReportAsked, n
  <2>2. CASE r # t
    BY <1>3, <2>2 DEF ReportAsked
  <2> QED
    BY <2>1, <2>2
<1>6. Submitted(t)' <=> Submitted(t) \/ e.action = "SUBMITTED"
  BY <1>2, <1>4 DEF Submitted, n
<1>7. e.action = "SUBMITTED" => ReportAsked(t, e.notified)'
  BY <1>2, <1>4 DEF ReportAsked
<1> QED
  BY <1>2, <1>3, <1>5, <1>6, <1>7 DEF n

\* The log of the decisions stays right when the decider of one more was asked.
LEMMA ReportLogActorsGrow ==
  ASSUME ReportTypeOK, ReportActorInv, CreatorsStay, NEW t \in TripIds, NEW e \in ReportEntry,
         report_log' = [report_log EXCEPT ![t] = Append(report_log[t], e)], log[t] # <<>>,
         e.action \in {"APPROVED", "REJECTED"} => e.actor # Creator(t) /\ ReportAsked(t, e.actor)
  PROVE  ReportLogActors'
<1> SUFFICES ASSUME NEW r \in TripIds, NEW i \in 1..Len(report_log'[r]),
                    report_log'[r][i].action \in {"APPROVED", "REJECTED"}
             PROVE  /\ report_log'[r][i].actor # Creator(r)'
                    /\ \E j \in 1..(i - 1) :
                         /\ report_log'[r][j].action = "SUBMITTED"
                         /\ report_log'[r][j].notified = report_log'[r][i].actor
  BY DEF ReportLogActors
<1>1. \A q \in TripIds : report_log[q] \in Seq(ReportEntry) /\ Len(report_log[q]) \in Nat
  BY DEF ReportTypeOK
<1>2. /\ Len(report_log'[t]) = Len(report_log[t]) + 1
      /\ \A k \in 1..Len(report_log[t]) : report_log'[t][k] = report_log[t][k]
      /\ report_log'[t][Len(report_log[t]) + 1] = e
      /\ \A q \in TripIds : q # t => report_log'[q] = report_log[q]
  BY ReportLogGrows
<1>3. CASE i \in 1..Len(report_log[r]) /\ report_log'[r][i] = report_log[r][i]
  <2>1. /\ report_log[r][i].actor # Creator(r)
        /\ \E j \in 1..(i - 1) : /\ report_log[r][j].action = "SUBMITTED"
                                 /\ report_log[r][j].notified = report_log[r][i].actor
    BY <1>3 DEF ReportActorInv, ReportLogActors
  <2>2. report_log[r] # <<>>
    BY <1>3
  <2>3. Creator(r)' = Creator(r)
    BY <2>2 DEF ReportActorInv, ReportActors, CreatorsStay
  <2>4. \A j \in 1..(i - 1) : report_log'[r][j] = report_log[r][j]
    <3>1. \A j \in 1..(i - 1) : j \in 1..Len(report_log[r])
      BY <1>1, <1>3
    <3> QED
      BY <1>2, <3>1
  <2> QED
    BY <1>3, <2>1, <2>3, <2>4
<1>4. CASE r = t /\ i = Len(report_log[t]) + 1
  <2>1. report_log'[r][i] = e
    BY <1>2, <1>4
  <2>2. PICK j \in 1..Len(report_log[t]) :
          report_log[t][j].action = "SUBMITTED" /\ report_log[t][j].notified = e.actor
    BY <2>1 DEF ReportAsked
  <2>3. j \in 1..(i - 1) /\ report_log'[t][j] = report_log[t][j]
    BY <1>1, <1>2, <1>4
  <2>4. Creator(r)' = Creator(r)
    BY <1>4 DEF CreatorsStay
  <2> QED
    BY <1>4, <2>1, <2>2, <2>3, <2>4
<1> QED
  BY <1>1, <1>2, <1>3, <1>4

\* The end of a request on a report keeps the invariant.
LEMMA ReportCommitActors ==
  ASSUME ReportTypes, ReportActorInv, NEW w \in ReportWorkers, CommitReport(w) \/ RollbackReport(w)
  PROVE  ReportActorInv'
<1>1. ~Idle(w) /\ UNCHANGED <<environment, work>> /\ report_work' = [report_work EXCEPT ![w] = None]
  BY ReportCommitEffect DEF FinishReport
<1>2. \A v \in ReportWorkers : ~Idle(v)' => ~Idle(v) /\ report_work'[v] = report_work[v]
  BY <1>1 DEF ReportTypes, ReportTypeOK, Idle
<1>3. UNCHANGED tables => ActorInv' /\ CreatorsStay
  <2>1. UNCHANGED tables => UNCHANGED vars
    BY <1>1 DEF tables, environment, vars
  <2> QED
    BY <2>1, ActorStep, TripServiceCreators DEF ReportTypes, ReportActorInv
<1>4. CASE UNCHANGED <<tables, reportTables>>
  <2>1. ActorInv' /\ CreatorsStay /\ UNCHANGED <<report, report_log>>
    BY <1>3, <1>4 DEF tables, reportTables
  <2> QED
    BY <1>2, <2>1, RowsStay, RequestsStay DEF ReportActorInv
<1>5. ASSUME Ready(w), report_work[w].kind = "INSERT",
             NEW t, t = report_work[w].trip, NEW set, set = report_work[w].set,
             NEW e, e = report_work[w].entry, InsertsReport(t, set, e)
      PROVE  ReportActorInv'
  <2>1. t \in TripIds /\ set \in ReportRow /\ e \in ReportEntry
    BY <1>5, ReadyType
  <2>2. InsertActors(t, set, e)
    BY <1>1, <1>5 DEF ReportActorInv, RequestsActors, RequestActors, Ready
  <2>3. /\ ActorInv' /\ CreatorsStay /\ UNCHANGED tables
        /\ report' = [report EXCEPT ![t] = set] /\ report[t] = None
        /\ report_log' = [report_log EXCEPT ![t] = Append(report_log[t], e)]
    BY <1>3, <1>5 DEF InsertsReport, tables
  <2>4. /\ \A r \in TripIds : \A u : ReportAsked(r, u) => ReportAsked(r, u)'
        /\ \A r \in TripIds : r # t => report_log'[r] = report_log[r]
        /\ Submitted(t)' <=> Submitted(t)
    BY <2>1, <2>2, <2>3, ReportLogGrows DEF ReportTypes, InsertActors
  <2>5. /\ report'[t] = set /\ set # None
        /\ \A r \in TripIds : r # t => report'[r] = report[r]
    BY <2>1, <2>3, NullIsNoReport DEF ReportTypes, ReportTypeOK
  <2>6. AskedStay
    BY <2>3, <2>4, <2>5 DEF AskedStay
  <2>7. ReportActors(t)'
    <3>1. ~Submitted(t)
      <4>1. report_log[t] = <<>>
        BY <2>1, <2>3 DEF ReportActorInv, ReportActors
      <4> QED
        BY <4>1 DEF Submitted
    <3>2. Creator(t)' = Creator(t) /\ log'[t] # <<>>
      BY <2>1, <2>2, <2>3 DEF InsertActors, CreatorsStay
    <3> QED
      BY <2>2, <2>4, <2>5, <3>1, <3>2 DEF ReportActors, InsertActors
  <2>8. \A r \in TripIds : ReportActors(r)'
    BY <2>3, <2>4, <2>5, <2>7 DEF ReportActorInv, ReportActors, CreatorsStay, Submitted, ReportAsked
  <2>9. ReportLogActors'
    BY <2>1, <2>2, <2>3, ReportLogActorsGrow DEF ReportTypes, InsertActors
  <2> QED
    BY <1>2, <2>3, <2>6, <2>8, <2>9, RequestsStay DEF ReportActorInv
<1>6. ASSUME Ready(w), report_work[w].kind = "UPDATE",
             NEW t, t = report_work[w].trip, NEW set, set = report_work[w].set,
             NEW i, i = report_work[w].item, NEW row, row = report_work[w].row,
             NEW settle, settle = report_work[w].settle,
             NEW e, e = report_work[w].entry, UpdatesReport(t, set, i, row, settle, e)
      PROVE  ReportActorInv'
  <2>1. /\ t \in TripIds /\ set \in ReportChange /\ e \in ReportEntry \cup {None}
        /\ settle = "YES" => e \in ReportEntry
        /\ report[t] # None
    BY <1>6, ReadyType
  <2>2. UpdateActors(t, set, settle, e)
    BY <1>1, <1>6 DEF ReportActorInv, RequestsActors, RequestActors, Ready
  <2>3. /\ report[t] \in ReportRow /\ trip[t] # None /\ log[t] # <<>>
        /\ report[t].owner = Creator(t) /\ report[t].approver # Creator(t)
        /\ report[t].status = "SUBMITTED" => Submitted(t)
        /\ Submitted(t) => ReportAsked(t, report[t].approver)
    BY <2>1 DEF ReportTypes, ReportTypeOK, ReportsHaveTrips, ReportActorInv, ReportActors
  <2>4. ActorInv' /\ CreatorsStay
    <3>1. CASE settle = "YES"
      BY <1>1, <1>6, <2>1, <2>2, <2>3, <3>1, SettlesActors
         DEF UpdatesReport, ReportTypes, ReportActorInv, UpdateActors
    <3>2. CASE settle # "YES"
      BY <1>3, <1>6, <3>2 DEF UpdatesReport
    <3> QED
      BY <3>1, <3>2
  <2>5. Creator(t)' = Creator(t) /\ log'[t] # <<>>
    BY <2>1, <2>3, <2>4 DEF CreatorsStay
  <2>6. /\ \A r \in TripIds : \A u : ReportAsked(r, u) => ReportAsked(r, u)'
        /\ \A r \in TripIds : r # t => report_log'[r] = report_log[r]
        /\ Submitted(t)' <=> Submitted(t) \/ (e # None /\ e.action = "SUBMITTED")
        /\ e # None /\ e.action = "SUBMITTED" => ReportAsked(t, e.notified)'
    <3>1. CASE e = None
      BY <1>6, <3>1 DEF UpdatesReport, ReportAsked, Submitted
    <3>2. CASE e # None
      BY <1>6, <2>1, <3>2, ReportLogGrows DEF UpdatesReport, ReportTypes
    <3> QED
      BY <3>1, <3>2
  <2>7. PICK new \in ReportRow : new = FlushedRow(set, report[t])
    BY <2>1, <2>3, FlushedReport
  <2>8. /\ report'[t] = new /\ new # None
        /\ \A r \in TripIds : r # t => report'[r] = report[r]
    BY <1>6, <2>1, <2>7, NullIsNoReport DEF UpdatesReport, ReportTypes, ReportTypeOK
  <2>9. /\ new.owner = report[t].owner
        /\ new.status = Column(set.status, report[t].status)
        /\ new.approver = Column(set.approver, report[t].approver)
    BY <2>1, <2>3, <2>7, FlushedReport
  <2>10. \/ new.approver = report[t].approver
         \/ ReportAsked(t, new.approver)' /\ e # None /\ e.action = "SUBMITTED"
    BY <2>2, <2>6, <2>9 DEF Column, UpdateActors
  <2>11. AskedStay
    BY <2>6, <2>8, <2>10 DEF AskedStay
  <2>12. Submitted(t)' => ReportAsked(t, new.approver)'
    <3>1. CASE e # None /\ e.action = "SUBMITTED"
      <4>1. e.notified # Keep
        BY <2>1, <3>1 DEF ReportEntry
      <4>2. e.notified = new.approver \/ (set.approver = Keep /\ ReportAsked(t, report[t].approver))
        BY <2>2, <2>9, <3>1, <4>1 DEF UpdateActors, Column
      <4> QED
        BY <2>1, <2>6, <2>9, <3>1, <4>2 DEF Column
    <3>2. CASE ~(e # None /\ e.action = "SUBMITTED")
      BY <2>1, <2>3, <2>6, <2>10, <3>2
    <3> QED
      BY <3>1, <3>2
  <2>13. new.approver # Creator(t)
    BY <2>2, <2>3, <2>9 DEF Column, UpdateActors
  <2>14. new.status = "SUBMITTED" => Submitted(t)'
    BY <2>2, <2>3, <2>6, <2>9 DEF Column, UpdateActors
  <2>15. ReportActors(t)'
    BY <2>3, <2>5, <2>8, <2>9, <2>12, <2>13, <2>14 DEF ReportActors
  <2>16. \A r \in TripIds : ReportActors(r)'
    <3>1. ASSUME NEW r \in TripIds, r # t PROVE ReportActors(r)'
      <4>1. ReportActors(r)
        BY DEF ReportActorInv
      <4>2. report'[r] = report[r] /\ report_log'[r] = report_log[r]
        BY <2>6, <2>8, <3>1
      <4>3. log[r] # <<>> => log'[r] # <<>> /\ Creator(r)' = Creator(r)
        BY <2>4 DEF CreatorsStay
      <4>4. Submitted(r)' <=> Submitted(r)
        BY <4>2 DEF Submitted
      <4>5. \A u : ReportAsked(r, u) => ReportAsked(r, u)'
        BY <2>6
      <4> QED
        BY <4>1, <4>2, <4>3, <4>4, <4>5 DEF ReportActors
    <3> QED
      BY <2>15, <3>1
  <2>17. ReportLogActors'
    <3>1. CASE e = None
      <4>1. report_log' = report_log
        BY <1>6, <3>1 DEF UpdatesReport
      <4>2. \A r \in TripIds : report_log[r] # <<>> => Creator(r)' = Creator(r)
        BY <2>4 DEF ReportActorInv, ReportActors, CreatorsStay
      <4>3. \A r \in TripIds : \A k \in 1..Len(report_log[r]) : report_log[r] # <<>>
        OBVIOUS
      <4> QED
        BY <4>1, <4>2, <4>3 DEF ReportActorInv, ReportLogActors
    <3>2. CASE e # None
      BY <1>6, <2>1, <2>2, <2>3, <2>4, <3>2, ReportLogActorsGrow
         DEF UpdatesReport, ReportTypes, UpdateActors
    <3> QED
      BY <3>1, <3>2
  <2> QED
    BY <1>2, <2>4, <2>11, <2>16, <2>17, RequestsStay DEF ReportActorInv
<1> QED
  BY <1>4, <1>5, <1>6, ReportCommitEffect

\* The invariant holds initially and every step keeps it.
LEMMA ReportActorInit == ExpenseInit => ReportActorInv
  BY ActorInit DEF ExpenseInit, ReportActorInv, ReportActors, RequestsActors, Idle, ReportLogActors

\* Every step of both services keeps it.
LEMMA ReportActorStep ==
  ASSUME ReportTypes, ReportActorInv, [ExpenseNext]_allVars
  PROVE  ReportActorInv'
<1>1. CASE TripService
  BY <1>1, TripServiceActors
<1>2. ASSUME NEW w \in ReportWorkers, ReportRequest(w) PROVE ReportActorInv'
  BY <1>2, HandOverActors
<1>3. ASSUME NEW w \in ReportWorkers, CommitReport(w) \/ RollbackReport(w) PROVE ReportActorInv'
  BY <1>3, ReportCommitActors
<1>4. CASE UNCHANGED allVars
  <2>1. UNCHANGED vars /\ UNCHANGED <<report, report_log, report_work>>
    BY <1>4 DEF allVars, reportTables
  <2>2. ActorInv' /\ CreatorsStay
    BY <2>1, ActorStep, TripServiceCreators DEF ReportTypes, ReportActorInv
  <2>3. \A v \in ReportWorkers : ~Idle(v)' => ~Idle(v) /\ report_work'[v] = report_work[v]
    BY <2>1 DEF Idle
  <2> QED
    BY <2>1, <2>2, <2>3, RowsStay, RequestsStay DEF ReportActorInv
<1> QED
  BY <1>1, <1>2, <1>3, <1>4 DEF ExpenseNext

\* What is known of the actors of trips and reports, in every interleaving.
THEOREM ReportActorsCorrect == ExpenseSpec => [](ReportTypes /\ ReportActorInv)
<1>1. ExpenseInit => ReportTypes /\ ReportActorInv
  BY ReportTypesInit, ReportActorInit
<1>2. ReportTypes /\ ReportActorInv /\ [ExpenseNext]_allVars => ReportTypes' /\ ReportActorInv'
  BY ReportTypesStep, ReportActorStep
<1> QED
  BY <1>1, <1>2, PTL DEF ExpenseSpec

\* In every interleaving of any number of requests on trips, reports and items,
\* whoever approved or rejected a report is not the owner of the trip and had
\* been sent that report before (submit_report fills the approver and notifies
\* in one transaction; approve_report, reject_report).
THEOREM ReportDecidersWereAlwaysAsked == ExpenseSpec => []ReportDecidersWereAsked
<1>1. ReportTypes /\ ReportActorInv => ReportDecidersWereAsked
  <2> SUFFICES ASSUME ReportTypes, ReportActorInv,
                      NEW t \in TripIds, NEW i \in 1..Len(report_log[t]),
                      report_log[t][i].action \in {"APPROVED", "REJECTED"}
               PROVE  /\ report_log[t][i].actor # report[t].owner
                      /\ \E j \in 1..(i - 1) : /\ report_log[t][j].action = "SUBMITTED"
                                               /\ report_log[t][j].notified = report_log[t][i].actor
    BY DEF ReportDecidersWereAsked
  <2>1. report_log[t] # <<>>
    OBVIOUS
  <2>2. report[t].owner = Creator(t)
    BY <2>1 DEF ReportActorInv, ReportActors
  <2> QED
    BY <2>2 DEF ReportActorInv, ReportLogActors
<1> QED
  BY <1>1, ReportActorsCorrect, PTL

-----------------------------------------------------------------------------
(* Approvals and settlements                                               *)

\* What the trip service leaves to the report service: nothing it writes
\* settles a trip.  It completes a trip with the entry that says so, and fills or
\* clears the approver only with a submission or a reopening.
ServesTrip(kind, set, e) ==
  /\ kind = "INSERT" => set.status = "DRAFT" /\ e.action = "CREATED"
  /\ kind = "UPDATE" =>
       /\ e.action # "SETTLED" /\ set.status # "SETTLED"
       /\ set.status = "COMPLETED" => e.action = "COMPLETED"
       /\ set.approver # Keep => set.status \in {"SUBMITTED", "DRAFT"}

\* No request of the trip service is about to settle a trip.
TripWorkServes == \A w \in Workers : Busy(w) =>
  ServesTrip(work[w].kind, work[w].set, work[w].entry)

\* Every handler of the trip service but the settlement keeps to that.
LEMMA TripHandlersServe ==
  ASSUME TypeOK, NEW w \in Workers, TripRequest(w)
  PROVE  ServesTrip(work'[w].kind, work'[w].set, work'[w].entry)
<1>1. ASSUME NEW t, NEW kind, NEW set, NEW e, Begin(w, t, kind, set, e), ServesTrip(kind, set, e)
      PROVE  ServesTrip(work'[w].kind, work'[w].set, work'[w].entry)
  <2>1. work'[w].kind = kind /\ work'[w].set = set /\ work'[w].entry = e
    BY <1>1, HandedOver
  <2> QED
    BY <1>1, <2>1
<1>2. PICK u \in Users, t \in TripIds :
        \/ create_trip(w, u, t)
        \/ update_trip(w, u, t)
        \/ delete_trip(w, u, t)
        \/ submit_trip(w, u, t)
        \/ approve_trip(w, u, t)
        \/ reject_trip(w, u, t)
        \/ reopen_trip(w, u, t)
        \/ complete_trip(w, u, t)
  BY DEF TripRequest
<1>3. CASE create_trip(w, u, t)
  <2>1. PICK s, x \in Days :
          Begin(w, t, "INSERT", Draft(u, s, x), record_transition(u, "CREATED", None, "DRAFT", None))
    BY <1>3 DEF create_trip
  <2>2. ServesTrip("INSERT", Draft(u, s, x), record_transition(u, "CREATED", None, "DRAFT", None))
    BY DEF ServesTrip, Draft, record_transition
  <2> QED
    BY <1>1, <2>1, <2>2
<1>4. CASE update_trip(w, u, t)
  <2>1. PICK s, x \in Days :
          Begin(w, t, "UPDATE", Rescheduling(trip[t], s, x),
                record_transition(u, "UPDATED", trip[t].status, trip[t].status, None))
    BY <1>4 DEF update_trip
  <2>2. ServesTrip("UPDATE", Rescheduling(trip[t], s, x),
                   record_transition(u, "UPDATED", trip[t].status, trip[t].status, None))
    BY DEF ServesTrip, Rescheduling, NoChange, record_transition, TripStatuses
  <2> QED
    BY <1>1, <2>1, <2>2
<1>5. CASE delete_trip(w, u, t)
  BY <1>1, <1>5 DEF delete_trip, ServesTrip
<1>6. CASE submit_trip(w, u, t)
  <2>1. ServesTrip("UPDATE", Submission(trip[t], managerOf[u]),
                   record_transition(u, "SUBMITTED", trip[t].status, "SUBMITTED", managerOf[u]))
    BY DEF ServesTrip, Submission, NoChange, record_transition, TripStatuses
  <2> QED
    BY <1>1, <1>6, <2>1 DEF submit_trip
<1>7. CASE approve_trip(w, u, t)
  <2>1. ServesTrip("UPDATE", Approval,
                   record_transition(u, "APPROVED", trip[t].status, "APPROVED", trip[t].owner))
    BY DEF ServesTrip, Approval, NoChange, record_transition, TripStatuses
  <2> QED
    BY <1>1, <1>7, <2>1 DEF approve_trip
<1>8. CASE reject_trip(w, u, t)
  <2>1. ServesTrip("UPDATE", Rejection,
                   record_transition(u, "REJECTED", trip[t].status, "REJECTED", trip[t].owner))
    BY DEF ServesTrip, Rejection, NoChange, record_transition, TripStatuses
  <2> QED
    BY <1>1, <1>8, <2>1 DEF reject_trip
<1>9. CASE reopen_trip(w, u, t)
  <2>1. ServesTrip("UPDATE", Reopening(trip[t]),
                   record_transition(u, "UPDATED", trip[t].status, "DRAFT", None))
    BY DEF ServesTrip, Reopening, NoChange, record_transition, TripStatuses
  <2> QED
    BY <1>1, <1>9, <2>1 DEF reopen_trip
<1>10. CASE complete_trip(w, u, t)
  <2>1. ServesTrip("UPDATE", Completion,
                   record_transition(u, "COMPLETED", trip[t].status, "COMPLETED", None))
    BY DEF ServesTrip, Completion, NoChange, record_transition, TripStatuses
  <2> QED
    BY <1>1, <1>10, <2>1 DEF complete_trip
<1> QED
  BY <1>2, <1>3, <1>4, <1>5, <1>6, <1>7, <1>8, <1>9, <1>10

\* What the trip service is about to write stays so.
LEMMA TripServiceServes ==
  ASSUME TypeOK, TripWorkServes, TripService \/ UNCHANGED work
  PROVE  TripWorkServes'
<1> DEFINE P(x) == ServesTrip(x.kind, x.set, x.entry)
<1>0. \A w \in Workers : Busy(w) => P(work[w])
  BY DEF TripWorkServes
<1>1. ASSUME NEW w \in Workers, TripRequestBeside(w) PROVE TripWorkServes'
  <2>1. P(work'[w])
    BY <1>1, TripHandlersServe DEF TripRequestBeside
  <2>2. \A v \in Workers : v # w => work'[v] = work[v]
    <3>1. PICK t, kind, set, e : Begin(w, t, kind, set, e)
      BY <1>1, HandlersPrepare DEF TripRequestBeside, Prepares
    <3> QED
      BY <3>1 DEF Begin, TypeOK
  <2> HIDE DEF P
  <2>3. \A v \in Workers : work'[v] # None => P(work'[v])
    BY <1>0, <2>1, <2>2 DEF Busy
  <2> QED
    BY <2>3 DEF TripWorkServes, P, Busy
<1>2. ASSUME NEW w \in Workers, CommitBeside(w) \/ Rollback(w) PROVE TripWorkServes'
  <2>1. Finish(w)
    BY <1>2 DEF CommitBeside, Commit, CommitInsert, CommitUpdate, CommitLogOnly, CommitDelete, Rollback
  <2>2. \A v \in Workers : work'[v] # None => Busy(v) /\ work'[v] = work[v]
    BY <2>1 DEF Finish, TypeOK, Busy
  <2> HIDE DEF P
  <2>3. \A v \in Workers : work'[v] # None => P(work'[v])
    BY <1>0, <2>2
  <2> QED
    BY <2>3 DEF TripWorkServes, P, Busy
<1>3. CASE Environment \/ UNCHANGED work
  <2>1. work' = work
    BY <1>3 DEF Environment, AdvanceDay, update_user
  <2> QED
    BY <2>1 DEF TripWorkServes, Busy
<1> QED
  BY <1>1, <1>2, <1>3 DEF TripService

\* How many rows of a log record an action.
CountOf(entries, action) == Cardinality({i \in 1..Len(entries) : entries[i].action = action})

\* An entry that is appended is counted once when it is of the action.
LEMMA CountGrows ==
  ASSUME NEW S, NEW s \in Seq(S), NEW e, e \in S, NEW action
  PROVE  /\ CountOf(s, action) \in Nat
         /\ CountOf(Append(s, e), action) = CountOf(s, action) + (IF e.action = action THEN 1 ELSE 0)
<1> DEFINE n == Len(s)
           A == {i \in 1..n : s[i].action = action}
           B == {i \in 1..Len(Append(s, e)) : Append(s, e)[i].action = action}
<1>1. /\ n \in Nat
      /\ Len(Append(s, e)) = n + 1
      /\ \A i \in 1..n : Append(s, e)[i] = s[i]
      /\ Append(s, e)[n + 1] = e
  OBVIOUS
<1>2. IsFiniteSet(A) /\ n + 1 \notin A
  <2>1. IsFiniteSet(1..n)
    BY <1>1, FS_Interval
  <2>2. A \in SUBSET (1..n)
    OBVIOUS
  <2>3. n + 1 \notin 1..n
    BY <1>1
  <2> QED
    BY <2>1, <2>2, <2>3, FS_Subset
<1>3. B = IF e.action = action THEN A \cup {n + 1} ELSE A
  <2>1. 1..(n + 1) = (1..n) \cup {n + 1}
    BY <1>1
  <2>2. B = {i \in (1..n) \cup {n + 1} : Append(s, e)[i].action = action}
    BY <1>1, <2>1
  <2>3. n + 1 \notin 1..n
    BY <1>1
  <2> QED
    BY <1>1, <2>2, <2>3
<1>4. CountOf(s, action) = Cardinality(A) /\ CountOf(Append(s, e), action) = Cardinality(B)
  BY DEF CountOf
<1> HIDE DEF n, A, B
<1>5. Cardinality(A) \in Nat /\ Cardinality(A \cup {n + 1}) = Cardinality(A) + 1
  BY <1>2, FS_CardinalityType, FS_AddElement
<1> QED
  BY <1>3, <1>4, <1>5

\* The trip was completed at some time.
HasCompleted(t) == \E i \in 1..Len(log[t]) : log[t][i].action = "COMPLETED"

\* Each approval of a report is a settlement of its trip, which had been
\* completed; the status says so before the log is asked.
SettledAsApproved(t) ==
  /\ CountOf(log[t], "SETTLED") = CountOf(report_log[t], "APPROVED")
  /\ CountOf(report_log[t], "APPROVED") > 0 => HasCompleted(t)
  /\ trip[t] # None /\ trip[t].status = "COMPLETED" => HasCompleted(t)

\* An approval about to be written settles the trip, and nothing else does.
SettlesApproval(t, settle, e) ==
  /\ settle = "YES" <=> e # None /\ e.action = "APPROVED"
  /\ settle = "YES" => HasCompleted(t)

\* Every UPDATE that is ready settles the trip exactly when it approves.
RequestsSettle == \A w \in ReportWorkers : Ready(w) /\ report_work[w].kind = "UPDATE" =>
  SettlesApproval(report_work[w].trip, report_work[w].settle, report_work[w].entry)

SettlementInv ==
  /\ TripWorkServes
  /\ \A t \in TripIds : SettledAsApproved(t)
  /\ RequestsSettle

\* What a step of the trip service does to the tables: it deletes a row, or logs
\* something else than a settlement and completes a trip with that entry only.
LEMMA TripServiceEffect ==
  ASSUME TypeOK, TripWorkServes, TripService
  PROVE  \/ UNCHANGED tables
         \/ \E t \in TripIds : trip' = [trip EXCEPT ![t] = None] /\ UNCHANGED log
         \/ \E t \in TripIds, e \in Entry :
              /\ WriteLog(t, e) /\ e.action # "SETTLED"
              /\ \A r \in TripIds : r # t => trip'[r] = trip[r]
              /\ trip'[t] # None /\ trip'[t].status = "COMPLETED" =>
                   e.action = "COMPLETED" \/ (trip[t] # None /\ trip[t].status = "COMPLETED")
<1>1. ASSUME NEW w \in Workers, TripRequestBeside(w) PROVE UNCHANGED tables
  BY <1>1, HandlersPrepare DEF TripRequestBeside, Prepares, Begin, tables
<1>2. ASSUME NEW w \in Workers, CommitBeside(w), ~CommitDelete(w)
      PROVE  \E t \in TripIds, e \in Entry :
              /\ WriteLog(t, e) /\ e.action # "SETTLED"
              /\ \A r \in TripIds : r # t => trip'[r] = trip[r]
              /\ trip'[t] # None /\ trip'[t].status = "COMPLETED" =>
                   e.action = "COMPLETED" \/ (trip[t] # None /\ trip[t].status = "COMPLETED")
  <2>1. Busy(w) /\ work[w].kind \in {"INSERT", "UPDATE"} /\ WriteLog(work[w].trip, work[w].entry)
    BY <1>2 DEF CommitBeside, Commit, CommitInsert, CommitUpdate, CommitLogOnly
  <2>2. work[w].trip \in TripIds /\ work[w].entry \in Entry
    BY <2>1, WorkType
  <2>0. PICK t \in TripIds, e \in Entry : t = work[w].trip /\ e = work[w].entry
    BY <2>2
  <2>3. PICK kind, set :
          t = work[w].trip /\ e = work[w].entry /\ kind = work[w].kind /\ set = work[w].set
    BY <2>0
  <2>4. WriteLog(t, e) /\ ServesTrip(kind, set, e) /\ kind \in {"INSERT", "UPDATE"}
    BY <2>1, <2>3 DEF TripWorkServes
  <2>5. e.action # "SETTLED"
    BY <2>4 DEF ServesTrip
  <2>6. CASE CommitInsert(w)
    <3>1. trip' = [trip EXCEPT ![t] = set] /\ set.status = "DRAFT"
      BY <2>3, <2>4, <2>6 DEF CommitInsert, ServesTrip
    <3> QED
      BY <2>4, <2>5, <3>1 DEF TypeOK
  <2>7. CASE CommitUpdate(w)
    <3>1. trip' = [trip EXCEPT ![t] = Flushed(set, trip[t])] /\ trip[t] # None /\ kind = "UPDATE"
      BY <2>3, <2>7 DEF CommitUpdate
    <3>2. Flushed(set, trip[t]).status = Column(set.status, trip[t].status)
      BY DEF Flushed
    <3>3. trip'[t].status = Column(set.status, trip[t].status)
             /\ \A r \in TripIds : r # t => trip'[r] = trip[r]
      BY <3>1, <3>2 DEF TypeOK
    <3> QED
      BY <2>4, <2>5, <3>1, <3>3 DEF Column, ServesTrip
  <2>8. CASE CommitLogOnly(w)
    BY <2>4, <2>5, <2>8 DEF CommitLogOnly
  <2> QED
    BY <1>2, <2>6, <2>7, <2>8 DEF CommitBeside, Commit
<1>3. ASSUME NEW w \in Workers, CommitDelete(w)
      PROVE  \E t \in TripIds : trip' = [trip EXCEPT ![t] = None] /\ UNCHANGED log
  BY <1>3, WorkType DEF CommitDelete
<1>4. CASE (\E w \in Workers : Rollback(w)) \/ Environment
  BY <1>4 DEF Rollback, Environment, AdvanceDay, update_user
<1> QED
  BY <1>1, <1>2, <1>3, <1>4 DEF TripService

\* One more row in the log of a trip.
LEMMA TripLogCount ==
  ASSUME TypeOK, NEW t \in TripIds, NEW e \in Entry, WriteLog(t, e)
  PROVE  /\ CountOf(log'[t], "SETTLED")
              = CountOf(log[t], "SETTLED") + (IF e.action = "SETTLED" THEN 1 ELSE 0)
         /\ \A r \in TripIds : HasCompleted(r) => HasCompleted(r)'
         /\ e.action = "COMPLETED" => HasCompleted(t)'
<1>1. log[t] \in Seq(Entry) /\ log'[t] = Append(log[t], e)
  BY DEF TypeOK, WriteLog
<1>2. Len(log[t]) \in Nat
  BY <1>1
<1>3. /\ Len(log'[t]) = Len(log[t]) + 1
      /\ \A i \in 1..Len(log[t]) : log'[t][i] = log[t][i]
      /\ log'[t][Len(log[t]) + 1] = e
      /\ \A r \in TripIds : r # t => log'[r] = log[r]
  BY LogGrows
<1>4. \A r \in TripIds : HasCompleted(r) => HasCompleted(r)'
  <2>1. HasCompleted(t) => HasCompleted(t)'
    BY <1>2, <1>3 DEF HasCompleted
  <2>2. ASSUME NEW r \in TripIds, r # t, HasCompleted(r) PROVE HasCompleted(r)'
    BY <1>3, <2>2 DEF HasCompleted
  <2> QED
    BY <2>1, <2>2
<1>5. e.action = "COMPLETED" => HasCompleted(t)'
  BY <1>2, <1>3 DEF HasCompleted
<1>6. CountOf(log'[t], "SETTLED") = CountOf(log[t], "SETTLED") + (IF e.action = "SETTLED" THEN 1 ELSE 0)
  BY <1>1, CountGrows
<1> QED
  BY <1>4, <1>5, <1>6

\* What is about to be written to a report stays so while completions are kept.
LEMMA SettlementsStay ==
  ASSUME ReportTypes, RequestsSettle,
         \A t \in TripIds : HasCompleted(t) => HasCompleted(t)',
         \A v \in ReportWorkers : ~Idle(v)' => ~Idle(v) /\ report_work'[v] = report_work[v]
  PROVE  RequestsSettle'
<1> SUFFICES ASSUME NEW v \in ReportWorkers, Ready(v)', report_work'[v].kind = "UPDATE"
             PROVE  SettlesApproval(report_work[v].trip, report_work[v].settle, report_work[v].entry)'
  BY DEF RequestsSettle
<1>1. report_work'[v] = report_work[v] /\ Ready(v)
  BY DEF Ready
<1>2. report_work[v].trip \in TripIds
  BY <1>1, ReadyType
<1>3. SettlesApproval(report_work[v].trip, report_work[v].settle, report_work[v].entry)
  BY <1>1 DEF RequestsSettle
<1> QED
  BY <1>1, <1>2, <1>3 DEF SettlesApproval

\* The trip service beside it keeps the invariant.
LEMMA TripServiceSettlement ==
  ASSUME ReportTypes, SettlementInv, TripService
  PROVE  SettlementInv'
<1>1. TypeOK /\ TripWorkServes /\ UNCHANGED <<report, report_log, report_work>>
  BY TripServiceStep DEF ReportTypes, SettlementInv, reportTables
<1>2. TripWorkServes'
  BY <1>1, TripServiceServes
<1>3. /\ \A t \in TripIds : SettledAsApproved(t)'
      /\ \A t \in TripIds : HasCompleted(t) => HasCompleted(t)'
  <2>1. CASE UNCHANGED tables
    BY <1>1, <2>1 DEF SettlementInv, SettledAsApproved, HasCompleted, tables
  <2>2. ASSUME NEW t \in TripIds, trip' = [trip EXCEPT ![t] = None], UNCHANGED log
        PROVE  /\ \A r \in TripIds : SettledAsApproved(r)'
               /\ \A r \in TripIds : HasCompleted(r) => HasCompleted(r)'
    <3>1. \A r \in TripIds : HasCompleted(r) <=> HasCompleted(r)'
      BY <2>2 DEF HasCompleted
    <3>2. \A r \in TripIds : trip'[r] = None \/ trip'[r] = trip[r]
      BY <2>2 DEF ReportTypes, TypeOK
    <3> QED
      BY <1>1, <2>2, <3>1, <3>2 DEF SettlementInv, SettledAsApproved
  <2>3. ASSUME NEW t \in TripIds, NEW e \in Entry,
               WriteLog(t, e), e.action # "SETTLED",
               \A r \in TripIds : r # t => trip'[r] = trip[r],
               trip'[t] # None /\ trip'[t].status = "COMPLETED" =>
                 e.action = "COMPLETED" \/ (trip[t] # None /\ trip[t].status = "COMPLETED")
        PROVE  /\ \A r \in TripIds : SettledAsApproved(r)'
               /\ \A r \in TripIds : HasCompleted(r) => HasCompleted(r)'
    <3>1. /\ \A r \in TripIds : HasCompleted(r) => HasCompleted(r)'
          /\ e.action = "COMPLETED" => HasCompleted(t)'
      BY <1>1, <2>3, TripLogCount
    <3>2. \A r \in TripIds : CountOf(log'[r], "SETTLED") = CountOf(log[r], "SETTLED")
      <4>1. CountOf(log'[t], "SETTLED")
              = CountOf(log[t], "SETTLED") + (IF e.action = "SETTLED" THEN 1 ELSE 0)
        BY <1>1, <2>3, TripLogCount
      <4>2. \A r \in TripIds : r # t => log'[r] = log[r]
        BY <1>1, <2>3, LogGrows
      <4>3. CountOf(log[t], "SETTLED") \in Nat
        <5>1. log[t] \in Seq(Entry)
          BY <1>1 DEF TypeOK
        <5> QED
          BY <5>1, <2>3, CountGrows
      <4> QED
        BY <2>3, <4>1, <4>2, <4>3
    <3> QED
      BY <1>1, <2>3, <3>1, <3>2 DEF SettlementInv, SettledAsApproved
  <2> QED
    BY <1>1, <2>1, <2>2, <2>3, TripServiceEffect
<1>4. RequestsSettle'
  <2>1. \A v \in ReportWorkers : ~Idle(v)' => ~Idle(v) /\ report_work'[v] = report_work[v]
    BY <1>1 DEF Idle
  <2> QED
    BY <1>3, <2>1, SettlementsStay DEF SettlementInv
<1> QED
  BY <1>2, <1>3, <1>4 DEF SettlementInv

\* Every handler of a report settles the trip exactly when it approves, and then
\* the trip is completed.
LEMMA ReportHandlersSettle ==
  ASSUME ReportTypes, SettlementInv, NEW w \in ReportWorkers, ReportRequest(w),
         NEW r, r = report_work'[w], r.phase = "READY", r.kind = "UPDATE"
  PROVE  SettlesApproval(r.trip, r.settle, r.entry)
<1>0. ReportTypeOK
  BY DEF ReportTypes
<1>1. ASSUME NEW t, NEW set, NEW i, NEW row, NEW e,
             Prepare(w, t, "UPDATE", set, i, row, "NO", e), e = None \/ e.action # "APPROVED"
      PROVE  SettlesApproval(r.trip, r.settle, r.entry)
  <2>1. r.settle = "NO" /\ r.entry = e
    BY <1>0, <1>1, ReadyFields
  <2> QED
    BY <1>1, <2>1 DEF SettlesApproval
<1>2. ASSUME NEW t, NEW op, NEW i, Load(w, t, op, i) PROVE FALSE
  <2>1. r.phase = "LOADED"
    BY <1>0, <1>2, LoadedFields
  <2> QED
    BY <2>1
<1>3. ASSUME NEW u \in Users, NEW t \in TripIds, create_report(w, u, t) PROVE FALSE
  <2>1. PICK e : Prepare(w, t, "INSERT", NewReport(trip[t]), None, None, "NO", e)
    BY <1>3 DEF create_report
  <2>2. r.kind = "INSERT"
    BY <1>0, <2>1, ReadyFields
  <2> QED
    BY <2>2
<1>4. ASSUME NEW u, NEW t, update_report(w, u, t) PROVE SettlesApproval(r.trip, r.settle, r.entry)
  <2>1. PICK e : e = record_transition(u, "UPDATED", report[t].status, report[t].status, None)
    OBVIOUS
  <2>2. e.action = "UPDATED"
    BY <2>1 DEF record_transition
  <2>3. \E set : Prepare(w, t, "UPDATE", set, None, None, "NO", e)
    BY <1>4, <2>1 DEF update_report, PrepareUpdate
  <2> QED
    BY <1>1, <2>2, <2>3
<1>5. ASSUME NEW u \in Users, NEW t \in TripIds, approve_report(w, u, t)
      PROVE  SettlesApproval(r.trip, r.settle, r.entry)
  <2>1. PICK e : e = record_transition(u, "APPROVED", report[t].status, "APPROVED", report[t].owner)
    OBVIOUS
  <2>2. e.action = "APPROVED"
    BY <2>1 DEF record_transition
  <2>3. /\ Prepare(w, t, "UPDATE", ReportApproval, None, None, "YES", e)
        /\ report[t] # None
        /\ assert_system_transition(trip[t].status, "SETTLED")
    BY <1>5, <2>1 DEF approve_report, PrepareUpdate, load_visible_report
  <2>4. r.settle = "YES" /\ r.entry = e /\ r.trip = t
    BY <1>0, <2>3, ReadyFields
  <2>5. trip[t] # None /\ trip[t].status = "COMPLETED"
    BY <2>3 DEF ReportTypes, ReportsHaveTrips, assert_system_transition, ALLOWED_TRANSITIONS,
                SystemTransitions
  <2>6. e # None
    <3>1. report[t].owner \in Users /\ report[t].status \in ReportStatuses
      BY <2>3 DEF ReportTypes, ReportTypeOK, ReportRow
    <3>2. e \in ReportEntry
      BY <2>1, <3>1, ReportEntryType DEF Actions, ReportStatuses
    <3> QED
      BY <3>2, NullIsNoReportEntry
  <2>7. HasCompleted(t)
    BY <2>5 DEF SettlementInv, SettledAsApproved
  <2> QED
    BY <2>2, <2>4, <2>6, <2>7 DEF SettlesApproval
<1>6. ASSUME NEW u, NEW t, reject_report(w, u, t) PROVE SettlesApproval(r.trip, r.settle, r.entry)
  <2>1. PICK e : e = record_transition(u, "REJECTED", report[t].status, "REJECTED", report[t].owner)
    OBVIOUS
  <2>2. e.action = "REJECTED"
    BY <2>1 DEF record_transition
  <2>3. Prepare(w, t, "UPDATE", ReportRejection, None, None, "NO", e)
    BY <1>6, <2>1 DEF reject_report, PrepareUpdate
  <2> QED
    BY <1>1, <2>2, <2>3
<1>7. ASSUME NEW u, NEW t, reopen_report(w, u, t) PROVE SettlesApproval(r.trip, r.settle, r.entry)
  <2>1. PICK e : e = record_transition(u, "UPDATED", report[t].status, "DRAFT", None)
    OBVIOUS
  <2>2. e.action = "UPDATED"
    BY <2>1 DEF record_transition
  <2>3. \E set : Prepare(w, t, "UPDATE", set, None, None, "NO", e)
    BY <1>7, <2>1 DEF reopen_report, PrepareUpdate
  <2> QED
    BY <1>1, <2>2, <2>3
<1>8. ASSUME NEW u \in Users, NEW t \in TripIds,
             submit_report_load(w, u, t) \/ add_item_load(w, u, t) \/ _load_item_for_edit(w, u, t)
      PROVE  FALSE
  BY <1>2, <1>8 DEF submit_report_load, add_item_load, _load_item_for_edit
<1>9. CASE submit_report(w)
  <2>1. PICK e, owner, status, m : e = record_transition(owner, "SUBMITTED", status, "SUBMITTED", m)
                                /\ \E t, set : Prepare(w, t, "UPDATE", set, None, None, "NO", e)
    BY <1>9 DEF submit_report
  <2>2. e.action = "SUBMITTED"
    BY <2>1 DEF record_transition
  <2> QED
    BY <1>1, <2>1, <2>2
<1>10. ASSUME NEW i, NEW row, FlushItem(w, i, row) PROVE SettlesApproval(r.trip, r.settle, r.entry)
  <2>1. \E t, set : Prepare(w, t, "UPDATE", set, i, row, "NO", None)
    BY <1>10 DEF FlushItem
  <2> QED
    BY <1>1, <2>1
<1>11. CASE add_item(w) \/ update_item(w) \/ delete_item(w)
  BY <1>10, <1>11 DEF add_item, update_item, delete_item
<1> QED
  BY <1>3, <1>4, <1>5, <1>6, <1>7, <1>8, <1>9, <1>11 DEF ReportRequest

\* The log of a report grows by one row, and so does the count of its action.
LEMMA ReportLogCount ==
  ASSUME ReportTypeOK, NEW t \in TripIds, NEW e \in ReportEntry,
         report_log' = [report_log EXCEPT ![t] = Append(report_log[t], e)]
  PROVE  /\ CountOf(report_log[t], "APPROVED") \in Nat
         /\ CountOf(report_log'[t], "APPROVED")
              = CountOf(report_log[t], "APPROVED") + (IF e.action = "APPROVED" THEN 1 ELSE 0)
         /\ \A r \in TripIds : r # t => report_log'[r] = report_log[r]
<1>1. report_log[t] \in Seq(ReportEntry) /\ report_log'[t] = Append(report_log[t], e)
        /\ \A r \in TripIds : r # t => report_log'[r] = report_log[r]
  BY DEF ReportTypeOK
<1> QED
  BY <1>1, CountGrows

\* A handler of a report that hands over its work keeps the invariant.
LEMMA HandOverSettlement ==
  ASSUME ReportTypes, SettlementInv, NEW w \in ReportWorkers, ReportRequest(w)
  PROVE  SettlementInv'
<1>1. PICK r : r = report_work'[w]
  OBVIOUS
<1>2. report_work' = [report_work EXCEPT ![w] = r] /\ UNCHANGED <<vars, reportTables>>
  BY <1>1, ReportHandlersHandOver DEF HandsOver
<1>3. TripWorkServes' /\ \A t \in TripIds : SettledAsApproved(t)'
  <2>1. UNCHANGED <<work, trip, log, report_log>>
    BY <1>2 DEF vars, reportTables
  <2>2. TripWorkServes'
    BY <2>1, TripServiceServes DEF SettlementInv, ReportTypes
  <2> QED
    BY <2>1, <2>2 DEF SettlementInv, SettledAsApproved, HasCompleted
<1>4. RequestsSettle'
  <2> SUFFICES ASSUME NEW v \in ReportWorkers, Ready(v)', report_work'[v].kind = "UPDATE"
               PROVE  SettlesApproval(report_work[v].trip, report_work[v].settle,
                                      report_work[v].entry)'
    BY DEF RequestsSettle
  <2>1. PICK x : x = report_work'[v]
    OBVIOUS
  <2>2. SettlesApproval(x.trip, x.settle, x.entry)
    <3>1. CASE v = w
      BY <1>1, <2>1, <3>1, ReportHandlersSettle DEF Ready
    <3>2. CASE v # w
      <4>1. report_work[v] = x
        BY <1>2, <2>1, <3>2 DEF ReportTypes, ReportTypeOK
      <4> QED
        BY <2>1, <4>1 DEF SettlementInv, RequestsSettle, Ready, Idle
    <3> QED
      BY <3>1, <3>2
  <2>3. HasCompleted(x.trip) <=> HasCompleted(x.trip)'
    BY <1>2 DEF HasCompleted, vars
  <2> QED
    BY <2>1, <2>2, <2>3 DEF SettlesApproval
<1> QED
  BY <1>3, <1>4 DEF SettlementInv

\* The end of a request on a report keeps the invariant: an approval and its
\* settlement are written together.
LEMMA ReportCommitSettlement ==
  ASSUME ReportTypes, ReportActorInv, SettlementInv, NEW w \in ReportWorkers,
         CommitReport(w) \/ RollbackReport(w)
  PROVE  SettlementInv'
<1>1. ~Idle(w) /\ UNCHANGED <<environment, work>> /\ report_work' = [report_work EXCEPT ![w] = None]
  BY ReportCommitEffect DEF FinishReport
<1>2. \A v \in ReportWorkers : ~Idle(v)' => ~Idle(v) /\ report_work'[v] = report_work[v]
  BY <1>1 DEF ReportTypes, ReportTypeOK, Idle
<1>3. TripWorkServes'
  BY <1>1, TripServiceServes DEF SettlementInv, ReportTypes
<1>4. ASSUME \A t \in TripIds : SettledAsApproved(t)',
             \A t \in TripIds : HasCompleted(t) => HasCompleted(t)'
      PROVE  SettlementInv'
  BY <1>2, <1>3, <1>4, SettlementsStay DEF SettlementInv
<1>5. ASSUME UNCHANGED tables,
             \A t \in TripIds : CountOf(report_log'[t], "APPROVED") = CountOf(report_log[t], "APPROVED")
      PROVE  SettlementInv'
  BY <1>4, <1>5 DEF SettlementInv, SettledAsApproved, HasCompleted, tables
<1>6. CASE UNCHANGED <<tables, reportTables>>
  BY <1>5, <1>6 DEF reportTables
<1>7. ASSUME Ready(w), report_work[w].kind = "INSERT",
             NEW t, t = report_work[w].trip, NEW set, set = report_work[w].set,
             NEW e, e = report_work[w].entry, InsertsReport(t, set, e)
      PROVE  SettlementInv'
  <2>1. t \in TripIds /\ e \in ReportEntry
    BY <1>7, ReadyType
  <2>2. e.action = "CREATED"
    BY <1>1, <1>7 DEF ReportActorInv, RequestsActors, RequestActors, InsertActors, Ready
  <2>3. \A r \in TripIds : CountOf(report_log'[r], "APPROVED") = CountOf(report_log[r], "APPROVED")
    <3>1. ReportTypeOK /\ report_log' = [report_log EXCEPT ![t] = Append(report_log[t], e)]
      BY <1>7 DEF InsertsReport, ReportTypes
    <3>2. /\ CountOf(report_log'[t], "APPROVED") = CountOf(report_log[t], "APPROVED")
          /\ \A r \in TripIds : r # t => report_log'[r] = report_log[r]
      <4>1. /\ CountOf(report_log[t], "APPROVED") \in Nat
            /\ CountOf(report_log'[t], "APPROVED")
                 = CountOf(report_log[t], "APPROVED") + (IF e.action = "APPROVED" THEN 1 ELSE 0)
            /\ \A r \in TripIds : r # t => report_log'[r] = report_log[r]
        BY <2>1, <3>1, ReportLogCount
      <4> QED
        BY <2>2, <4>1
    <3> QED
      BY <3>2
  <2> QED
    BY <1>5, <1>7, <2>3 DEF InsertsReport
<1>8. ASSUME Ready(w), report_work[w].kind = "UPDATE",
             NEW t, t = report_work[w].trip, NEW set, set = report_work[w].set,
             NEW i, i = report_work[w].item, NEW row, row = report_work[w].row,
             NEW settle, settle = report_work[w].settle,
             NEW e, e = report_work[w].entry, UpdatesReport(t, set, i, row, settle, e)
      PROVE  SettlementInv'
  <2>1. /\ t \in TripIds /\ e \in ReportEntry \cup {None} /\ report[t] # None
        /\ settle = "YES" => e \in ReportEntry
    BY <1>8, ReadyType
  <2>2. SettlesApproval(t, settle, e)
    BY <1>8 DEF SettlementInv, RequestsSettle
  <2>3. CASE settle # "YES"
    <3>1. UNCHANGED tables /\ (e = None \/ e.action # "APPROVED")
      BY <1>8, <2>2, <2>3 DEF UpdatesReport, SettlesApproval
    <3>2. \A r \in TripIds : CountOf(report_log'[r], "APPROVED") = CountOf(report_log[r], "APPROVED")
      <4>1. CASE e = None
        BY <1>8, <4>1 DEF UpdatesReport
      <4>2. CASE e # None
        <5>1. ReportTypeOK /\ report_log' = [report_log EXCEPT ![t] = Append(report_log[t], e)]
          BY <1>8, <4>2 DEF UpdatesReport, ReportTypes
        <5>2. /\ CountOf(report_log'[t], "APPROVED") = CountOf(report_log[t], "APPROVED")
              /\ \A r \in TripIds : r # t => report_log'[r] = report_log[r]
          <6>1. /\ CountOf(report_log[t], "APPROVED") \in Nat
                /\ CountOf(report_log'[t], "APPROVED")
                     = CountOf(report_log[t], "APPROVED") + (IF e.action = "APPROVED" THEN 1 ELSE 0)
                /\ \A r \in TripIds : r # t => report_log'[r] = report_log[r]
            BY <2>1, <4>2, <5>1, ReportLogCount
          <6> QED
            BY <3>1, <4>2, <6>1
        <5> QED
          BY <5>2
      <4> QED
        BY <4>1, <4>2
    <3> QED
      BY <1>5, <3>1, <3>2
  <2>4. CASE settle = "YES"
    <3>1. /\ e \in ReportEntry /\ e # None /\ e.action = "APPROVED" /\ HasCompleted(t)
          /\ Settles(t, e)
          /\ report_log' = [report_log EXCEPT ![t] = Append(report_log[t], e)]
      BY <1>8, <2>1, <2>2, <2>4 DEF SettlesApproval, UpdatesReport
    <3>2. /\ CountOf(report_log[t], "APPROVED") \in Nat
          /\ CountOf(report_log'[t], "APPROVED") = CountOf(report_log[t], "APPROVED") + 1
          /\ \A r \in TripIds : r # t => report_log'[r] = report_log[r]
      BY <2>1, <3>1, ReportLogCount DEF ReportTypes
    <3>3. PICK x : x = record_transition(e.actor, "SETTLED", "COMPLETED", "SETTLED", None)
      OBVIOUS
    <3>4. TypeOK /\ trip[t] \in TripRow /\ trip[t] # None
      BY <2>1 DEF ReportTypes, ReportsHaveTrips, TypeOK
    <3>5. x \in Entry /\ x.action = "SETTLED" /\ WriteLog(t, x)
      <4>1. x \in Entry
        BY <1>1, <2>1, <3>1, <3>3, <3>4, SettlesType
      <4> QED
        BY <3>1, <3>3, <4>1 DEF record_transition, Settles
    <3>6. /\ CountOf(log'[t], "SETTLED") = CountOf(log[t], "SETTLED") + 1
          /\ \A r \in TripIds : HasCompleted(r) => HasCompleted(r)'
          /\ \A r \in TripIds : r # t => log'[r] = log[r]
      BY <2>1, <3>4, <3>5, TripLogCount, LogGrows
    <3>7. trip'[t].status = "SETTLED" /\ \A r \in TripIds : r # t => trip'[r] = trip[r]
      <4>1. Flushed(Settling, trip[t]).status = "SETTLED"
        BY DEF Flushed, Settling, NoChange, Column, TripStatuses
      <4> QED
        BY <2>1, <3>1, <3>4, <4>1 DEF Settles, TypeOK
    <3>8. SettledAsApproved(t)'
      <4>1. SettledAsApproved(t)
        BY <2>1 DEF SettlementInv
      <4> QED
        BY <2>1, <3>1, <3>2, <3>6, <3>7, <4>1 DEF SettledAsApproved
    <3>9. \A r \in TripIds : r # t => SettledAsApproved(r)'
      BY <3>2, <3>6, <3>7 DEF SettlementInv, SettledAsApproved
    <3> QED
      BY <1>4, <3>6, <3>8, <3>9
  <2> QED
    BY <2>3, <2>4
<1> QED
  BY <1>6, <1>7, <1>8, ReportCommitEffect

\* The invariant holds initially and every step keeps it.
LEMMA SettlementInit == ExpenseInit => SettlementInv
<1>1. CountOf(<<>>, "SETTLED") = 0 /\ CountOf(<<>>, "APPROVED") = 0
  <2>1. \A a : {i \in 1..Len(<<>>) : <<>>[i].action = a} = {}
    OBVIOUS
  <2> QED
    BY <2>1, FS_EmptySet DEF CountOf
<1> QED
  BY <1>1 DEF ExpenseInit, Init, SettlementInv, TripWorkServes, Busy, SettledAsApproved,
              RequestsSettle, Ready, Idle

\* Every step of both services keeps it.
LEMMA SettlementStep ==
  ASSUME ReportTypes, ReportActorInv, SettlementInv, [ExpenseNext]_allVars
  PROVE  SettlementInv'
<1>1. CASE TripService
  BY <1>1, TripServiceSettlement
<1>2. ASSUME NEW w \in ReportWorkers, ReportRequest(w) PROVE SettlementInv'
  BY <1>2, HandOverSettlement
<1>3. ASSUME NEW w \in ReportWorkers, CommitReport(w) \/ RollbackReport(w) PROVE SettlementInv'
  BY <1>3, ReportCommitSettlement
<1>4. CASE UNCHANGED allVars
  <2>1. UNCHANGED <<work, trip, log, report_log, report_work>>
    BY <1>4 DEF allVars, vars, reportTables
  <2>2. \A t \in TripIds : SettledAsApproved(t)' /\ (HasCompleted(t) => HasCompleted(t)')
    BY <2>1 DEF SettlementInv, SettledAsApproved, HasCompleted
  <2>3. \A v \in ReportWorkers : ~Idle(v)' => ~Idle(v) /\ report_work'[v] = report_work[v]
    BY <2>1 DEF Idle
  <2> QED
    BY <2>1, <2>2, <2>3, TripServiceServes, SettlementsStay DEF SettlementInv, ReportTypes
<1> QED
  BY <1>1, <1>2, <1>3, <1>4 DEF ExpenseNext

\* What a commit of the trip service and one of an approval write together is in
\* the logs of both.
THEOREM SettlementCorrect == ExpenseSpec => [](ReportTypes /\ SettlementInv)
<1>1. ReportTypes /\ ReportActorInv /\ SettlementInv /\ [ExpenseNext]_allVars => SettlementInv'
  BY SettlementStep
<1> QED
  BY <1>1, SettlementInit, ReportActorsCorrect, PTL DEF ExpenseSpec

\* In every interleaving of any number of requests, a trip has as many SETTLED
\* entries as its report has approvals - the two are written in one transaction
\* (approve_report, settle_trip_for_report) - and no report is approved of a trip
\* that had not been completed.
THEOREM ApprovalsAlwaysSettle == ExpenseSpec => []ApprovalsSettleCompletedTrips
<1>1. ReportTypes /\ SettlementInv => ApprovalsSettleCompletedTrips
  <2> SUFFICES ASSUME TypeOK, SettlementInv, NEW t \in TripIds
               PROVE  /\ CountOf(log[t], "SETTLED") = CountOf(report_log[t], "APPROVED")
                      /\ CountOf(report_log[t], "APPROVED") > 0 => CountOf(log[t], "COMPLETED") > 0
    BY DEF ReportTypes, ApprovalsSettleCompletedTrips, CountOf
  <2>1. HasCompleted(t) => CountOf(log[t], "COMPLETED") > 0
    <3> DEFINE A == {i \in 1..Len(log[t]) : log[t][i].action = "COMPLETED"}
    <3>1. IsFiniteSet(A)
      <4>1. Len(log[t]) \in Nat
        BY DEF TypeOK
      <4>2. IsFiniteSet(1..Len(log[t]))
        BY <4>1, FS_Interval
      <4>3. A \in SUBSET (1..Len(log[t]))
        OBVIOUS
      <4> QED
        BY <4>2, <4>3, FS_Subset
    <3>2. HasCompleted(t) => A # {}
      BY DEF HasCompleted
    <3>3. CountOf(log[t], "COMPLETED") = Cardinality(A)
      BY DEF CountOf
    <3> HIDE DEF A
    <3>4. Cardinality(A) \in Nat /\ (Cardinality(A) = 0 <=> A = {})
      BY <3>1, FS_CardinalityType, FS_EmptySet
    <3> QED
      BY <3>2, <3>3, <3>4
  <2> QED
    BY <2>1 DEF SettlementInv, SettledAsApproved
<1> QED
  BY <1>1, SettlementCorrect, PTL

-----------------------------------------------------------------------------
(* Requests on one trip that do not overlap                                *)

\* What ReportColumnsMatchStatus says of one report.
ReportColumns(row) ==
  /\ (row.submitted = "SET") <=> (row.status # "DRAFT")
  /\ (row.approved = "SET") <=> (row.status = "APPROVED")
  /\ row.reason = "SET" => row.status \in {"REJECTED", "DRAFT"}
  /\ row.status = "REJECTED" => row.reason = "SET"

\* A report, its trip and a table of items agree.
ReportFits(t, row, table) ==
  /\ ReportColumns(row)
  /\ row.total = sum_included(t, table)
  /\ row.status \in {"SUBMITTED", "APPROVED"} =>
       /\ row.centers = "SET"
       /\ Included(t, table) # {}
       /\ trip[t].status \in {"COMPLETED", "SETTLED"}
       /\ row.approver # None /\ row.approver = trip[t].approver

\* The items once a flushed row is committed.
Tabled(i, row) == IF i = None THEN item ELSE [item EXCEPT ![i] = row]

\* The row is an item of the report.
Belongs(t, x) == x \notin {None, Gone} /\ x.report = t

\* What a request has loaded is what the tables still hold.
FreshLoaded(r) ==
  /\ r.loaded = report[r.trip]
  /\ r.loaded.status \in EXPENSE_EDITABLE_STATUSES
  /\ r.op = "SUBMIT" => r.loaded.status = "DRAFT"
  /\ r.op \in {"EDIT", "DELETE"} => item[r.item] = r.was /\ r.was.report = r.trip

\* What a request is about to write was decided on the rows as they still are.
FreshInsert(t, set) ==
  /\ report[t] = None
  /\ trip[t] # None /\ trip[t].status \in REPORTABLE_TRIP_STATUSES
  /\ set.status = "DRAFT" /\ set.total = 0
  /\ ReportColumns(set)

\* A step of the report's diagram from the status the row has; the approval is
\* the one that settles the trip.
FreshStep(t, from, to, settle) ==
  /\ to = from \/ <<from, to>> \in EXPENSE_ALLOWED_TRANSITIONS
  /\ settle = "YES" <=> from = "SUBMITTED" /\ to = "APPROVED"
  /\ to # from /\ to \in {"SUBMITTED", "APPROVED"} => trip[t].status = "COMPLETED"

\* The flushed row is an item of this report, and so was the row it replaces.
FreshItem(t, i, row) == i # None =>
  /\ item[i] = None \/ Belongs(t, item[i])
  /\ row = Gone \/ Belongs(t, row)

\* The UPDATE makes a step of the diagram and leaves a report that fits.
FreshReportUpdate(t, set, i, row, settle) ==
  LET old == report[t]
      new == FlushedRow(set, old)
  IN  /\ FreshStep(t, old.status, new.status, settle)
      /\ FreshItem(t, i, row)
      /\ old.status \in {"SUBMITTED", "APPROVED"} =>
           i = None /\ new.total = old.total /\ new.centers = old.centers
      /\ ReportFits(t, new, Tabled(i, row))

\* A request decided on the rows as they still are.
RequestIsFresh(r) ==
  /\ r.phase = "LOADED" => FreshLoaded(r)
  /\ r.phase = "READY" /\ r.kind = "INSERT" => FreshInsert(r.trip, r.set)
  /\ r.phase = "READY" /\ r.kind = "UPDATE" =>
       FreshReportUpdate(r.trip, r.set, r.item, r.row, r.settle)

\* No other request works on the trip of a request on its report.
Alone ==
  \A v \in ReportWorkers : ~Idle(v) =>
    /\ \A w \in Workers : Busy(w) => work[w].trip # report_work[v].trip
    /\ \A w \in ReportWorkers : w # v /\ ~Idle(w) => report_work[w].trip # report_work[v].trip

\* No two requests have flushed the same item (its row lock, the sequence).
ItemsAlone ==
  \A v, w \in ReportWorkers :
    v # w /\ Ready(v) /\ Ready(w) /\ report_work[v].item # None
      => report_work[v].item # report_work[w].item

\* The foreign key of the items.
ItemsHaveReports ==
  \A t \in TripIds : report[t] = None => Items(t, item) = {}

ReportsFit == \A t \in TripIds : report[t] # None => ReportFits(t, report[t], item)

RequestsFresh == \A w \in ReportWorkers : ~Idle(w) => RequestIsFresh(report_work[w])

\* The inductive invariant of requests that do not overlap on a trip.
ReportSerialInv ==
  /\ SerialInv
  /\ Alone
  /\ ItemsAlone
  /\ ItemsHaveReports
  /\ ReportsFit
  /\ RequestsFresh

\* Two tables of items that differ at most in items of other reports.
SameItems(t, a, b) ==
  \A i \in ItemIds : a[i] = b[i] \/ (~Belongs(t, a[i]) /\ ~Belongs(t, b[i]))

\* The items of a report and their sum are the same in both.
LEMMA SameItemsSame ==
  ASSUME NEW t, NEW a, NEW b, SameItems(t, a, b)
  PROVE  /\ Items(t, a) = Items(t, b)
         /\ Included(t, a) = Included(t, b)
         /\ sum_included(t, a) = sum_included(t, b)
         /\ \A i \in Items(t, a) : a[i] = b[i]
<1>1. Items(t, a) = Items(t, b) /\ \A i \in Items(t, a) : a[i] = b[i]
  BY DEF SameItems, Items, Belongs
<1>2. Included(t, a) = Included(t, b)
  BY <1>1 DEF Included
<1>3. PICK S : S = Included(t, a)
  OBVIOUS
<1>4. IsFiniteSet(S) /\ \A i \in S : a[i].amount = b[i].amount
  <2>1. S \in SUBSET ItemIds
    BY <1>3 DEF Included, Items
  <2> QED
    BY <1>1, <1>3, <2>1, FS_Subset DEF Included
<1>5. SumOf(a, S) = SumOf(b, S)
  BY <1>4, SumDependsOnAmounts
<1>6. sum_included(t, a) = SumOf(a, S) /\ sum_included(t, b) = SumOf(b, S)
  BY <1>2, <1>3, Zenon DEF sum_included, SumOf
<1> QED
  BY <1>1, <1>2, <1>5, <1>6

\* A report without items adds up to nothing.
LEMMA EmptySum ==
  ASSUME NEW t, NEW table, Items(t, table) = {}
  PROVE  sum_included(t, table) = 0
<1>1. Included(t, table) = {}
  BY DEF Included
<1>2. sum_included(t, table) = SumOf(table, {})
  BY <1>1, Zenon DEF sum_included, SumOf
<1>3. PICK g : g = CHOOSE h : SumRec(table, {}, h)
  OBVIOUS
<1>4. SumRec(table, {}, g)
  BY <1>3, SumRecExists, FS_EmptySet
<1>5. g[{}] = 0
  BY <1>4, SumRecStep
<1> QED
  BY <1>2, <1>3, <1>5, SumIsRec

-----------------------------------------------------------------------------
(* What the handlers assign leaves a report that fits                      *)

\* The header centers of a report that may be edited.
LEMMA CentersFit ==
  ASSUME NEW t, NEW row \in ReportRow, ReportFits(t, row, item), NEW centers \in Cell,
         row.status \in EXPENSE_EDITABLE_STATUSES,
         NEW new, new = FlushedRow([NoReportChange EXCEPT !.centers = Dirty(row.centers, centers)], row)
  PROVE  new.status = row.status /\ ReportFits(t, new, item)
<1>1. PICK set : set = [NoReportChange EXCEPT !.centers = Dirty(row.centers, centers)]
  OBVIOUS
<1>2. /\ set \in ReportChange
      /\ set.status = Keep /\ set.total = Keep /\ set.submitted = Keep
      /\ set.approved = Keep /\ set.reason = Keep
  <2>1. set \in ReportChange
    BY <1>1 DEF NoReportChange, ReportChange, Dirty
  <2> QED
    BY <1>1, <2>1 DEF NoReportChange
<1>3. /\ new.status = row.status /\ new.total = row.total /\ new.submitted = row.submitted
      /\ new.approved = row.approved /\ new.reason = row.reason
  BY <1>1, <1>2, FlushedReport DEF Column
<1> QED
  BY <1>3 DEF ReportFits, ReportColumns, EXPENSE_EDITABLE_STATUSES

\* The decisions on a submitted report.
LEMMA ReportDecisionsFit ==
  ASSUME NEW t, NEW row \in ReportRow, ReportFits(t, row, item), row.status = "SUBMITTED"
  PROVE  /\ \A new : new = FlushedRow(ReportApproval, row) =>
              /\ new.status = "APPROVED" /\ ReportFits(t, new, item)
              /\ new.total = row.total /\ new.centers = row.centers
         /\ \A new : new = FlushedRow(ReportRejection, row) =>
              /\ new.status = "REJECTED" /\ ReportFits(t, new, item)
              /\ new.total = row.total /\ new.centers = row.centers
<1>1. ASSUME NEW new, new = FlushedRow(ReportApproval, row)
      PROVE  /\ new.status = "APPROVED" /\ ReportFits(t, new, item)
             /\ new.total = row.total /\ new.centers = row.centers
  <2>1. /\ ReportApproval.status = "APPROVED" /\ ReportApproval.approved = "SET"
        /\ ReportApproval.approver = Keep /\ ReportApproval.centers = Keep
        /\ ReportApproval.total = Keep /\ ReportApproval.submitted = Keep
        /\ ReportApproval.reason = Keep
    BY DEF ReportApproval, NoReportChange
  <2>2. /\ new.status = "APPROVED" /\ new.approved = "SET" /\ new.approver = row.approver
        /\ new.centers = row.centers /\ new.total = row.total /\ new.submitted = row.submitted
        /\ new.reason = row.reason
    BY <1>1, <2>1, FlushedReport, ReportChangeTypes DEF Column, TripStatuses
  <2> QED
    BY <2>2 DEF ReportFits, ReportColumns
<1>2. ASSUME NEW new, new = FlushedRow(ReportRejection, row)
      PROVE  /\ new.status = "REJECTED" /\ ReportFits(t, new, item)
             /\ new.total = row.total /\ new.centers = row.centers
  <2>1. /\ ReportRejection.status = "REJECTED" /\ ReportRejection.reason = "SET"
        /\ ReportRejection.centers = Keep
        /\ ReportRejection.total = Keep /\ ReportRejection.submitted = Keep
        /\ ReportRejection.approved = Keep
    BY DEF ReportRejection, NoReportChange
  <2>2. /\ new.status = "REJECTED" /\ new.approved = row.approved /\ new.reason = "SET"
        /\ new.centers = row.centers /\ new.total = row.total /\ new.submitted = row.submitted
    BY <1>2, <2>1, FlushedReport, ReportChangeTypes DEF Column, TripStatuses
  <2> QED
    BY <2>2 DEF ReportFits, ReportColumns
<1> QED
  BY <1>1, <1>2

\* A rejected report becomes a draft again.
LEMMA ReportReopeningFits ==
  ASSUME NEW t, NEW row \in ReportRow, ReportFits(t, row, item),
         NEW new, new = FlushedRow(ReportReopening(row), row)
  PROVE  new.status = "DRAFT" /\ ReportFits(t, new, item)
<1>1. PICK set : set = ReportReopening(row)
  OBVIOUS
<1>2. /\ set \in ReportChange
      /\ set.status = "DRAFT" /\ set.total = Keep
      /\ set.submitted = Dirty(row.submitted, "NULL")
      /\ set.approved = Dirty(row.approved, "NULL")
  <2>1. set \in ReportChange
    BY <1>1 DEF ReportReopening, NoReportChange, ReportChange, Dirty, ReportStatuses, Cell
  <2> QED
    BY <1>1, <2>1 DEF ReportReopening, NoReportChange
<1>3. new.status = "DRAFT" /\ new.total = row.total /\ new.submitted = "NULL" /\ new.approved = "NULL"
  BY <1>1, <1>2, FlushedReport DEF Column, Dirty, TripStatuses
<1> QED
  BY <1>3 DEF ReportFits, ReportColumns

\* The submission of a draft whose centers, items, total and approver were found
\* in order.
LEMMA ReportSubmissionFits ==
  ASSUME NEW t, NEW row \in ReportRow, ReportFits(t, row, item), row.centers = "SET",
         NEW total \in 0..MAX_REPORT_TOTAL, total = sum_included(t, item),
         Included(t, item) # {}, trip[t].status = "COMPLETED",
         NEW m \in Users, m = trip[t].approver,
         NEW new, new = FlushedRow(ReportSubmission(row, total, m), row)
  PROVE  new.status = "SUBMITTED" /\ ReportFits(t, new, item)
<1>1. PICK set : set = ReportSubmission(row, total, m)
  OBVIOUS
<1>2. /\ set \in ReportChange
      /\ set.status = "SUBMITTED" /\ set.total = Dirty(row.total, total)
      /\ set.approver = Dirty(row.approver, m)
      /\ set.submitted = "SET" /\ set.centers = Keep
      /\ set.approved = Dirty(row.approved, "NULL")
      /\ set.reason = Dirty(row.reason, "NULL")
  <2>1. set \in ReportChange
    BY <1>1, ReportChangeTypes DEF Cell
  <2> QED
    BY <1>1, <2>1 DEF ReportSubmission, NoReportChange
<1>3. /\ new.status = "SUBMITTED" /\ new.total = total /\ new.approver = m
      /\ new.submitted = "SET" /\ new.centers = row.centers
      /\ new.approved = "NULL" /\ new.reason = "NULL"
  BY <1>1, <1>2, FlushedReport DEF Column, Dirty, TripStatuses
<1>4. m # None
  OBVIOUS
<1> QED
  BY <1>3, <1>4 DEF ReportFits, ReportColumns

\* The new total of a report that may be edited.
LEMMA NewTotalFits ==
  ASSUME NEW t, NEW row \in ReportRow, ReportFits(t, row, item), NEW table,
         NEW total \in 0..MAX_REPORT_TOTAL, total = sum_included(t, table),
         row.status \in EXPENSE_EDITABLE_STATUSES,
         NEW new, new = FlushedRow(NewTotal(row, total), row)
  PROVE  new.status = row.status /\ ReportFits(t, new, table)
<1>1. PICK set : set = NewTotal(row, total)
  OBVIOUS
<1>2. /\ set \in ReportChange
      /\ set.status = Keep /\ set.total = Dirty(row.total, total) /\ set.submitted = Keep
      /\ set.approved = Keep /\ set.reason = Keep
  <2>1. set \in ReportChange
    BY <1>1 DEF NewTotal, NoReportChange, ReportChange, Dirty
  <2> QED
    BY <1>1, <2>1 DEF NewTotal, NoReportChange
<1>3. /\ new.status = row.status /\ new.total = total /\ new.submitted = row.submitted
      /\ new.approved = row.approved /\ new.reason = row.reason
  BY <1>1, <1>2, FlushedReport DEF Column, Dirty
<1> QED
  BY <1>3 DEF ReportFits, ReportColumns, EXPENSE_EDITABLE_STATUSES

\* What a request knows stays true while the report, the trip and the items it
\* works on stay.
LEMMA FreshStays ==
  ASSUME ReportTypeOK, ReportTypeOK', NEW r, RequestIsFresh(r),
         r.phase = "LOADED" /\ r.op \in {"EDIT", "DELETE"} =>
           r.item \in ItemIds /\ r.was \notin {None, Gone},
         r.phase = "READY" /\ r.kind = "UPDATE" => r.item \in ItemIds \cup {None},
         report'[r.trip] = report[r.trip], trip'[r.trip] = trip[r.trip],
         SameItems(r.trip, item, item'),
         r.phase = "READY" /\ r.kind = "UPDATE" /\ r.item # None => item'[r.item] = item[r.item]
  PROVE  RequestIsFresh(r)'
<1>1. r.phase = "LOADED" => FreshLoaded(r)'
  <2> SUFFICES ASSUME r.phase = "LOADED" PROVE FreshLoaded(r)'
    OBVIOUS
  <2>1. FreshLoaded(r)
    BY DEF RequestIsFresh
  <2>2. ASSUME r.op \in {"EDIT", "DELETE"} PROVE item'[r.item] = item[r.item]
    <3>1. Belongs(r.trip, item[r.item]) /\ r.item \in ItemIds
      BY <2>1, <2>2 DEF FreshLoaded, Belongs
    <3> QED
      BY <3>1 DEF SameItems
  <2> QED
    BY <2>1, <2>2 DEF FreshLoaded
<1>2. r.phase = "READY" /\ r.kind = "INSERT" => FreshInsert(r.trip, r.set)'
  BY DEF RequestIsFresh, FreshInsert
<1>3. r.phase = "READY" /\ r.kind = "UPDATE" =>
        FreshReportUpdate(r.trip, r.set, r.item, r.row, r.settle)'
  <2> SUFFICES ASSUME r.phase = "READY", r.kind = "UPDATE"
               PROVE  FreshReportUpdate(r.trip, r.set, r.item, r.row, r.settle)'
    OBVIOUS
  <2>1. PICK t, i, a, b, old, new :
          /\ t = r.trip /\ i = r.item /\ a = Tabled(i, r.row) /\ b = Tabled(i, r.row)'
          /\ old = report[t] /\ new = FlushedRow(r.set, report[t])
    OBVIOUS
  <2>2. /\ FreshStep(t, old.status, new.status, r.settle)
        /\ FreshItem(t, i, r.row)
        /\ old.status \in {"SUBMITTED", "APPROVED"} =>
             i = None /\ new.total = old.total /\ new.centers = old.centers
        /\ ReportFits(t, new, a)
    BY <2>1 DEF RequestIsFresh, FreshReportUpdate
  <2>3. SameItems(t, a, b)
    BY <2>1 DEF SameItems, Tabled, ReportTypeOK
  <2>4. Included(t, a) = Included(t, b) /\ sum_included(t, a) = sum_included(t, b)
    BY <2>3, SameItemsSame
  <2>5. ReportFits(t, new, b)'
    BY <2>1, <2>2, <2>4 DEF ReportFits
  <2>6. FreshItem(t, i, r.row)'
    BY <2>1, <2>2 DEF FreshItem
  <2>7. FreshStep(t, old.status, new.status, r.settle)'
    BY <2>1, <2>2 DEF FreshStep
  <2>8. old = report'[t] /\ new = FlushedRow(r.set, report'[t])
    BY <2>1
  <2> QED
    BY <2>1, <2>2, <2>5, <2>6, <2>7, <2>8 DEF FreshReportUpdate
<1> QED
  BY <1>1, <1>2, <1>3 DEF RequestIsFresh

\* A step of the trip service changes a trip only through a request on it.
LEMMA TripAlone ==
  ASSUME TypeOK, TripService, NEW t \in TripIds, \A w \in Workers : Busy(w) => work[w].trip # t
  PROVE  trip'[t] = trip[t]
<1>1. ASSUME NEW w \in Workers, TripRequestBeside(w) PROVE trip'[t] = trip[t]
  BY <1>1, HandlersPrepare DEF TripRequestBeside, Prepares, Begin, tables
<1>2. ASSUME NEW w \in Workers, CommitBeside(w) PROVE trip'[t] = trip[t]
  BY <1>2 DEF CommitBeside, Commit, CommitInsert, CommitUpdate, CommitLogOnly, CommitDelete, TypeOK
<1>3. ASSUME (\E w \in Workers : Rollback(w)) \/ Environment PROVE trip'[t] = trip[t]
  BY <1>3 DEF Rollback, Environment, AdvanceDay, update_user, tables
<1> QED
  BY <1>1, <1>2, <1>3 DEF TripService

\* What the trip service does to a trip that has ended: nothing to its status or
\* its approver.
LEMMA CompletedTripStays ==
  ASSUME TypeOK, SerialInv, TripWorkServes, TripService, NEW t \in TripIds,
         trip[t] # None, trip[t].status \in {"COMPLETED", "SETTLED"}
  PROVE  trip'[t].status = trip[t].status /\ trip'[t].approver = trip[t].approver
<1>1. ASSUME NEW w \in Workers, TripRequestBeside(w) PROVE trip'[t] = trip[t]
  BY <1>1, HandlersPrepare DEF TripRequestBeside, Prepares, Begin, tables
<1>2. ASSUME NEW w \in Workers, CommitBeside(w), work[w].trip = t
      PROVE  trip'[t].status = trip[t].status /\ trip'[t].approver = trip[t].approver
  <2>1. Busy(w) /\ Commit(w)
    BY <1>2 DEF CommitBeside, Commit, CommitInsert, CommitUpdate, CommitLogOnly, CommitDelete
  <2>2. PICK kind, set, e : kind = work[w].kind /\ set = work[w].set /\ e = work[w].entry
    OBVIOUS
  <2>3. Fresh(t, kind, set, e) /\ ServesTrip(kind, set, e) /\ kind \in {"INSERT", "UPDATE", "DELETE"}
    BY <1>2, <2>1, <2>2, WorkType DEF SerialInv, WorkIsFresh, TripWorkServes
  <2>4. kind = "UPDATE"
    BY <2>3 DEF Fresh
  <2>5. CommitUpdate(w)
    BY <1>2, <2>1, <2>2, <2>4 DEF Commit, CommitInsert, CommitUpdate, CommitLogOnly, CommitDelete
  <2>6. trip'[t] = Flushed(set, trip[t])
    BY <1>2, <2>2, <2>5 DEF CommitUpdate, TypeOK
  <2>7. /\ trip'[t].status = Column(set.status, trip[t].status)
        /\ trip'[t].approver = Column(set.approver, trip[t].approver)
    BY <2>6 DEF Flushed
  <2>8. /\ \/ Column(set.status, trip[t].status) = trip[t].status
           \/ <<trip[t].status, Column(set.status, trip[t].status)>> \in ALLOWED_TRANSITIONS
        /\ set.status # "SETTLED"
        /\ set.approver # Keep => set.status \in {"SUBMITTED", "DRAFT"}
    BY <2>3, <2>4 DEF Fresh, FreshUpdate, ServesTrip
  <2>9. set.status = Keep \/ set.status = trip[t].status
    BY <2>8 DEF Column, ALLOWED_TRANSITIONS
  <2>10. Keep \notin {"SUBMITTED", "DRAFT"}
    BY DEF TripStatuses
  <2> QED
    BY <2>7, <2>8, <2>9, <2>10 DEF Column
<1>3. ASSUME NEW w \in Workers, CommitBeside(w), work[w].trip # t PROVE trip'[t] = trip[t]
  BY <1>3 DEF CommitBeside, Commit, CommitInsert, CommitUpdate, CommitLogOnly, CommitDelete, TypeOK
<1>4. ASSUME (\E w \in Workers : Rollback(w)) \/ Environment PROVE trip'[t] = trip[t]
  BY <1>4 DEF Rollback, Environment, AdvanceDay, update_user, tables
<1> QED
  BY <1>1, <1>2, <1>3, <1>4 DEF TripService

\* What the trip service does to the requests: a new one starts on a trip no
\* request on a report works on, or one ends, or nothing.
LEMMA TripServiceAlone ==
  ASSUME Isolated, TypeOK, Alone, TripService
  PROVE  Alone'
<1>1. report_work' = report_work
  BY DEF TripService, TripRequestBeside, CommitBeside
<1>2. ASSUME NEW w \in Workers, TripRequestBeside(w) PROVE Alone'
  <2>1. PICK t, kind, set, e : Begin(w, t, kind, set, e)
    BY <1>2, HandlersPrepare DEF TripRequestBeside, Prepares
  <2>2. \A v \in Workers : v # w => work'[v] = work[v]
    BY <2>1 DEF Begin, TypeOK
  <2>3. \A v \in ReportWorkers : ~Idle(v) => report_work[v].trip # work'[w].trip
    BY <1>2 DEF TripRequestBeside
  <2> QED
    BY <1>1, <2>2, <2>3 DEF Alone, Idle, Busy
<1>3. ASSUME NEW w \in Workers, CommitBeside(w) \/ Rollback(w) PROVE Alone'
  <2>1. Finish(w)
    BY <1>3 DEF CommitBeside, Commit, CommitInsert, CommitUpdate, CommitLogOnly, CommitDelete, Rollback
  <2>2. \A v \in Workers : work'[v] # None => Busy(v) /\ work'[v] = work[v]
    BY <2>1 DEF Finish, TypeOK, Busy
  <2> QED
    BY <1>1, <2>2 DEF Alone, Idle, Busy
<1>4. CASE Environment
  BY <1>1, <1>4 DEF Environment, AdvanceDay, update_user, Alone, Idle, Busy
<1> QED
  BY <1>2, <1>3, <1>4 DEF TripService

\* The rows a running request works on.
LEMMA RequestTypes ==
  ASSUME ReportTypes, NEW v \in ReportWorkers, ~Idle(v), NEW r, r = report_work[v]
  PROVE  /\ r.trip \in TripIds
         /\ r.phase = "LOADED" /\ r.op \in {"EDIT", "DELETE"} =>
              r.item \in ItemIds /\ r.was \notin {None, Gone}
         /\ r.phase = "READY" /\ r.kind = "UPDATE" => r.item \in ItemIds \cup {None}
<1>1. r \in LoadedWork \cup ReadyWork
  BY DEF ReportTypes, ReportTypeOK, Idle
<1>2. CASE r \in LoadedWork
  <2>1. Loaded(v)
    BY <1>2 DEF LoadedWork, Loaded
  <2>2. r.op \in {"EDIT", "DELETE"} => r.item \in ItemIds /\ r.was \in ItemRow
    BY <2>1, LoadedType
  <2> QED
    BY <1>2, <2>2, NeitherIsAnItem DEF LoadedWork
<1>3. CASE r \in ReadyWork
  BY <1>3 DEF ReadyWork
<1> QED
  BY <1>1, <1>2, <1>3

\* The request of the next state, once it has a name.
LEMMA FreshOfRequest ==
  ASSUME NEW v, NEW r, r = report_work'[v], RequestIsFresh(r)'
  PROVE  RequestIsFresh(report_work[v])'
<1>1. /\ FreshLoaded(r)' => FreshLoaded(report_work[v])'
      /\ FreshInsert(r.trip, r.set)' => FreshInsert(report_work[v].trip, report_work[v].set)'
  BY DEF FreshLoaded, FreshInsert
<1>2. FreshReportUpdate(r.trip, r.set, r.item, r.row, r.settle)' =>
        FreshReportUpdate(report_work[v].trip, report_work[v].set, report_work[v].item,
                          report_work[v].row, report_work[v].settle)'
  BY DEF FreshReportUpdate, FreshStep, FreshItem, ReportFits, Tabled, Belongs
<1> QED
  BY <1>1, <1>2 DEF RequestIsFresh

\* A request goes on as it was while the rows of its trip stay.
LEMMA OtherStaysFresh ==
  ASSUME ReportTypes, ReportTypeOK', RequestsFresh, NEW v \in ReportWorkers, ~Idle(v),
         report_work'[v] = report_work[v],
         NEW t, t = report_work[v].trip,
         report'[t] = report[t], trip'[t] = trip[t],
         SameItems(t, item, item'),
         Ready(v) /\ report_work[v].item # None =>
           item'[report_work[v].item] = item[report_work[v].item]
  PROVE  RequestIsFresh(report_work[v])'
<1>1. PICK r : r = report_work[v]
  OBVIOUS
<1>2. RequestIsFresh(r)
  BY <1>1 DEF RequestsFresh
<1>3. RequestIsFresh(r)'
  BY <1>1, <1>2, RequestTypes, FreshStays DEF ReportTypes, Ready
<1> QED
  BY <1>1, <1>3, FreshOfRequest

\* The trip service beside it keeps the invariant: no request of it works on the
\* trip of a request on a report, and a trip that has ended stays.
LEMMA TripServiceReportSerial ==
  ASSUME Isolated, ReportTypes, TripWorkServes, ReportSerialInv, TripService
  PROVE  ReportSerialInv'
<1>1. /\ TypeOK /\ TypeOK' /\ SerialInv /\ SerialInv'
      /\ report' = report /\ item' = item /\ report_work' = report_work
      /\ ReportTypeOK'
  <2>1. TypeOK /\ SerialInv /\ [Next]_vars /\ UNCHANGED <<report, item, report_log, report_work>>
    BY TripServiceStep DEF ReportTypes, ReportSerialInv, reportTables
  <2>2. ReportTypeOK'
    BY <2>1 DEF ReportTypes, ReportTypeOK
  <2> QED
    BY <2>1, <2>2, TypeStep, SerialStep
<1>2. Alone'
  BY <1>1, TripServiceAlone DEF ReportSerialInv
<1>3. ItemsAlone' /\ ItemsHaveReports'
  BY <1>1 DEF ReportSerialInv, ItemsAlone, ItemsHaveReports, Ready, Idle
<1>4. ReportsFit'
  <2> SUFFICES ASSUME NEW t \in TripIds, report'[t] # None PROVE ReportFits(t, report[t], item)'
    BY DEF ReportsFit
  <2>1. ReportFits(t, report[t], item) /\ trip[t] # None
    BY <1>1 DEF ReportSerialInv, ReportsFit, ReportTypes, ReportsHaveTrips
  <2>2. trip[t].status \in {"COMPLETED", "SETTLED"} =>
          trip'[t].status = trip[t].status /\ trip'[t].approver = trip[t].approver
    BY <1>1, <2>1, CompletedTripStays
  <2> QED
    BY <1>1, <2>1, <2>2 DEF ReportFits
<1>5. RequestsFresh'
  <2> SUFFICES ASSUME NEW v \in ReportWorkers, ~Idle(v)' PROVE RequestIsFresh(report_work[v])'
    BY DEF RequestsFresh
  <2>1. PICK t \in TripIds : t = report_work[v].trip
    BY <1>1, RequestTypes DEF Idle
  <2>2. ~Idle(v)
    BY <1>1 DEF Idle
  <2>3. \A w \in Workers : Busy(w) => work[w].trip # t
    BY <2>1, <2>2 DEF ReportSerialInv, Alone
  <2>4. trip'[t] = trip[t]
    BY <1>1, <2>3, TripAlone
  <2>5. SameItems(t, item, item')
    BY <1>1 DEF SameItems
  <2> QED
    BY <1>1, <2>1, <2>2, <2>4, <2>5, OtherStaysFresh DEF ReportSerialInv
<1> QED
  BY <1>1, <1>2, <1>3, <1>4, <1>5 DEF ReportSerialInv

-----------------------------------------------------------------------------
\* The flush of an item of a report that may still be edited.
LEMMA FlushFresh ==
  ASSUME ReportTypes, ReportSerialInv, NEW w \in ReportWorkers, Loaded(w),
         NEW i \in ItemIds \cup {None}, NEW row \in ItemRow \cup {None, Gone},
         FreshItem(report_work[w].trip, i, row),
         FlushItem(w, i, row), NEW r, r = report_work'[w]
  PROVE  RequestIsFresh(r)
<1>1. PICK t, loaded, table, total :
        /\ t = report_work[w].trip /\ loaded = report_work[w].loaded
        /\ table = Tabled(i, row) /\ total = _recalc_total(t, table)
  OBVIOUS
<1>2. /\ assert_report_total(total)
      /\ Prepare(w, t, "UPDATE", NewTotal(loaded, total), i, row, "NO", None)
  BY <1>1, Zenon DEF FlushItem, Tabled
<1>3. /\ t \in TripIds /\ loaded \in ReportRow
      /\ loaded = report[t] /\ loaded.status \in EXPENSE_EDITABLE_STATUSES
  <2>1. RequestIsFresh(report_work[w])
    BY DEF ReportSerialInv, RequestsFresh, Loaded
  <2> QED
    BY <1>1, <2>1, LoadedType DEF RequestIsFresh, FreshLoaded, Loaded
<1>4. total \in 0..MAX_REPORT_TOTAL /\ total = sum_included(t, table)
  <2>1. table \in [ItemIds -> ItemRow \cup {None, Gone}]
    BY <1>1 DEF Tabled, ReportTypes, ReportTypeOK
  <2>2. total \in Nat /\ total = sum_included(t, table)
    BY <1>1, <2>1, TotalType DEF _recalc_total
  <2> QED
    BY <1>2, <2>2 DEF assert_report_total
<1>5. ReportFits(t, loaded, item)
  <2>1. loaded # None
    BY <1>3, NullIsNoReport
  <2> QED
    BY <1>3, <2>1 DEF ReportSerialInv, ReportsFit
<1>6. PICK new : new = FlushedRow(NewTotal(loaded, total), loaded)
  OBVIOUS
<1>7. new.status = loaded.status /\ ReportFits(t, new, table)
  BY <1>3, <1>4, <1>5, <1>6, NewTotalFits
<1>8. /\ r.phase = "READY" /\ r.trip = t /\ r.kind = "UPDATE" /\ r.set = NewTotal(loaded, total)
      /\ r.item = i /\ r.row = row /\ r.settle = "NO"
  BY <1>2, ReadyFields DEF ReportTypes
<1>9. FreshReportUpdate(t, NewTotal(loaded, total), i, row, "NO")
  <2>1. FreshStep(t, loaded.status, new.status, "NO")
    BY <1>3, <1>7 DEF FreshStep, EXPENSE_EDITABLE_STATUSES
  <2> QED
    BY <1>1, <1>3, <1>6, <1>7, <2>1 DEF FreshReportUpdate, EXPENSE_EDITABLE_STATUSES
<1> QED
  BY <1>8, <1>9 DEF RequestIsFresh

\* The statements prepared from a report as it is.
LEMMA UpdateFresh ==
  ASSUME ReportTypeOK, NEW w \in ReportWorkers, NEW t, NEW set, NEW settle, NEW e,
         Prepare(w, t, "UPDATE", set, None, None, settle, e),
         NEW new, new = FlushedRow(set, report[t]),
         FreshStep(t, report[t].status, new.status, settle),
         report[t].status \in {"SUBMITTED", "APPROVED"} =>
           new.total = report[t].total /\ new.centers = report[t].centers,
         ReportFits(t, new, item),
         NEW r, r = report_work'[w]
  PROVE  RequestIsFresh(r)
<1>1. /\ r.phase = "READY" /\ r.trip = t /\ r.kind = "UPDATE" /\ r.set = set
      /\ r.item = None /\ r.row = None /\ r.settle = settle
  BY ReadyFields
<1>2. FreshReportUpdate(t, set, None, None, settle)
  BY DEF FreshReportUpdate, FreshItem, Tabled
<1> QED
  BY <1>1, <1>2 DEF RequestIsFresh

\* Every handler of a report decides on the rows as they are.
LEMMA ReportHandlersFresh ==
  ASSUME ReportTypes, ReportSerialInv, NEW w \in ReportWorkers, ReportRequest(w),
         NEW r, r = report_work'[w]
  PROVE  RequestIsFresh(r)
<1>0. ReportTypeOK
  BY DEF ReportTypes
<1>1. ASSUME NEW t \in TripIds, report[t] # None
      PROVE  report[t] \in ReportRow /\ ReportFits(t, report[t], item)
  BY <1>1 DEF ReportTypes, ReportTypeOK, ReportSerialInv, ReportsFit
<1>2. ASSUME NEW u \in Users, NEW t \in TripIds, create_report(w, u, t) PROVE RequestIsFresh(r)
  <2>1. PICK e : Prepare(w, t, "INSERT", NewReport(trip[t]), None, None, "NO", e)
    BY <1>2 DEF create_report
  <2>2. r.phase = "READY" /\ r.kind = "INSERT" /\ r.trip = t /\ r.set = NewReport(trip[t])
    BY <1>0, <2>1, ReadyFields
  <2>3. FreshInsert(t, NewReport(trip[t]))
    BY <1>2 DEF create_report, load_visible_trip, FreshInsert, NewReport, ReportColumns
  <2> QED
    BY <2>2, <2>3 DEF RequestIsFresh
<1>3. ASSUME NEW u \in Users, NEW t \in TripIds, update_report(w, u, t) PROVE RequestIsFresh(r)
  <2>1. PICK centers \in Cell :
          PrepareUpdate(w, t, [NoReportChange EXCEPT !.centers = Dirty(report[t].centers, centers)],
                        "NO", record_transition(u, "UPDATED", report[t].status, report[t].status, None))
    BY <1>3 DEF update_report
  <2>2. report[t] # None /\ report[t].status \in EXPENSE_EDITABLE_STATUSES
    BY <1>3 DEF update_report, load_visible_report
  <2>3. PICK new :
          new = FlushedRow([NoReportChange EXCEPT !.centers = Dirty(report[t].centers, centers)], report[t])
    OBVIOUS
  <2>4. new.status = report[t].status /\ ReportFits(t, new, item)
    BY <1>1, <2>2, <2>3, CentersFit
  <2>5. FreshStep(t, report[t].status, new.status, "NO")
    BY <2>2, <2>4 DEF FreshStep, EXPENSE_EDITABLE_STATUSES
  <2>6. report[t].status \notin {"SUBMITTED", "APPROVED"}
    BY <2>2 DEF EXPENSE_EDITABLE_STATUSES
  <2> QED
    BY <1>0, <2>1, <2>3, <2>4, <2>5, <2>6, UpdateFresh DEF PrepareUpdate
<1>4. ASSUME NEW u \in Users, NEW t \in TripIds, approve_report(w, u, t) PROVE RequestIsFresh(r)
  <2>1. PICK e : Prepare(w, t, "UPDATE", ReportApproval, None, None, "YES", e)
    BY <1>4 DEF approve_report, PrepareUpdate
  <2>2. /\ report[t] # None
        /\ <<report[t].status, "APPROVED">> \in EXPENSE_ALLOWED_TRANSITIONS
        /\ <<trip[t].status, "SETTLED">> \in ALLOWED_TRANSITIONS
    BY <1>4 DEF approve_report, load_visible_report, assert_report_transition,
                assert_expense_transition_allowed, assert_system_transition
  <2>3. report[t].status = "SUBMITTED" /\ trip[t].status = "COMPLETED"
    BY <2>2 DEF EXPENSE_ALLOWED_TRANSITIONS, ALLOWED_TRANSITIONS
  <2>4. PICK new : new = FlushedRow(ReportApproval, report[t])
    OBVIOUS
  <2>5. /\ new.status = "APPROVED" /\ ReportFits(t, new, item)
        /\ new.total = report[t].total /\ new.centers = report[t].centers
    BY <1>1, <2>2, <2>3, <2>4, ReportDecisionsFit
  <2>6. FreshStep(t, report[t].status, new.status, "YES")
    BY <2>2, <2>3, <2>5 DEF FreshStep
  <2> QED
    BY <1>0, <2>1, <2>4, <2>5, <2>6, UpdateFresh
<1>5. ASSUME NEW u \in Users, NEW t \in TripIds, reject_report(w, u, t) PROVE RequestIsFresh(r)
  <2>1. PICK e : Prepare(w, t, "UPDATE", ReportRejection, None, None, "NO", e)
    BY <1>5 DEF reject_report, PrepareUpdate
  <2>2. /\ report[t] # None
        /\ <<report[t].status, "REJECTED">> \in EXPENSE_ALLOWED_TRANSITIONS
    BY <1>5 DEF reject_report, load_visible_report, assert_report_transition,
                assert_expense_transition_allowed
  <2>3. report[t].status = "SUBMITTED"
    BY <2>2 DEF EXPENSE_ALLOWED_TRANSITIONS
  <2>4. PICK new : new = FlushedRow(ReportRejection, report[t])
    OBVIOUS
  <2>5. /\ new.status = "REJECTED" /\ ReportFits(t, new, item)
        /\ new.total = report[t].total /\ new.centers = report[t].centers
    BY <1>1, <2>2, <2>3, <2>4, ReportDecisionsFit
  <2>6. FreshStep(t, report[t].status, new.status, "NO")
    BY <2>2, <2>3, <2>5 DEF FreshStep
  <2> QED
    BY <1>0, <2>1, <2>4, <2>5, <2>6, UpdateFresh
<1>6. ASSUME NEW u \in Users, NEW t \in TripIds, reopen_report(w, u, t) PROVE RequestIsFresh(r)
  <2>1. PICK e : Prepare(w, t, "UPDATE", ReportReopening(report[t]), None, None, "NO", e)
    BY <1>6 DEF reopen_report, PrepareUpdate
  <2>2. /\ report[t] # None
        /\ <<report[t].status, "DRAFT">> \in EXPENSE_ALLOWED_TRANSITIONS
    BY <1>6 DEF reopen_report, load_visible_report, assert_report_transition,
                assert_expense_transition_allowed
  <2>3. report[t].status = "REJECTED"
    BY <2>2 DEF EXPENSE_ALLOWED_TRANSITIONS
  <2>4. PICK new : new = FlushedRow(ReportReopening(report[t]), report[t])
    OBVIOUS
  <2>5. new.status = "DRAFT" /\ ReportFits(t, new, item)
    BY <1>1, <2>2, <2>4, ReportReopeningFits
  <2>6. FreshStep(t, report[t].status, new.status, "NO")
    BY <2>2, <2>3, <2>5 DEF FreshStep
  <2>7. report[t].status \notin {"SUBMITTED", "APPROVED"}
    BY <2>3
  <2> QED
    BY <1>0, <2>1, <2>4, <2>5, <2>6, <2>7, UpdateFresh
<1>7. ASSUME NEW t \in TripIds, NEW op \in {"SUBMIT", "ADD"}, Load(w, t, op, None),
             report[t].status \in EXPENSE_EDITABLE_STATUSES,
             op = "SUBMIT" => report[t].status = "DRAFT"
      PROVE  RequestIsFresh(r)
  <2>1. r.phase = "LOADED" /\ r.trip = t /\ r.op = op /\ r.loaded = report[t]
    BY <1>0, <1>7, LoadedFields
  <2> QED
    BY <1>7, <2>1 DEF RequestIsFresh, FreshLoaded
<1>8. ASSUME NEW u \in Users, NEW t \in TripIds, submit_report_load(w, u, t)
      PROVE  RequestIsFresh(r)
  <2>1. Load(w, t, "SUBMIT", None) /\ report[t].status = "DRAFT"
    BY <1>8 DEF submit_report_load, assert_report_transition, assert_expense_transition_allowed,
                EXPENSE_ALLOWED_TRANSITIONS
  <2> QED
    BY <1>7, <2>1 DEF EXPENSE_EDITABLE_STATUSES
<1>9. ASSUME NEW u \in Users, NEW t \in TripIds, add_item_load(w, u, t) PROVE RequestIsFresh(r)
  BY <1>7, <1>9 DEF add_item_load, _load_editable_report
<1>10. ASSUME NEW u \in Users, NEW t \in TripIds, _load_item_for_edit(w, u, t)
       PROVE  RequestIsFresh(r)
  <2>1. PICK i \in Items(t, item), op \in {"EDIT", "DELETE"} :
          Load(w, t, op, i) /\ report[t].status \in EXPENSE_EDITABLE_STATUSES
    BY <1>10 DEF _load_item_for_edit, _load_editable_report
  <2>2. i # None /\ item[i].report = t
    BY DEF Items
  <2>3. /\ r.phase = "LOADED" /\ r.trip = t /\ r.op = op /\ r.loaded = report[t]
        /\ r.item = i /\ r.was = item[i]
    BY <1>0, <2>1, <2>2, LoadedFields
  <2> QED
    BY <2>1, <2>2, <2>3 DEF RequestIsFresh, FreshLoaded
<1>11. ASSUME Loaded(w) PROVE FreshLoaded(report_work[w])
  BY <1>11 DEF ReportSerialInv, RequestsFresh, RequestIsFresh, Loaded
<1>12. CASE submit_report(w)
  <2>1. PICK t, loaded, total, m :
          /\ t = report_work[w].trip /\ loaded = report_work[w].loaded
          /\ total = _recalc_total(t, item) /\ m = trip[t].approver
    OBVIOUS
  <2>2. /\ Loaded(w) /\ report_work[w].op = "SUBMIT"
        /\ trip[t].status = "COMPLETED" /\ loaded.centers = "SET" /\ Included(t, item) # {}
        /\ assert_report_total(total) /\ m # None
        /\ \E e : Prepare(w, t, "UPDATE", ReportSubmission(loaded, total, m), None, None, "NO", e)
    BY <1>12, <2>1 DEF submit_report, assert_trip_completed, assert_centers_present
  <2>3. /\ t \in TripIds /\ loaded \in ReportRow /\ m \in Users
        /\ loaded = report[t] /\ loaded.status = "DRAFT"
    BY <1>11, <2>1, <2>2, LoadedType DEF FreshLoaded, TripRow
  <2>4. total \in 0..MAX_REPORT_TOTAL /\ total = sum_included(t, item)
    <3>1. total \in Nat /\ total = sum_included(t, item)
      BY <1>0, <2>1, TotalType DEF _recalc_total, ReportTypeOK
    <3> QED
      BY <2>2, <3>1 DEF assert_report_total
  <2>5. ReportFits(t, loaded, item)
    BY <1>1, <2>3, NullIsNoReport
  <2>6. PICK new : new = FlushedRow(ReportSubmission(loaded, total, m), loaded)
    OBVIOUS
  <2>7. new.status = "SUBMITTED" /\ ReportFits(t, new, item)
    BY <2>1, <2>2, <2>3, <2>4, <2>5, <2>6, ReportSubmissionFits
  <2>8. FreshStep(t, loaded.status, new.status, "NO")
    BY <2>2, <2>3, <2>7 DEF FreshStep, EXPENSE_ALLOWED_TRANSITIONS
  <2>9. loaded.status \notin {"SUBMITTED", "APPROVED"}
    BY <2>3
  <2> QED
    BY <1>0, <2>2, <2>3, <2>6, <2>7, <2>8, <2>9, UpdateFresh
<1>13. CASE add_item(w)
  <2>1. PICK i \in ItemIds, a \in Amounts :
          /\ item[i] = None
          /\ FlushItem(w, i, [report |-> report_work[w].trip, amount |-> a, is_excluded |-> "NO"])
    BY <1>13 DEF add_item
  <2>2. PICK row : row = [report |-> report_work[w].trip, amount |-> a, is_excluded |-> "NO"]
    OBVIOUS
  <2>3. Loaded(w) /\ row \in ItemRow /\ row.report = report_work[w].trip
    <3>1. Loaded(w)
      BY <1>13 DEF add_item
    <3> QED
      BY <2>2, <3>1, LoadedType DEF ItemRow
  <2>4. FreshItem(report_work[w].trip, i, row)
    BY <2>1, <2>3, NeitherIsAnItem DEF FreshItem, Belongs
  <2> QED
    BY <2>1, <2>2, <2>3, <2>4, FlushFresh
<1>14. CASE update_item(w)
  <2>0. PICK i, was : i = report_work[w].item /\ was = report_work[w].was
    OBVIOUS
  <2> DEFINE changes(a, x) == [report |-> Keep, amount |-> Dirty(was.amount, a),
                               is_excluded |-> Dirty(was.is_excluded, x)]
  <2>9. PICK a \in Amounts, x \in {"NO", "YES"} :
          \/ FlushItem(w, None, None)
          \/ FlushItem(w, i, FlushedRow(changes(a, x), item[i]))
    BY <1>14, <2>0 DEF update_item
  <2>1. PICK set : set = changes(a, x)
    OBVIOUS
  <2>2. /\ Loaded(w) /\ i \in ItemIds /\ was \in ItemRow
        /\ item[i] = was /\ was.report = report_work[w].trip
    <3>1. Loaded(w) /\ report_work[w].op = "EDIT"
      BY <1>14 DEF update_item
    <3> QED
      BY <1>11, <2>0, <3>1, LoadedType DEF FreshLoaded
  <2>3. CASE FlushItem(w, None, None)
    <3>1. FreshItem(report_work[w].trip, None, None)
      BY DEF FreshItem
    <3> QED
      BY <2>2, <2>3, <3>1, FlushFresh
  <2>4. CASE FlushItem(w, i, FlushedRow(set, item[i]))
    <3>1. PICK row : row = FlushedRow(set, item[i])
      OBVIOUS
    <3>2. row \in ItemRow /\ row.report = report_work[w].trip
      BY <2>1, <2>2, <3>1 DEF FlushedRow, Column, Dirty, ItemRow
    <3>3. FreshItem(report_work[w].trip, i, row)
      BY <2>2, <3>2, NeitherIsAnItem DEF FreshItem, Belongs
    <3> QED
      BY <2>2, <2>4, <3>1, <3>2, <3>3, FlushFresh
  <2> QED
    BY <2>9, <2>1, <2>3, <2>4
<1>15. CASE delete_item(w)
  <2>1. PICK i : i = report_work[w].item
    OBVIOUS
  <2>2. Loaded(w) /\ report_work[w].op = "DELETE" /\ FlushItem(w, i, Gone)
    BY <1>15, <2>1 DEF delete_item
  <2>3. i \in ItemIds /\ item[i] \in ItemRow /\ item[i].report = report_work[w].trip
    BY <1>11, <2>1, <2>2, LoadedType DEF FreshLoaded
  <2>4. FreshItem(report_work[w].trip, i, Gone)
    BY <2>3, NeitherIsAnItem DEF FreshItem, Belongs
  <2> QED
    BY <2>2, <2>3, <2>4, FlushFresh
<1> QED
  BY <1>2, <1>3, <1>4, <1>5, <1>6, <1>8, <1>9, <1>10, <1>12, <1>13, <1>14, <1>15
     DEF ReportRequest

\* A request on a report that goes on stays on its trip; one that starts does so
\* when it may.  Nobody flushes an item that somebody else has flushed.
BeginsWell(w, r) ==
  /\ (~Idle(w) /\ r.trip = report_work[w].trip) \/ MayStart(w, r.trip)
  /\ r.phase = "READY" /\ r.item # None => ~ItemLocked(r.item)

\* Every handler of a report does.
LEMMA ReportHandlersBegin ==
  ASSUME ReportTypes, NEW w \in ReportWorkers, ReportRequest(w), NEW r, r = report_work'[w]
  PROVE  BeginsWell(w, r)
<1>0. ReportTypeOK
  BY DEF ReportTypes
<1>1. ASSUME NEW t, NEW kind, NEW set, NEW settle, NEW e, MayStart(w, t),
             Prepare(w, t, kind, set, None, None, settle, e)
      PROVE  BeginsWell(w, r)
  <2>1. r.trip = t /\ r.item = None
    BY <1>0, <1>1, ReadyFields
  <2> QED
    BY <1>1, <2>1 DEF BeginsWell
<1>2. ASSUME NEW t, NEW op, NEW i, Load(w, t, op, i) PROVE BeginsWell(w, r)
  <2>1. r.trip = t /\ r.phase = "LOADED"
    BY <1>0, <1>2, LoadedFields
  <2> QED
    BY <1>2, <2>1 DEF Load, BeginsWell
<1>3. ASSUME NEW t, NEW set, NEW i, NEW row, NEW settle, NEW e,
             Loaded(w), t = report_work[w].trip, i # None => ~ItemLocked(i),
             Prepare(w, t, "UPDATE", set, i, row, settle, e)
      PROVE  BeginsWell(w, r)
  <2>1. r.trip = t /\ r.item = i
    BY <1>0, <1>3, ReadyFields
  <2> QED
    BY <1>3, <2>1 DEF Loaded, BeginsWell
<1>4. ASSUME NEW i, NEW row, Loaded(w), i # None => ~ItemLocked(i), FlushItem(w, i, row)
      PROVE  BeginsWell(w, r)
  <2>1. PICK t : t = report_work[w].trip
    OBVIOUS
  <2>2. \E set : Prepare(w, t, "UPDATE", set, i, row, "NO", None)
    BY <1>4, <2>1 DEF FlushItem
  <2> QED
    BY <1>3, <1>4, <2>1, <2>2
<1>5. ASSUME NEW u, NEW t, create_report(w, u, t) PROVE BeginsWell(w, r)
  BY <1>1, <1>5 DEF create_report
<1>6. ASSUME NEW u, NEW t, update_report(w, u, t) PROVE BeginsWell(w, r)
  BY <1>1, <1>6 DEF update_report, PrepareUpdate
<1>7. ASSUME NEW u, NEW t, approve_report(w, u, t) \/ reject_report(w, u, t) \/ reopen_report(w, u, t)
      PROVE  BeginsWell(w, r)
  BY <1>1, <1>7 DEF approve_report, reject_report, reopen_report, PrepareUpdate
<1>8. ASSUME NEW u, NEW t,
             submit_report_load(w, u, t) \/ add_item_load(w, u, t) \/ _load_item_for_edit(w, u, t)
      PROVE  BeginsWell(w, r)
  BY <1>2, <1>8 DEF submit_report_load, add_item_load, _load_item_for_edit
<1>9. CASE submit_report(w)
  <2>1. PICK t, loaded, total, m :
          /\ t = report_work[w].trip /\ loaded = report_work[w].loaded
          /\ total = _recalc_total(t, item) /\ m = trip[t].approver
    OBVIOUS
  <2>2. /\ Loaded(w)
        /\ \E e : Prepare(w, t, "UPDATE", ReportSubmission(loaded, total, m), None, None, "NO", e)
    BY <1>9, <2>1 DEF submit_report
  <2> QED
    BY <1>3, <2>1, <2>2
<1>10. CASE add_item(w)
  <2>1. PICK i \in ItemIds : Loaded(w) /\ ~ItemLocked(i) /\ \E row : FlushItem(w, i, row)
    BY <1>10 DEF add_item
  <2> QED
    BY <1>4, <2>1
<1>11. CASE update_item(w)
  <2>1. PICK i : i = report_work[w].item
    OBVIOUS
  <2>2. /\ Loaded(w)
        /\ FlushItem(w, None, None) \/ (~ItemLocked(i) /\ \E row : FlushItem(w, i, row))
    BY <1>11, <2>1 DEF update_item
  <2> QED
    BY <1>4, <2>2
<1>13. CASE delete_item(w)
  <2>1. PICK i : i = report_work[w].item
    OBVIOUS
  <2>2. Loaded(w) /\ ~ItemLocked(i) /\ FlushItem(w, i, Gone)
    BY <1>13, <2>1 DEF delete_item
  <2> QED
    BY <1>4, <2>2
<1> QED
  BY <1>5, <1>6, <1>7, <1>8, <1>9, <1>10, <1>11, <1>13 DEF ReportRequest

\* A request on a report that starts or goes on keeps the invariant.
LEMMA HandOverReportSerial ==
  ASSUME Isolated, ReportTypes, ReportSerialInv, NEW w \in ReportWorkers, ReportRequest(w)
  PROVE  ReportSerialInv'
<1>1. PICK r : r = report_work'[w]
  OBVIOUS
<1>2. /\ HandsOver(w) /\ RequestIsFresh(r)
      /\ (~Idle(w) /\ r.trip = report_work[w].trip) \/ MayStart(w, r.trip)
      /\ r.phase = "READY" /\ r.item # None => ~ItemLocked(r.item)
  BY <1>1, ReportHandlersHandOver, ReportHandlersFresh, ReportHandlersBegin DEF BeginsWell
<1>3. /\ \A v \in ReportWorkers : v # w => report_work'[v] = report_work[v]
      /\ work' = work /\ trip' = trip /\ log' = log /\ today' = today
      /\ report' = report /\ item' = item
  BY <1>2 DEF HandsOver, ReportTypes, ReportTypeOK, vars, reportTables
<1>4. ReportTypes'
  BY <1>2, HandOverTypes
<1>5. SerialInv'
  BY <1>3, SerialStays DEF ReportSerialInv
<1>6. Alone'
  <2>1. CASE ~Idle(w) /\ r.trip = report_work[w].trip
    BY <1>1, <1>3, <2>1 DEF ReportSerialInv, Alone, Idle, Busy
  <2>2. CASE MayStart(w, r.trip)
    BY <1>1, <1>3, <2>2 DEF ReportSerialInv, Alone, Idle, Busy, MayStart
  <2> QED
    BY <1>2, <2>1, <2>2
<1>7. ItemsAlone'
  BY <1>1, <1>2, <1>3 DEF ReportSerialInv, ItemsAlone, Ready, Idle, ItemLocked
<1>8. ItemsHaveReports' /\ ReportsFit'
  BY <1>3 DEF ReportSerialInv, ItemsHaveReports, ReportsFit, ReportFits
<1>9. RequestsFresh'
  <2> SUFFICES ASSUME NEW v \in ReportWorkers, ~Idle(v)' PROVE RequestIsFresh(report_work[v])'
    BY DEF RequestsFresh
  <2>1. \A t : SameItems(t, item, item')
    BY <1>3 DEF SameItems
  <2>2. CASE v = w
    <3>1. r \in LoadedWork \cup ReadyWork /\ WorkFits(r)
      BY <1>1, <1>2 DEF HandsOver
    <3>2. /\ r.phase = "LOADED" /\ r.op \in {"EDIT", "DELETE"} =>
               r.item \in ItemIds /\ r.was \notin {None, Gone}
          /\ r.phase = "READY" /\ r.kind = "UPDATE" => r.item \in ItemIds \cup {None}
      BY <3>1, NeitherIsAnItem DEF LoadedWork, ReadyWork, WorkFits
    <3>3. RequestIsFresh(r)'
      BY <1>2, <1>3, <1>4, <2>1, <3>2, FreshStays DEF ReportTypes
    <3> QED
      BY <1>1, <2>2, <3>3, FreshOfRequest
  <2>3. CASE v # w
    <3>1. ~Idle(v) /\ report_work'[v] = report_work[v]
      BY <1>3, <2>3 DEF Idle
    <3>2. PICK t : t = report_work[v].trip
      OBVIOUS
    <3> QED
      BY <1>3, <1>4, <2>1, <3>1, <3>2, OtherStaysFresh DEF ReportTypes, ReportSerialInv
  <2> QED
    BY <2>2, <2>3
<1> QED
  BY <1>5, <1>6, <1>7, <1>8, <1>9 DEF ReportSerialInv

\* The settlement of a completed trip that no request of the trip service works
\* on.
LEMMA SettlesSerial ==
  ASSUME TypeOK, SerialInv, NEW t \in TripIds, trip[t] # None, trip[t].status = "COMPLETED",
         NEW e \in ReportEntry, Settles(t, e), UNCHANGED <<environment, work>>,
         \A w \in Workers : Busy(w) => work[w].trip # t
  PROVE  /\ SerialInv'
         /\ trip'[t].status = "SETTLED" /\ trip'[t].approver = trip[t].approver
<1>1. PICK x : x = record_transition(e.actor, "SETTLED", "COMPLETED", "SETTLED", None)
  OBVIOUS
<1>2. /\ x \in Entry /\ WriteLog(t, x) /\ x.from = "COMPLETED" /\ x.to = "SETTLED"
      /\ trip'[t] \in TripRow
      /\ \A q \in TripIds : q # t => trip'[q] = trip[q] /\ log'[q] = log[q]
      /\ today' = today /\ work' = work
  <2>1. /\ x \in Entry /\ WriteLog(t, x) /\ trip'[t] \in TripRow
        /\ \A q \in TripIds : q # t => trip'[q] = trip[q]
    BY <1>1, SettlesType DEF Settles
  <2>2. x.from = "COMPLETED" /\ x.to = "SETTLED"
    BY <1>1 DEF record_transition
  <2> QED
    BY <2>1, <2>2, LogGrows DEF environment
<1>3. /\ trip[t] \in TripRow
      /\ trip'[t] = Flushed(Settling, trip[t])
      /\ trip'[t].status = "SETTLED" /\ trip'[t].approver = trip[t].approver
  <2>1. trip[t] \in TripRow /\ trip'[t] = Flushed(Settling, trip[t])
    BY DEF Settles, TypeOK
  <2> QED
    BY <2>1 DEF Flushed, Settling, NoChange, Column, TripStatuses
<1>4. RowFits(trip[t])'
  <2>1. RowFits(trip'[t])
    BY <1>3, DecisionsFit DEF SerialInv
  <2> QED
    BY <1>2, <2>1 DEF RowFits, DatesFit
<1>5. ChainAt(t)'
  <2>1. ChainAt(t) /\ log[t][Len(log[t])].to = "COMPLETED"
    BY DEF SerialInv, ChainAt
  <2>2. trip'[t] # None
    BY <1>2, NullIsNoRow
  <2> QED
    BY <1>2, <1>3, <2>1, <2>2, ChainGrows
<1>6. WorkIsFresh'
  <2> SUFFICES ASSUME NEW v \in Workers, Busy(v)'
               PROVE  Fresh(work[v].trip, work[v].kind, work[v].set, work[v].entry)'
    BY DEF WorkIsFresh
  <2>1. Busy(v) /\ work[v].trip # t /\ work[v].trip \in TripIds
    BY <1>2, WorkType DEF Busy
  <2>2. Fresh(work[v].trip, work[v].kind, work[v].set, work[v].entry)
    BY <2>1 DEF SerialInv, WorkIsFresh
  <2> QED
    BY <1>2, <2>1, <2>2 DEF Fresh, FreshUpdate, RowFits, DatesFit
<1>7. OneRequestPerTrip'
  BY <1>2 DEF SerialInv, OneRequestPerTrip, Busy
<1>8. \A q \in TripIds : q # t => ChainAt(q)' /\ (trip'[q] # None => RowFits(trip[q])')
  BY <1>2 DEF SerialInv, ChainAt, RowFits, DatesFit
<1> QED
  BY <1>3, <1>4, <1>5, <1>6, <1>7, <1>8 DEF SerialInv

\* The end of a request on a report keeps the invariant: it writes what it
\* decided, on the rows it decided it on.
LEMMA ReportCommitSerial ==
  ASSUME ReportTypes, ReportSerialInv, NEW w \in ReportWorkers, CommitReport(w) \/ RollbackReport(w)
  PROVE  ReportSerialInv'
<1>1. /\ ~Idle(w) /\ UNCHANGED <<environment, work>>
      /\ report_work' = [report_work EXCEPT ![w] = None]
  BY ReportCommitEffect DEF FinishReport
<1>2. /\ \A v \in ReportWorkers : ~Idle(v)' => v # w /\ ~Idle(v) /\ report_work'[v] = report_work[v]
      /\ work' = work /\ today' = today
  BY <1>1 DEF ReportTypes, ReportTypeOK, Idle, environment
<1>3. ReportTypeOK' /\ TypeOK'
  BY ReportCommitTypes DEF ReportTypes
<1>4. Alone' /\ ItemsAlone'
  BY <1>2 DEF ReportSerialInv, Alone, ItemsAlone, Busy, Ready
<1>5. PICK t \in TripIds : t = report_work[w].trip
  BY <1>1, RequestTypes
<1>6. \A v \in ReportWorkers : v # w /\ ~Idle(v) => report_work[v].trip # t /\ report_work[v].trip \in TripIds
  BY <1>1, <1>5, RequestTypes DEF ReportSerialInv, Alone
<1>7. \A v \in Workers : Busy(v) => work[v].trip # t
  BY <1>1, <1>5 DEF ReportSerialInv, Alone
<1>8. ASSUME UNCHANGED tables PROVE SerialInv'
  BY <1>2, <1>8, SerialStays DEF ReportSerialInv, tables
<1>9. ASSUME \A q \in TripIds : q # t =>
               trip'[q] = trip[q] /\ report'[q] = report[q] /\ SameItems(q, item, item'),
             \A v \in ReportWorkers : v # w /\ Ready(v) /\ report_work[v].item # None =>
               item'[report_work[v].item] = item[report_work[v].item]
      PROVE  /\ RequestsFresh'
             /\ \A q \in TripIds : q # t /\ report'[q] # None => ReportFits(q, report[q], item)'
             /\ \A q \in TripIds : q # t /\ report'[q] = None => Items(q, item') = {}
  <2>1. RequestsFresh'
    <3> SUFFICES ASSUME NEW v \in ReportWorkers, ~Idle(v)' PROVE RequestIsFresh(report_work[v])'
      BY DEF RequestsFresh
    <3>1. v # w /\ ~Idle(v) /\ report_work'[v] = report_work[v]
      BY <1>2
    <3>2. PICK q \in TripIds : q = report_work[v].trip /\ q # t
      BY <1>6, <3>1
    <3> QED
      BY <1>3, <1>9, <3>1, <3>2, OtherStaysFresh DEF ReportSerialInv
  <2>2. ASSUME NEW q \in TripIds, q # t, report'[q] # None PROVE ReportFits(q, report[q], item)'
    <3>1. ReportFits(q, report[q], item) /\ report'[q] = report[q] /\ trip'[q] = trip[q]
      BY <1>9, <2>2 DEF ReportSerialInv, ReportsFit
    <3>2. Included(q, item) = Included(q, item') /\ sum_included(q, item) = sum_included(q, item')
      BY <1>9, <2>2, SameItemsSame
    <3> QED
      BY <3>1, <3>2 DEF ReportFits
  <2>3. ASSUME NEW q \in TripIds, q # t, report'[q] = None PROVE Items(q, item') = {}
    BY <1>9, <2>3, SameItemsSame DEF ReportSerialInv, ItemsHaveReports
  <2> QED
    BY <2>1, <2>2, <2>3
<1>10. ASSUME SerialInv', RequestsFresh',
              \A q \in TripIds : q # t /\ report'[q] # None => ReportFits(q, report[q], item)',
              \A q \in TripIds : q # t /\ report'[q] = None => Items(q, item') = {},
              report'[t] # None => ReportFits(t, report[t], item)',
              report'[t] = None => Items(t, item') = {}
       PROVE  ReportSerialInv'
  BY <1>4, <1>10 DEF ReportSerialInv, ReportsFit, ItemsHaveReports
<1>11. CASE UNCHANGED <<tables, reportTables>>
  <2>1. SerialInv' /\ UNCHANGED <<trip, report, item>>
    BY <1>8, <1>11 DEF tables, reportTables
  <2>2. \A q : SameItems(q, item, item')
    BY <2>1 DEF SameItems
  <2>3. /\ report'[t] # None => ReportFits(t, report[t], item)'
        /\ report'[t] = None => Items(t, item') = {}
    BY <2>1 DEF ReportSerialInv, ReportsFit, ReportFits, ItemsHaveReports
  <2> QED
    BY <1>9, <1>10, <2>1, <2>2, <2>3
<1>12. ASSUME Ready(w), report_work[w].kind = "INSERT",
              NEW set, set = report_work[w].set,
              NEW e, e = report_work[w].entry, InsertsReport(t, set, e)
       PROVE  ReportSerialInv'
  <2>1. FreshInsert(t, set)
    BY <1>1, <1>5, <1>12 DEF ReportSerialInv, RequestsFresh, RequestIsFresh, Ready
  <2>2. /\ SerialInv' /\ trip' = trip /\ item' = item
        /\ report'[t] = set /\ \A q \in TripIds : q # t => report'[q] = report[q]
    BY <1>8, <1>12 DEF InsertsReport, tables, ReportTypes, ReportTypeOK
  <2>3. \A q : SameItems(q, item, item')
    BY <2>2 DEF SameItems
  <2>4. sum_included(t, item) = 0
    <3>1. Items(t, item) = {}
      BY <2>1 DEF ReportSerialInv, ItemsHaveReports, FreshInsert
    <3> QED
      BY <3>1, EmptySum
  <2>5. ReportFits(t, report[t], item)'
    BY <2>1, <2>2, <2>4 DEF ReportFits, FreshInsert
  <2>6. report'[t] # None
    BY <1>12, <2>2, ReadyType, NullIsNoReport
  <2> QED
    BY <1>9, <1>10, <2>2, <2>3, <2>5, <2>6
<1>13. ASSUME Ready(w), report_work[w].kind = "UPDATE",
              NEW set, set = report_work[w].set,
              NEW i, i = report_work[w].item, NEW row, row = report_work[w].row,
              NEW settle, settle = report_work[w].settle,
              NEW e, e = report_work[w].entry, UpdatesReport(t, set, i, row, settle, e)
       PROVE  ReportSerialInv'
  <2>1. /\ set \in ReportChange /\ i \in ItemIds \cup {None}
        /\ settle = "YES" => e \in ReportEntry
        /\ report[t] \in ReportRow /\ trip[t] # None
    BY <1>5, <1>13, ReadyType DEF ReportTypes, ReportTypeOK, ReportsHaveTrips
  <2>2. PICK new : new = FlushedRow(set, report[t])
    OBVIOUS
  <2>3. /\ FreshStep(t, report[t].status, new.status, settle)
        /\ FreshItem(t, i, row)
        /\ ReportFits(t, new, Tabled(i, row))
    <3>1. FreshReportUpdate(t, set, i, row, settle)
      BY <1>1, <1>5, <1>13 DEF ReportSerialInv, RequestsFresh, RequestIsFresh, Ready
    <3> QED
      BY <2>2, <3>1 DEF FreshReportUpdate
  <2>4. /\ item' = Tabled(i, row)
        /\ report'[t] = new /\ \A q \in TripIds : q # t => report'[q] = report[q]
        /\ new # None
    <3>1. new \in ReportRow
      BY <2>1, <2>2, FlushedReport
    <3> QED
      BY <1>13, <2>2, <3>1, NullIsNoReport DEF UpdatesReport, Tabled, ReportTypes, ReportTypeOK
  <2>5. /\ SerialInv' /\ \A q \in TripIds : q # t => trip'[q] = trip[q]
        /\ trip'[t].status = trip[t].status \/ trip'[t].status = "SETTLED"
        /\ trip'[t].approver = trip[t].approver
    <3>1. CASE settle = "YES"
      <4>1. trip[t].status = "COMPLETED" /\ e \in ReportEntry /\ Settles(t, e) /\ TypeOK /\ SerialInv
        BY <1>13, <2>1, <2>3, <3>1 DEF FreshStep, UpdatesReport, ReportTypes, ReportSerialInv
      <4>2. \A q \in TripIds : q # t => trip'[q] = trip[q]
        BY <1>1, <2>1, <4>1, SettlesType
      <4> QED
        BY <1>1, <1>7, <2>1, <4>1, <4>2, SettlesSerial
    <3>2. CASE settle # "YES"
      BY <1>8, <1>13, <3>2 DEF UpdatesReport, tables
    <3> QED
      BY <3>1, <3>2
  <2>6. \A q \in TripIds : q # t => SameItems(q, item, item')
    BY <2>3, <2>4 DEF SameItems, Tabled, FreshItem, Belongs, ReportTypes, ReportTypeOK
  <2>7. ASSUME NEW v \in ReportWorkers, v # w, Ready(v), report_work[v].item # None
        PROVE  item'[report_work[v].item] = item[report_work[v].item]
    <3>1. report_work[v].item # i
      BY <1>13, <2>7 DEF ReportSerialInv, ItemsAlone
    <3>2. DOMAIN item = ItemIds
      BY DEF ReportTypes, ReportTypeOK
    <3> QED
      BY <2>4, <3>1, <3>2 DEF Tabled
  <2>8. ReportFits(t, report[t], item)'
    BY <2>3, <2>4, <2>5 DEF ReportFits
  <2> QED
    BY <1>9, <1>10, <2>4, <2>5, <2>6, <2>7, <2>8
<1> QED
  BY <1>5, <1>11, <1>12, <1>13, ReportCommitEffect

\* The invariant holds initially and every step keeps it.
LEMMA ReportSerialInit == ExpenseInit => ReportSerialInv
<1> SUFFICES ASSUME ExpenseInit PROVE ReportSerialInv
  OBVIOUS
<1>1. SerialInv
  BY SerialInit DEF ExpenseInit
<1>2. \A w \in ReportWorkers : Idle(w)
  BY DEF ExpenseInit, Idle
<1>3. \A t \in TripIds : report[t] = None /\ Items(t, item) = {}
  BY DEF ExpenseInit, Items
<1> QED
  BY <1>1, <1>2, <1>3 DEF ReportSerialInv, Alone, ItemsAlone, ItemsHaveReports, ReportsFit,
                          RequestsFresh, Ready

\* Every step of both services keeps it: a request that begins finds its trip
\* free, one that ends writes what is still right.
LEMMA ReportSerialStep ==
  ASSUME Isolated, ReportTypes, TripWorkServes, ReportSerialInv, [ExpenseNext]_allVars
  PROVE  ReportSerialInv'
<1>1. CASE TripService
  BY <1>1, TripServiceReportSerial
<1>2. ASSUME NEW w \in ReportWorkers, ReportRequest(w) PROVE ReportSerialInv'
  BY <1>2, HandOverReportSerial
<1>3. ASSUME NEW w \in ReportWorkers, CommitReport(w) \/ RollbackReport(w) PROVE ReportSerialInv'
  BY <1>3, ReportCommitSerial
<1>4. CASE UNCHANGED allVars
  <2>1. /\ report_work' = report_work /\ work' = work /\ trip' = trip /\ log' = log
        /\ today' = today /\ report' = report /\ item' = item
    BY <1>4 DEF allVars, vars, reportTables
  <2>2. SerialInv'
    BY <2>1, SerialStays DEF ReportSerialInv
  <2>3. Alone' /\ ItemsAlone' /\ ItemsHaveReports' /\ ReportsFit'
    BY <2>1 DEF ReportSerialInv, Alone, ItemsAlone, ItemsHaveReports, ReportsFit, ReportFits,
                Busy, Idle, Ready
  <2>4. RequestsFresh'
    <3> SUFFICES ASSUME NEW v \in ReportWorkers, ~Idle(v)' PROVE RequestIsFresh(report_work[v])'
      BY DEF RequestsFresh
    <3>1. ~Idle(v) /\ ReportTypeOK'
      BY <1>4, <2>1 DEF Idle, ReportTypes, ReportTypeOK, reportTables, allVars
    <3>2. PICK t : t = report_work[v].trip
      OBVIOUS
    <3>3. SameItems(t, item, item')
      BY <2>1 DEF SameItems
    <3> QED
      BY <2>1, <3>1, <3>2, <3>3, OtherStaysFresh DEF ReportSerialInv
  <2> QED
    BY <2>2, <2>3, <2>4 DEF ReportSerialInv
<1> QED
  BY <1>1, <1>2, <1>3, <1>4 DEF ExpenseNext

\* The inductive invariant of requests that do not overlap on a trip.
THEOREM ReportSerialCorrect ==
  ASSUME Isolated
  PROVE  ExpenseSpec => [](ReportTypes /\ TripWorkServes /\ ReportSerialInv)
<1>1. ReportTypes /\ TripWorkServes /\ ReportSerialInv /\ [ExpenseNext]_allVars => ReportSerialInv'
  BY ReportSerialStep
<1>2. SettlementInv => TripWorkServes
  BY DEF SettlementInv
<1> QED
  BY <1>1, <1>2, ReportSerialInit, SettlementCorrect, PTL DEF ExpenseSpec

\* When requests on one trip do not overlap, the denormalized total of a report
\* is the sum of its items that are not excluded, as the comment on the column
\* demands (models/expense.py) and _recalc_total keeps it.
THEOREM TotalsAreSums ==
  ASSUME Isolated
  PROVE  ExpenseSpec => []TotalIsSumOfItems
<1>1. ReportSerialInv => TotalIsSumOfItems
  BY DEF ReportSerialInv, ReportsFit, ReportFits, TotalIsSumOfItems
<1> QED
  BY <1>1, ReportSerialCorrect, PTL

\* When requests on one trip do not overlap, a report that was submitted has both
\* centers and an item to pay, its trip is over, and its approver is the trip's
\* (submit_report).
THEOREM SubmissionsAreComplete ==
  ASSUME Isolated
  PROVE  ExpenseSpec => []SubmittedReportsAreComplete
<1>1. ReportSerialInv => SubmittedReportsAreComplete
  BY DEF ReportSerialInv, ReportsFit, ReportFits, SubmittedReportsAreComplete
<1> QED
  BY <1>1, ReportSerialCorrect, PTL

\* When requests on one trip do not overlap, the two timestamps and the reject
\* reason of a report say what its status says (submit_report, approve_report,
\* reject_report, reopen_report).
THEOREM ReportColumnsFollowTheStatus ==
  ASSUME Isolated
  PROVE  ExpenseSpec => []ReportColumnsMatchStatus
<1>1. ReportSerialInv => ReportColumnsMatchStatus
  BY DEF ReportSerialInv, ReportsFit, ReportFits, ReportColumns, ReportColumnsMatchStatus
<1> QED
  BY <1>1, ReportSerialCorrect, PTL

\* When requests on one trip do not overlap, with reports or without, the trips
\* keep what Trips promises of them alone: the settlement of settle_trip_for_report
\* breaks neither the timeline nor the columns nor the dates.
THEOREM TripsStayInOrder ==
  ASSUME Isolated
  PROVE  ExpenseSpec => [](TimelineChain /\ ColumnsMatchStatus /\ TripsEndAfterTheyStart)
<1>1. ReportSerialInv => TimelineChain /\ ColumnsMatchStatus /\ TripsEndAfterTheyStart
  BY DEF ReportSerialInv, SerialInv, ChainAt, RowFits, ColumnsFit, DatesFit, TimelineChain,
         ColumnsMatchStatus, TripsEndAfterTheyStart
<1> QED
  BY <1>1, ReportSerialCorrect, PTL

\* What the end of a request does to one report, when requests do not overlap.
LEMMA FreshCommit ==
  ASSUME ReportTypes, ReportSerialInv, NEW w \in ReportWorkers, CommitReport(w) \/ RollbackReport(w)
  PROVE  \/ UNCHANGED <<tables, reportTables>>
         \/ \E t \in TripIds, set \in ReportRow :
              /\ FreshInsert(t, set)
              /\ report' = [report EXCEPT ![t] = set]
              /\ UNCHANGED <<tables, item>>
         \/ \E t \in TripIds, set \in ReportChange, i \in ItemIds \cup {None} : \E row, settle, e :
              /\ report[t] # None
              /\ FreshReportUpdate(t, set, i, row, settle)
              /\ settle = "YES" => e \in ReportEntry
              /\ UpdatesReport(t, set, i, row, settle, e)
<1>1. \/ UNCHANGED <<tables, reportTables>>
      \/ /\ Ready(w) /\ report_work[w].kind = "INSERT"
         /\ InsertsReport(report_work[w].trip, report_work[w].set, report_work[w].entry)
      \/ /\ Ready(w) /\ report_work[w].kind = "UPDATE"
         /\ UpdatesReport(report_work[w].trip, report_work[w].set, report_work[w].item,
                          report_work[w].row, report_work[w].settle, report_work[w].entry)
  BY ReportCommitEffect
<1>2. PICK r : r = report_work[w]
  OBVIOUS
<1>3. Ready(w) => RequestIsFresh(r) /\ r.phase = "READY" /\ r.trip \in TripIds
  BY <1>2, ReadyType DEF ReportSerialInv, RequestsFresh, Ready
<1>4. CASE Ready(w) /\ r.kind = "INSERT" /\ InsertsReport(r.trip, r.set, r.entry)
  <2>1. FreshInsert(r.trip, r.set) /\ r.set \in ReportRow
    BY <1>2, <1>3, <1>4, ReadyType DEF RequestIsFresh
  <2> QED
    BY <1>3, <1>4, <2>1 DEF InsertsReport
<1>5. CASE Ready(w) /\ r.kind = "UPDATE" /\ UpdatesReport(r.trip, r.set, r.item, r.row, r.settle, r.entry)
  <2>1. FreshReportUpdate(r.trip, r.set, r.item, r.row, r.settle)
    BY <1>3, <1>5 DEF RequestIsFresh
  <2>2. /\ r.set \in ReportChange /\ r.item \in ItemIds \cup {None} /\ report[r.trip] # None
        /\ r.settle = "YES" => r.entry \in ReportEntry
    BY <1>2, <1>5, ReadyType
  <2> QED
    BY <1>3, <1>5, <2>1, <2>2
<1> QED
  BY <1>1, <1>2, <1>4, <1>5

\* A request in progress, one that is refused and the trip service leave the
\* reports and their items alone.
LEMMA ReportsStay ==
  ASSUME ReportTypes, [ExpenseNext]_allVars
  PROVE  \/ TripService
         \/ UNCHANGED <<tables, reportTables>>
         \/ \E w \in ReportWorkers : CommitReport(w) \/ RollbackReport(w)
<1>1. ASSUME NEW w \in ReportWorkers, ReportRequest(w) PROVE UNCHANGED <<tables, reportTables>>
  BY <1>1, ReportHandlersHandOver DEF HandsOver, vars, tables
<1>2. CASE UNCHANGED allVars
  BY <1>2 DEF allVars, vars, tables
<1> QED
  BY <1>1, <1>2 DEF ExpenseNext

\* One report across a step: what the approver decides on stays.
Frozen(t) ==
  report[t] # None /\ report[t].status \in {"SUBMITTED", "APPROVED"} =>
    /\ [i \in Items(t, item) |-> item[i]] = [i \in Items(t, item') |-> item'[i]]
    /\ report'[t].total = report[t].total
    /\ report'[t].centers = report[t].centers

\* A commit on one report leaves the items of the others alone: the row it
\* flushed was an item of its own report, and is one again or is gone.
LEMMA OthersKeepItems ==
  ASSUME ReportTypes, NEW t \in TripIds, NEW q \in TripIds, q # t,
         NEW i \in ItemIds \cup {None}, NEW row, FreshItem(t, i, row)
  PROVE  SameItems(q, item, Tabled(i, row))
<1>1. CASE i = None
  BY <1>1 DEF Tabled, SameItems
<1>2. CASE i # None
  <2>1. i \in ItemIds /\ Tabled(i, row) = [item EXCEPT ![i] = row]
    BY <1>2 DEF Tabled
  <2>2. ~Belongs(q, item[i]) /\ ~Belongs(q, row)
    BY <1>2 DEF FreshItem, Belongs
  <2>3. item \in [ItemIds -> ItemRow \cup {None, Gone}]
    BY DEF ReportTypes, ReportTypeOK
  <2> QED
    BY <2>1, <2>2, <2>3 DEF SameItems
<1> QED
  BY <1>1, <1>2

\* When requests on one trip do not overlap, what the approver decides on does
\* not change under him: items, total and centers of a submitted or approved
\* report stay as they are in every step (assert_report_editable,
\* _load_editable_report).
THEOREM SubmissionsAreFrozen ==
  ASSUME Isolated
  PROVE  ExpenseSpec => SubmittedReportsAreFrozen
<1>1. ASSUME ReportTypes, ReportSerialInv, [ExpenseNext]_allVars, NEW q \in TripIds
      PROVE  Frozen(q)
  <2>1. CASE report' = report /\ item' = item
    BY <2>1 DEF Frozen
  <2>2. CASE TripService
    BY <2>1, <2>2, TripServiceStep DEF reportTables
  <2>3. CASE UNCHANGED <<tables, reportTables>>
    BY <2>1, <2>3 DEF reportTables
  <2>4. ASSUME NEW t \in TripIds, NEW set \in ReportRow, FreshInsert(t, set),
               report' = [report EXCEPT ![t] = set], item' = item
        PROVE  Frozen(q)
    BY <1>1, <2>4 DEF FreshInsert, Frozen, ReportTypes, ReportTypeOK
  <2>5. ASSUME NEW t \in TripIds, NEW set \in ReportChange, NEW i \in ItemIds \cup {None},
               NEW row, NEW settle, NEW e, report[t] # None,
               FreshReportUpdate(t, set, i, row, settle), UpdatesReport(t, set, i, row, settle, e)
        PROVE  Frozen(q)
    <3>1. item' = Tabled(i, row) /\ report' = [report EXCEPT ![t] = FlushedRow(set, report[t])]
      BY <2>5 DEF UpdatesReport, Tabled
    <3>2. report \in [TripIds -> ReportRow \cup {None}]
      BY <1>1 DEF ReportTypes, ReportTypeOK
    <3>3. CASE q = t
      <4> SUFFICES ASSUME report[t].status \in {"SUBMITTED", "APPROVED"} PROVE Frozen(t)
        BY <3>3 DEF Frozen
      <4>1. /\ i = None
            /\ FlushedRow(set, report[t]).total = report[t].total
            /\ FlushedRow(set, report[t]).centers = report[t].centers
        BY <2>5 DEF FreshReportUpdate
      <4>2. item' = item /\ report'[t] = FlushedRow(set, report[t])
        BY <3>1, <3>2, <4>1 DEF Tabled
      <4> QED
        BY <4>1, <4>2 DEF Frozen
    <3>4. CASE q # t
      <4>1. SameItems(q, item, item')
        BY <1>1, <2>5, <3>1, <3>4, OthersKeepItems DEF FreshReportUpdate
      <4>2. Items(q, item) = Items(q, item') /\ \A j \in Items(q, item) : item[j] = item'[j]
        BY <4>1, SameItemsSame
      <4>3. [j \in Items(q, item) |-> item[j]] = [j \in Items(q, item') |-> item'[j]]
        BY <4>2
      <4>4. report'[q] = report[q]
        BY <3>1, <3>2, <3>4
      <4> QED
        BY <4>3, <4>4 DEF Frozen
    <3> QED
      BY <3>3, <3>4
  <2>6. ASSUME NEW w \in ReportWorkers, CommitReport(w) \/ RollbackReport(w) PROVE Frozen(q)
    BY <1>1, <2>3, <2>4, <2>5, <2>6, FreshCommit
  <2> QED
    BY <1>1, <2>2, <2>3, <2>6, ReportsStay
<1>2. ReportTypes /\ ReportSerialInv /\ [ExpenseNext]_allVars =>
        [\A t \in TripIds :
           report[t] # None /\ report[t].status \in {"SUBMITTED", "APPROVED"} =>
             /\ [i \in Items(t, item) |-> item[i]] = [i \in Items(t, item') |-> item'[i]]
             /\ report'[t].total = report[t].total
             /\ report'[t].centers = report[t].centers]_allVars
  BY <1>1 DEF Frozen
<1> QED
  BY <1>2, ReportSerialCorrect, PTL DEF ExpenseSpec, SubmittedReportsAreFrozen

-----------------------------------------------------------------------------
(* The two status diagrams, joined                                         *)

\* What the trip service does is a step of the trip's diagram, never the
\* settlement, and no deletion under a report.
LEMMA TripServiceJoined ==
  ASSUME ReportTypes, TripWorkServes, SerialInv, TripService
  PROVE  Joined!Next \/ UNCHANGED <<lifecycle, reportStatus>>
<1>1. UNCHANGED reportStatus /\ TypeOK /\ TypeOK'
  BY TripServiceStep, TypeStep DEF reportTables, reportStatus, ReportTypes
<1>2. Lifecycle!Next \/ lifecycle' = lifecycle
  <2>1. ASSUME NEW w \in Workers, TripRequestBeside(w) PROVE lifecycle' = lifecycle
    BY <1>1, <2>1, HandlersPrepare DEF TripRequestBeside, Prepares, Begin, tables, lifecycle
  <2>2. ASSUME NEW w \in Workers, Commit(w) \/ Rollback(w)
        PROVE  Lifecycle!Next \/ lifecycle' = lifecycle
    BY <1>1, <2>2, CommitLifecycle
  <2>3. CASE Environment
    BY <2>3 DEF Environment, AdvanceDay, update_user, tables, lifecycle
  <2> QED
    BY <2>1, <2>2, <2>3 DEF TripService, CommitBeside
<1>3. \A t \in TripIds :
        /\ lifecycle[t] = IF trip[t] # None THEN trip[t].status
                          ELSE IF log[t] = <<>> THEN "NEW" ELSE "DELETED"
        /\ lifecycle'[t] = IF trip'[t] # None THEN trip'[t].status
                           ELSE IF log'[t] = <<>> THEN "NEW" ELSE "DELETED"
  BY DEF lifecycle
<1>4. \A t \in TripIds : trip'[t] # None => trip'[t].status \in TripStatuses
  BY <1>1 DEF TypeOK, TripRow
<1>5. DOMAIN lifecycle = TripIds
  BY DEF lifecycle
<1>6. ASSUME NEW t \in TripIds, NEW from, NEW to, Lifecycle!Move(t, from, to)
      PROVE  Joined!MoveTrip(t, from, to) /\ lifecycle[t] = from /\ lifecycle'[t] = to
  BY <1>5, <1>6 DEF Lifecycle!Move, Joined!MoveTrip
<1>7. ASSUME NEW t \in TripIds, Lifecycle!Create(t) PROVE Joined!TripStep(t)
  BY <1>1, <1>6, <1>7 DEF Lifecycle!Create, Joined!TripStep
<1>8. ASSUME NEW t \in TripIds, Lifecycle!Delete(t) PROVE Joined!TripStep(t)
  <2>1. Joined!MoveTrip(t, "DRAFT", "DELETED") /\ lifecycle'[t] = "DELETED"
    BY <1>6, <1>8 DEF Lifecycle!Delete
  <2>2. trip'[t] = None
    BY <1>3, <1>4, <2>1 DEF TripStatuses
  <2>3. reportStatus[t] = "NEW"
    BY <2>2, TripsStay DEF reportStatus
  <2> QED
    BY <1>1, <2>1, <2>3 DEF Joined!TripStep
<1>9. ASSUME NEW t \in TripIds, Lifecycle!Transition(t) PROVE Joined!TripStep(t)
  <2>1. PICK from, to : <<from, to>> \in ALLOWED_TRANSITIONS /\ Lifecycle!Move(t, from, to)
    BY <1>9 DEF Lifecycle!Transition, Lifecycle!ALLOWED_TRANSITIONS, ALLOWED_TRANSITIONS
  <2>2. Joined!MoveTrip(t, from, to) /\ lifecycle[t] = from /\ lifecycle'[t] = to
    BY <1>6, <2>1
  <2>3. ~(from = "COMPLETED" /\ to = "SETTLED")
    <3> SUFFICES ASSUME from = "COMPLETED", to = "SETTLED" PROVE FALSE
      OBVIOUS
    <3>1. trip[t] # None /\ trip[t].status = "COMPLETED"
      BY <1>3, <2>2
    <3>2. trip'[t].status = "COMPLETED"
      BY <1>1, <3>1, CompletedTripStays
    <3> QED
      BY <1>3, <2>2, <3>2
  <2>4. <<from, to>> \in Joined!OwnerTransitions \cup Joined!ApproverTransitions
    BY <2>1, <2>3 DEF ALLOWED_TRANSITIONS, Joined!OwnerTransitions, Joined!ApproverTransitions
  <2>5. \E step \in Joined!OwnerTransitions \cup Joined!ApproverTransitions :
          Joined!MoveTrip(t, step[1], step[2])
    BY <2>2, <2>4
  <2> QED
    BY <1>1, <2>5 DEF Joined!TripStep
<1> QED
  BY <1>1, <1>2, <1>7, <1>8, <1>9 DEF Lifecycle!Next, Joined!Next

\* The report of one trip is written, the others stay.
LEMMA ReportMove ==
  ASSUME ReportTypes, NEW t \in TripIds, NEW row \in ReportRow,
         report' = [report EXCEPT ![t] = row]
  PROVE  /\ reportStatus'[t] = row.status
         /\ reportStatus' = [reportStatus EXCEPT ![t] = row.status]
<1>1. report' \in [TripIds -> ReportRow \cup {None}] /\ report'[t] = row /\ row # None
      /\ \A q \in TripIds : q # t => report'[q] = report[q]
  BY NullIsNoReport DEF ReportTypes, ReportTypeOK
<1> QED
  BY <1>1 DEF reportStatus

\* The end of a request on a report is a step of the report's diagram, with the
\* settlement of the trip when it is an approval, or leaves both diagrams alone.
LEMMA ReportCommitJoined ==
  ASSUME ReportTypes, ReportSerialInv, NEW w \in ReportWorkers, CommitReport(w) \/ RollbackReport(w)
  PROVE  Joined!Next \/ UNCHANGED <<lifecycle, reportStatus>>
<1>1. ASSUME UNCHANGED tables PROVE lifecycle' = lifecycle
  BY <1>1 DEF tables, lifecycle
<1>2. ASSUME NEW t \in TripIds, trip[t] # None PROVE lifecycle[t] = trip[t].status
  BY <1>2 DEF lifecycle
<1>3. CASE UNCHANGED <<tables, reportTables>>
  BY <1>1, <1>3 DEF reportTables, reportStatus
<1>4. ASSUME NEW t \in TripIds, NEW set \in ReportRow, FreshInsert(t, set),
             report' = [report EXCEPT ![t] = set], UNCHANGED tables
      PROVE  Joined!ReportStep(t)
  <2>1. reportStatus[t] = "NEW" /\ reportStatus' = [reportStatus EXCEPT ![t] = "DRAFT"]
    BY <1>4, ReportMove DEF FreshInsert, reportStatus
  <2>2. lifecycle[t] \in REPORTABLE_TRIP_STATUSES
    BY <1>2, <1>4 DEF FreshInsert
  <2> QED
    BY <1>1, <1>4, <2>1, <2>2
    DEF Joined!ReportStep, Joined!MoveReport, REPORTABLE_TRIP_STATUSES,
        Joined!REPORTABLE_TRIP_STATUSES
<1>5. ASSUME NEW t \in TripIds, NEW set \in ReportChange, NEW i \in ItemIds \cup {None},
             NEW row, NEW settle, NEW e, report[t] # None,
             FreshReportUpdate(t, set, i, row, settle), settle = "YES" => e \in ReportEntry,
             UpdatesReport(t, set, i, row, settle, e)
      PROVE  Joined!ReportStep(t) \/ Joined!Approve(t) \/ UNCHANGED <<lifecycle, reportStatus>>
  <2>1. PICK from : from = report[t].status
    OBVIOUS
  <2>2. PICK to : to = FlushedRow(set, report[t]).status
    OBVIOUS
  <2>3. /\ reportStatus[t] = from /\ reportStatus' = [reportStatus EXCEPT ![t] = to]
        /\ trip[t] # None
    <3>1. report[t] \in ReportRow /\ trip[t] # None
      BY <1>5 DEF ReportTypes, ReportTypeOK, ReportsHaveTrips
    <3>2. FlushedRow(set, report[t]) \in ReportRow
      BY <3>1, FlushedReport
    <3> QED
      BY <1>5, <2>1, <2>2, <3>1, <3>2, ReportMove DEF UpdatesReport, reportStatus
  <2>4. Joined!MoveReport(t, from, to)
    BY <2>3 DEF Joined!MoveReport
  <2>5. FreshStep(t, from, to, settle)
    BY <1>5, <2>1, <2>2 DEF FreshReportUpdate
  <2>6. CASE settle = "YES"
    <3>1. from = "SUBMITTED" /\ to = "APPROVED" /\ trip[t].status = "COMPLETED"
      BY <2>5, <2>6 DEF FreshStep
    <3>2. /\ trip' = [trip EXCEPT ![t] = Flushed(Settling, trip[t])]
          /\ trip'[t] \in TripRow /\ trip' \in [TripIds -> TripRow \cup {None}]
          /\ \A q \in TripIds : q # t => trip'[q] = trip[q] /\ log'[q] = log[q]
      <4>1. FinishReport(w)
        BY ReportCommitEffect
      <4>2. Settles(t, e) /\ e \in ReportEntry
        BY <1>5, <2>6 DEF UpdatesReport
      <4>3. TypeOK' /\ trip'[t] \in TripRow
        BY <2>3, <4>1, <4>2, SettlesType DEF FinishReport, ReportTypes
      <4>4. \A q \in TripIds : q # t => trip'[q] = trip[q] /\ log'[q] = log[q]
        BY <4>2 DEF Settles, WriteLog, ReportTypes, TypeOK
      <4> QED
        BY <4>2, <4>3, <4>4 DEF Settles, TypeOK
    <3>3. trip'[t] # None /\ trip'[t].status = "SETTLED"
      <4>1. trip'[t] = Flushed(Settling, trip[t]) /\ trip[t] \in TripRow
        BY <2>3, <3>2 DEF ReportTypes, TypeOK
      <4>2. trip'[t].status = "SETTLED"
        BY <4>1 DEF Flushed, Settling, NoChange, Column, TripStatuses
      <4> QED
        BY <3>2, <4>2, NullIsNoRow
    <3>4. lifecycle' = [lifecycle EXCEPT ![t] = "SETTLED"]
      <4>1. lifecycle'[t] = "SETTLED"
        BY <3>3 DEF lifecycle
      <4> QED
        BY <3>2, <4>1, LifecycleMove
    <3>5. Joined!MoveTrip(t, "COMPLETED", "SETTLED")
      BY <1>2, <2>3, <3>1, <3>4 DEF Joined!MoveTrip
    <3> QED
      BY <2>4, <3>1, <3>5 DEF Joined!Approve
  <2>7. CASE settle # "YES"
    <3>1. UNCHANGED tables /\ lifecycle' = lifecycle
      BY <1>1, <1>5, <2>7 DEF UpdatesReport
    <3>2. CASE to = from
      <4>1. reportStatus' = reportStatus
        BY <2>3, <3>2 DEF reportStatus
      <4> QED
        BY <3>1, <4>1
    <3>3. CASE to # from
      <4>1. <<from, to>> \in EXPENSE_ALLOWED_TRANSITIONS /\ ~(from = "SUBMITTED" /\ to = "APPROVED")
        BY <2>5, <2>7, <3>3 DEF FreshStep
      <4>2. to = "SUBMITTED" => lifecycle[t] = "COMPLETED"
        BY <1>2, <2>3, <2>5, <3>3 DEF FreshStep
      <4> QED
        BY <2>4, <3>1, <4>1, <4>2 DEF EXPENSE_ALLOWED_TRANSITIONS, Joined!ReportStep
    <3> QED
      BY <3>2, <3>3
  <2> QED
    BY <2>6, <2>7
<1> QED
  BY <1>3, <1>4, <1>5, FreshCommit DEF Joined!Next

\* When requests on one trip do not overlap, trips and reports together
\* implement the joined diagrams: a report is created on an approved or completed
\* trip, submitted only when the trip is completed, its approval and the trip's
\* settlement are one step, and no trip is deleted under its report
\* (services/trips.py, services/expenses.py, settle_trip_for_report).
THEOREM ServicesImplementTheJoinedDiagram ==
  ASSUME Isolated
  PROVE  ExpenseSpec => ImplementsSettlement
<1>1. ExpenseInit => Joined!Init
  BY DEF ExpenseInit, Init, lifecycle, reportStatus, Joined!Init
<1>2. ReportTypes /\ TripWorkServes /\ ReportSerialInv /\ [ExpenseNext]_allVars =>
        [Joined!Next]_Joined!statuses
  <2> SUFFICES ASSUME ReportTypes, TripWorkServes, ReportSerialInv, [ExpenseNext]_allVars
               PROVE  Joined!Next \/ UNCHANGED <<lifecycle, reportStatus>>
    BY DEF Joined!statuses
  <2>1. CASE UNCHANGED <<tables, reportTables>>
    BY <2>1 DEF tables, lifecycle, reportTables, reportStatus
  <2>2. CASE TripService
    BY <2>2, TripServiceJoined DEF ReportSerialInv
  <2>3. CASE \E w \in ReportWorkers : CommitReport(w) \/ RollbackReport(w)
    BY <2>3, ReportCommitJoined
  <2> QED
    BY <2>1, <2>2, <2>3, ReportsStay
<1> QED
  BY <1>1, <1>2, ReportSerialCorrect, PTL
  DEF ExpenseSpec, ImplementsSettlement, Joined!Spec

-----------------------------------------------------------------------------
(* What follows from the joined diagram                                    *)

\* The report is approved exactly when the trip is settled.
SettledTogether ==
  \A t \in TripIds : reportStatus[t] = "APPROVED" <=> lifecycle[t] = "SETTLED"

\* How far the trip is when the report exists, and when it is submitted.
ReportBehindTrip ==
  \A t \in TripIds :
    /\ reportStatus[t] # "NEW" => lifecycle[t] \in {"APPROVED", "COMPLETED", "SETTLED"}
    /\ reportStatus[t] \in {"SUBMITTED", "REJECTED"} => lifecycle[t] = "COMPLETED"

\* A draft of a report is on a trip that is approved or completed: with it the two
\* above are inductive.
JoinedInv ==
  /\ SettledTogether
  /\ ReportBehindTrip
  /\ \A t \in TripIds : reportStatus[t] = "DRAFT" => lifecycle[t] \in REPORTABLE_TRIP_STATUSES

\* Every step of the joined diagram keeps the three.
LEMMA JoinedStep ==
  ASSUME JoinedInv, Joined!Next
  PROVE  JoinedInv'
<1>1. DOMAIN lifecycle = TripIds /\ DOMAIN reportStatus = TripIds
  BY DEF lifecycle, reportStatus
<1>2. ASSUME NEW t \in TripIds, Joined!TripStep(t) PROVE JoinedInv'
  BY <1>1, <1>2 
  DEF JoinedInv, SettledTogether, ReportBehindTrip, REPORTABLE_TRIP_STATUSES,
      Joined!TripStep, Joined!MoveTrip, Joined!OwnerTransitions, Joined!ApproverTransitions
<1>3. ASSUME NEW t \in TripIds, Joined!ReportStep(t) PROVE JoinedInv'
  BY <1>1, <1>3
  DEF JoinedInv, SettledTogether, ReportBehindTrip, REPORTABLE_TRIP_STATUSES,
      Joined!ReportStep, Joined!MoveReport, Joined!REPORTABLE_TRIP_STATUSES
<1>4. ASSUME NEW t \in TripIds, Joined!Approve(t) PROVE JoinedInv'
  BY <1>1, <1>4
  DEF JoinedInv, SettledTogether, ReportBehindTrip, REPORTABLE_TRIP_STATUSES,
      Joined!Approve, Joined!MoveReport, Joined!MoveTrip
<1> QED
  BY <1>2, <1>3, <1>4 DEF Joined!Next

\* When requests on one trip do not overlap, the approval of a report and the
\* settlement of its trip are one event, and no report is ahead of its trip: what
\* approve_report, submit_report and reject_report promise, for any set of trips.
THEOREM ReportAndTripTogether ==
  ASSUME Isolated
  PROVE  ExpenseSpec => [](SettledTogether /\ ReportBehindTrip)
<1>1. Joined!Init => JoinedInv
  BY DEF Joined!Init, JoinedInv, SettledTogether, ReportBehindTrip
<1>2. JoinedInv /\ [Joined!Next]_Joined!statuses => JoinedInv'
  <2>1. ASSUME JoinedInv, Joined!statuses' = Joined!statuses PROVE JoinedInv'
    BY <2>1 DEF Joined!statuses, JoinedInv, SettledTogether, ReportBehindTrip
  <2> QED
    BY <2>1, JoinedStep
<1>3. JoinedInv => SettledTogether /\ ReportBehindTrip
  BY DEF JoinedInv
<1> QED
  BY <1>1, <1>2, <1>3, ServicesImplementTheJoinedDiagram, PTL
  DEF ImplementsSettlement, Joined!Spec

=============================================================================
