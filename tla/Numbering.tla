------------------------------ MODULE Numbering ------------------------------
(***************************************************************************)
(* The numbers of trips and expense reports (services/numbering.py): the   *)
(* largest number of the year, as text, and one.  The number is computed   *)
(* in one statement and inserted in another; a unique constraint refuses   *)
(* the second of two requests that computed the same.                      *)
(***************************************************************************)
EXTENDS BiztripRules, Naturals, FiniteSets

CONSTANTS
  Gone,      \* the row was deleted; its primary key is not used again
  TripIds,   \* primary keys the trip table may hand out
  Years,     \* bound: the years the clock passes through
  Base,      \* of the numerals (10 in the code)
  Width,     \* digits a number is padded to (4 in the code)
  Workers    \* concurrently running requests

ASSUME NumberingAssumption ==
  /\ Years \subseteq Nat /\ Years # {}
  /\ Base \in Nat \ {0, 1}
  /\ Width \in Nat \ {0}
  /\ Base^Width \in Nat /\ Base^Width > 2
  /\ None # Gone
  /\ {None, Gone} \cap ([year : Nat, sequence : Nat]
                          \cup [trip_no : [year : Nat, sequence : Nat], status : TripStatuses]) = {}

VARIABLES
  trip,    \* trip table: id -> [trip_no, status], None, or Gone
  report,  \* expense_report.report_no by trip (trip_id is unique), or None
  today,   \* the year of the server's date
  work     \* what a running request has read and is about to write, or None

vars == <<trip, report, today, work>>

Number == [year : Years, sequence : Nat]

-----------------------------------------------------------------------------
(* Numbers as text                                                         *)

\* The first number of more digits than :04d pads to (10000).
Limit == Base^Width

\* The order of texts.  A shorter text is compared as if a zero followed it, and
\* comes before the longer one when that makes them equal.  (Of numbers below
\* Base * Limit: nobody gets that far.)
TextBefore(m, n) ==
  \/ (m < Limit <=> n < Limit) /\ m < n
  \/ m < Limit /\ n >= Limit /\ Base * m <= n
  \/ m >= Limit /\ n < Limit /\ m < Base * n

\* func.max() of the numbers with the prefix of the year.
max(sequences) == CHOOSE m \in sequences : \A n \in sequences : n = m \/ TextBefore(n, m)

\* Mutant: numbers are counted, not compared.
next_no_count(sequences) == Cardinality(sequences) + 1

next_no(sequences) == IF sequences = {} THEN 1 ELSE max(sequences) + 1

-----------------------------------------------------------------------------
(* The two tables                                                          *)

Exists(t) == trip[t] \notin {None, Gone}

TripNos == {trip[t].trip_no : t \in {s \in TripIds : Exists(s)}}

ReportNos == {report[t] : t \in TripIds} \ {None}

Sequences(numbers, year) == {n.sequence : n \in {m \in numbers : m.year = year}}

next_trip_no == [year |-> today, sequence |-> next_no(Sequences(TripNos, today))]

next_report_no == [year |-> today, sequence |-> next_no(Sequences(ReportNos, today))]

-----------------------------------------------------------------------------
(* Requests                                                                *)

Idle(w) == work[w] = None

Prepare(w, op, t, number) ==
  /\ Idle(w)
  /\ work' = [work EXCEPT ![w] = [op |-> op, trip |-> t, number |-> number]]
  /\ UNCHANGED <<trip, report, today>>

create_trip(w) == Prepare(w, "TRIP", None, next_trip_no)

delete_trip(w, t) ==
  /\ Exists(t)
  /\ trip[t].status \in DELETABLE_STATUSES
  /\ Prepare(w, "DELETE", t, None)

create_report(w, t) ==
  /\ Exists(t)
  /\ trip[t].status \in REPORTABLE_TRIP_STATUSES
  /\ report[t] = None
  /\ Prepare(w, "REPORT", t, next_report_no)

Done(w) == work' = [work EXCEPT ![w] = None]

\* Mutant: the numbers have no unique constraint.
Unique_not(number, numbers) == TRUE

\* The unique constraints on trip_no and report_no.
Unique(number, numbers) == number \notin numbers

CommitTrip(w) ==
  /\ ~Idle(w) /\ work[w].op = "TRIP"
  /\ Unique(work[w].number, TripNos)
  /\ \E t \in TripIds :
       /\ trip[t] = None
       /\ trip' = [trip EXCEPT ![t] = [trip_no |-> work[w].number, status |-> "DRAFT"]]
  /\ Done(w)
  /\ UNCHANGED <<report, today>>

CommitReport(w) ==
  /\ ~Idle(w) /\ work[w].op = "REPORT"
  /\ LET t == work[w].trip
     IN /\ Exists(t)
        /\ report[t] = None
        /\ Unique(work[w].number, ReportNos)
        /\ report' = [report EXCEPT ![t] = work[w].number]
  /\ Done(w)
  /\ UNCHANGED <<trip, today>>

\* Mutant: the report has no foreign key to its trip.
Unreferenced_unchecked(t) == TRUE

\* What the foreign key of expense_report.trip_id requires of a deletion.
Unreferenced(t) == report[t] = None

\* The DELETE does not look at the status again.
CommitDeletion(w) ==
  /\ ~Idle(w) /\ work[w].op = "DELETE"
  /\ LET t == work[w].trip
     IN /\ Exists(t)
        /\ Unreferenced(t)
        /\ trip' = [trip EXCEPT ![t] = Gone]
  /\ Done(w)
  /\ UNCHANGED <<report, today>>

\* A constraint refuses the statement, or the request breaks off.
Rollback(w) ==
  /\ ~Idle(w)
  /\ Done(w)
  /\ UNCHANGED <<trip, report, today>>

\* Who may do it, and when, is the matter of Trips.
change_status(t, target) ==
  /\ Exists(t)
  /\ <<trip[t].status, target>> \in ALLOWED_TRANSITIONS
  /\ trip' = [trip EXCEPT ![t].status = target]
  /\ UNCHANGED <<report, today, work>>

\* date.today() and the UTC date agree: the server's clock runs in UTC.
NewYear ==
  /\ today + 1 \in Years
  /\ today' = today + 1
  /\ UNCHANGED <<trip, report, work>>

Init ==
  /\ trip = [t \in TripIds |-> None]
  /\ report = [t \in TripIds |-> None]
  /\ today = CHOOSE y \in Years : \A z \in Years : y <= z
  /\ work = [w \in Workers |-> None]

Next ==
  \/ \E w \in Workers :
       \/ create_trip(w)
       \/ \E t \in TripIds : delete_trip(w, t) \/ create_report(w, t)
       \/ CommitTrip(w)
       \/ CommitReport(w)
       \/ CommitDeletion(w)
       \/ Rollback(w)
  \/ \E t \in TripIds, target \in TripStatuses : change_status(t, target)
  \/ NewYear

Spec == Init /\ [][Next]_vars

-----------------------------------------------------------------------------
(* Properties                                                              *)

TypeOK ==
  /\ trip \in [TripIds -> [trip_no : Number, status : TripStatuses] \cup {None, Gone}]
  /\ report \in [TripIds -> Number \cup {None}]
  /\ today \in Years
  /\ \A n \in TripNos \cup ReportNos : n.sequence > 0

ReportNumbersHaveNoGaps ==
  \A y \in Years :
    Sequences(ReportNos, y) = 1 .. Cardinality({t \in TripIds : report[t] # None /\ report[t].year = y})

\* Numbering by the largest one, without a sequence: whatever creations overlap
\* or fail, the reports of a year bear the numbers from 1 on, each one once.
NumbersInv == TypeOK /\ ReportNumbersHaveNoGaps

\* The number that is computed is free, until the year has both its last number
\* of four digits and the first of five (9999 and 10000): from then on the text
\* maximum stays where it is and every creation of the year is refused.
NextNumberIsFree ==
  \A numbers \in {TripNos, ReportNos}, y \in Years :
    LET used == Sequences(numbers, y)
    IN next_no(used) \in used <=> {Limit - 1, Limit} \subseteq used

\* The number of a deleted trip is given out again, but never that of a trip
\* with a report, whose history and settlement name it: such a trip stays, and
\* no other one gets its number, however long ago a deletion looked at it.
NumbersOfReportsAreForGood ==
  [][\A t \in TripIds : report[t] # None =>
       /\ report'[t] = report[t]
       /\ Exists(t)' /\ trip'[t].trip_no = trip[t].trip_no
       /\ \A s \in TripIds \ {t} : Exists(s)' => trip'[s].trip_no # trip[t].trip_no]_vars
=============================================================================
